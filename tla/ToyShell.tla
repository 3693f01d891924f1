------------------------------ MODULE ToyShell ------------------------------
(***************************************************************************)
(* toy-shell/tiny-shell.c: a shell that forks a child for a command or two *)
(* for a pipeline, redirects their files and waits for them.               *)
(*                                                                         *)
(* A step of the shell is one system call another process can notice:      *)
(* fork, pipe, close, wait.  A child is a step from fork to execvp, and    *)
(* then the program it executes, of which the model keeps what it reads,   *)
(* what it writes and whether it ends.                                     *)
(***************************************************************************)
EXTENDS Integers, SequencesExt

CONSTANTS
  Typed,         (* the command lines that are typed: sequences of words   *)
  Programs,      (* word -> [reads, writes], for every program there is    *)
  Fails,         (* subset of {"fork", "pipe", "open", "interrupt"}        *)
  MaxTokens,     (* words of a command line, and one for the NULL after it *)
  MaxChildren,   (* children the system allows the shell to have           *)
  PipeCapacity   (* what fits in the pipe                                  *)

Pids == 1 .. MaxChildren
Failed == -1
Nothing == "nothing"    (* no file named                                   *)
Forever == -1           (* what a program writes that does not stop        *)

ASSUME LimitsAssumption ==
  /\ MaxTokens \in Nat \ {0} /\ MaxChildren \in Nat
  /\ PipeCapacity \in Nat \ {0}

(* A word is any string but those that stand for NULL and for a stream     *)
(* that is not a file here.                                                *)
Word == STRING \ {Nothing, "terminal", "pipe", "closed"}

ASSUME TypedAssumption == \A typed \in Typed : typed \in Seq(Word)

ASSUME ProgramsAssumption ==
  \A w \in DOMAIN Programs :
    /\ Programs[w].reads \in {"nothing", "one", "all"}
    /\ Programs[w].writes \in Nat \cup {Forever}

VARIABLES
  pc,         (* where the shell stands                                    *)
  tokens,     (* the words of the command line                             *)
  background, (* whether it ended in "&"                                   *)
  procs,      (* the children                                              *)
  shellEnds,  (* the ends of the pipe the shell has open                   *)
  pipe,       (* how much there is in the pipe                             *)
  pids,       (* <<pid1, pid2>> of pipe_out                                *)
  due,        (* history: the children there will be at the next prompt    *)
  shortOf     (* history: a fork of the current pipeline has failed        *)

line == <<tokens, background>>
plumbing == <<shellEnds, pipe>>
history == <<due, shortOf>>
vars == <<pc, line, procs, plumbing, pids, history>>

-----------------------------------------------------------------------------
(* The words of a command line.                                            *)

Has(words, w) == \E i \in DOMAIN words : words[i] = w

Position(words, w) == CHOOSE i \in DOMAIN words :
  words[i] = w /\ \A j \in DOMAIN words : words[j] = w => i <= j

Names(words, w) == Has(words, w) /\ Position(words, w) < Len(words)

(* What handle_input_redirection and handle_output_redirection find after  *)
(* their symbol, and what they leave of the words: they move the words     *)
(* after the name up, and then end the list where the symbol was.          *)
FileAfter(words, w) ==
  IF Names(words, w) THEN words[Position(words, w) + 1] ELSE Nothing

Without(words, w) ==
  IF Names(words, w) THEN SubSeq(words, 1, Position(words, w) - 1) ELSE words

(* Faulty variant: the output is taken from what the input has left, and   *)
(* the input from what is left of that.                                    *)
RedirectedSwapped(words) ==
  LET rest == Without(words, ">")
  IN  [in |-> FileAfter(rest, "<"), out |-> FileAfter(words, ">"),
       argv |-> Without(rest, "<")]
Redirected(words) ==
  LET rest == Without(words, "<")
  IN  [in |-> FileAfter(words, "<"), out |-> FileAfter(rest, ">"),
       argv |-> Without(rest, ">")]

(* The two sides of the first "|".                                         *)
Side(words, i) ==
  LET bar == Position(words, "|")
  IN  IF i = 1 THEN SubSeq(words, 1, bar - 1)
      ELSE SubSeq(words, bar + 1, Len(words))

-----------------------------------------------------------------------------
(* Children.                                                               *)

Free == [state |-> "free"]
Zombie == [state |-> "zombie"]

Forked(role, words) ==
  [state |-> "forked", role |-> role, words |-> words, ends |-> shellEnds]

Live(p) == procs[p].state \in {"forked", "running"}
Running(p) == procs[p].state = "running"
Children == {p \in Pids : procs[p].state # "free"}
Zombies == {p \in Pids : procs[p].state = "zombie"}

(* Whether anybody has an end of the pipe open.                            *)
Held(e) == e \in shellEnds \/ \E p \in Pids : Live(p) /\ e \in procs[p].ends

(* fork: its result, and the children there are then.                      *)
Fork(role, words, pid) ==
  \/ /\ Children # Pids
     /\ pid = CHOOSE p \in Pids \ Children : TRUE
     /\ procs' = [procs EXCEPT ![pid] = Forked(role, words)]
  \/ /\ Children = Pids \/ "fork" \in Fails
     /\ pid = Failed
     /\ UNCHANGED procs

Reap(p) == procs' = [procs EXCEPT ![p] = Free]

-----------------------------------------------------------------------------
Init ==
  /\ pc = "prompt"
  /\ tokens = <<>>
  /\ background = FALSE
  /\ procs = [p \in Pids |-> Free]
  /\ shellEnds = {}
  /\ pipe = 0
  /\ pids = <<Failed, Failed>>
  /\ due = 0
  /\ shortOf = FALSE

At(l) == pc = l

(* The words of a line are not used after the next prompt.                 *)
Prompt ==
  /\ pc' = "prompt"
  /\ tokens' = <<>>
  /\ background' = FALSE

FirstWords(words) == SubSeq(words, 1, Min({Len(words), MaxTokens - 1}))

InBackground(words) == words # <<>> /\ Last(words) = "&"

(* main and parse_input.  Nothing is done about a line without words.      *)
Type(typed) ==
  LET words == FirstWords(typed)
      command == IF InBackground(words) THEN Front(words) ELSE words
  IN  /\ At("prompt")
      /\ typed # <<"exit">>
      /\ command # <<>>
      /\ tokens' = command
      /\ background' = InBackground(words)
      /\ pc' = IF Has(command, "|") THEN "pipe" ELSE "execute"
      /\ due' = Cardinality(Children)
      /\ shortOf' = FALSE
      /\ UNCHANGED <<procs, plumbing, pids>>

Exit ==
  /\ At("prompt")
  /\ <<"exit">> \in Typed
  /\ pc' = "exit"
  /\ UNCHANGED <<line, procs, plumbing, pids, history>>

-----------------------------------------------------------------------------
(* execute_command.                                                        *)

Role == IF background THEN "background" ELSE "foreground"

Execute ==
  /\ At("execute")
  /\ \E pid \in Pids \cup {Failed} :
       /\ Fork(Role, tokens, pid)
       /\ IF pid = Failed \/ background THEN Prompt
          ELSE pc' = "wait" /\ UNCHANGED line
       /\ due' = IF pid # Failed /\ background THEN due + 1 ELSE due
  /\ UNCHANGED <<plumbing, pids, shortOf>>

(* wait(NULL) takes any child that has ended.                              *)
Wait ==
  /\ At("wait")
  /\ \E p \in Zombies : Reap(p)
  /\ Prompt
  /\ UNCHANGED <<plumbing, pids, history>>

-----------------------------------------------------------------------------
(* pipe_out.                                                               *)

PipeOpens ==
  /\ At("pipe")
  /\ \/ /\ shellEnds' = {"r", "w"}
        /\ pc' = "fork1"
        /\ UNCHANGED line
     \/ /\ "pipe" \in Fails
        /\ Prompt
        /\ UNCHANGED shellEnds
  /\ UNCHANGED <<procs, pipe, pids, history>>

PipeForks(i, role, here, next) ==
  /\ At(here)
  /\ \E pid \in Pids \cup {Failed} :
       /\ Fork(role, Side(tokens, i), pid)
       /\ pids' = [pids EXCEPT ![i] = pid]
       /\ shortOf' = (shortOf \/ pid = Failed)
  /\ pc' = next
  /\ UNCHANGED <<line, plumbing, due>>

(* Faulty variant: the shell keeps the end it could write to.              *)
PipeClosesOne ==
  /\ At("close")
  /\ shellEnds' = {"w"}
  /\ pc' = "wait1"
  /\ UNCHANGED <<line, procs, pipe, pids, history>>
PipeCloses ==
  /\ At("close")
  /\ shellEnds' = {}
  /\ pc' = "wait1"
  /\ UNCHANGED <<line, procs, pipe, pids, history>>

(* waitpid: for one child, which may have been taken before; or, with the  *)
(* -1 of a fork that failed, for any child there is.                       *)
WaitPid(pid) ==
  LET candidates == IF pid = Failed THEN Children ELSE Children \cap {pid}
  IN  \/ candidates = {} /\ UNCHANGED procs
      \/ \E p \in candidates \cap Zombies : Reap(p)

(* Faulty variant: wait(NULL) for either child.                            *)
PipeWaits1Any ==
  /\ At("wait1")
  /\ WaitPid(Failed)
  /\ pc' = "wait2"
  /\ UNCHANGED <<line, plumbing, pids, history>>
PipeWaits1 ==
  /\ At("wait1")
  /\ WaitPid(pids[1])
  /\ pc' = "wait2"
  /\ UNCHANGED <<line, plumbing, pids, history>>

(* Faulty variant: only the first side of the pipe is waited for.          *)
PipeWaits2Not ==
  /\ At("wait2")
  /\ UNCHANGED procs
  /\ pids' = <<Failed, Failed>>
  /\ pipe' = 0
  /\ Prompt
  /\ UNCHANGED <<shellEnds, history>>
(* What is left in the pipe goes with it.                                  *)
PipeWaits2 ==
  /\ At("wait2")
  /\ WaitPid(pids[2])
  /\ pids' = <<Failed, Failed>>
  /\ pipe' = 0
  /\ Prompt
  /\ UNCHANGED <<shellEnds, history>>

-----------------------------------------------------------------------------
(* A child from fork to execvp.                                            *)

(* freopen: what the stream is connected to then.                          *)
Reopen(file, was) ==
  IF file = Nothing THEN {was}
  ELSE {file} \cup (IF "open" \in Fails THEN {"closed"} ELSE {})

Executes(p, words, in, out, ends) ==
  procs' = [procs EXCEPT ![p] =
    IF words # <<>> /\ words[1] \in DOMAIN Programs
    THEN [state |-> "running", role |-> @.role, words |-> @.words,
          in |-> in, out |-> out, ends |-> ends,
          reads |-> Programs[words[1]].reads,
          writes |-> Programs[words[1]].writes]
    ELSE Zombie]

(* The child of execute_command ends if a file cannot be opened.           *)
ChildExecutes(p) ==
  LET to == Redirected(procs[p].words) IN
  /\ procs[p].state = "forked"
  /\ procs[p].role \in {"foreground", "background"}
  /\ \E in \in Reopen(to.in, "terminal"), out \in Reopen(to.out, "terminal") :
       IF "closed" \in {in, out}
       THEN procs' = [procs EXCEPT ![p] = Zombie]
       ELSE Executes(p, to.argv, in, out, {})

(* The children of pipe_out go on without.  A stream that is not the pipe  *)
(* any more has given up its end.                                          *)
LeftExecutes(p) ==
  LET to == Redirected(procs[p].words) IN
  /\ procs[p].state = "forked"
  /\ procs[p].role = "left"
  /\ \E in \in Reopen(to.in, "terminal"), out \in Reopen(to.out, "pipe") :
       Executes(p, to.argv, in, out, IF out = "pipe" THEN {"w"} ELSE {})

(* Faulty variant: the right side keeps the end it could write to.         *)
RightKeepsBoth(p) ==
  LET to == Redirected(procs[p].words) IN
  /\ procs[p].state = "forked"
  /\ procs[p].role = "right"
  /\ \E in \in Reopen(to.in, "pipe"), out \in Reopen(to.out, "terminal") :
       Executes(p, to.argv, in, out, IF in = "pipe" THEN {"r", "w"} ELSE {"w"})
RightExecutes(p) ==
  LET to == Redirected(procs[p].words) IN
  /\ procs[p].state = "forked"
  /\ procs[p].role = "right"
  /\ \E in \in Reopen(to.in, "pipe"), out \in Reopen(to.out, "terminal") :
       Executes(p, to.argv, in, out, IF in = "pipe" THEN {"r"} ELSE {})

-----------------------------------------------------------------------------
(* A program: it reads nothing, one thing or all there is, and then writes.*)

Reads(p) ==
  /\ Running(p) /\ procs[p].reads # "nothing"
  /\ \/ /\ procs[p].in = "pipe" /\ pipe > 0
        /\ pipe' = pipe - 1
        /\ procs' = [procs EXCEPT ![p].reads = IF @ = "one" THEN "nothing" ELSE @]
     \/ /\ procs[p].in = "pipe" => pipe = 0 /\ ~ Held("w")
        /\ procs' = [procs EXCEPT ![p].reads = "nothing"]
        /\ UNCHANGED pipe

(* A pipe nobody can read from any more ends the program by SIGPIPE.       *)
Writes(p) ==
  /\ Running(p) /\ procs[p].reads = "nothing" /\ procs[p].writes # 0
  /\ procs[p].out = "pipe"
  /\ \/ /\ Held("r") /\ pipe < PipeCapacity
        /\ pipe' = pipe + 1
        /\ procs' = [procs EXCEPT ![p].writes = IF @ = Forever THEN @ ELSE @ - 1]
     \/ /\ ~ Held("r")
        /\ procs' = [procs EXCEPT ![p] = Zombie]
        /\ UNCHANGED pipe

Ends(p) ==
  /\ Running(p) /\ procs[p].reads = "nothing"
  /\ \/ procs[p].writes = 0
     \/ procs[p].out # "pipe" /\ procs[p].writes # Forever
  /\ procs' = [procs EXCEPT ![p] = Zombie]
  /\ UNCHANGED pipe

(* Ctrl-C reaches all processes of the terminal.  The shell and a child    *)
(* that has not called execvp handle it; it ends all programs, those in    *)
(* the background too.                                                     *)
Interrupt ==
  /\ "interrupt" \in Fails
  /\ \E p \in Pids : Running(p)
  /\ procs' = [p \in Pids |-> IF Running(p) THEN Zombie ELSE procs[p]]
  /\ UNCHANGED <<pc, line, plumbing, pids, history>>

-----------------------------------------------------------------------------
PipeOut ==
  \/ PipeOpens
  \/ PipeForks(1, "left", "fork1", "fork2")
  \/ PipeForks(2, "right", "fork2", "close")
  \/ PipeCloses \/ PipeWaits1 \/ PipeWaits2

ShellWorks == Execute \/ Wait \/ PipeOut

ChildWorks(p) ==
  /\ \/ (ChildExecutes(p) \/ LeftExecutes(p) \/ RightExecutes(p)) /\ UNCHANGED pipe
     \/ Reads(p) \/ Writes(p) \/ Ends(p)
  /\ UNCHANGED <<pc, line, shellEnds, pids, history>>

Next ==
  \/ \E typed \in Typed : Type(typed)
  \/ Exit
  \/ ShellWorks
  \/ \E p \in Pids : ChildWorks(p)
  \/ Interrupt

Spec == Init /\ [][Next]_vars

(* All processes run; nobody has to type.  A program that reads from the   *)
(* terminal or a file comes to the end of it.                              *)
FairSpec ==
  Spec /\ WF_vars(ShellWorks) /\ \A p \in Pids : WF_vars(ChildWorks(p))

-----------------------------------------------------------------------------
(* Properties.                                                             *)

(* Every variable has a value the program's types allow; only the children *)
(* of a pipeline have an end of the pipe.                                  *)
TypeOK ==
  /\ pc \in {"prompt", "execute", "wait", "pipe", "fork1", "fork2", "close",
             "wait1", "wait2", "exit"}
  /\ background \in BOOLEAN
  /\ \A p \in Pids :
       /\ procs[p].state \in {"free", "forked", "running", "zombie"}
       /\ Live(p) /\ procs[p].role \in {"foreground", "background"}
            => procs[p].ends = {}
  /\ shellEnds \subseteq {"r", "w"}
  /\ pipe \in 0 .. PipeCapacity
  /\ \A i \in 1 .. 2 : pids[i] \in Pids \cup {Failed}
  /\ due \in 0 .. MaxChildren
  /\ shortOf \in BOOLEAN

(* The waits balance the forks: whichever child wait(NULL) takes, a line   *)
(* leaves as many children as it found, and one more if it started one in  *)
(* the background, which nobody ever waits for.  Only a pipeline that was  *)
(* short of a fork takes children of others, with waitpid(-1).             *)
WaitsBalance ==
  At("prompt") =>
    LET n == Cardinality(Children)
    IN  IF shortOf THEN n \in due - 2 .. due ELSE n = due

(* README.md: "Single pipe support (|) between two commands".  At the next *)
(* prompt both have ended and no end of the pipe is open.                  *)
PipelineWaitedFor ==
  At("prompt") =>
    /\ \A p \in Pids : Live(p) => procs[p].role \in {"foreground", "background"}
    /\ ~ Held("r") /\ ~ Held("w")

Follows(words, w, f) ==
  \E i \in 1 .. Len(words) - 1 : words[i] = w /\ words[i + 1] = f

(* A program reads from and writes to what its command line says: the file *)
(* after the symbol, if it names one, else the pipe or the terminal.  The  *)
(* output goes elsewhere if its symbol, or the name of its file, comes     *)
(* after the symbol of the input.                                          *)
Files(words, w) == {f \in ToSet(words) : Follows(words, w, f)}

InputFirst(words) ==
  \E i, j \in DOMAIN words : words[i] = "<" /\ words[j] = ">" /\ i <= j + 1

AsTyped(words, role, in, out) ==
  LET stdin == IF role = "right" THEN "pipe" ELSE "terminal"
      stdout == IF role = "left" THEN "pipe" ELSE "terminal"
      unopened == IF role \in {"left", "right"} THEN {"closed"} ELSE {}
  IN  /\ in \in IF Files(words, "<") = {} THEN {stdin}
                ELSE Files(words, "<") \cup unopened
      /\ ~ InputFirst(words) => out \in
           IF Files(words, ">") = {} THEN {stdout}
           ELSE Files(words, ">") \cup unopened

StdioAsTyped ==
  \A p \in Pids : Running(p) =>
    AsTyped(procs[p].words, procs[p].role, procs[p].in, procs[p].out)

(* README.md:18: "sort < unsorted.txt > sorted.txt".  A program writes to  *)
(* the file its command line names after ">".                              *)
OutputRedirected ==
  \A p \in Pids : Running(p) =>
    \A f \in ToSet(procs[p].words) :
      Follows(procs[p].words, ">", f) => procs[p].out \in {f, "closed"}

(* The prompt comes back after every line whose programs end: the reader   *)
(* of a pipe sees its end once the writer has ended, a writer that does    *)
(* not stop is stopped when its reader has ended, and a pipeline that is   *)
(* short of a child does not wait for one.                                 *)
PromptReturns == pc \notin {"prompt", "exit"} ~> At("prompt")
=============================================================================

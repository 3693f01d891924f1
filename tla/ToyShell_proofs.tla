--------------------------- MODULE ToyShell_proofs ---------------------------
(***************************************************************************)
(* Proofs about ToyShell for any command lines, any programs, any number   *)
(* of children and any size of the pipe, with and without faults.          *)
(***************************************************************************)
EXTENDS ToyShell, FiniteSetTheorems, WellFoundedInduction, TLAPS

Roles == {"foreground", "background", "left", "right"}
Ends2 == SUBSET {"r", "w"}
Streams == Word \cup {"terminal", "pipe", "closed"}

Idle == [state : {"free", "zombie"}]
Young == [state : {"forked"}, role : Roles, words : Seq(Word), ends : Ends2]
Busy ==
  [state : {"running"}, role : Roles, words : Seq(Word),
   in : Streams, out : Streams, ends : Ends2,
   reads : {"nothing", "one", "all"}, writes : Nat \cup {Forever}]
Process == Idle \cup Young \cup Busy

Types ==
  /\ pc \in {"prompt", "execute", "wait", "pipe", "fork1", "fork2", "close",
             "wait1", "wait2", "exit"}
  /\ tokens \in Seq(Word) /\ background \in BOOLEAN
  /\ procs \in [Pids -> Process]
  /\ shellEnds \in Ends2 /\ pipe \in 0 .. PipeCapacity
  /\ pids \in [1 .. 2 -> Pids \cup {Failed}]
  /\ due \in Nat /\ shortOf \in BOOLEAN

(* A line with a pipe has two sides.                                       *)
TwoSided == pc \in {"pipe", "fork1", "fork2"} => Has(tokens, "|")

(* The two children of a pipeline are those pids names, and nobody but     *)
(* them and the shell in pipe_out has an end of the pipe.                  *)
Plumbed ==
  /\ pc \notin {"fork1", "fork2", "close"} => shellEnds = {}
  /\ \A p \in Pids : Live(p) =>
       /\ procs[p].role \in {"foreground", "background"} => procs[p].ends = {}
       /\ procs[p].role = "left" =>
            pc \in {"fork2", "close", "wait1"} /\ pids[1] = p
       /\ procs[p].role = "right" =>
            pc \in {"close", "wait1", "wait2"} /\ pids[2] = p

(* How many children there are, wherever the shell stands.                 *)
Made(i) == IF pids[i] = Failed THEN 0 ELSE 1
There(i) == pids[i] # Failed => pids[i] \in Children

Balanced ==
  LET n == Cardinality(Children) IN
  /\ pc \in {"execute", "pipe", "fork1"} => n = due /\ ~ shortOf
  /\ pc = "wait" => n = due + 1 /\ ~ shortOf
  /\ pc = "fork2" =>
       n = due + Made(1) /\ There(1) /\ (shortOf <=> pids[1] = Failed)
  /\ pc \in {"close", "wait1"} =>
       /\ n = due + Made(1) + Made(2)
       /\ There(1) /\ There(2) /\ (pids[1] = pids[2] => pids[1] = Failed)
       /\ (shortOf <=> Failed \in {pids[1], pids[2]})
  /\ pc = "wait2" =>
       IF shortOf THEN n \in due - 1 .. due
       ELSE n = due + 1 /\ pids[2] \in Children
  /\ pc = "prompt" => IF shortOf THEN n \in due - 2 .. due ELSE n = due
  /\ due <= MaxChildren

IInv == Types /\ TwoSided /\ Plumbed /\ Balanced /\ StdioAsTyped

-----------------------------------------------------------------------------
(* Words.                                                                  *)

LEMMA Least ==
  ASSUME NEW T \in SUBSET Nat, T # {}
  PROVE  \E i \in T : \A j \in T : i <= j
<1> DEFINE R == {ss \in Nat \X Nat : ss[1] < ss[2]}
<1>1. IsWellFoundedOn(R, Nat)
  BY NatLessThanWellFounded DEF OpToRel
<1>2. \A j, k \in Nat : j < k => <<j, k>> \in R
  OBVIOUS
<1> HIDE DEF R
<1>3. PICK i \in T : \A j \in T : <<j, i>> \notin R
  BY <1>1, WFMin
<1>4. \A j \in T : ~ (j < i)
  BY <1>2, <1>3
<1> QED
  BY <1>4

(* Position finds the first of a word.                                     *)
LEMMA FirstPosition ==
  ASSUME NEW words \in Seq(Word), NEW w, Has(words, w)
  PROVE  /\ Position(words, w) \in 1 .. Len(words)
         /\ words[Position(words, w)] = w
         /\ \A j \in 1 .. Len(words) : words[j] = w => Position(words, w) <= j
<1> DEFINE T == {i \in 1 .. Len(words) : words[i] = w}
<1>1. Len(words) \in Nat /\ DOMAIN words = 1 .. Len(words)
  OBVIOUS
<1>2. T \in SUBSET Nat /\ T # {}
  BY <1>1 DEF Has
<1>3. PICK i \in T : \A j \in T : i <= j
  BY <1>2, Least
<1>4. i \in DOMAIN words /\ words[i] = w /\ \A j \in DOMAIN words : words[j] = w => i <= j
  BY <1>1, <1>3
<1> QED
  BY <1>1, <1>4 DEF Position

(* What is found after a symbol is a word that follows it, or there is     *)
(* none.                                                                   *)
LEMMA FileFollows ==
  ASSUME NEW words \in Seq(Word), NEW w
  PROVE  IF FileAfter(words, w) = Nothing THEN Files(words, w) = {}
         ELSE FileAfter(words, w) \in Files(words, w) \cap Word
<1>1. \A i \in 1 .. Len(words) : words[i] \in Word /\ words[i] # Nothing
  BY DEF Word
<1>2. Len(words) \in Nat /\ DOMAIN words = 1 .. Len(words)
  OBVIOUS
<1>3. CASE Names(words, w)
  <2>1. /\ Position(words, w) \in 1 .. Len(words) - 1
        /\ words[Position(words, w)] = w
        /\ FileAfter(words, w) = words[Position(words, w) + 1]
    BY <1>2, <1>3, FirstPosition DEF Names, FileAfter
  <2> QED
    BY <1>1, <1>2, <2>1 DEF Files, Follows, ToSet
<1>4. CASE ~ Names(words, w)
  <2>1. ASSUME NEW i \in 1 .. Len(words) - 1, words[i] = w PROVE FALSE
    BY <1>2, <1>4, <2>1, FirstPosition DEF Names, Has
  <2> QED
    BY <1>4, <2>1 DEF FileAfter, Files, Follows
<1> QED
  BY <1>3, <1>4

LEMMA WithoutIsWords ==
  ASSUME NEW words \in Seq(Word), NEW w
  PROVE  /\ Without(words, w) \in Seq(Word)
         /\ Len(Without(words, w)) <= Len(words)
         /\ \A i \in 1 .. Len(Without(words, w)) : Without(words, w)[i] = words[i]
         /\ Has(words, w) => \/ Len(Without(words, w)) = Len(words)
                             \/ Len(Without(words, w)) = Position(words, w) - 1
BY FirstPosition DEF Without, Names

(* The files the two handlers find are those the line names, if the output *)
(* comes first.                                                            *)
LEMMA RedirectedAsTyped ==
  ASSUME NEW words \in Seq(Word)
  PROVE  LET to == Redirected(words) IN
         /\ to.argv \in Seq(Word)
         /\ to.in \in Word \cup {Nothing} /\ to.out \in Word \cup {Nothing}
         /\ IF to.in = Nothing THEN Files(words, "<") = {}
            ELSE to.in \in Files(words, "<")
         /\ ~ InputFirst(words) =>
              IF to.out = Nothing THEN Files(words, ">") = {}
              ELSE to.out \in Files(words, ">")
<1> DEFINE rest == Without(words, "<")
<1>1. /\ rest \in Seq(Word) /\ Len(rest) \in Nat /\ Len(rest) <= Len(words)
      /\ \A i \in 1 .. Len(rest) : rest[i] = words[i]
  BY WithoutIsWords
<1>2. /\ Redirected(words).in = FileAfter(words, "<")
      /\ Redirected(words).out = FileAfter(rest, ">")
      /\ Redirected(words).argv = Without(rest, ">")
  BY DEF Redirected
<1>3. Without(rest, ">") \in Seq(Word)
  BY <1>1, WithoutIsWords
<1>5. ASSUME ~ InputFirst(words) PROVE Files(rest, ">") = Files(words, ">")
  <2>1. \A i \in 1 .. Len(words) : words[i] = ">" => i = Len(words) \/ i < Len(rest)
    <3> SUFFICES ASSUME NEW i \in 1 .. Len(words), words[i] = ">"
                 PROVE  i = Len(words) \/ i < Len(rest)
      OBVIOUS
    <3>1. CASE Has(words, "<")
      <4>1. /\ Position(words, "<") \in 1 .. Len(words)
            /\ words[Position(words, "<")] = "<"
        BY <3>1, FirstPosition
      <4>2. i + 1 < Position(words, "<")
        BY <1>5, <4>1 DEF InputFirst
      <4> QED
        BY <3>1, <4>1, <4>2, WithoutIsWords
    <3>2. CASE ~ Has(words, "<")
      BY <3>2 DEF Without, Names
    <3> QED
      BY <3>1, <3>2
  <2> HIDE DEF rest
  <2>2. ASSUME NEW f PROVE Follows(rest, ">", f) <=> Follows(words, ">", f)
    <3>1. Len(words) \in Nat
      OBVIOUS
    <3>2. ASSUME NEW i \in 1 .. Len(rest) - 1, rest[i] = ">", rest[i + 1] = f
          PROVE  Follows(words, ">", f)
      BY <1>1, <3>1, <3>2 DEF Follows
    <3>3. ASSUME NEW i \in 1 .. Len(words) - 1, words[i] = ">", words[i + 1] = f
          PROVE  Follows(rest, ">", f)
      <4>1. i \in 1 .. Len(rest) - 1 /\ i + 1 \in 1 .. Len(rest)
        BY <1>1, <2>1, <3>1, <3>3
      <4> QED
        BY <1>1, <3>3, <4>1 DEF Follows
    <3> QED
      BY <3>2, <3>3 DEF Follows
  <2>3. \A f : Follows(rest, ">", f) => f \in ToSet(rest)
    BY <1>1 DEF Follows, ToSet
  <2>4. \A f : Follows(words, ">", f) => f \in ToSet(words)
    BY DEF Follows, ToSet
  <2> QED
    BY <2>2, <2>3, <2>4 DEF Files
<1> HIDE DEF rest
<1>6. /\ IF FileAfter(words, "<") = Nothing THEN Files(words, "<") = {}
         ELSE FileAfter(words, "<") \in Files(words, "<") \cap Word
      /\ IF FileAfter(rest, ">") = Nothing THEN Files(rest, ">") = {}
         ELSE FileAfter(rest, ">") \in Files(rest, ">") \cap Word
  BY <1>1, FileFollows
<1> QED
  BY <1>2, <1>3, <1>5, <1>6

(* What a program's streams are connected to.                              *)
LEMMA ReopenedAsTyped ==
  ASSUME NEW words \in Seq(Word), NEW role \in Roles,
         NEW in \in Reopen(Redirected(words).in,
                           IF role = "right" THEN "pipe" ELSE "terminal"),
         NEW out \in Reopen(Redirected(words).out,
                            IF role = "left" THEN "pipe" ELSE "terminal"),
         role \in {"left", "right"} \/ "closed" \notin {in, out}
  PROVE  AsTyped(words, role, in, out) /\ in \in Streams /\ out \in Streams
<1> DEFINE to == Redirected(words)
           stdin == IF role = "right" THEN "pipe" ELSE "terminal"
           stdout == IF role = "left" THEN "pipe" ELSE "terminal"
<1>1. /\ to.in \in Word \cup {Nothing} /\ to.out \in Word \cup {Nothing}
      /\ IF to.in = Nothing THEN Files(words, "<") = {}
         ELSE to.in \in Files(words, "<")
      /\ ~ InputFirst(words) =>
           IF to.out = Nothing THEN Files(words, ">") = {}
           ELSE to.out \in Files(words, ">")
  BY RedirectedAsTyped
<1>2. /\ IF to.in = Nothing THEN in = stdin ELSE in \in {to.in, "closed"}
      /\ IF to.out = Nothing THEN out = stdout ELSE out \in {to.out, "closed"}
  BY DEF Reopen
<1>3. in \in Streams /\ out \in Streams
  BY <1>1, <1>2 DEF Streams
<1> HIDE DEF to
<1>4. AsTyped(words, role, in, out)
  BY <1>1, <1>2 DEF AsTyped, Roles
<1> QED
  BY <1>3, <1>4

-----------------------------------------------------------------------------
(* Children.                                                               *)

LEMMA Counts ==
  ASSUME Types
  PROVE  /\ Children \in SUBSET Pids /\ Cardinality(Children) \in 0 .. MaxChildren
         /\ \A p \in Pids \ Children :
              /\ Cardinality(Children \cup {p}) = Cardinality(Children) + 1
              /\ Cardinality(Children) + 1 <= MaxChildren
         /\ \A p \in Children :
              Cardinality(Children \ {p}) = Cardinality(Children) - 1
<1>1. Children \in SUBSET Pids
  BY DEF Children
<1>2. IsFiniteSet(Pids) /\ Cardinality(Pids) = MaxChildren
  BY FS_Interval, LimitsAssumption DEF Pids
<1>3. \A S \in SUBSET Pids : IsFiniteSet(S) /\ Cardinality(S) <= MaxChildren
  BY <1>2, FS_Subset
<1>4. \A S \in SUBSET Pids : Cardinality(S) \in Nat
  BY <1>3, FS_CardinalityType
<1>5. ASSUME NEW p \in Pids \ Children
      PROVE  /\ Cardinality(Children \cup {p}) = Cardinality(Children) + 1
             /\ Cardinality(Children) + 1 <= MaxChildren
  <2>1. Cardinality(Children \cup {p}) = Cardinality(Children) + 1
    BY <1>1, <1>3, FS_AddElement
  <2>2. Children \cup {p} \in SUBSET Pids
    BY <1>1
  <2> QED
    BY <1>3, <2>1, <2>2
<1>6. ASSUME NEW p \in Children
      PROVE  Cardinality(Children \ {p}) = Cardinality(Children) - 1
  BY <1>1, <1>3, FS_RemoveElement
<1> QED
  BY <1>1, <1>3, <1>4, <1>5, <1>6, LimitsAssumption

LEMMA States ==
  ASSUME Types, NEW p \in Pids
  PROVE  /\ procs[p] \in Process
         /\ procs[p].state \in {"free", "forked", "running", "zombie"}
         /\ procs[p].state = "forked" => procs[p] \in Young
         /\ procs[p].state = "running" => procs[p] \in Busy
BY DEF Types, Process, Idle, Young, Busy

LEMMA Forks ==
  ASSUME IInv, NEW role \in Roles, NEW words \in Seq(Word),
         NEW pid \in Pids \cup {Failed}, Fork(role, words, pid)
  PROVE  /\ procs' \in [Pids -> Process]
         /\ StdioAsTyped'
         /\ pid = Failed => procs' = procs
         /\ pid # Failed =>
              /\ pid \in Pids \ Children
              /\ Children' = Children \cup {pid}
              /\ \A q \in Pids : q # pid => procs'[q] = procs[q]
              /\ procs'[pid] = Forked(role, words)
<1> USE DEF IInv
<1>1. CASE pid = Failed
  <2>1. Children # Pids => (CHOOSE p \in Pids \ Children : TRUE) \in Pids
    BY DEF Children
  <2>2. pid \notin Pids
    BY <1>1 DEF Pids, Failed
  <2>3. procs' = procs
    BY <2>1, <2>2 DEF Fork
  <2> QED
    BY <1>1, <2>3 DEF StdioAsTyped, Running, Types
<1>2. CASE pid # Failed
  <2>1. /\ Children # Pids
        /\ pid = CHOOSE p \in Pids \ Children : TRUE
        /\ procs' = [procs EXCEPT ![pid] = Forked(role, words)]
    BY <1>2 DEF Fork
  <2>2. pid \in Pids \ Children
    BY <2>1 DEF Children
  <2>3. Forked(role, words) \in Young /\ Forked(role, words).state = "forked"
    BY DEF Forked, Young, Types
  <2>4. /\ procs' \in [Pids -> Process] /\ procs'[pid] = Forked(role, words)
        /\ \A q \in Pids : q # pid => procs'[q] = procs[q]
    BY <2>1, <2>2, <2>3 DEF Types, Process
  <2>5. Children' = Children \cup {pid}
    BY <2>2, <2>3, <2>4 DEF Children
  <2>6. StdioAsTyped'
    BY <2>3, <2>4 DEF StdioAsTyped, Running
  <2> QED
    BY <1>2, <2>2, <2>4, <2>5, <2>6
<1> QED
  BY <1>1, <1>2

LEMMA Reaps ==
  ASSUME IInv, NEW p \in Zombies, Reap(p)
  PROVE  /\ procs' \in [Pids -> Process]
         /\ StdioAsTyped'
         /\ p \in Children /\ Children' = Children \ {p}
         /\ \A q \in Pids : q # p => procs'[q] = procs[q]
         /\ ~ Live(p)'
<1> USE DEF IInv
<1>1. p \in Pids /\ procs[p].state = "zombie"
  BY DEF Zombies
<1>2. Free \in Idle /\ Free.state = "free"
  BY DEF Free, Idle
<1>3. /\ procs' \in [Pids -> Process] /\ procs'[p] = Free
      /\ \A q \in Pids : q # p => procs'[q] = procs[q]
  BY <1>1, <1>2 DEF Reap, Types, Process
<1>4. p \in Children /\ Children' = Children \ {p}
  BY <1>1, <1>2, <1>3 DEF Children
<1>5. StdioAsTyped' /\ ~ Live(p)'
  BY <1>1, <1>2, <1>3 DEF StdioAsTyped, Running, Live
<1> QED
  BY <1>3, <1>4, <1>5

(* A child that goes on stays a child, in the role it was forked for.      *)
Onward ==
  /\ procs' \in [Pids -> Process]
  /\ \A q \in Pids : procs'[q].state = "free" <=> procs[q].state = "free"
  /\ \A q \in Pids : Live(q)' =>
       /\ Live(q) /\ procs'[q].role = procs[q].role
       /\ procs[q].role \in {"foreground", "background"} => procs'[q].ends = {}
  /\ StdioAsTyped'

LEMMA OnwardIInv ==
  ASSUME IInv, Onward, pipe' \in 0 .. PipeCapacity,
         UNCHANGED <<pc, line, shellEnds, pids, history>>
  PROVE  IInv'
<1> USE DEF IInv, Onward, line, history
<1>1. Types'
  BY DEF Types
<1>2. Children' = Children
  BY DEF Children
<1>3. Plumbed' /\ TwoSided'
  BY DEF Plumbed, TwoSided
<1>4. Balanced'
  BY <1>2 DEF Balanced, Made, There
<1> QED
  BY <1>1, <1>3, <1>4

LEMMA Becomes ==
  ASSUME IInv, NEW p \in Pids, Live(p), NEW new \in Process,
         procs' = [procs EXCEPT ![p] = new],
         new.state \in {"running", "zombie"},
         new.state = "running" =>
           /\ new.role = procs[p].role
           /\ new.role \in {"foreground", "background"} => new.ends = {}
           /\ AsTyped(new.words, new.role, new.in, new.out)
  PROVE  Onward
<1> USE DEF IInv
<1>1. /\ procs' \in [Pids -> Process] /\ procs'[p] = new
      /\ \A q \in Pids : q # p => procs'[q] = procs[q]
  BY DEF Types
<1>2. \A q \in Pids : procs'[q].state = "free" <=> procs[q].state = "free"
  BY <1>1 DEF Live
<1>3. \A q \in Pids : Live(q)' =>
       /\ Live(q) /\ procs'[q].role = procs[q].role
       /\ procs[q].role \in {"foreground", "background"} => procs'[q].ends = {}
  BY <1>1 DEF Live, Plumbed
<1>4. StdioAsTyped'
  BY <1>1 DEF StdioAsTyped, Running
<1> QED
  BY <1>1, <1>2, <1>3, <1>4 DEF Onward

LEMMA ZombieOnward ==
  ASSUME IInv, NEW p \in Pids, Live(p), procs' = [procs EXCEPT ![p] = Zombie]
  PROVE  Onward
<1>1. Zombie \in Process /\ Zombie.state = "zombie"
  BY DEF Zombie, Process, Idle
<1> QED
  BY <1>1, Becomes

(* From fork to execvp.                                                    *)
LEMMA ExecutesOnward ==
  ASSUME IInv, NEW p \in Pids, NEW ends \in Ends2,
         NEW in, NEW out, NEW words \in Seq(Word),
         procs[p].state = "forked",
         AsTyped(procs[p].words, procs[p].role, in, out),
         in \in Streams, out \in Streams,
         procs[p].role \in {"foreground", "background"} => ends = {},
         Executes(p, words, in, out, ends)
  PROVE  Onward
<1> USE DEF IInv
<1>1. procs[p] \in Young /\ Live(p)
  BY States DEF Live
<1>2. CASE words # <<>> /\ words[1] \in DOMAIN Programs
  <2> DEFINE new ==
        [state |-> "running", role |-> procs[p].role, words |-> procs[p].words,
         in |-> in, out |-> out, ends |-> ends,
         reads |-> Programs[words[1]].reads, writes |-> Programs[words[1]].writes]
  <2>1. procs' = [procs EXCEPT ![p] = new]
    BY <1>2 DEF Executes
  <2>2. new \in Process
    BY <1>1, <1>2, ProgramsAssumption DEF Process, Busy, Young
  <2>3. PICK r : r = new
    OBVIOUS
  <2> QED
    BY <1>1, <2>1, <2>2, <2>3, Becomes
<1>3. CASE ~ (words # <<>> /\ words[1] \in DOMAIN Programs)
  BY <1>1, <1>3, ZombieOnward DEF Executes
<1> QED
  BY <1>2, <1>3

LEMMA ChildExecutesOnward ==
  ASSUME IInv, NEW p \in Pids,
         ChildExecutes(p) \/ LeftExecutes(p) \/ RightExecutes(p)
  PROVE  Onward
<1> USE DEF IInv
<1> DEFINE to == Redirected(procs[p].words)
           stdin == IF procs[p].role = "right" THEN "pipe" ELSE "terminal"
           stdout == IF procs[p].role = "left" THEN "pipe" ELSE "terminal"
<1>1. procs[p].state = "forked" /\ procs[p] \in Young
  BY States DEF ChildExecutes, LeftExecutes, RightExecutes
<1>2. procs[p].words \in Seq(Word) /\ procs[p].role \in Roles /\ to.argv \in Seq(Word)
  BY <1>1, RedirectedAsTyped DEF Young
<1>3. PICK in \in Reopen(to.in, stdin), out \in Reopen(to.out, stdout), ends \in Ends2 :
        /\ procs[p].role \in {"left", "right"} \/ "closed" \notin {in, out}
           => Executes(p, to.argv, in, out, ends)
        /\ procs[p].role \in {"foreground", "background"} =>
             /\ ends = {}
             /\ "closed" \in {in, out} => procs' = [procs EXCEPT ![p] = Zombie]
  <2>1. CASE ChildExecutes(p)
    BY <2>1 DEF ChildExecutes, Ends2
  <2>2. CASE LeftExecutes(p)
    BY <2>2 DEF LeftExecutes, Ends2
  <2>3. CASE RightExecutes(p)
    BY <2>3 DEF RightExecutes, Ends2
  <2> QED
    BY <2>1, <2>2, <2>3
<1>4. CASE procs[p].role \in {"left", "right"} \/ "closed" \notin {in, out}
  <2>1. AsTyped(procs[p].words, procs[p].role, in, out) /\ in \in Streams /\ out \in Streams
    BY <1>2, <1>3, <1>4, ReopenedAsTyped, ZenonT(60)
  <2> QED
    BY <1>1, <1>2, <1>3, <1>4, <2>1, ExecutesOnward
<1>5. CASE ~ (procs[p].role \in {"left", "right"} \/ "closed" \notin {in, out})
  BY <1>1, <1>2, <1>3, <1>5, ZombieOnward DEF Roles, Live
<1> QED
  BY <1>4, <1>5

LEMMA ReadsOnward ==
  ASSUME IInv, NEW p \in Pids, Reads(p)
  PROVE  Onward /\ pipe' \in 0 .. PipeCapacity
<1> USE DEF IInv
<1>1. procs[p] \in Busy /\ procs[p].state = "running" /\ Live(p)
  BY States DEF Reads, Running, Live
<1>2. PICK r \in {"nothing", "one", "all"} : procs' = [procs EXCEPT ![p].reads = r]
  BY <1>1 DEF Reads, Busy
<1>3. PICK new : new = [procs[p] EXCEPT !.reads = r]
  OBVIOUS
<1>4. /\ new \in Busy /\ procs' = [procs EXCEPT ![p] = new]
      /\ new.state = "running" /\ new.role = procs[p].role /\ new.ends = procs[p].ends
      /\ new.words = procs[p].words /\ new.in = procs[p].in /\ new.out = procs[p].out
  BY <1>1, <1>2, <1>3 DEF Busy, Types
<1>5. Onward
  BY <1>1, <1>4, Becomes DEF Process, Plumbed, StdioAsTyped, Running
<1>6. pipe' \in 0 .. PipeCapacity
  BY LimitsAssumption DEF Reads, Types
<1> QED
  BY <1>5, <1>6

LEMMA WritesOnward ==
  ASSUME IInv, NEW p \in Pids, Writes(p)
  PROVE  Onward /\ pipe' \in 0 .. PipeCapacity
<1> USE DEF IInv
<1>1. /\ procs[p] \in Busy /\ procs[p].state = "running" /\ Live(p)
      /\ procs[p].writes # 0
  BY States DEF Writes, Running, Live
<1>2. pipe' \in 0 .. PipeCapacity
  BY LimitsAssumption DEF Writes, Types
<1>3. CASE procs' = [procs EXCEPT ![p] = Zombie]
  BY <1>1, <1>2, <1>3, ZombieOnward
<1>4. CASE procs' = [procs EXCEPT ![p].writes = IF @ = Forever THEN @ ELSE @ - 1]
  <2>1. PICK w \in Nat \cup {Forever} : procs' = [procs EXCEPT ![p].writes = w]
    <3> DEFINE next == IF procs[p].writes = Forever THEN procs[p].writes
                       ELSE procs[p].writes - 1
    <3>1. next \in Nat \cup {Forever}
      BY <1>1 DEF Busy
    <3>2. procs' = [procs EXCEPT ![p].writes = next]
      BY <1>4
    <3> QED
      BY <3>1, <3>2
  <2>2. PICK new : new = [procs[p] EXCEPT !.writes = w]
    OBVIOUS
  <2>3. /\ new \in Busy /\ procs' = [procs EXCEPT ![p] = new]
        /\ new.state = "running" /\ new.role = procs[p].role /\ new.ends = procs[p].ends
        /\ new.words = procs[p].words /\ new.in = procs[p].in /\ new.out = procs[p].out
    BY <1>1, <2>1, <2>2 DEF Busy, Types
  <2> QED
    BY <1>1, <1>2, <2>3, Becomes DEF Process, Plumbed, StdioAsTyped, Running
<1> QED
  BY <1>3, <1>4 DEF Writes

LEMMA ChildIInv ==
  ASSUME IInv, NEW p \in Pids, ChildWorks(p) PROVE IInv'
<1>1. CASE ChildExecutes(p) \/ LeftExecutes(p) \/ RightExecutes(p)
  <2>1. pipe' = pipe
    BY <1>1 DEF ChildWorks, Reads, Writes, Ends, Running, ChildExecutes, LeftExecutes,
                RightExecutes
  <2> QED
    BY <1>1, <2>1, ChildExecutesOnward, OnwardIInv DEF ChildWorks, IInv, Types
<1>2. CASE Reads(p)
  BY <1>2, ReadsOnward, OnwardIInv DEF ChildWorks
<1>3. CASE Writes(p)
  BY <1>3, WritesOnward, OnwardIInv DEF ChildWorks
<1>4. CASE Ends(p)
  BY <1>4, ZombieOnward, OnwardIInv DEF ChildWorks, Ends, Running, Live, IInv, Types
<1> QED
  BY <1>1, <1>2, <1>3, <1>4 DEF ChildWorks

LEMMA InterruptIInv == ASSUME IInv, Interrupt PROVE IInv'
<1> USE DEF IInv, Interrupt
<1>1. \A q \in Pids :
        /\ Running(q) => procs'[q] = Zombie
        /\ ~ Running(q) => procs'[q] = procs[q]
  OBVIOUS
<1>2. Zombie \in Idle /\ Zombie.state = "zombie"
  BY DEF Zombie, Idle
<1>3. Onward
  BY <1>1, <1>2 DEF Onward, Types, Process, Running, Live, Plumbed, StdioAsTyped
<1> QED
  BY <1>3, OnwardIInv DEF Types, plumbing, line, history

-----------------------------------------------------------------------------
(* The shell's steps.                                                      *)

LEMMA FirstWordsOf ==
  ASSUME NEW typed \in Typed
  PROVE  FirstWords(typed) \in Seq(Word)
<1>1. typed \in Seq(Word) /\ Len(typed) \in Nat /\ MaxTokens - 1 \in Nat
  BY TypedAssumption, LimitsAssumption
<1>2. \A m, n \in Nat : Min({m, n}) \in {m, n} /\ Min({m, n}) <= m
  <2> TAKE m, n \in Nat
  <2>1. Min({m, n}) = CHOOSE x \in {m, n} : \A y \in {m, n} : x <= y
    BY DEF Min
  <2>2. \E x \in {m, n} : \A y \in {m, n} : x <= y
    <3>1. CASE m <= n
      BY <3>1
    <3>2. CASE n <= m
      BY <3>2
    <3> QED
      BY <3>1, <3>2
  <2> QED
    BY <2>1, <2>2
<1>3. Min({Len(typed), MaxTokens - 1}) \in 0 .. Len(typed)
  BY <1>1, <1>2
<1>4. \A n \in 0 .. Len(typed) : SubSeq(typed, 1, n) \in Seq(Word)
  BY <1>1
<1> QED
  BY <1>3, <1>4 DEF FirstWords

LEMMA Prompted ==
  ASSUME Prompt
  PROVE  pc' = "prompt" /\ tokens' \in Seq(Word) /\ background' \in BOOLEAN
<1>1. pc' = "prompt" /\ tokens' = <<>> /\ background' = FALSE
  BY DEF Prompt
<1>2. <<>> \in Seq(Word)
  OBVIOUS
<1>3. background' \in BOOLEAN
  BY <1>1
<1> QED
  BY <1>1, <1>2, <1>3

LEMMA TypeIInv == ASSUME IInv, NEW typed \in Typed, Type(typed) PROVE IInv'
<1> USE DEF IInv, plumbing
<1> DEFINE words == FirstWords(typed)
           command == IF InBackground(words) THEN Front(words) ELSE words
<1>1. /\ pc = "prompt" /\ command # <<>> /\ tokens' = command
      /\ background' = InBackground(words)
      /\ pc' = IF Has(command, "|") THEN "pipe" ELSE "execute"
      /\ due' = Cardinality(Children) /\ shortOf' = FALSE
      /\ UNCHANGED <<procs, shellEnds, pipe, pids>>
  BY DEF Type, At
<1>2. command \in Seq(Word)
  <2>1. words \in Seq(Word)
    BY FirstWordsOf
  <2> HIDE DEF words
  <2>2. words # <<>> => Front(words) \in Seq(Word)
    BY <2>1 DEF Front
  <2> QED
    BY <2>1, <2>2 DEF InBackground
<1> HIDE DEF command
<1>3. Cardinality(Children) \in 0 .. MaxChildren /\ Children' = Children
  BY <1>1, Counts DEF Children
<1>4. Types'
  <2>1. InBackground(words) \in BOOLEAN
    BY DEF InBackground
  <2> QED
    <3>1. tokens' \in Seq(Word) /\ due' \in Nat
      BY <1>1, <1>2, <1>3
    <3>2. background' \in BOOLEAN /\ shortOf' \in BOOLEAN
      BY <1>1, <2>1
    <3> QED
      BY <1>1, <3>1, <3>2 DEF Types
<1>5. TwoSided' /\ Plumbed' /\ StdioAsTyped'
  BY <1>1 DEF TwoSided, Plumbed, Live, StdioAsTyped, Running
<1>6. Balanced'
  BY <1>1, <1>3, LimitsAssumption DEF Balanced
<1> QED
  BY <1>4, <1>5, <1>6

LEMMA ExitIInv == ASSUME IInv, Exit PROVE IInv'
<1> USE DEF IInv, Exit, At, plumbing, line, history
<1>1. Types'
  BY DEF Types
<1>2. TwoSided' /\ Plumbed' /\ StdioAsTyped'
  BY DEF TwoSided, Plumbed, Live, StdioAsTyped, Running
<1>3. Balanced'
  BY DEF Balanced
<1> QED
  BY <1>1, <1>2, <1>3

LEMMA ExecuteIInv == ASSUME IInv, Execute PROVE IInv'
<1> USE DEF IInv, plumbing, line
<1>1. Role \in {"foreground", "background"} /\ Role \in Roles
  BY DEF Role, Roles
<1>2. PICK pid \in Pids \cup {Failed} :
       /\ Fork(Role, tokens, pid)
       /\ IF pid = Failed \/ background THEN Prompt
          ELSE pc' = "wait" /\ UNCHANGED line
       /\ due' = IF pid # Failed /\ background THEN due + 1 ELSE due
  BY DEF Execute
<1>3. pc = "execute" /\ UNCHANGED <<shellEnds, pipe, pids, shortOf>>
  BY DEF Execute, At
<1>4. PICK role \in Roles : role = Role
  BY <1>1
<1>5. /\ procs' \in [Pids -> Process]
      /\ StdioAsTyped'
      /\ pid = Failed => procs' = procs
      /\ pid # Failed =>
           /\ pid \in Pids \ Children
           /\ Children' = Children \cup {pid}
           /\ \A q \in Pids : q # pid => procs'[q] = procs[q]
           /\ procs'[pid] = Forked(role, tokens)
  BY <1>2, <1>4, Forks DEF Types
<1>6. Types'
  BY <1>2, <1>3, <1>5, Prompted DEF Types
<1>7. TwoSided' /\ Plumbed'
  <2>1. Forked(role, tokens).ends = {} /\ Forked(role, tokens).role = role
    BY <1>3 DEF Forked, Plumbed
  <2> QED
    BY <1>1, <1>2, <1>3, <1>4, <1>5, <2>1 DEF TwoSided, Plumbed, Live, Prompt
<1>8. Balanced'
  <2>1. pid = Failed => Children' = Children
    BY <1>5 DEF Children
  <2>2. Cardinality(Children) = due /\ due \in Nat /\ ~ shortOf
    BY <1>3 DEF Balanced, Types
  <2> QED
    BY <1>2, <1>3, <1>5, <2>1, <2>2, Counts DEF Balanced, Prompt
<1> QED
  BY <1>5, <1>6, <1>7, <1>8

LEMMA WaitIInv == ASSUME IInv, Wait PROVE IInv'
<1> USE DEF IInv, plumbing, history
<1>1. PICK p \in Zombies : Reap(p)
  BY DEF Wait
<1>2. pc = "wait" /\ Prompt /\ UNCHANGED <<shellEnds, pipe, pids, due, shortOf>>
  BY DEF Wait, At
<1>3. /\ procs' \in [Pids -> Process] /\ StdioAsTyped'
      /\ p \in Children /\ Children' = Children \ {p} /\ ~ Live(p)'
      /\ \A q \in Pids : q # p => procs'[q] = procs[q]
  BY <1>1, Reaps
<1>4. Types'
  BY <1>2, <1>3, Prompted DEF Types
<1>5. TwoSided' /\ Plumbed'
  BY <1>2, <1>3 DEF TwoSided, Plumbed, Live, Prompt
<1>6. Balanced'
  BY <1>2, <1>3, Counts DEF Balanced, Prompt, Types
<1> QED
  BY <1>3, <1>4, <1>5, <1>6

LEMMA PipeOpensIInv == ASSUME IInv, PipeOpens PROVE IInv'
<1> USE DEF IInv, line, history
<1>1. /\ pc = "pipe" /\ UNCHANGED <<procs, pipe, pids, due, shortOf>>
      /\ \/ shellEnds' = {"r", "w"} /\ pc' = "fork1" /\ UNCHANGED <<tokens, background>>
         \/ Prompt /\ UNCHANGED shellEnds
  BY DEF PipeOpens, At
<1>2. Types'
  BY <1>1, Prompted DEF Types, Ends2
<1>3. TwoSided' /\ Plumbed' /\ StdioAsTyped'
  BY <1>1 DEF TwoSided, Plumbed, Live, StdioAsTyped, Running, Prompt
<1>4. Children' = Children
  BY <1>1 DEF Children
<1>5. Balanced'
  BY <1>1, <1>4 DEF Balanced, Prompt
<1> QED
  BY <1>2, <1>3, <1>5

LEMMA SideIsWords ==
  ASSUME IInv, pc \in {"fork1", "fork2"}, NEW i \in 1 .. 2
  PROVE  Side(tokens, i) \in Seq(Word)
<1>1. tokens \in Seq(Word) /\ Len(tokens) \in Nat
  BY DEF IInv, Types
<1>2. Position(tokens, "|") \in 1 .. Len(tokens)
  BY <1>1, FirstPosition DEF IInv, TwoSided
<1>3. \A b \in 1 .. Len(tokens) :
        /\ SubSeq(tokens, 1, b - 1) \in Seq(Word)
        /\ SubSeq(tokens, b + 1, Len(tokens)) \in Seq(Word)
  BY <1>1
<1> QED
  BY <1>2, <1>3 DEF Side

LEMMA PipeFork1IInv ==
  ASSUME IInv, PipeForks(1, "left", "fork1", "fork2")
  PROVE  IInv'
<1> USE DEF IInv, plumbing, line
<1>1. pc = "fork1" /\ pc' = "fork2"
      /\ UNCHANGED <<tokens, background, shellEnds, pipe, due>>
  BY DEF PipeForks, At
<1>2. PICK words \in Seq(Word) : words = Side(tokens, 1)
  BY <1>1, SideIsWords
<1>3. PICK pid \in Pids \cup {Failed} :
        /\ Fork("left", words, pid)
        /\ pids' = [pids EXCEPT ![1] = pid]
        /\ shortOf' = (shortOf \/ pid = Failed)
  BY <1>2 DEF PipeForks
<1>4. /\ procs' \in [Pids -> Process]
      /\ StdioAsTyped'
      /\ pid = Failed => procs' = procs
      /\ pid # Failed =>
           /\ pid \in Pids \ Children
           /\ Children' = Children \cup {pid}
           /\ \A q \in Pids : q # pid => procs'[q] = procs[q]
           /\ procs'[pid] = Forked("left", words)
  BY <1>3, Forks DEF Roles
<1>5. pids' \in [1 .. 2 -> Pids \cup {Failed}] /\ pids'[1] = pid
  BY <1>3 DEF Types
<1>6. Types'
  <2>1. shortOf' \in BOOLEAN
    BY <1>3
  <2> QED
    BY <1>1, <1>4, <1>5, <2>1 DEF Types
<1>7. TwoSided' /\ Plumbed'
  <2>1. Forked("left", words).role = "left"
    BY DEF Forked
  <2> QED
    BY <1>1, <1>4, <1>5, <2>1 DEF TwoSided, Plumbed, Live
<1>8. Balanced'
  <2>1. pid = Failed => Children' = Children
    BY <1>4 DEF Children
  <2>2. Cardinality(Children) = due /\ due \in Nat /\ ~ shortOf
    BY <1>1 DEF Balanced, Types
  <2>3. shortOf' <=> pids'[1] = Failed
    BY <1>3, <1>5, <2>2
  <2>4. Cardinality(Children)' = due + Made(1)' /\ There(1)'
    BY <1>4, <1>5, <2>1, <2>2, Counts DEF Made, There
  <2> QED
    BY <1>1, <2>3, <2>4 DEF Balanced
<1> QED
  BY <1>4, <1>6, <1>7, <1>8

LEMMA PipeFork2IInv ==
  ASSUME IInv, PipeForks(2, "right", "fork2", "close")
  PROVE  IInv'
<1> USE DEF IInv, plumbing, line
<1>1. pc = "fork2" /\ pc' = "close"
      /\ UNCHANGED <<tokens, background, shellEnds, pipe, due>>
  BY DEF PipeForks, At
<1>2. PICK words \in Seq(Word) : words = Side(tokens, 2)
  BY <1>1, SideIsWords
<1>3. PICK pid \in Pids \cup {Failed} :
        /\ Fork("right", words, pid)
        /\ pids' = [pids EXCEPT ![2] = pid]
        /\ shortOf' = (shortOf \/ pid = Failed)
  BY <1>2 DEF PipeForks
<1>4. /\ procs' \in [Pids -> Process]
      /\ StdioAsTyped'
      /\ pid = Failed => procs' = procs
      /\ pid # Failed =>
           /\ pid \in Pids \ Children
           /\ Children' = Children \cup {pid}
           /\ \A q \in Pids : q # pid => procs'[q] = procs[q]
           /\ procs'[pid] = Forked("right", words)
  BY <1>3, Forks DEF Roles
<1>5. /\ pids' \in [1 .. 2 -> Pids \cup {Failed}]
      /\ pids'[1] = pids[1] /\ pids'[2] = pid
  BY <1>3 DEF Types
<1>6. Types'
  <2>1. shortOf' \in BOOLEAN
    BY <1>3
  <2> QED
    BY <1>1, <1>4, <1>5, <2>1 DEF Types
<1>7. TwoSided' /\ Plumbed'
  <2>1. Forked("right", words).role = "right"
    BY DEF Forked
  <2> QED
    BY <1>1, <1>4, <1>5, <2>1 DEF TwoSided, Plumbed, Live
<1>8. Balanced'
  <2>1. pid = Failed => Children' = Children
    BY <1>4 DEF Children
  <2>2. /\ Cardinality(Children) = due + Made(1) /\ due \in Nat
        /\ There(1) /\ (shortOf <=> pids[1] = Failed)
    BY <1>1 DEF Balanced, Types
  <2>3. shortOf' <=> Failed \in {pids'[1], pids'[2]}
    BY <1>3, <1>5, <2>2
  <2>4. Cardinality(Children)' = due + Made(1)' + Made(2)'
    BY <1>4, <1>5, <2>1, <2>2, Counts DEF Made
  <2>5. There(1)' /\ There(2)' /\ (pids'[1] = pids'[2] => pids'[1] = Failed)
    BY <1>4, <1>5, <2>1, <2>2 DEF There
  <2>6. due <= MaxChildren
    BY DEF Balanced
  <2> QED
    BY <1>1, <2>3, <2>4, <2>5, <2>6 DEF Balanced
<1> QED
  BY <1>4, <1>6, <1>7, <1>8

LEMMA PipeClosesIInv == ASSUME IInv, PipeCloses PROVE IInv'
<1> USE DEF IInv, line, history
<1>1. /\ pc = "close" /\ pc' = "wait1" /\ shellEnds' = {}
      /\ UNCHANGED <<tokens, background, procs, pipe, pids, due, shortOf>>
  BY DEF PipeCloses, At
<1>2. Types'
  BY <1>1 DEF Types, Ends2
<1>3. TwoSided' /\ Plumbed' /\ StdioAsTyped'
  BY <1>1 DEF TwoSided, Plumbed, Live, StdioAsTyped, Running
<1>4. Balanced'
  BY <1>1 DEF Balanced, Made, There, Children
<1> QED
  BY <1>2, <1>3, <1>4

(* What waitpid does: it takes nothing, or a child that has ended, and it  *)
(* is the one that was asked for, if one was.                              *)
LEMMA WaitPids ==
  ASSUME IInv, NEW pid \in Pids \cup {Failed}, WaitPid(pid)
  PROVE  /\ procs' \in [Pids -> Process] /\ StdioAsTyped'
         /\ \A q \in Pids : Live(q)' => Live(q) /\ procs'[q] = procs[q]
         /\ pid # Failed => ~ Live(pid)'
         /\ \/ Children' = Children /\ (IF pid = Failed THEN Children = {} ELSE pid \notin Children)
            \/ \E p \in Children : Children' = Children \ {p} /\ pid \in {p, Failed}
<1> USE DEF IInv
<1>1. CASE UNCHANGED procs /\ (pid = Failed => Children = {})
                           /\ (pid # Failed => pid \notin Children)
  <2>1. pid # Failed => ~ Live(pid)
    BY <1>1 DEF Children, Live
  <2> QED
    BY <1>1, <2>1 DEF Types, StdioAsTyped, Running, Children, Live
<1>2. CASE \E p \in Zombies : Reap(p) /\ pid \in {p, Failed}
  <2>1. PICK p \in Zombies : Reap(p) /\ pid \in {p, Failed}
    BY <1>2
  <2> QED
    BY <2>1, Reaps DEF Live
<1>3. \/ UNCHANGED procs /\ (pid = Failed => Children = {})
                         /\ (pid # Failed => pid \notin Children)
      \/ \E p \in Zombies : Reap(p) /\ pid \in {p, Failed}
  BY DEF WaitPid
<1> QED
  BY <1>1, <1>2, <1>3

LEMMA PipeWaits1IInv == ASSUME IInv, PipeWaits1 PROVE IInv'
<1> USE DEF IInv, plumbing, line, history
<1>1. /\ pc = "wait1" /\ pc' = "wait2" /\ shellEnds = {}
      /\ UNCHANGED <<tokens, background, shellEnds, pipe, pids, due, shortOf>>
  BY DEF PipeWaits1, At, Plumbed
<1>2. PICK pid \in Pids \cup {Failed} : pid = pids[1] /\ WaitPid(pid)
  BY DEF PipeWaits1, Types
<1>3. /\ procs' \in [Pids -> Process] /\ StdioAsTyped'
      /\ \A q \in Pids : Live(q)' => Live(q) /\ procs'[q] = procs[q]
      /\ pid # Failed => ~ Live(pid)'
      /\ \/ Children' = Children /\ (IF pid = Failed THEN Children = {} ELSE pid \notin Children)
         \/ \E p \in Children : Children' = Children \ {p} /\ pid \in {p, Failed}
  BY <1>2, WaitPids
<1>4. Types' /\ TwoSided'
  BY <1>1, <1>3 DEF Types, TwoSided
<1>5. Plumbed'
  BY <1>1, <1>2, <1>3 DEF Plumbed, Failed, Pids
<1>6. Balanced'
  <2>1. /\ Cardinality(Children) = due + Made(1) + Made(2) /\ due \in Nat
        /\ There(1) /\ There(2) /\ (pids[1] = pids[2] => pids[1] = Failed)
        /\ (shortOf <=> Failed \in {pids[1], pids[2]}) /\ due <= MaxChildren
    BY <1>1 DEF Balanced, Types
  <2>2. CASE ~ shortOf
    <3>1. Children' = Children \ {pids[1]} /\ pids[1] \in Children /\ pids[2] \in Children'
      BY <1>2, <1>3, <2>1, <2>2 DEF There
    <3>2. Cardinality(Children)' = due + 1
      BY <2>1, <2>2, <3>1, Counts DEF Made
    <3> QED
      BY <1>1, <2>1, <2>2, <3>1, <3>2 DEF Balanced
  <2>3. CASE shortOf
    <3>1. Cardinality(Children)' \in {Cardinality(Children), Cardinality(Children) - 1}
      BY <1>3, Counts
    <3>2. Made(1) + Made(2) \in {0, 1}
      BY <2>1, <2>3 DEF Made
    <3>3. Made(1) = 1 => Cardinality(Children)' = Cardinality(Children) - 1
      BY <1>2, <1>3, <2>1, Counts DEF Made, There
    <3>4. Made(2) = 1 => Cardinality(Children)' = Cardinality(Children) - 1
      <4>1. ASSUME Children' = Children PROVE Made(2) = 0
        BY <1>2, <1>3, <2>1, <2>3, <4>1 DEF Made, There
      <4> QED
        BY <1>3, <4>1, Counts
    <3>5. Cardinality(Children)' \in due - 1 .. due
      BY <2>1, <3>1, <3>2, <3>3, <3>4, Counts DEF Made
    <3> QED
      BY <1>1, <2>1, <2>3, <3>5 DEF Balanced
  <2> QED
    BY <2>2, <2>3
<1> QED
  BY <1>3, <1>4, <1>5, <1>6

LEMMA PipeWaits2IInv == ASSUME IInv, PipeWaits2 PROVE IInv'
<1> USE DEF IInv, history
<1>1. /\ pc = "wait2" /\ Prompt /\ shellEnds = {} /\ pids' = <<Failed, Failed>>
      /\ pipe' = 0 /\ UNCHANGED <<shellEnds, due, shortOf>>
  BY DEF PipeWaits2, At, Plumbed
<1>2. PICK pid \in Pids \cup {Failed} : pid = pids[2] /\ WaitPid(pid)
  BY DEF PipeWaits2, Types
<1>3. /\ procs' \in [Pids -> Process] /\ StdioAsTyped'
      /\ \A q \in Pids : Live(q)' => Live(q) /\ procs'[q] = procs[q]
      /\ pid # Failed => ~ Live(pid)'
      /\ \/ Children' = Children /\ (IF pid = Failed THEN Children = {} ELSE pid \notin Children)
         \/ \E p \in Children : Children' = Children \ {p} /\ pid \in {p, Failed}
  BY <1>2, WaitPids
<1>4. Types' /\ TwoSided'
  <2>1. pids' \in [1 .. 2 -> Pids \cup {Failed}]
    BY <1>1
  <2>2. pc' = "prompt" /\ tokens' \in Seq(Word) /\ background' \in BOOLEAN
    BY <1>1, Prompted
  <2> QED
    BY <1>1, <1>3, <2>1, <2>2, LimitsAssumption DEF Types, TwoSided
<1>5. Plumbed'
  BY <1>1, <1>2, <1>3, Prompted DEF Plumbed, Failed, Pids
<1>6. Balanced'
  <2>1. pc' = "prompt" /\ due \in Nat /\ due <= MaxChildren
    BY <1>1, Prompted DEF Balanced, Types
  <2>2. CASE ~ shortOf
    <3>1. pid \in Children /\ pid # Failed /\ Cardinality(Children) = due + 1
      BY <1>1, <1>2, <2>2 DEF Balanced, Children, Pids, Failed
    <3>2. Cardinality(Children)' = due
      BY <1>3, <2>1, <3>1, Counts
    <3> QED
      BY <1>1, <2>1, <2>2, <3>2 DEF Balanced
  <2>3. CASE shortOf
    <3>1. Cardinality(Children) \in due - 1 .. due
      BY <1>1, <2>3 DEF Balanced
    <3>2. Cardinality(Children)' \in {Cardinality(Children), Cardinality(Children) - 1}
      BY <1>3, Counts
    <3>3. Cardinality(Children)' \in due - 2 .. due
      BY <2>1, <3>1, <3>2
    <3> QED
      BY <1>1, <2>1, <2>3, <3>3 DEF Balanced
  <2> QED
    BY <2>2, <2>3
<1> QED
  BY <1>3, <1>4, <1>5, <1>6

-----------------------------------------------------------------------------
LEMMA IInvInit == Init => IInv
<1> SUFFICES ASSUME Init PROVE IInv
  OBVIOUS
<1>1. /\ pc = "prompt" /\ tokens = <<>> /\ background = FALSE
      /\ procs = [p \in Pids |-> Free] /\ shellEnds = {} /\ pipe = 0
      /\ pids = <<Failed, Failed>> /\ due = 0 /\ shortOf = FALSE
  BY DEF Init
<1>2. \A p \in Pids : procs[p] = Free /\ procs[p].state = "free"
  BY <1>1 DEF Free
<1>3. Types
  <2>1. tokens \in Seq(Word) /\ background \in BOOLEAN /\ shortOf \in BOOLEAN
    <3>1. <<>> \in Seq(Word)
      OBVIOUS
    <3>2. background \in BOOLEAN /\ shortOf \in BOOLEAN
      BY <1>1
    <3> QED
      BY <1>1, <3>1, <3>2
  <2>2. procs \in [Pids -> Process]
    BY <1>1 DEF Free, Process, Idle
  <2>3. pids \in [1 .. 2 -> Pids \cup {Failed}]
    BY <1>1
  <2> QED
    BY <1>1, <2>1, <2>2, <2>3, LimitsAssumption DEF Types, Ends2
<1>4. TwoSided /\ Plumbed /\ StdioAsTyped
  BY <1>1, <1>2 DEF TwoSided, Plumbed, StdioAsTyped, Live, Running
<1>5. Children = {}
  BY <1>2 DEF Children
<1>6. Balanced
  BY <1>1, <1>5, FS_EmptySet, LimitsAssumption DEF Balanced
<1> QED
  BY <1>3, <1>4, <1>6 DEF IInv

LEMMA IInvStep == IInv /\ [Next]_vars => IInv'
<1> SUFFICES ASSUME IInv, [Next]_vars PROVE IInv'
  OBVIOUS
<1>1. CASE \E typed \in Typed : Type(typed)
  BY <1>1, TypeIInv
<1>2. CASE Exit
  BY <1>2, ExitIInv
<1>3. CASE ShellWorks
  BY <1>3, ExecuteIInv, WaitIInv, PipeOpensIInv, PipeFork1IInv, PipeFork2IInv,
     PipeClosesIInv, PipeWaits1IInv, PipeWaits2IInv DEF ShellWorks, PipeOut
<1>4. CASE \E p \in Pids : ChildWorks(p)
  BY <1>4, ChildIInv
<1>5. CASE Interrupt
  BY <1>5, InterruptIInv
<1>6. CASE UNCHANGED vars
  <2>1. UNCHANGED <<pc, tokens, background, procs, shellEnds, pipe, pids, due, shortOf>>
    BY <1>6 DEF vars, line, plumbing, history
  <2>2. Types' /\ TwoSided' /\ Plumbed' /\ StdioAsTyped'
    BY <2>1 DEF IInv, Types, TwoSided, Plumbed, StdioAsTyped, Live, Running
  <2>3. Balanced'
    BY <2>1 DEF IInv, Balanced, Made, There, Children
  <2> QED
    BY <2>2, <2>3 DEF IInv
<1> QED
  BY <1>1, <1>2, <1>3, <1>4, <1>5, <1>6 DEF Next

(* The pipe, the children and the count of forks and waits agree at every  *)
(* step of execute_command and pipe_out.                                   *)
THEOREM Invariant == Spec => []IInv
BY IInvInit, IInvStep, PTL DEF Spec

(* Every variable has a value the program's types allow; only the children *)
(* of a pipeline have an end of the pipe.                                  *)
THEOREM TypeCorrect == Spec => []TypeOK
<1>1. IInv => TypeOK
  <2> SUFFICES ASSUME IInv PROVE TypeOK
    OBVIOUS
  <2>1. \A p \in Pids :
          /\ procs[p].state \in {"free", "forked", "running", "zombie"}
          /\ Live(p) /\ procs[p].role \in {"foreground", "background"}
               => procs[p].ends = {}
    BY States DEF IInv, Plumbed
  <2>2. due \in 0 .. MaxChildren
    BY LimitsAssumption DEF IInv, Types, Balanced
  <2> QED
    BY <2>1, <2>2 DEF IInv, Types, TypeOK, Ends2
<1> QED
  BY <1>1, Invariant, PTL

(* The waits balance the forks: a line leaves as many children as it found *)
(* and one more if it started one in the background; only a pipeline that  *)
(* was short of a fork takes children of others, two at most.              *)
THEOREM WaitsAlwaysBalance == Spec => []WaitsBalance
<1>1. IInv => WaitsBalance
  BY DEF IInv, Balanced, WaitsBalance, At
<1> QED
  BY <1>1, Invariant, PTL

(* README.md: "Single pipe support (|) between two commands".  At the next *)
(* prompt both commands have ended and nobody has an end of the pipe.      *)
THEOREM PipelineAlwaysWaitedFor == Spec => []PipelineWaitedFor
<1>1. IInv => PipelineWaitedFor
  <2> SUFFICES ASSUME IInv, pc = "prompt"
               PROVE  /\ \A p \in Pids : Live(p) =>
                           procs[p].role \in {"foreground", "background"}
                      /\ ~ Held("r") /\ ~ Held("w")
    BY DEF PipelineWaitedFor, At
  <2>1. ASSUME NEW p \in Pids, Live(p)
        PROVE  procs[p].role \in {"foreground", "background"}
    <3>1. procs[p].role \in Roles
      BY <2>1, States DEF IInv, Live, Young, Busy
    <3> QED
      BY <2>1, <3>1 DEF IInv, Plumbed, Roles
  <2> QED
    BY <2>1 DEF Held, IInv, Plumbed
<1> QED
  BY <1>1, Invariant, PTL

(* Every program reads from and writes to what its command line says.      *)
THEOREM StdioAlwaysAsTyped == Spec => []StdioAsTyped
<1>1. IInv => StdioAsTyped
  BY DEF IInv
<1> QED
  BY <1>1, Invariant, PTL

-----------------------------------------------------------------------------
(* Nobody waits in vain.                                                   *)

(* A program has an end of the pipe open if a stream of it is the pipe, and*)
(* no other end: the left side the one to write to, the right side the one *)
(* to read from.                                                           *)
InUse(child) ==
  /\ child.in = "pipe" => child.role = "right"
  /\ child.out = "pipe" => child.role = "left"
  /\ "r" \in child.ends <=> child.in = "pipe"
  /\ "w" \in child.ends <=> child.out = "pipe"

EndsInUse == \A p \in Pids : Running(p) => InUse(procs[p])

(* What a child has to have for its next step; a program that is not       *)
(* stopped by anything writes for ever.                                    *)
MayRead(p) ==
  /\ procs[p].reads # "nothing"
  /\ procs[p].in = "pipe" => pipe > 0 \/ ~ Held("w")
MayWrite(p) ==
  /\ procs[p].reads = "nothing"
  /\ procs[p].out = "pipe" => procs[p].writes = 0 \/ pipe < PipeCapacity \/ ~ Held("r")
GoesOn(p) ==
  \/ procs[p].state = "forked"
  \/ Running(p) /\ (MayRead(p) \/ MayWrite(p))

(* What each of the three waits waits for, and those its pipe connects.    *)
Awaited ==
  CASE pc = "wait1" /\ pids[1] # Failed -> Children \cap {pids[1]}
    [] pc = "wait2" /\ pids[2] # Failed -> Children \cap {pids[2]}
    [] OTHER -> Children
Connected == {p \in Pids : Live(p) /\ procs[p].ends # {}}

WaitIsOver ==
  \/ Awaited \cap Zombies # {}
  \/ pc # "wait" /\ Awaited = {}

NobodyStuck ==
  pc \in {"wait", "wait1", "wait2"} =>
    WaitIsOver \/ \E p \in Awaited \cup Connected : GoesOn(p)

(* A child keeps what it has, or has just been forked, or has ended.       *)
LEMMA ShellKeepsPrograms ==
  ASSUME IInv, ShellWorks
  PROVE  \A q \in Pids : Running(q)' => Running(q) /\ procs'[q] = procs[q]
<1>1. ASSUME NEW role, NEW words, NEW pid \in Pids \cup {Failed}, Fork(role, words, pid)
      PROVE  \A q \in Pids : Running(q)' => Running(q) /\ procs'[q] = procs[q]
  <2>1. Forked(role, words).state = "forked"
    BY DEF Forked
  <2> QED
    BY <1>1, <2>1 DEF Fork, Running, IInv, Types
<1>2. ASSUME NEW p \in Zombies, Reap(p)
      PROVE  \A q \in Pids : Running(q)' => Running(q) /\ procs'[q] = procs[q]
  BY <1>2 DEF Reap, Running, Free, IInv, Types
<1>3. CASE Execute
  BY <1>1, <1>3 DEF Execute
<1>4. CASE Wait
  BY <1>2, <1>4 DEF Wait
<1>5. CASE PipeOpens \/ PipeCloses
  BY <1>5 DEF PipeOpens, PipeCloses, Running
<1>6. CASE PipeForks(1, "left", "fork1", "fork2") \/ PipeForks(2, "right", "fork2", "close")
  BY <1>1, <1>6 DEF PipeForks
<1>7. CASE PipeWaits1 \/ PipeWaits2
  BY <1>2, <1>7 DEF PipeWaits1, PipeWaits2, WaitPid, Running
<1> QED
  BY <1>3, <1>4, <1>5, <1>6, <1>7 DEF ShellWorks, PipeOut

LEMMA ExecutesInUse ==
  ASSUME IInv, NEW p \in Pids,
         ChildExecutes(p) \/ LeftExecutes(p) \/ RightExecutes(p), Running(p)'
  PROVE  InUse(procs[p])'
<1> USE DEF IInv
<1> DEFINE to == Redirected(procs[p].words)
<1>1. procs[p].state = "forked" /\ procs[p] \in Young
  BY States DEF ChildExecutes, LeftExecutes, RightExecutes
<1>2. to.in \in Word \cup {Nothing} /\ to.out \in Word \cup {Nothing}
  BY <1>1, RedirectedAsTyped DEF Young
<1>3. \A was : \A f \in Reopen(to.in, was) \cup Reopen(to.out, was) :
        f = "pipe" => was = "pipe"
  BY <1>2 DEF Reopen, Word, Nothing
<1>4. ASSUME NEW words, NEW in, NEW out, NEW ends, Executes(p, words, in, out, ends)
      PROVE  /\ procs'[p].role = procs[p].role
             /\ procs'[p].in = in /\ procs'[p].out = out /\ procs'[p].ends = ends
  BY <1>4 DEF Executes, Running, Types, Zombie
<1>5. procs'[p] # Zombie
  BY DEF Running, Zombie
<1> HIDE DEF to
<1>6. CASE ChildExecutes(p)
  <2>1. PICK in \in Reopen(to.in, "terminal"), out \in Reopen(to.out, "terminal") :
          Executes(p, to.argv, in, out, {})
    BY <1>5, <1>6 DEF ChildExecutes, Types, to
  <2>2. in # "pipe" /\ out # "pipe"
    BY <1>3
  <2> QED
    BY <1>4, <2>1, <2>2 DEF InUse
<1>7. CASE LeftExecutes(p)
  <2>1. PICK in \in Reopen(to.in, "terminal"), out \in Reopen(to.out, "pipe") :
          Executes(p, to.argv, in, out, IF out = "pipe" THEN {"w"} ELSE {})
    BY <1>7 DEF LeftExecutes, to
  <2>2. in # "pipe" /\ procs[p].role = "left"
    BY <1>3, <1>7 DEF LeftExecutes
  <2> QED
    BY <1>4, <2>1, <2>2 DEF InUse
<1>8. CASE RightExecutes(p)
  <2>1. PICK in \in Reopen(to.in, "pipe"), out \in Reopen(to.out, "terminal") :
          Executes(p, to.argv, in, out, IF in = "pipe" THEN {"r"} ELSE {})
    BY <1>8 DEF RightExecutes, to
  <2>2. out # "pipe" /\ procs[p].role = "right"
    BY <1>3, <1>8 DEF RightExecutes
  <2> QED
    BY <1>4, <2>1, <2>2 DEF InUse
<1> QED
  BY <1>6, <1>7, <1>8

LEMMA ChildKeepsUse ==
  ASSUME IInv, EndsInUse, NEW p \in Pids, ChildWorks(p)
  PROVE  EndsInUse'
<1> USE DEF IInv
<1>1. \A q \in Pids : q # p => procs'[q] = procs[q]
  BY DEF ChildWorks, ChildExecutes, LeftExecutes, RightExecutes, Executes, Reads,
         Writes, Ends, Types
<1>2. Running(p)' => InUse(procs[p])'
  <2>1. CASE ChildExecutes(p) \/ LeftExecutes(p) \/ RightExecutes(p)
    BY <2>1, ExecutesInUse
  <2>2. CASE Reads(p) \/ Writes(p) \/ Ends(p)
    <3>1. procs[p] \in Busy /\ Running(p)
      BY <2>2, States DEF Reads, Writes, Ends, Running
    <3>2. \/ procs' = [procs EXCEPT ![p] = Zombie]
          \/ \E r : procs' = [procs EXCEPT ![p].reads = r]
          \/ \E w : procs' = [procs EXCEPT ![p].writes = w]
      BY <2>2 DEF Reads, Writes, Ends
    <3>3. \/ procs'[p] = Zombie
          \/ /\ procs'[p].role = procs[p].role /\ procs'[p].in = procs[p].in
             /\ procs'[p].out = procs[p].out /\ procs'[p].ends = procs[p].ends
      BY <3>1, <3>2 DEF Busy, Types
    <3> QED
      BY <3>1, <3>3 DEF EndsInUse, InUse, Running, Zombie
  <2> QED
    BY <2>1, <2>2 DEF ChildWorks
<1> QED
  BY <1>1, <1>2 DEF EndsInUse, Running

LEMMA UseInvariant == Spec => [](IInv /\ EndsInUse)
<1>1. Init => EndsInUse
  BY DEF Init, EndsInUse, Running, Free
<1>2. IInv /\ EndsInUse /\ [Next]_vars => EndsInUse'
  <2> SUFFICES ASSUME IInv, EndsInUse, [Next]_vars PROVE EndsInUse'
    OBVIOUS
  <2>1. CASE (\E typed \in Typed : Type(typed)) \/ Exit \/ UNCHANGED vars
    BY <2>1 DEF Type, Exit, vars, EndsInUse, Running
  <2>2. CASE ShellWorks
    BY <2>2, ShellKeepsPrograms DEF EndsInUse
  <2>3. CASE \E p \in Pids : ChildWorks(p)
    BY <2>3, ChildKeepsUse
  <2>4. CASE Interrupt
    BY <2>4 DEF Interrupt, EndsInUse, Running, Zombie
  <2> QED
    BY <2>1, <2>2, <2>3, <2>4 DEF Next
<1> QED
  BY <1>1, <1>2, Invariant, PTL DEF Spec

(* Of a child and those its pipe connects, one can go on: a full pipe has a*)
(* reader that reads or has ended, an empty one a writer that writes or has*)
(* ended, for the shell has no end open when it waits.                     *)
LEMMA OneGoesOn ==
  ASSUME IInv, EndsInUse, shellEnds = {}, NEW p \in Pids, Live(p)
  PROVE  \E q \in {p} \cup Connected : GoesOn(q)
<1> USE DEF IInv
<1>1. pipe \in Nat /\ PipeCapacity \in Nat \ {0}
  BY LimitsAssumption DEF Types
<1>2. ASSUME NEW q \in Pids, Live(q), ~ GoesOn(q)
      PROVE  /\ Running(q) /\ InUse(procs[q])
             /\ \/ /\ procs[q].reads # "nothing" /\ procs[q].in = "pipe"
                   /\ pipe = 0 /\ Held("w")
                \/ /\ procs[q].reads = "nothing" /\ procs[q].out = "pipe"
                   /\ pipe >= PipeCapacity /\ Held("r")
  BY <1>1, <1>2 DEF GoesOn, MayRead, MayWrite, EndsInUse, Live, Running
<1>3. \A e \in {"r", "w"} : Held(e) => \E q \in Connected : e \in procs[q].ends
  BY DEF Held, Connected
<1>4. \A q \in Connected : q \in Pids /\ Live(q)
  BY DEF Connected
<1> SUFFICES ASSUME \A q \in {p} \cup Connected : ~ GoesOn(q) PROVE FALSE
  OBVIOUS
<1>5. CASE pipe = 0
  <2>1. Held("w")
    BY <1>1, <1>2, <1>5
  <2>2. PICK q \in Connected : "w" \in procs[q].ends
    BY <1>3, <2>1
  <2>3. procs[q].role = "left" /\ procs[q].in # "pipe"
    BY <1>2, <1>4, <2>2 DEF InUse
  <2> QED
    BY <1>1, <1>2, <1>4, <1>5, <2>3
<1>6. CASE pipe # 0
  <2>1. Held("r")
    BY <1>1, <1>2, <1>6
  <2>2. PICK q \in Connected : "r" \in procs[q].ends
    BY <1>3, <2>1
  <2>3. procs[q].role = "right" /\ procs[q].out # "pipe"
    BY <1>2, <1>4, <2>2 DEF InUse
  <2> QED
    BY <1>1, <1>2, <1>4, <1>6, <2>3
<1> QED
  BY <1>5, <1>6

(* However long the programs' work is and whatever fails: when the shell   *)
(* waits, a child it waits for has ended, or there is none, or one of those*)
(* it waits for can go on, or one its pipe connects.  A wait is endless    *)
(* only if a program is.                                                   *)
THEOREM NobodyEverStuck == Spec => []NobodyStuck
<1>1. IInv /\ EndsInUse => NobodyStuck
  <2> SUFFICES ASSUME IInv, EndsInUse, pc \in {"wait", "wait1", "wait2"}, ~ WaitIsOver
               PROVE  \E p \in Awaited \cup Connected : GoesOn(p)
    BY DEF NobodyStuck
  <2>1. Awaited \in SUBSET Children /\ Awaited # {}
    <3>1. CASE pc = "wait"
      <4>1. Awaited = Children
        BY <3>1 DEF Awaited
      <4>2. Cardinality(Children) # 0
        BY <3>1 DEF IInv, Balanced, Types
      <4> QED
        BY <4>1, <4>2, FS_EmptySet
    <3>2. CASE pc # "wait"
      BY <3>2 DEF WaitIsOver, Awaited
    <3> QED
      BY <3>1, <3>2
  <2>2. PICK p \in Awaited : p \in Pids /\ Live(p)
    BY <2>1, States DEF WaitIsOver, Children, Zombies, Live, IInv
  <2>3. shellEnds = {}
    BY DEF IInv, Plumbed
  <2> QED
    BY <2>2, <2>3, OneGoesOn
<1> QED
  BY <1>1, UseInvariant, PTL
=============================================================================

------------------------------- MODULE KVStore -------------------------------
(***************************************************************************)
(* key-value-store/spkvs.c: shells that keep key=value lines in store.txt. *)
(*                                                                         *)
(* A word of a command is a sequence of parts, the strings between its '=' *)
(* signs: "a" is <<"a">>, "a=b" is <<"a", "b">> and "=" is <<"", "">>.     *)
(* The line written for a key and a value is then their concatenation, and *)
(* strtok(line, "=") returns the parts that are not empty.  A part is a    *)
(* string, that is, a sequence of characters, of which a full disk may     *)
(* leave the beginning.                                                    *)
(*                                                                         *)
(* A step of a shell is one call that other shells or a crash can come     *)
(* between: fopen, the reading of the small file, the flush in fclose,     *)
(* remove, rename.  Files are inodes, so that a shell goes on using a file *)
(* that another one has removed or replaced.                               *)
(***************************************************************************)
EXTENDS Integers, Sequences, SequencesExt

CONSTANTS
  Shells,     (* the running copies of the program                         *)
  Commands,   (* what is typed: records [op, key, value]                   *)
  Cut,        (* long parts -> the two pieces the buffer of GET cuts it in *)
  Faults,     (* subset of {"kill", "disk"}                                *)
  MaxLines,   (* bound: no PUT or UPDATE is typed when store.txt is longer *)
  Junk        (* what an uninitialized buffer holds                        *)

NoFile == 0
Inodes == 1 .. 2 * Cardinality(Shells) + 2

Keys == {c.key : c \in Commands}
Words == Keys \cup {c.value : c \in Commands}

ASSUME ShellsAssumption == IsFiniteSet(Shells)

(* strtok(NULL, " ") returns no word without characters.                   *)
ASSUME CommandsAssumption ==
  /\ Commands # {}
  /\ \A c \in Commands :
       /\ c.op \in {"PUT", "GET", "DELETE", "UPDATE", "LIST"}
       /\ c.key \in Seq(STRING) /\ c.key # <<>> /\ c.key # <<"">>
       /\ c.value \in Seq(STRING)
       /\ c.op \in {"PUT", "UPDATE"} => c.value # <<>> /\ c.value # <<"">>

VARIABLES
  dir,     (* the inode of "store" and of "temp", or NoFile                *)
  data,    (* lines of every inode                                         *)
  ragged,  (* the inodes whose last line has no newline                    *)
  pc,      (* where each shell stands                                      *)
  cmd,     (* the command each shell executes or has executed last         *)
  from,    (* inode each shell has open as f or from                       *)
  to,      (* inode each shell has open as to                              *)
  buf,     (* lines each shell has written and not flushed                 *)
  answer,  (* what the last GET of each shell has shown: the key, and      *)
           (* main's buffer for the value                                  *)
  acked,   (* lines of the PUTs that have ended and were not deleted since *)
  disturbed  (* what has interfered so far: subset of Disturbances         *)

files == <<dir, data, ragged>>
history == <<acked, disturbed>>
vars == <<files, pc, cmd, from, to, buf, answer, history>>

Disturbances == {"kill", "disk", "words"}

-----------------------------------------------------------------------------
(* Lines.                                                                  *)

(* The elements of a sequence at some of its positions, in their order.    *)
Nth(positions, j) ==
  CHOOSE i \in positions : Cardinality({k \in positions : k <= i}) = j

Those(s, positions) ==
  [j \in 1 .. Cardinality(positions) |-> s[Nth(positions, j)]]

(* strtok(line, "=") and, after that, strtok(NULL, "=").                   *)
Tokens(line) == {i \in DOMAIN line : line[i] # ""}
Token(line, j) == line[Nth(Tokens(line), j)]

(* The first token is the key.                                             *)
HasKey(line, key) ==
  \E i \in DOMAIN line :
    key = <<line[i]>> /\ line[i] # "" /\ \A j \in 1 .. i - 1 : line[j] = ""

HasValue(line) == Cardinality(Tokens(line)) >= 2

ValueOf(line) == <<Token(line, 2)>>

(* A word without '=' that the buffer of handle_get holds.                 *)
Plain(w) == Len(w) = 1 /\ w[1] \notin DOMAIN Cut

(* What the fgets of handle_get, with its buffer of 512 characters, makes  *)
(* of a line that handle_put and handle_delete read in one piece.          *)
Chunks(line) ==
  LET long == {i \in DOMAIN line : line[i] \in DOMAIN Cut}
  IN  IF long = {} THEN <<line>>
      ELSE LET i == CHOOSE i \in long : \A j \in long : i <= j
           IN  << Append(SubSeq(line, 1, i - 1), Cut[line[i]][1]),
                  <<Cut[line[i]][2]>> \o SubSeq(line, i + 1, Len(line)) >>

(* What the loop of handle_get reads: each piece with its place.  Behind a *)
(* last line without a newline there is no empty piece.                    *)
GetReads(lines, cut) ==
  {r \in UNION {LET chunks == Chunks(lines[i])
                IN  {[line |-> i, part |-> k, piece |-> chunks[k]] :
                     k \in DOMAIN chunks} :
                i \in DOMAIN lines} :
     ~ (cut /\ r.line = Len(lines) /\ r.part = 2 /\ r.piece = <<"">>)}

NotAfter(r, q) == r.line < q.line \/ (r.line = q.line /\ r.part <= q.part)

(* What handle_delete leaves out.                                          *)
(* Faulty variant: the first line that is kept ends the copy.              *)
KeptUpToKey(lines, key) ==
  LET hits == {i \in DOMAIN lines : HasKey(lines[i], key)}
  IN  IF hits = {} THEN lines
      ELSE SubSeq(lines, 1, (CHOOSE i \in hits : TRUE) - 1)
Kept(lines, key) ==
  Those(lines,
    {i \in DOMAIN lines : ~ (HasKey(lines[i], key) /\ HasValue(lines[i]))})

(* What is in the file when lines are written behind old ones of which the *)
(* last has no newline.                                                    *)
Joined(old, new) ==
  Front(old)
    \o << Front(Last(old)) \o <<Last(Last(old)) \o Head(Head(new))>> \o Tail(Head(new)) >>
    \o Tail(new)

(* What a full disk leaves of a line: some of its characters, and no       *)
(* newline.                                                                *)
Starts(line) ==
  UNION {{Append(SubSeq(line, 1, k - 1), SubSeq(line[k], 1, n)) : n \in 0 .. Len(line[k])} :
         k \in DOMAIN line} \ {<<"">>}

(* What it leaves of several lines that are written at once.               *)
Cuts(lines) ==
  UNION {{[lines |-> SubSeq(lines, 1, n), ragged |-> FALSE]}
           \cup {[lines |-> Append(SubSeq(lines, 1, n), l), ragged |-> TRUE] :
                  l \in Starts(lines[n + 1])} :
         n \in 0 .. Len(lines) - 1}

-----------------------------------------------------------------------------
(* Files.                                                                  *)

Lines(n) == IF dir[n] = NoFile THEN <<>> ELSE data[dir[n]]

Open == {from[s] : s \in Shells} \cup {to[s] : s \in Shells}

FreeInode ==
  CHOOSE i \in Inodes :
    i \notin Open \cup {dir["store"], dir["temp"]}

(* fopen(n, "a+") and fopen(n, "w") create the file if it does not exist;  *)
(* "w" empties the one that does.  i is the inode the stream gets.         *)
OpenAppend(n, i) ==
  IF dir[n] # NoFile THEN i = dir[n] /\ UNCHANGED files
  ELSE /\ i = FreeInode
       /\ dir' = [dir EXCEPT ![n] = i]
       /\ data' = [data EXCEPT ![i] = <<>>]
       /\ ragged' = ragged \ {i}

OpenWrite(n, i) ==
  /\ i = IF dir[n] # NoFile THEN dir[n] ELSE FreeInode
  /\ dir' = [dir EXCEPT ![n] = i]
  /\ data' = [data EXCEPT ![i] = <<>>]
  /\ ragged' = ragged \ {i}

(* A stream opened with "a+" writes to the end of the file.                *)
AppendTo(i, lines) ==
  data' = [data EXCEPT ![i] = IF i \in ragged /\ lines # <<>>
                              THEN Joined(@, lines) ELSE @ \o lines]

(* A stream opened with "w" writes from the start of the file, over what   *)
(* another stream has written there since.                                 *)
WrittenOver(old, new) ==
  new \o SubSeq(old, Len(new) + 1, Len(old))

-----------------------------------------------------------------------------
Init ==
  /\ dir = [n \in {"store", "temp"} |-> NoFile]
  /\ data = [i \in Inodes |-> <<>>]
  /\ ragged = {}
  /\ pc = [s \in Shells |-> "prompt"]
  /\ cmd = [s \in Shells |-> CHOOSE c \in Commands : TRUE]
  /\ from = [s \in Shells |-> NoFile]
  /\ to = [s \in Shells |-> NoFile]
  /\ buf = [s \in Shells |-> <<>>]
  /\ answer = [s \in Shells |-> [key |-> Junk, value |-> Junk]]
  /\ acked = {}
  /\ disturbed = {}

At(s, l) == pc[s] = l
GoTo(s, l) == pc' = [pc EXCEPT ![s] = l]

Key(s) == cmd[s].key
Line(s) == cmd[s].key \o cmd[s].value

(* The command is read and dispatched.  From here on the user no longer    *)
(* counts on a line under a key that is to be deleted or updated.          *)
Type(s, c) ==
  /\ At(s, "prompt")
  /\ c.op \in {"PUT", "UPDATE"} => Len(Lines("store")) < MaxLines
  /\ cmd' = [cmd EXCEPT ![s] = c]
  /\ GoTo(s, CASE c.op = "PUT" -> "put_open"
               [] c.op = "GET" -> "get_open"
               [] c.op \in {"DELETE", "UPDATE"} -> "del_from"
               [] c.op = "LIST" -> "list")
  /\ acked' = IF c.op \in {"DELETE", "UPDATE"}
              THEN {l \in acked : ~ HasKey(l, c.key)} ELSE acked
  /\ disturbed' = IF Plain(c.key) /\ Plain(c.value) THEN disturbed
                  ELSE disturbed \cup {"words"}
  /\ UNCHANGED <<files, from, to, buf, answer>>

-----------------------------------------------------------------------------
(* handle_put.                                                             *)

PutOpen(s) ==
  /\ At(s, "put_open")
  /\ \E i \in Inodes :
       /\ OpenAppend("store", i)
       /\ from' = [from EXCEPT ![s] = i]
  /\ GoTo(s, "put_scan")
  /\ UNCHANGED <<cmd, to, buf, answer, history>>

Exists(s) == \E i \in DOMAIN data[from[s]] : HasKey(data[from[s]][i], Key(s))

(* "EXISITING key error!"                                                  *)
PutRejects(s) ==
  /\ At(s, "put_scan")
  /\ Exists(s)
  /\ from' = [from EXCEPT ![s] = NoFile]
  /\ GoTo(s, "prompt")
  /\ UNCHANGED <<files, cmd, to, buf, answer, history>>

(* fprintf fills the buffer and the success is announced.                  *)
(* Faulty variant: a blank line after every pair.                          *)
PutWritesBlank(s) ==
  /\ At(s, "put_scan")
  /\ ~ Exists(s)
  /\ buf' = [buf EXCEPT ![s] = <<Line(s), <<"">> >>]
  /\ GoTo(s, "put_close")
  /\ UNCHANGED <<files, cmd, from, to, answer, history>>
(* Faulty variant: the keys that are there are not looked at.              *)
PutWritesAnyway(s) ==
  /\ At(s, "put_scan")
  /\ buf' = [buf EXCEPT ![s] = <<Line(s)>>]
  /\ GoTo(s, "put_close")
  /\ UNCHANGED <<files, cmd, from, to, answer, history>>
PutWrites(s) ==
  /\ At(s, "put_scan")
  /\ ~ Exists(s)
  /\ buf' = [buf EXCEPT ![s] = <<Line(s)>>]
  /\ GoTo(s, "put_close")
  /\ UNCHANGED <<files, cmd, from, to, answer, history>>

(* fclose flushes to the end of the file.  Nobody looks whether it did.    *)
(* Bound: the disk fills up once.                                          *)
DiskFills ==
  /\ "disk" \in Faults \ disturbed
  /\ disturbed' = disturbed \cup {"disk"}

PutCloses(s) ==
  /\ At(s, "put_close")
  /\ \/ /\ AppendTo(from[s], buf[s])
        /\ ragged' = ragged \ {from[s]}
        /\ disturbed' = disturbed
     \/ /\ DiskFills
        /\ \E c \in Cuts(buf[s]) :
             /\ AppendTo(from[s], c.lines)
             /\ ragged' = IF c.ragged THEN ragged \cup {from[s]} ELSE ragged
  /\ acked' = acked \cup {Line(s)}
  /\ from' = [from EXCEPT ![s] = NoFile]
  /\ buf' = [buf EXCEPT ![s] = <<>>]
  /\ GoTo(s, "prompt")
  /\ UNCHANGED <<dir, cmd, to, answer>>

-----------------------------------------------------------------------------
(* handle_get.  main prints the key and its buffer, whatever became of the *)
(* search: after a miss the buffer still holds the value of an earlier GET. *)

ShowsStale(s) == answer' = [answer EXCEPT ![s].key = Key(s)]

GetOpen(s) ==
  /\ At(s, "get_open")
  /\ from' = [from EXCEPT ![s] = dir["store"]]
  /\ IF dir["store"] = NoFile
     THEN GoTo(s, "prompt") /\ ShowsStale(s)
     ELSE GoTo(s, "get_scan") /\ answer' = answer
  /\ UNCHANGED <<files, cmd, to, buf, history>>

(* The pieces of the file at which the loop of handle_get stops: one with  *)
(* the key, or one without a token, on which strcmp(NULL, key) faults.     *)
Stops(s) ==
  {r \in GetReads(data[from[s]], from[s] \in ragged) :
     HasKey(r.piece, Key(s)) \/ Tokens(r.piece) = {}}

FirstStop(s) ==
  LET stops == Stops(s)
  IN  (CHOOSE r \in stops : \A q \in stops : NotAfter(r, q)).piece

(* Faulty variant: the first line of the file is taken for a match.        *)
GetFindsAny(s) ==
  /\ At(s, "get_scan")
  /\ Stops(s) # {} /\ HasValue(data[from[s]][1])
  /\ answer' = [answer EXCEPT ![s] = [key |-> Key(s), value |-> ValueOf(data[from[s]][1])]]
  /\ from' = [from EXCEPT ![s] = NoFile]
  /\ GoTo(s, "prompt")
  /\ UNCHANGED <<files, cmd, to, buf, history>>
GetFinds(s) ==
  /\ At(s, "get_scan")
  /\ Stops(s) # {} /\ HasValue(FirstStop(s))
  /\ answer' = [answer EXCEPT ![s] = [key |-> Key(s), value |-> ValueOf(FirstStop(s))]]
  /\ from' = [from EXCEPT ![s] = NoFile]
  /\ GoTo(s, "prompt")
  /\ UNCHANGED <<files, cmd, to, buf, history>>

GetMisses(s) ==
  /\ At(s, "get_scan")
  /\ Stops(s) = {}
  /\ ShowsStale(s)
  /\ from' = [from EXCEPT ![s] = NoFile]
  /\ GoTo(s, "prompt")
  /\ UNCHANGED <<files, cmd, to, buf, history>>

(* The end of a process, by a fault or a signal.  What it has not flushed  *)
(* is lost; the files stay.                                                *)
Dies(s) ==
  /\ GoTo(s, "dead")
  /\ from' = [from EXCEPT ![s] = NoFile]
  /\ to' = [to EXCEPT ![s] = NoFile]
  /\ buf' = [buf EXCEPT ![s] = <<>>]
  /\ answer' = [answer EXCEPT ![s].value = Junk]
  /\ UNCHANGED <<files, cmd, acked>>

(* strcmp or strncpy is given NULL.                                        *)
GetFaults(s) ==
  /\ At(s, "get_scan")
  /\ Stops(s) # {} /\ ~ HasValue(FirstStop(s))
  /\ Dies(s)
  /\ disturbed' = disturbed

-----------------------------------------------------------------------------
(* handle_delete, and handle_update, which calls handle_put after it       *)
(* whatever became of the deletion.                                        *)

DeleteReturns(s) == GoTo(s, IF cmd[s].op = "UPDATE" THEN "put_open" ELSE "prompt")

DelOpenFrom(s) ==
  /\ At(s, "del_from")
  /\ from' = [from EXCEPT ![s] = dir["store"]]
  /\ GoTo(s, "del_to")
  /\ UNCHANGED <<files, cmd, to, buf, answer, history>>

(* temp.txt is emptied before the result of the first fopen is looked at;  *)
(* if that failed, handle_delete returns.                                  *)
DelOpenTo(s) ==
  /\ At(s, "del_to")
  /\ \E i \in Inodes :
       /\ OpenWrite("temp", i)
       /\ to' = [to EXCEPT ![s] = IF from[s] = NoFile THEN NoFile ELSE i]
  /\ IF from[s] = NoFile THEN DeleteReturns(s) ELSE GoTo(s, "del_copy")
  /\ UNCHANGED <<cmd, from, buf, answer, history>>

DelCopies(s) ==
  /\ At(s, "del_copy")
  /\ buf' = [buf EXCEPT ![s] = Kept(data[from[s]], Key(s))]
  /\ GoTo(s, "del_close")
  /\ UNCHANGED <<files, cmd, from, to, answer, history>>

(* Both streams are closed, which flushes temp.txt; a full disk leaves the *)
(* beginning of the text, and nobody looks.                                *)
DelCloses(s) ==
  /\ At(s, "del_close")
  /\ \/ /\ data' = [data EXCEPT ![to[s]] = WrittenOver(@, buf[s])]
        /\ UNCHANGED <<ragged, disturbed>>
     \/ /\ DiskFills
        /\ \E c \in Cuts(buf[s]) :
             /\ data' = [data EXCEPT ![to[s]] = WrittenOver(@, c.lines)]
             /\ ragged' = IF c.ragged THEN ragged \cup {to[s]} ELSE ragged
  /\ from' = [from EXCEPT ![s] = NoFile]
  /\ to' = [to EXCEPT ![s] = NoFile]
  /\ buf' = [buf EXCEPT ![s] = <<>>]
  /\ GoTo(s, "del_remove")
  /\ UNCHANGED <<dir, cmd, answer, acked>>

(* remove("store.txt"); the lines of a file that no shell has open are     *)
(* gone.  It fails if another shell has removed the file in the meantime.  *)
DelRemoves(s) ==
  /\ At(s, "del_remove")
  /\ IF dir["store"] # NoFile
     THEN /\ dir' = [dir EXCEPT !["store"] = NoFile]
          /\ ragged' = ragged
          /\ data' = IF dir["store"] \in Open THEN data
                     ELSE [data EXCEPT ![dir["store"]] = <<>>]
          /\ GoTo(s, "del_rename")
     ELSE /\ UNCHANGED files
          /\ DeleteReturns(s)
  /\ UNCHANGED <<cmd, from, to, buf, answer, history>>

(* Faulty variant: the file gets its new name and keeps the old one.       *)
DelLinks(s) ==
  /\ At(s, "del_rename")
  /\ dir' = IF dir["temp"] = NoFile THEN dir
            ELSE [dir EXCEPT !["store"] = dir["temp"]]
  /\ DeleteReturns(s)
  /\ UNCHANGED <<data, ragged, cmd, from, to, buf, answer, history>>
DelRenames(s) ==
  /\ At(s, "del_rename")
  /\ dir' = IF dir["temp"] = NoFile THEN dir
            ELSE [dir EXCEPT !["store"] = dir["temp"], !["temp"] = NoFile]
  /\ DeleteReturns(s)
  /\ UNCHANGED <<data, ragged, cmd, from, to, buf, answer, history>>

-----------------------------------------------------------------------------
(* handle_list reads a file that exists, and passes NULL to fgets if it    *)
(* does not.                                                               *)

ListPrints(s) ==
  /\ At(s, "list")
  /\ dir["store"] # NoFile
  /\ GoTo(s, "prompt")
  /\ UNCHANGED <<files, cmd, from, to, buf, answer, history>>

ListFaults(s) ==
  /\ At(s, "list")
  /\ dir["store"] = NoFile
  /\ Dies(s)
  /\ disturbed' = disturbed

(* The command exit.                                                       *)
Exits(s) ==
  /\ At(s, "prompt")
  /\ Dies(s)
  /\ disturbed' = disturbed

Killed(s) ==
  /\ "kill" \in Faults
  /\ pc[s] # "dead"
  /\ Dies(s)
  /\ disturbed' = disturbed \cup {"kill"}

(* The program is started again.                                           *)
Restart(s) ==
  /\ At(s, "dead")
  /\ GoTo(s, "prompt")
  /\ UNCHANGED <<files, cmd, from, to, buf, answer, history>>

-----------------------------------------------------------------------------
Put(s) == PutOpen(s) \/ PutRejects(s) \/ PutWrites(s) \/ PutCloses(s)

Get(s) == GetOpen(s) \/ GetFinds(s) \/ GetMisses(s) \/ GetFaults(s)

Delete(s) ==
  \/ DelOpenFrom(s) \/ DelOpenTo(s) \/ DelCopies(s) \/ DelCloses(s)
  \/ DelRemoves(s) \/ DelRenames(s)

List(s) == ListPrints(s) \/ ListFaults(s)

Executes(s) == Put(s) \/ Get(s) \/ Delete(s) \/ List(s)

Next ==
  \E s \in Shells :
    \/ \E c \in Commands : Type(s, c)
    \/ Executes(s)
    \/ Exits(s)
    \/ Killed(s)
    \/ Restart(s)

Spec == Init /\ [][Next]_vars

-----------------------------------------------------------------------------
(* Properties.                                                             *)

(* Every variable has a value the program's types allow: store.txt and     *)
(* temp.txt are two files, a shell that reads or is about to write has the *)
(* file open, and until a full disk has cut a write every line of every    *)
(* file is a key and a value that were typed.                              *)
TypeOK ==
  /\ dir \in [{"store", "temp"} -> Inodes \cup {NoFile}]
  /\ dir["store"] = dir["temp"] => dir["store"] = NoFile
  /\ ragged \subseteq Inodes
  /\ \A s \in Shells : cmd[s] \in Commands
  /\ "disk" \notin disturbed =>
       /\ ragged = {}
       /\ \A i \in Inodes : \A j \in DOMAIN data[i] :
            \E k \in Keys, w \in Words : data[i][j] = k \o w
  /\ pc \in [Shells -> {"prompt", "put_open", "put_scan", "put_close",
                        "get_open", "get_scan", "del_from", "del_to",
                        "del_copy", "del_close", "del_remove", "del_rename",
                        "list", "dead"}]
  /\ from \in [Shells -> Inodes \cup {NoFile}]
  /\ to \in [Shells -> Inodes \cup {NoFile}]
  /\ \A s \in Shells : pc[s] \in {"put_scan", "put_close", "get_scan", "del_copy"}
                         => from[s] # NoFile

(* README.md: "Duplicate keys are rejected."  No two lines of store.txt    *)
(* have one key, wherever the shell is killed, as long as no word with a   *)
(* '=' is typed (PUT a=b x is not seen as a second line for the key a) and *)
(* no full disk has cut a write: the 'a' that is left of aa=x is a line    *)
(* for the key a.                                                          *)
SameKey(l, m) == \E k \in Keys : HasKey(l, k) /\ HasKey(m, k)

UniqueKeys ==
  disturbed \subseteq {"kill"} =>
    \A i, j \in DOMAIN Lines("store") :
      SameKey(Lines("store")[i], Lines("store")[j]) => i = j

(* A pair whose PUT has ended is in one of the two files.                  *)
Held(l) == l \in ToSet(Lines("store")) \cup ToSet(Lines("temp"))

(* With one shell and a disk that takes what is written, the only step     *)
(* that can destroy the last copy of a pair somebody counts on is the      *)
(* emptying of temp.txt at the start of a later deletion: wherever the     *)
(* process is killed, store.txt or the complete temp.txt is still there.   *)
OnlyTruncationDestroysStep ==
  \A l \in acked \cap acked' :
    Held(l) /\ ~ Held(l)' =>
      "disk" \in disturbed \/ \E s \in Shells : At(s, "del_to")
OnlyTruncationDestroys == [][OnlyTruncationDestroysStep]_vars

(* GET calls strcmp and strncpy with what strtok has found, and looks at   *)
(* neither.  Where all words are plain both are there, whatever was put    *)
(* and deleted and wherever the shell was killed, unless a full disk has   *)
(* cut a write.                                                            *)
GetFindsTokens ==
  disturbed \subseteq {"kill"} =>
    \A s \in Shells :
      At(s, "get_scan") => Stops(s) = {} \/ HasValue(FirstStop(s))

(* spkvs.c:190: "Data is persistent between runs."  Whenever all shells    *)
(* are at their prompts or dead, every pair whose PUT has ended and which  *)
(* nobody has deleted since is in store.txt.                               *)
Durable ==
  (\A s \in Shells : pc[s] \in {"prompt", "dead"}) =>
    acked \subseteq ToSet(Lines("store"))

(* One shell with plain words is a dictionary until it is killed or the    *)
(* disk is full: what was put is what GET shows until it is deleted, and   *)
(* only then can the key be put again.  A GET of a key that is not there   *)
(* shows the value of the GET before.  While store.txt is being replaced,  *)
(* the dictionary is the finished temp.txt.                                *)
Me == CHOOSE s \in Shells : TRUE

Current ==
  {l \in ToSet(IF At(Me, "del_rename") THEN Lines("temp") ELSE Lines("store")) :
     HasValue(l)}

Dictionary ==
  [k \in {<<Token(l, 1)>> : l \in Current} |->
     ValueOf(CHOOSE l \in Current : HasKey(l, k))]

Map ==
  INSTANCE KVMap WITH
    Values <- {c.value : c \in Commands},
    Nothing <- Junk,
    map <- Dictionary,
    asked <- cmd[Me].key,
    got <- answer[Me],
    spoiled <- disturbed # {}
ImplementsMap == Map!MapSpec
=============================================================================

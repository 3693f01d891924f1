---------------------------- MODULE KVStore_proofs ----------------------------
(***************************************************************************)
(* Proofs about KVStore for any commands and kills: the types for any      *)
(* number of shells, the rest for one.  What is in the files is described  *)
(* until a full disk has cut a write.                                      *)
(***************************************************************************)
EXTENDS KVStore, FiniteSetTheorems, SequenceTheorems, TLAPS

-----------------------------------------------------------------------------
(* The elements of a sequence at some of its positions.                    *)

LEMMA NthCounts ==
  ASSUME NEW n \in Nat, NEW P \in SUBSET (1 .. n)
  PROVE  /\ Cardinality(P) \in Nat
         /\ \A j \in 1 .. Cardinality(P) : Nth(P, j) \in P
         /\ \A i \in P : \E j \in 1 .. Cardinality(P) : Nth(P, j) = i
         /\ \A j, k \in 1 .. Cardinality(P) : Nth(P, j) = Nth(P, k) => j = k
<1> DEFINE Upto(i) == {k \in P : k <= i}
           c == Cardinality(P)
           r == [i \in P |-> Cardinality(Upto(i))]
<1>1. IsFiniteSet(P) /\ c \in Nat
  <2>1. IsFiniteSet(1 .. n)
    BY FS_Interval
  <2> QED
    BY <2>1, FS_Subset, FS_CardinalityType
<1>2. ASSUME NEW i \in P
      PROVE  /\ IsFiniteSet(Upto(i)) /\ Cardinality(Upto(i)) \in 1 .. c
             /\ i \in Upto(i)
  <2>1. Upto(i) \in SUBSET P /\ i \in Upto(i)
    OBVIOUS
  <2>2. IsFiniteSet(Upto(i)) /\ Cardinality(Upto(i)) <= c
    BY <1>1, <2>1, FS_Subset
  <2>3. Cardinality(Upto(i)) \in Nat /\ Cardinality(Upto(i)) # 0
    BY <2>1, <2>2, FS_CardinalityType, FS_EmptySet
  <2> QED
    BY <1>1, <2>1, <2>2, <2>3
<1>3. ASSUME NEW i \in P, NEW k \in P, i < k PROVE r[i] # r[k]
  <2>1. Upto(i) \in SUBSET Upto(k) /\ k \notin Upto(i) /\ k \in Upto(k)
    <3>1. i \in Nat /\ k \in Nat /\ \A l \in P : l \in Nat
      OBVIOUS
    <3>2. (\A l \in P : l <= i => l <= k) /\ ~ (k <= i) /\ k <= k
      BY <1>3, <3>1
    <3> QED
      BY <3>2
  <2>2. Cardinality(Upto(i)) # Cardinality(Upto(k))
    BY <1>2, <2>1, FS_Subset
  <2> QED
    BY <2>2
<1>4. \A i, k \in P : r[i] = r[k] => i = k
  BY <1>3
<1>5. r \in [P -> 1 .. c]
  BY <1>2
<1> HIDE DEF r, c
<1>6. r \in Injection(P, 1 .. c)
  BY <1>4, <1>5 DEF Injection, IsInjective
<1>7. IsFiniteSet(1 .. c) /\ Cardinality(1 .. c) = c
  BY <1>1, FS_Interval
<1>8. r \in Surjection(P, 1 .. c)
  BY <1>6, <1>7, FS_Injection DEF c
<1>9. \A j \in 1 .. c : \E i \in P : r[i] = j
  BY <1>8 DEF Surjection
<1>10. \A j \in 1 .. c : Nth(P, j) \in P /\ r[Nth(P, j)] = j
  <2>1. \A j : Nth(P, j) = CHOOSE i \in P : r[i] = j
    BY DEF Nth, r
  <2> QED
    BY <1>9, <2>1
<1>11. \A i \in P : Nth(P, r[i]) = i
  BY <1>4, <1>5, <1>10
<1> QED
  BY <1>1, <1>5, <1>10, <1>11 DEF c

LEMMA ThoseAre ==
  ASSUME NEW S, NEW s \in Seq(S), NEW P \in SUBSET (1 .. Len(s))
  PROVE  /\ Those(s, P) \in Seq(S) /\ Len(Those(s, P)) \in Nat
         /\ \A j \in 1 .. Len(Those(s, P)) :
              Nth(P, j) \in P /\ Those(s, P)[j] = s[Nth(P, j)]
         /\ \A i \in P : \E j \in 1 .. Len(Those(s, P)) : Those(s, P)[j] = s[i]
         /\ \A j, k \in 1 .. Len(Those(s, P)) : Nth(P, j) = Nth(P, k) => j = k
<1>1. Len(s) \in Nat /\ s \in [1 .. Len(s) -> S]
  OBVIOUS
<1>2. /\ Cardinality(P) \in Nat
      /\ \A j \in 1 .. Cardinality(P) : Nth(P, j) \in P
      /\ \A i \in P : \E j \in 1 .. Cardinality(P) : Nth(P, j) = i
      /\ \A j, k \in 1 .. Cardinality(P) : Nth(P, j) = Nth(P, k) => j = k
  BY <1>1, NthCounts
<1> DEFINE c == Cardinality(P)
           f == [j \in 1 .. c |-> s[Nth(P, j)]]
<1>3. f = Those(s, P)
  BY DEF Those
<1>4. c \in Nat /\ f \in [1 .. c -> S]
  BY <1>1, <1>2
<1>5. \A j \in 1 .. c : f[j] = s[Nth(P, j)]
  OBVIOUS
<1>6. f \in Seq(S) /\ Len(f) = c
  <2> HIDE DEF f, c
  <2>1. f \in Seq(S)
    BY <1>4, SeqDef
  <2>2. DOMAIN f = 1 .. c /\ DOMAIN f = 1 .. Len(f) /\ Len(f) \in Nat
    BY <1>4, <2>1
  <2> QED
    BY <1>4, <2>1, <2>2
<1> HIDE DEF f
<1> QED
  BY <1>2, <1>3, <1>5, <1>6

-----------------------------------------------------------------------------
(* Types, for any number of shells.                                        *)

Line2 == {k \o w : k \in Keys, w \in Words}
File == Inodes \cup {NoFile}

(* The names and the streams, whatever is in the files.                    *)
Control ==
  /\ dir \in [{"store", "temp"} -> File]
  /\ dir["store"] = dir["temp"] => dir["store"] = NoFile
  /\ ragged \subseteq Inodes
  /\ pc \in [Shells -> {"prompt", "put_open", "put_scan", "put_close",
                        "get_open", "get_scan", "del_from", "del_to",
                        "del_copy", "del_close", "del_remove", "del_rename",
                        "list", "dead"}]
  /\ cmd \in [Shells -> Commands]
  /\ from \in [Shells -> File] /\ to \in [Shells -> File]
  /\ disturbed \in SUBSET Disturbances
  /\ \A s \in Shells :
       /\ pc[s] \in {"put_scan", "put_close", "get_scan", "del_copy", "del_close"}
            => from[s] # NoFile
       /\ pc[s] \in {"del_copy", "del_close"} => to[s] # NoFile
       /\ pc[s] \in {"put_open", "put_scan", "put_close"}
            => cmd[s].op \in {"PUT", "UPDATE"}

(* What is in the files and in the buffers.                                *)
Contents ==
  /\ data \in [Inodes -> Seq(Line2)]
  /\ buf \in [Shells -> Seq(Line2)]
  /\ ragged = {}

Types == Control /\ Contents

(* Until a full disk has cut a write.                                      *)
DiskTakesAll == "disk" \notin disturbed

LEMMA LineTyped ==
  ASSUME Control, NEW s \in Shells
  PROVE  Line(s) \in Line2
<1>1. cmd[s].key \in Keys /\ cmd[s].value \in Words
  BY DEF Control, Keys, Words
<1>2. \A k \in Keys, w \in Words : k \o w \in Line2
  BY DEF Line2
<1> QED
  BY <1>1, <1>2 DEF Line

(* A file that is created gets an inode nobody uses.                       *)
LEMMA FreeInodeIsFree ==
  ASSUME Control, NEW n \in {"store", "temp"}, dir[n] = NoFile
  PROVE  FreeInode \in Inodes \ (Open \cup {dir["store"], dir["temp"]})
<1> DEFINE N == Cardinality(Shells)
           F == {from[s] : s \in Shells}
           T == {to[s] : s \in Shells}
<1>1. N \in Nat
  BY ShellsAssumption, FS_CardinalityType
<1>2. IsFiniteSet(F) /\ Cardinality(F) \in Nat /\ Cardinality(F) <= N
  <2>1. from \in Surjection(Shells, F)
    BY DEF Surjection, Control
  <2> QED
    BY <2>1, ShellsAssumption, FS_Surjection, FS_CardinalityType
<1>3. IsFiniteSet(T) /\ Cardinality(T) \in Nat /\ Cardinality(T) <= N
  <2>1. to \in Surjection(Shells, T)
    BY DEF Surjection, Control
  <2> QED
    BY <2>1, ShellsAssumption, FS_Surjection, FS_CardinalityType
<1> HIDE DEF F, T, N
<1>4. /\ IsFiniteSet(F \cup T) /\ Cardinality(F \cup T) \in Nat
      /\ Cardinality(F \cup T) <= 2 * N
  <2>1. IsFiniteSet(F \cap T) /\ Cardinality(F \cap T) \in Nat
    BY <1>2, FS_Subset, FS_CardinalityType
  <2>2. /\ IsFiniteSet(F \cup T)
        /\ Cardinality(F \cup T) = Cardinality(F) + Cardinality(T) - Cardinality(F \cap T)
    BY <1>2, <1>3, FS_Union
  <2>3. Cardinality(F \cup T) \in Nat
    BY <2>2, FS_CardinalityType
  <2> QED
    BY <1>1, <1>2, <1>3, <2>1, <2>2, <2>3
<1>5. PICK d : {dir["store"], dir["temp"]} \subseteq {NoFile, d}
  BY DEF Control
<1>6. /\ IsFiniteSet(F \cup T \cup {d})
      /\ Cardinality(F \cup T \cup {d}) \in Nat
      /\ Cardinality(F \cup T \cup {d}) <= 2 * N + 1
  <2>1. /\ IsFiniteSet(F \cup T \cup {d})
        /\ Cardinality(F \cup T \cup {d}) \in {Cardinality(F \cup T), Cardinality(F \cup T) + 1}
    BY <1>4, FS_AddElement
  <2> QED
    BY <1>1, <1>4, <2>1
<1>7. Cardinality(Inodes) = 2 * N + 2
  BY <1>1, FS_Interval DEF Inodes, N
<1>8. ~ (Inodes \subseteq F \cup T \cup {d})
  BY <1>1, <1>6, <1>7, FS_Subset
<1>9. PICK i \in Inodes : i \notin F \cup T \cup {d}
  BY <1>8
<1>10. i # NoFile
  BY <1>1 DEF Inodes, NoFile, N
<1>11. i \notin Open \cup {dir["store"], dir["temp"]}
  BY <1>5, <1>9, <1>10 DEF Open, F, T
<1> QED
  BY <1>11 DEF FreeInode

LEMMA NoFileIsNoInode == NoFile \notin Inodes
<1>1. Cardinality(Shells) \in Nat
  BY ShellsAssumption, FS_CardinalityType
<1> QED
  BY <1>1 DEF NoFile, Inodes

LEMMA EmptyFile == <<>> \in Seq(Line2)
OBVIOUS

LEMMA AppendsTo ==
  ASSUME Control, NEW i \in Inodes, OpenAppend("store", i)
  PROVE  /\ dir' \in [{"store", "temp"} -> File] /\ ragged' \subseteq ragged
         /\ dir'["store"] = i /\ dir'["temp"] = dir["temp"] /\ dir'["temp"] # i
         /\ Contents =>
              /\ data' \in [Inodes -> Seq(Line2)]
              /\ \A j \in Inodes : j # i => data'[j] = data[j]
              /\ IF dir["store"] = NoFile THEN data'[i] = <<>>
                 ELSE data'[i] = data[i] /\ i = dir["store"]
<1>1. CASE dir["store"] # NoFile
  <2>1. i = dir["store"] /\ UNCHANGED <<dir, data, ragged>>
    BY <1>1 DEF OpenAppend, files
  <2> QED
    BY <1>1, <2>1 DEF Control, Contents
<1>2. CASE dir["store"] = NoFile
  <2>1. i = FreeInode /\ dir' = [dir EXCEPT !["store"] = i]
        /\ data' = [data EXCEPT ![i] = <<>>] /\ ragged' = ragged \ {i}
    BY <1>2 DEF OpenAppend
  <2>2. i # dir["temp"]
    BY <1>2, <2>1, FreeInodeIsFree
  <2>3. Contents =>
          /\ data' \in [Inodes -> Seq(Line2)] /\ data'[i] = <<>>
          /\ \A j \in Inodes : j # i => data'[j] = data[j]
    BY <2>1, EmptyFile DEF Contents
  <2> QED
    BY <1>2, <2>1, <2>2, <2>3 DEF Control, File
<1> QED
  BY <1>1, <1>2

LEMMA Truncates ==
  ASSUME Control, NEW i \in Inodes, OpenWrite("temp", i)
  PROVE  /\ dir' \in [{"store", "temp"} -> File] /\ ragged' \subseteq ragged
         /\ dir'["temp"] = i /\ dir'["store"] = dir["store"] /\ dir'["store"] # i
         /\ Contents =>
              /\ data' \in [Inodes -> Seq(Line2)]
              /\ \A j \in Inodes : j # i => data'[j] = data[j]
              /\ data'[i] = <<>>
<1>1. /\ dir' = [dir EXCEPT !["temp"] = i] /\ data' = [data EXCEPT ![i] = <<>>]
      /\ ragged' = ragged \ {i}
  BY DEF OpenWrite
<1>2. i # dir["store"]
  BY FreeInodeIsFree, NoFileIsNoInode DEF OpenWrite, Control
<1>3. Contents =>
        /\ data' \in [Inodes -> Seq(Line2)] /\ data'[i] = <<>>
        /\ \A j \in Inodes : j # i => data'[j] = data[j]
  BY <1>1, EmptyFile DEF Contents
<1> QED
  BY <1>1, <1>2, <1>3 DEF Control, File

(* A full disk shows.                                                      *)
LEMMA FillsShows == ASSUME Control, DiskFills PROVE ~ DiskTakesAll'
BY DEF DiskFills, Control, DiskTakesAll

LEMMA KeptTyped ==
  ASSUME NEW lines \in Seq(Line2), NEW key
  PROVE  Kept(lines, key) \in Seq(Line2)
BY ThoseAre DEF Kept

LEMMA PutControl == ASSUME Control, NEW s \in Shells, Put(s) PROVE Control'
<1> USE DEF history, GoTo, At
<1>1. CASE PutOpen(s)
  <2>1. PICK i \in Inodes : OpenAppend("store", i) /\ from' = [from EXCEPT ![s] = i]
    BY <1>1 DEF PutOpen
  <2> QED
    BY <1>1, <2>1, AppendsTo, NoFileIsNoInode DEF PutOpen, Control, File
<1>2. CASE PutRejects(s)
  BY <1>2 DEF PutRejects, Control, File, files
<1>3. CASE PutWrites(s)
  BY <1>3 DEF PutWrites, Control, files
<1>4. CASE PutCloses(s)
  <2>1. from[s] \in Inodes
    BY <1>4 DEF PutCloses, Control, File
  <2>2. ragged' \subseteq Inodes
    BY <1>4, <2>1 DEF PutCloses, Control
  <2>3. disturbed' \in SUBSET Disturbances
    BY <1>4 DEF PutCloses, DiskFills, Control, Disturbances
  <2> QED
    BY <1>4, <2>2, <2>3 DEF PutCloses, Control, File
<1> QED
  BY <1>1, <1>2, <1>3, <1>4 DEF Put

LEMMA PutContents ==
  ASSUME Types, NEW s \in Shells, Put(s), DiskTakesAll'
  PROVE  Contents'
<1> USE DEF history, Types
<1>1. CASE PutOpen(s)
  <2>1. PICK i \in Inodes : OpenAppend("store", i)
    BY <1>1 DEF PutOpen
  <2> QED
    BY <1>1, <2>1, AppendsTo DEF PutOpen, Contents
<1>2. CASE PutRejects(s)
  BY <1>2 DEF PutRejects, Contents, files
<1>3. CASE PutWrites(s)
  <2>1. <<Line(s)>> \in Seq(Line2)
    BY LineTyped
  <2> QED
    BY <1>3, <2>1 DEF PutWrites, Contents, files
<1>4. CASE PutCloses(s)
  <2>1. from[s] \in Inodes
    BY <1>4 DEF PutCloses, Control, File, At
  <2>2. AppendTo(from[s], buf[s]) /\ ragged' = ragged \ {from[s]}
    BY <1>4, FillsShows DEF PutCloses
  <2>3. data' = [data EXCEPT ![from[s]] = @ \o buf[s]] /\ ragged' = {}
    BY <2>1, <2>2 DEF AppendTo, Contents
  <2>4. data[from[s]] \o buf[s] \in Seq(Line2)
    BY <2>1 DEF Contents
  <2>5. data' \in [Inodes -> Seq(Line2)]
    BY <2>3, <2>4 DEF Contents
  <2> QED
    BY <1>4, <2>3, <2>5, EmptyFile DEF PutCloses, Contents
<1> QED
  BY <1>1, <1>2, <1>3, <1>4 DEF Put

LEMMA DiesTypes ==
  ASSUME Control, NEW s \in Shells, Dies(s), disturbed' \in SUBSET Disturbances
  PROVE  Control' /\ (Contents => Contents')
BY EmptyFile DEF Dies, GoTo, files, Control, Contents, File

LEMMA GetTypes ==
  ASSUME Control, NEW s \in Shells, Get(s) \/ List(s)
  PROVE  Control' /\ (Contents => Contents')
<1> USE DEF history, GoTo, At
<1>1. CASE GetOpen(s)
  BY <1>1 DEF GetOpen, Control, Contents, files
<1>2. CASE GetFinds(s) \/ GetMisses(s)
  BY <1>2 DEF GetFinds, GetMisses, Control, Contents, File, files
<1>3. CASE GetFaults(s) \/ ListFaults(s)
  BY <1>3, DiesTypes DEF GetFaults, ListFaults, Control
<1>4. CASE ListPrints(s)
  BY <1>4 DEF ListPrints, Control, Contents, files
<1> QED
  BY <1>1, <1>2, <1>3, <1>4 DEF Get, List

LEMMA WrittenOverTyped ==
  ASSUME NEW old \in Seq(Line2), NEW new \in Seq(Line2)
  PROVE  /\ WrittenOver(old, new) \in Seq(Line2)
         /\ old = <<>> => WrittenOver(old, new) = new
<1>1. Len(new) \in Nat /\ Len(old) \in Nat
  OBVIOUS
<1>2. SubSeq(old, Len(new) + 1, Len(old)) \in Seq(Line2)
  BY <1>1
<1>3. old = <<>> => SubSeq(old, Len(new) + 1, Len(old)) = <<>>
  BY <1>1, SubSeqEmpty
<1> QED
  BY <1>2, <1>3, ConcatEmptySeq DEF WrittenOver

LEMMA DeleteControl == ASSUME Control, NEW s \in Shells, Delete(s) PROVE Control'
<1> USE DEF history, GoTo, At
<1>0. ASSUME NEW p, p = IF cmd[s].op = "UPDATE" THEN "put_open" ELSE "prompt"
      PROVE  /\ p \in {"put_open", "prompt"}
             /\ p = "put_open" => cmd[s].op \in {"PUT", "UPDATE"}
  BY <1>0
<1>1. CASE DelOpenFrom(s)
  BY <1>1 DEF DelOpenFrom, Control, files
<1>2. CASE DelOpenTo(s)
  <2>1. PICK i \in Inodes :
          /\ OpenWrite("temp", i)
          /\ to' = [to EXCEPT ![s] = IF from[s] = NoFile THEN NoFile ELSE i]
    BY <1>2 DEF DelOpenTo
  <2>2. /\ dir' \in [{"store", "temp"} -> File] /\ ragged' \subseteq Inodes
        /\ dir'["store"] # dir'["temp"]
    BY <2>1, Truncates DEF Control
  <2>3. UNCHANGED <<cmd, from, disturbed>>
    BY <1>2 DEF DelOpenTo
  <2>4. /\ pc' = [pc EXCEPT ![s] = pc'[s]] /\ pc'[s] \in {"put_open", "prompt", "del_copy"}
        /\ pc'[s] = "del_copy" => from[s] # NoFile
        /\ pc'[s] = "put_open" => cmd[s].op \in {"PUT", "UPDATE"}
    BY <1>2 DEF DelOpenTo, DeleteReturns, Control
  <2>5. to' \in [Shells -> File] /\ (from[s] # NoFile => to'[s] # NoFile)
    BY <2>1, NoFileIsNoInode DEF Control, File
  <2> QED
    BY <2>1, <2>2, <2>3, <2>4, <2>5 DEF Control
<1>3. CASE DelCopies(s)
  BY <1>3 DEF DelCopies, Control, files
<1>4. CASE DelCloses(s)
  <2>1. to[s] \in Inodes
    BY <1>4 DEF DelCloses, Control, File
  <2>2. ragged' \subseteq Inodes
    BY <1>4, <2>1 DEF DelCloses, Control
  <2>3. disturbed' \in SUBSET Disturbances
    BY <1>4 DEF DelCloses, DiskFills, Control, Disturbances
  <2> QED
    BY <1>4, <2>2, <2>3 DEF DelCloses, Control, File
<1>5. CASE DelRemoves(s)
  <2>1. /\ dir' \in [{"store", "temp"} -> File] /\ ragged' = ragged
        /\ dir'["store"] = dir'["temp"] => dir'["store"] = NoFile
    BY <1>5 DEF DelRemoves, Control, File, files
  <2>2. /\ pc' = [pc EXCEPT ![s] = pc'[s]] /\ pc'[s] \in {"put_open", "prompt", "del_rename"}
        /\ pc'[s] = "put_open" => cmd[s].op \in {"PUT", "UPDATE"}
    BY <1>5 DEF DelRemoves, DeleteReturns, Control
  <2>3. UNCHANGED <<cmd, from, to, disturbed>>
    BY <1>5 DEF DelRemoves
  <2> QED
    BY <2>1, <2>2, <2>3 DEF Control
<1>6. CASE DelRenames(s)
  BY <1>6 DEF DelRenames, DeleteReturns, Control, File
<1> QED
  BY <1>1, <1>2, <1>3, <1>4, <1>5, <1>6 DEF Delete

LEMMA DeleteContents ==
  ASSUME Types, NEW s \in Shells, Delete(s), DiskTakesAll'
  PROVE  Contents'
<1> USE DEF history, Types
<1>1. CASE DelOpenFrom(s)
  BY <1>1 DEF DelOpenFrom, Contents, files
<1>2. CASE DelOpenTo(s)
  <2>1. PICK i \in Inodes : OpenWrite("temp", i)
    BY <1>2 DEF DelOpenTo
  <2> QED
    BY <1>2, <2>1, Truncates DEF DelOpenTo, Contents
<1>3. CASE DelCopies(s)
  <2>1. from[s] \in Inodes
    BY <1>3 DEF DelCopies, Control, File, At
  <2>2. Kept(data[from[s]], Key(s)) \in Seq(Line2)
    BY <2>1, KeptTyped DEF Contents
  <2> QED
    BY <1>3, <2>2 DEF DelCopies, Contents, files
<1>4. CASE DelCloses(s)
  <2>1. /\ data' = [data EXCEPT ![to[s]] = WrittenOver(@, buf[s])] /\ ragged' = ragged
        /\ to[s] \in Inodes
    BY <1>4, FillsShows DEF DelCloses, Control, File, At
  <2>2. data' \in [Inodes -> Seq(Line2)]
    BY <2>1, WrittenOverTyped DEF Contents
  <2> QED
    BY <1>4, <2>1, <2>2, EmptyFile DEF DelCloses, Contents
<1>5. CASE DelRemoves(s)
  BY <1>5, EmptyFile DEF DelRemoves, Contents, files
<1>6. CASE DelRenames(s)
  BY <1>6 DEF DelRenames, Contents
<1> QED
  BY <1>1, <1>2, <1>3, <1>4, <1>5, <1>6 DEF Delete

LEMMA ControlStep == Control /\ [Next]_vars => Control'
<1> SUFFICES ASSUME Control, [Next]_vars PROVE Control'
  OBVIOUS
<1>1. ASSUME NEW s \in Shells, NEW c \in Commands, Type(s, c) PROVE Control'
  <2>1. disturbed' \in SUBSET Disturbances
    BY <1>1 DEF Type, Control, Disturbances
  <2> QED
    BY <1>1, <2>1, CommandsAssumption DEF Type, GoTo, At, files, Control
<1>2. ASSUME NEW s \in Shells, Executes(s) PROVE Control'
  BY <1>2, PutControl, GetTypes, DeleteControl DEF Executes
<1>3. ASSUME NEW s \in Shells, Killed(s) \/ Exits(s) PROVE Control'
  BY <1>3, DiesTypes DEF Killed, Exits, Control, Disturbances
<1>4. ASSUME NEW s \in Shells, Restart(s) PROVE Control'
  BY <1>4 DEF Restart, GoTo, files, history, Control
<1>5. CASE UNCHANGED vars
  BY <1>5 DEF vars, files, history, Control
<1> QED
  BY <1>1, <1>2, <1>3, <1>4, <1>5 DEF Next

LEMMA ContentsStep == Types /\ [Next]_vars /\ DiskTakesAll' => Contents'
<1> SUFFICES ASSUME Types, [Next]_vars, DiskTakesAll' PROVE Contents'
  OBVIOUS
<1>1. ASSUME NEW s \in Shells, NEW c \in Commands, Type(s, c) PROVE Contents'
  BY <1>1 DEF Type, files, Types, Contents
<1>2. ASSUME NEW s \in Shells, Executes(s) PROVE Contents'
  BY <1>2, PutContents, GetTypes, DeleteContents DEF Executes, Types
<1>3. ASSUME NEW s \in Shells, Killed(s) \/ Exits(s) PROVE Contents'
  BY <1>3, DiesTypes DEF Killed, Exits, Types, Control, Disturbances
<1>4. ASSUME NEW s \in Shells, Restart(s) PROVE Contents'
  BY <1>4 DEF Restart, files, Types, Contents
<1>5. CASE UNCHANGED vars
  BY <1>5 DEF vars, files, Types, Contents
<1> QED
  BY <1>1, <1>2, <1>3, <1>4, <1>5 DEF Next

(* What has interfered stays on record.                                    *)
LEMMA InterferenceStays ==
  ASSUME [Next]_vars
  PROVE  disturbed \subseteq disturbed'
BY DEF Next, Type, Executes, Put, PutOpen, PutRejects, PutWrites, PutCloses, DiskFills,
       Get, GetOpen, GetFinds, GetMisses, GetFaults, List, ListPrints, ListFaults,
       Delete, DelOpenFrom, DelOpenTo, DelCopies, DelCloses, DelRemoves, DelRenames,
       Exits, Killed, Restart, vars, history

(* The files and the streams of the shells stay as fopen, remove and       *)
(* rename leave them, whatever is killed and whatever fails; and until a   *)
(* full disk has cut a write the files hold lines that were typed.         *)
THEOREM TypesInvariant == Spec => [](Control /\ (DiskTakesAll => Contents))
<1>1. ASSUME Init PROVE Control /\ Contents
  <2>1. dir \in [{"store", "temp"} -> File] /\ dir["store"] = NoFile
    BY <1>1 DEF Init, File
  <2>2. data \in [Inodes -> Seq(Line2)] /\ buf \in [Shells -> Seq(Line2)] /\ ragged = {}
    BY <1>1, EmptyFile DEF Init
  <2>3. cmd \in [Shells -> Commands]
    <3>1. (CHOOSE c \in Commands : TRUE) \in Commands
      BY CommandsAssumption
    <3> QED
      BY <1>1, <3>1 DEF Init
  <2>4. from \in [Shells -> File] /\ to \in [Shells -> File]
    BY <1>1 DEF Init, File
  <2>5. pc = [s \in Shells |-> "prompt"] /\ disturbed = {}
    BY <1>1 DEF Init
  <2> QED
    BY <2>1, <2>2, <2>3, <2>4, <2>5 DEF Control, Contents
<1>2. ASSUME Control, DiskTakesAll => Contents, [Next]_vars
      PROVE  Control' /\ (DiskTakesAll' => Contents')
  <2>1. DiskTakesAll' => DiskTakesAll
    BY <1>2, InterferenceStays DEF DiskTakesAll
  <2> QED
    BY <1>2, <2>1, ControlStep, ContentsStep DEF Types
<1> QED
  BY <1>1, <1>2, PTL DEF Spec

(* Every variable has a value the program's types allow: store.txt and     *)
(* temp.txt are two files, a shell that reads or is about to write has the *)
(* file open, and until a full disk has cut a write every line of every    *)
(* file is a key and a value that were typed.                              *)
THEOREM TypeCorrect == Spec => []TypeOK
<1>1. ASSUME Control, DiskTakesAll => Contents PROVE TypeOK
  <2>1. ASSUME DiskTakesAll, NEW i \in Inodes, NEW j \in DOMAIN data[i]
        PROVE  \E k \in Keys, w \in Words : data[i][j] = k \o w
    <3>1. data[i] \in Seq(Line2)
      BY <1>1, <2>1 DEF Contents
    <3>2. data[i][j] \in Line2
      BY <3>1
    <3> QED
      BY <3>2 DEF Line2
  <2>2. \A s \in Shells : cmd[s] \in Commands
    BY <1>1 DEF Control
  <2>3. DiskTakesAll => ragged = {}
    BY <1>1 DEF Contents
  <2> QED
    BY <1>1, <2>1, <2>2, <2>3 DEF Control, TypeOK, File, DiskTakesAll
<1> QED
  BY <1>1, TypesInvariant, PTL

-----------------------------------------------------------------------------
(* Lines and their keys.                                                   *)

Distinct(ls) == \A i, j \in DOMAIN ls : SameKey(ls[i], ls[j]) => i = j

LEMMA KeptLines ==
  ASSUME NEW lines \in Seq(Line2), NEW key
  PROVE  /\ \A l \in ToSet(lines) : ~ HasKey(l, key) => l \in ToSet(Kept(lines, key))
         /\ Distinct(lines) => Distinct(Kept(lines, key))
<1> DEFINE P == {i \in DOMAIN lines : ~ (HasKey(lines[i], key) /\ HasValue(lines[i]))}
           kept == Those(lines, P)
<1>1. P \in SUBSET (1 .. Len(lines)) /\ DOMAIN lines = 1 .. Len(lines)
  OBVIOUS
<1>2. /\ kept \in Seq(Line2) /\ Len(kept) \in Nat
      /\ \A j \in 1 .. Len(kept) : Nth(P, j) \in P /\ kept[j] = lines[Nth(P, j)]
      /\ \A i \in P : \E j \in 1 .. Len(kept) : kept[j] = lines[i]
      /\ \A j, k \in 1 .. Len(kept) : Nth(P, j) = Nth(P, k) => j = k
  BY <1>1, ThoseAre
<1>3. kept = Kept(lines, key)
  BY DEF Kept
<1>4. \A i \in DOMAIN lines : ~ HasKey(lines[i], key) => i \in P
  OBVIOUS
<1>5. P \subseteq DOMAIN lines
  OBVIOUS
<1> HIDE DEF P, kept
<1>6. DOMAIN kept = 1 .. Len(kept)
  BY <1>2
<1>7. ASSUME NEW l \in ToSet(lines), ~ HasKey(l, key) PROVE l \in ToSet(kept)
  <2>1. PICK i \in DOMAIN lines : lines[i] = l
    BY DEF ToSet
  <2>2. PICK j \in 1 .. Len(kept) : kept[j] = lines[i]
    BY <1>2, <1>4, <1>7, <2>1
  <2> QED
    BY <1>6, <2>1, <2>2 DEF ToSet
<1>8. ASSUME Distinct(lines), NEW j \in DOMAIN kept, NEW k \in DOMAIN kept,
             SameKey(kept[j], kept[k])
      PROVE  j = k
  <2>1. SameKey(lines[Nth(P, j)], lines[Nth(P, k)])
    BY <1>2, <1>6, <1>8
  <2>2. Nth(P, j) = Nth(P, k)
    BY <1>2, <1>5, <1>6, <1>8, <2>1 DEF Distinct
  <2> QED
    BY <1>2, <1>6, <2>2
<1> QED
  BY <1>3, <1>7, <1>8 DEF Distinct

LEMMA NewKeyLines ==
  ASSUME NEW lines \in Seq(Line2), NEW l \in Line2, Distinct(lines),
         \A k \in Keys : HasKey(l, k) => \A i \in DOMAIN lines : ~ HasKey(lines[i], k)
  PROVE  Distinct(lines \o <<l>>)
<1> DEFINE n == Len(lines)
           all == lines \o <<l>>
<1>1. /\ n \in Nat /\ DOMAIN lines = 1 .. n /\ DOMAIN all = 1 .. n + 1
      /\ \A i \in 1 .. n : all[i] = lines[i]
      /\ all[n + 1] = l
  OBVIOUS
<1> HIDE DEF n, all
<1>2. ASSUME NEW i \in DOMAIN all, NEW j \in DOMAIN all, SameKey(all[i], all[j])
      PROVE  i = j
  <2>1. PICK k \in Keys : HasKey(all[i], k) /\ HasKey(all[j], k)
    BY <1>2 DEF SameKey
  <2>2. (i \in 1 .. n \/ i = n + 1) /\ (j \in 1 .. n \/ j = n + 1)
    BY <1>1
  <2>3. \A m \in 1 .. n : ~ (HasKey(l, k) /\ HasKey(all[m], k))
    BY <1>1
  <2>4. (i \in 1 .. n /\ j \in 1 .. n) \/ (i = n + 1 /\ j = n + 1)
    <3>1. ~ (i \in 1 .. n /\ j = n + 1)
      BY <1>1, <2>1, <2>3
    <3>2. ~ (j \in 1 .. n /\ i = n + 1)
      BY <1>1, <2>1, <2>3
    <3> QED
      BY <2>2, <3>1, <3>2
  <2> QED
    BY <1>1, <1>2, <2>4 DEF Distinct
<1> QED
  BY <1>2 DEF Distinct, all

LEMMA NoLines == Distinct(<<>>)
BY DEF Distinct

LEMMA OneAndOne ==
  ASSUME NEW S, NEW p \in Seq(S), NEW q \in Seq(S), Len(p) = 1, Len(q) = 1
  PROVE  p = <<p[1]>> /\ DOMAIN (p \o q) = 1 .. 2 /\ (p \o q)[1] = p[1]
<1>1. p \o q \in Seq(S) /\ Len(p \o q) = 2 /\ (p \o q)[1] = p[1]
  BY ConcatProperties
<1>2. p[1] \in S /\ <<p[1]>> \in Seq(S) /\ Len(<<p[1]>>) = 1 /\ <<p[1]>>[1] = p[1]
  OBVIOUS
<1>3. p = <<p[1]>>
  BY <1>2, SeqEqual
<1> QED
  BY <1>1, <1>3

(* Without '=', a line has the key it was written under and no other.      *)
LEMMA PlainLine ==
  ASSUME Types, NEW s \in Shells, Plain(cmd[s].key), Plain(cmd[s].value),
         NEW k, HasKey(Line(s), k)
  PROVE  k = Key(s)
<1> DEFINE key == cmd[s].key
           val == cmd[s].value
<1>1. key \in Seq(STRING) /\ key # <<"">> /\ val \in Seq(STRING)
  BY CommandsAssumption DEF Types, Control, Contents
<1>2. Len(key) = 1 /\ Len(val) = 1
  BY DEF Plain
<1> HIDE DEF key, val
<1>3. /\ key = <<key[1]>> /\ DOMAIN (key \o val) = 1 .. 2
      /\ (key \o val)[1] = key[1]
  BY <1>1, <1>2, OneAndOne
<1>4. key[1] # ""
  BY <1>1, <1>3
<1> DEFINE line == key \o val
<1>5. DOMAIN line = 1 .. 2 /\ line[1] = key[1]
  BY <1>3
<1>6. line = Line(s) /\ key = Key(s)
  BY DEF Line, Key, key, val
<1> HIDE DEF line
<1>7. PICK i \in 1 .. 2 : k = <<line[i]>> /\ \A j \in 1 .. i - 1 : line[j] = ""
  BY <1>5, <1>6 DEF HasKey
<1>8. i = 1
  <2>1. CASE i = 2
    <3>1. 1 \in 1 .. i - 1
      BY <2>1
    <3> QED
      BY <1>4, <1>5, <1>7, <3>1
  <2>2. i = 1 \/ i = 2
    OBVIOUS
  <2> QED
    BY <2>1, <2>2
<1> QED
  BY <1>3, <1>5, <1>6, <1>7, <1>8

-----------------------------------------------------------------------------
(* What the steps of the only shell do to the two files.                   *)

(* Where the shell stands in a command, its streams, its buffer and the    *)
(* two files agree.                                                        *)
Steady(s) ==
  /\ pc[s] \in {"put_scan", "put_close", "del_to", "del_copy", "del_close"}
       => from[s] = dir["store"]
  /\ pc[s] \in {"del_copy", "del_close"}
       => to[s] = dir["temp"] /\ Lines("temp") = <<>>
  /\ pc[s] = "put_close" =>
       /\ buf[s] = <<Line(s)>>
       /\ \A i \in DOMAIN Lines("store") : ~ HasKey(Lines("store")[i], Key(s))
  /\ pc[s] = "del_close" => buf[s] = Kept(Lines("store"), Key(s))
  /\ pc[s] = "del_remove" => Lines("temp") = Kept(Lines("store"), Key(s))
  /\ pc[s] = "del_rename" => Lines("store") = <<>>
  /\ pc[s] \in {"del_from", "del_to", "del_copy", "del_close", "del_remove"}
       => \A l \in acked : ~ HasKey(l, Key(s))

LEMMA LinesTyped ==
  ASSUME Types, NEW n \in {"store", "temp"}
  PROVE  Lines(n) \in Seq(Line2)
BY EmptyFile DEF Types, Control, Contents, Lines, File

LEMMA SameFiles ==
  ASSUME UNCHANGED files
  PROVE  \A n \in {"store", "temp"} : Lines(n)' = Lines(n)
BY DEF files, Lines

LEMMA PutOpenLines ==
  ASSUME Types, NEW s \in Shells, PutOpen(s)
  PROVE  /\ Lines("store")' = Lines("store") /\ Lines("temp")' = Lines("temp")
         /\ from'[s] = dir'["store"]
<1>1. PICK i \in Inodes : OpenAppend("store", i) /\ from' = [from EXCEPT ![s] = i]
  BY DEF PutOpen
<1> QED
  BY <1>1, AppendsTo, NoFileIsNoInode DEF Lines, Types, Control, Contents, File

LEMMA PutCloseLines ==
  ASSUME Types, NEW s \in Shells, Steady(s), PutCloses(s), DiskTakesAll'
  PROVE  /\ Lines("temp")' = Lines("temp")
         /\ Lines("store")' = Lines("store") \o <<Line(s)>>
<1>1. from[s] = dir["store"] /\ from[s] \in Inodes /\ buf[s] = <<Line(s)>>
  BY DEF PutCloses, At, Steady, Types, Control, File
<1>2. dir["temp"] # from[s] /\ dir' = dir
  BY <1>1, NoFileIsNoInode DEF PutCloses, Types, Control
<1>3. AppendTo(from[s], buf[s]) /\ from[s] \notin ragged
  BY FillsShows DEF PutCloses, Types, Contents
<1>4. data' = [data EXCEPT ![from[s]] = @ \o buf[s]]
  BY <1>3 DEF AppendTo
<1> QED
  BY <1>1, <1>2, <1>4, NoFileIsNoInode DEF Lines, Types, Control, Contents, File

(* Of several lines a full disk leaves lines.                              *)
LEMMA CutsAreLines ==
  ASSUME NEW lines \in Seq(Line2), NEW c \in Cuts(lines)
  PROVE  \E S : Line2 \subseteq S /\ c.lines \in Seq(S)
<1>1. PICK n \in 0 .. Len(lines) - 1 :
        \/ c = [lines |-> SubSeq(lines, 1, n), ragged |-> FALSE]
        \/ \E l \in Starts(lines[n + 1]) :
             c = [lines |-> Append(SubSeq(lines, 1, n), l), ragged |-> TRUE]
  BY DEF Cuts
<1>2. SubSeq(lines, 1, n) \in Seq(Line2)
  OBVIOUS
<1>3. CASE c = [lines |-> SubSeq(lines, 1, n), ragged |-> FALSE]
  BY <1>2, <1>3
<1>4. ASSUME NEW l, c = [lines |-> Append(SubSeq(lines, 1, n), l), ragged |-> TRUE]
      PROVE  c.lines \in Seq(Line2 \cup {l})
  <2>1. SubSeq(lines, 1, n) \in Seq(Line2 \cup {l})
    BY <1>2
  <2> QED
    BY <1>4, <2>1
<1> QED
  BY <1>1, <1>3, <1>4

LEMMA AppendedKeeps ==
  ASSUME NEW S, NEW old \in Seq(S), NEW new \in Seq(S)
  PROVE  ToSet(old) \subseteq ToSet(old \o new)
<1>1. ASSUME NEW i \in DOMAIN old
      PROVE  \E j \in DOMAIN (old \o new) : (old \o new)[j] = old[i]
  OBVIOUS
<1> QED
  BY <1>1 DEF ToSet

(* What is in the files when they are closed stays, cut or not.            *)
LEMMA PutCloseKeeps ==
  ASSUME Types, NEW s \in Shells, Steady(s), PutCloses(s)
  PROVE  /\ Lines("temp")' = Lines("temp")
         /\ ToSet(Lines("store")) \subseteq ToSet(Lines("store")')
<1>1. from[s] = dir["store"] /\ from[s] \in Inodes
  BY DEF PutCloses, At, Steady, Types, Control, File
<1>2. dir["temp"] # from[s] /\ dir' = dir
  BY <1>1, NoFileIsNoInode DEF PutCloses, Types, Control
<1>3. PICK new : (\E S : Line2 \subseteq S /\ new \in Seq(S)) /\ AppendTo(from[s], new)
  <2>1. buf[s] \in Seq(Line2)
    BY DEF Types, Contents
  <2> QED
    BY <2>1, CutsAreLines DEF PutCloses
<1>4. data' = [data EXCEPT ![from[s]] = @ \o new]
  BY <1>3 DEF AppendTo, Types, Contents
<1>5. data[from[s]] \in Seq(Line2)
  BY <1>1 DEF Types, Contents
<1>6. ToSet(data[from[s]]) \subseteq ToSet(data[from[s]] \o new)
  <2>1. PICK S : Line2 \subseteq S /\ new \in Seq(S)
    BY <1>3
  <2>2. data[from[s]] \in Seq(S)
    BY <1>5, <2>1
  <2> QED
    BY <2>1, <2>2, AppendedKeeps
<1>7. Lines("temp")' = Lines("temp")
  BY <1>1, <1>2, <1>4, NoFileIsNoInode DEF Lines, Types, Control, Contents, File
<1>8. Lines("store") = data[from[s]] /\ Lines("store")' = data[from[s]] \o new
  BY <1>1, <1>2, <1>4, NoFileIsNoInode DEF Lines, Types, Contents
<1> QED
  BY <1>6, <1>7, <1>8

LEMMA DelCloseKeeps ==
  ASSUME Types, NEW s \in Shells, Steady(s), DelCloses(s)
  PROVE  Lines("store")' = Lines("store")
<1>1. to[s] = dir["temp"] /\ to[s] \in Inodes /\ dir' = dir /\ to[s] # dir["store"]
  BY NoFileIsNoInode DEF DelCloses, At, Steady, Types, Control, File
<1>2. \A i \in Inodes : i # to[s] => data'[i] = data[i]
  BY DEF DelCloses, Types, Contents
<1> QED
  BY <1>1, <1>2, NoFileIsNoInode DEF Lines, Types, Control, File

LEMMA DelOpenLines ==
  ASSUME Types, NEW s \in Shells, DelOpenTo(s)
  PROVE  /\ Lines("store")' = Lines("store") /\ Lines("temp")' = <<>>
         /\ dir'["store"] = dir["store"]
         /\ from[s] # NoFile => to'[s] = dir'["temp"]
<1>1. PICK i \in Inodes :
        /\ OpenWrite("temp", i)
        /\ to' = [to EXCEPT ![s] = IF from[s] = NoFile THEN NoFile ELSE i]
  BY DEF DelOpenTo
<1> QED
  BY <1>1, Truncates, NoFileIsNoInode DEF Lines, Types, Control, Contents, File

LEMMA DelCloseLines ==
  ASSUME Types, NEW s \in Shells, Steady(s), DelCloses(s), DiskTakesAll'
  PROVE  Lines("store")' = Lines("store") /\ Lines("temp")' = buf[s]
<1>1. /\ to[s] = dir["temp"] /\ to[s] \in Inodes /\ dir' = dir
      /\ data[to[s]] = <<>> /\ to[s] # dir["store"]
  BY NoFileIsNoInode DEF DelCloses, At, Steady, Types, Control, File, Lines
<1>2. data' = [data EXCEPT ![to[s]] = WrittenOver(@, buf[s])]
  BY FillsShows DEF DelCloses, Types
<1>3. WrittenOver(data[to[s]], buf[s]) = buf[s]
  BY <1>1, EmptyFile, WrittenOverTyped DEF Types, Contents
<1> QED
  BY <1>1, <1>2, <1>3, NoFileIsNoInode DEF Lines, Types, Control, Contents, File

LEMMA DelRemoveLines ==
  ASSUME Types, NEW s \in Shells, DelRemoves(s)
  PROVE  Lines("store")' = <<>> /\ Lines("temp")' = Lines("temp")
BY DEF DelRemoves, Lines, Types, Control, Contents, File, files

LEMMA DelRenameLines ==
  ASSUME Types, NEW s \in Shells, Steady(s), DelRenames(s)
  PROVE  Lines("store")' = Lines("temp") /\ Lines("temp")' = <<>>
BY DEF DelRenames, At, Steady, Lines, Types, Control, Contents, File

(* The other steps leave the files as they are.                            *)
Looks(s) ==
  \/ \E c \in Commands : Type(s, c)
  \/ PutRejects(s) \/ PutWrites(s)
  \/ Get(s) \/ List(s)
  \/ DelOpenFrom(s) \/ DelCopies(s)
  \/ Exits(s) \/ Killed(s) \/ Restart(s)

LEMMA LookLines ==
  ASSUME NEW s, Looks(s)
  PROVE  Lines("store")' = Lines("store") /\ Lines("temp")' = Lines("temp")
<1>1. UNCHANGED files
  BY DEF Looks, Type, PutRejects, PutWrites, Get, GetOpen, GetFinds, GetMisses,
         GetFaults, List, ListPrints, ListFaults, DelOpenFrom, DelCopies, Exits, Killed,
         Restart, Dies
<1> QED
  BY <1>1, SameFiles

LEMMA Steps ==
  ASSUME NEW s, Shells = {s}, [Next]_vars
  PROVE  \/ Looks(s) \/ UNCHANGED vars
         \/ PutOpen(s) \/ PutCloses(s)
         \/ DelOpenTo(s) \/ DelCloses(s) \/ DelRemoves(s) \/ DelRenames(s)
BY DEF Next, Executes, Looks, Put, Delete

-----------------------------------------------------------------------------
(* The shell's streams and buffer go on agreeing with the files.           *)

LEMMA SteadyStays ==
  ASSUME Types, NEW s, Shells = {s}, Steady(s), Types', [Next]_vars, DiskTakesAll'
  PROVE  Steady(s)'
<1> s \in Shells
  OBVIOUS
<1> USE DEF At, GoTo, history
<1>1. ASSUME NEW c \in Commands, Type(s, c) PROVE Steady(s)'
  <2>1. UNCHANGED files
    BY <1>1 DEF Type
  <2>2. /\ pc'[s] \in {"prompt", "put_open", "get_open", "del_from", "list"}
        /\ cmd'[s] = c
    BY <1>1, CommandsAssumption DEF Type, Types, Control, Contents
  <2>3. pc'[s] = "del_from" => \A l \in acked' : ~ HasKey(l, c.key)
    BY <1>1, CommandsAssumption DEF Type, Types, Control, Contents
  <2> QED
    BY <2>1, <2>2, <2>3 DEF Steady, Key
<1>2. CASE PutOpen(s)
  <2>1. pc'[s] = "put_scan"
    BY <1>2 DEF PutOpen, Types, Control, Contents
  <2> QED
    BY <1>2, <2>1, PutOpenLines DEF Steady
<1>3. CASE PutWrites(s)
  <2>1. /\ pc'[s] = "put_close" /\ buf'[s] = <<Line(s)>> /\ UNCHANGED files
        /\ cmd' = cmd /\ from' = from
    BY <1>3 DEF PutWrites, Types, Control, Contents
  <2>2. from[s] = dir["store"] /\ from[s] # NoFile
    BY <1>3 DEF PutWrites, Steady, Types, Control, Contents
  <2>3. \A i \in DOMAIN Lines("store") : ~ HasKey(Lines("store")[i], Key(s))
    BY <1>3, <2>2 DEF PutWrites, Exists, Lines
  <2>4. Lines("store")' = Lines("store") /\ Line(s)' = Line(s) /\ Key(s)' = Key(s)
    BY <2>1, SameFiles DEF Line, Key
  <2> QED
    BY <2>1, <2>2, <2>3, <2>4 DEF Steady, files
<1>4. CASE DelOpenFrom(s)
  <2>1. /\ pc'[s] = "del_to" /\ from'[s] = dir["store"] /\ UNCHANGED files
        /\ cmd' = cmd /\ acked' = acked
    BY <1>4 DEF DelOpenFrom, Types, Control, Contents
  <2>2. \A l \in acked : ~ HasKey(l, Key(s))
    BY <1>4 DEF DelOpenFrom, Steady
  <2> QED
    BY <2>1, <2>2 DEF Steady, Key, files
<1>5. CASE DelOpenTo(s)
  <2>1. /\ from[s] # NoFile => pc'[s] = "del_copy"
        /\ from[s] = NoFile => pc'[s] \in {"put_open", "prompt"}
        /\ cmd' = cmd /\ acked' = acked /\ from' = from
    BY <1>5 DEF DelOpenTo, DeleteReturns, Types, Control, Contents
  <2>2. from[s] = dir["store"] /\ \A l \in acked : ~ HasKey(l, Key(s))
    BY <1>5 DEF DelOpenTo, Steady
  <2> QED
    BY <1>5, <2>1, <2>2, DelOpenLines DEF Steady, Key
<1>6. CASE DelCopies(s)
  <2>1. /\ pc'[s] = "del_close" /\ buf'[s] = Kept(data[from[s]], Key(s))
        /\ UNCHANGED files /\ cmd' = cmd /\ acked' = acked /\ from' = from /\ to' = to
    BY <1>6 DEF DelCopies, Types, Control, Contents
  <2>2. /\ from[s] = dir["store"] /\ from[s] # NoFile /\ to[s] = dir["temp"]
        /\ Lines("temp") = <<>> /\ \A l \in acked : ~ HasKey(l, Key(s))
    BY <1>6 DEF DelCopies, Steady, Types, Control, Contents
  <2>3. Lines("store") = data[from[s]]
    BY <2>2 DEF Lines
  <2>4. /\ Lines("store")' = Lines("store") /\ Lines("temp")' = Lines("temp")
        /\ Key(s)' = Key(s) /\ dir' = dir
    BY <2>1, SameFiles DEF Key, files
  <2> QED
    BY <2>1, <2>2, <2>3, <2>4 DEF Steady
<1>7. CASE DelCloses(s)
  <2>1. pc'[s] = "del_remove" /\ cmd' = cmd /\ acked' = acked
    BY <1>7 DEF DelCloses, Types, Control, Contents
  <2>2. buf[s] = Kept(Lines("store"), Key(s)) /\ \A l \in acked : ~ HasKey(l, Key(s))
    BY <1>7 DEF DelCloses, Steady
  <2>3. Key(s)' = Key(s)
    BY <2>1 DEF Key
  <2> QED
    BY <1>7, <2>1, <2>2, <2>3, DelCloseLines DEF Steady
<1>8. CASE DelRemoves(s)
  <2>1. pc'[s] \in {"del_rename", "put_open", "prompt"}
    BY <1>8 DEF DelRemoves, DeleteReturns, Types, Control, Contents
  <2> QED
    BY <1>8, <2>1, DelRemoveLines DEF Steady
<1>9. CASE UNCHANGED vars
  <2>1. Line(s)' = Line(s) /\ Key(s)' = Key(s)
    BY <1>9 DEF vars, Line, Key
  <2>2. Lines("store")' = Lines("store") /\ Lines("temp")' = Lines("temp")
    BY <1>9, SameFiles DEF vars
  <2> QED
    BY <1>9, <2>1, <2>2 DEF vars, files, Steady
<1>10. ASSUME pc'[s] \in {"prompt", "dead", "get_scan", "put_open"} PROVE Steady(s)'
  BY <1>10 DEF Steady
<1>11. PutRejects(s) \/ PutCloses(s) \/ Get(s) \/ List(s) \/ Exits(s) \/ Killed(s)
         \/ Restart(s) \/ DelRenames(s)
         => pc'[s] \in {"prompt", "dead", "get_scan", "put_open"}
  BY DEF PutRejects, PutCloses, Get, GetOpen, GetFinds, GetMisses, GetFaults, List,
         ListPrints, ListFaults, Exits, Killed, Dies, Restart, DelRenames, DeleteReturns, Types, Control, Contents
<1> QED
  BY <1>1, <1>2, <1>3, <1>4, <1>5, <1>6, <1>7, <1>8, <1>9, <1>10, <1>11, Steps DEF Looks

-----------------------------------------------------------------------------
(* As long as no '=' is typed, each file has one line for a key.           *)

Apart(s) ==
  "words" \notin disturbed =>
    /\ Distinct(Lines("store")) /\ Distinct(Lines("temp"))
    /\ pc[s] \notin {"prompt", "dead"} => Plain(cmd[s].key) /\ Plain(cmd[s].value)

LEMMA ApartStays ==
  ASSUME Types, NEW s, Shells = {s}, Steady(s), Apart(s), [Next]_vars, DiskTakesAll'
  PROVE  Apart(s)'
<1> s \in Shells
  OBVIOUS
<1> USE DEF At, GoTo, history
<1> SUFFICES ASSUME "words" \notin disturbed'
             PROVE  /\ Distinct(Lines("store"))' /\ Distinct(Lines("temp"))'
                    /\ pc'[s] \notin {"prompt", "dead"}
                         => Plain(cmd'[s].key) /\ Plain(cmd'[s].value)
  BY DEF Apart
<1>1. "words" \notin disturbed
  BY InterferenceStays
<1>2. /\ Distinct(Lines("store")) /\ Distinct(Lines("temp"))
      /\ pc[s] \notin {"prompt", "dead"} => Plain(cmd[s].key) /\ Plain(cmd[s].value)
  BY <1>1 DEF Apart
<1>3. pc'[s] \notin {"prompt", "dead"} => Plain(cmd'[s].key) /\ Plain(cmd'[s].value)
  <2>1. ASSUME NEW c \in Commands, Type(s, c) PROVE Plain(cmd'[s].key) /\ Plain(cmd'[s].value)
    BY <2>1 DEF Type, Types, Control, Contents
  <2>2. (\E c \in Commands : Type(s, c)) \/
        (cmd' = cmd /\ (pc[s] \in {"prompt", "dead"} => pc'[s] \in {"prompt", "dead"}))
    BY DEF Next, Executes, Put, PutOpen, PutRejects, PutWrites, PutCloses,
         Get, GetOpen, GetFinds, GetMisses, GetFaults, List, ListPrints, ListFaults,
         Delete, DelOpenFrom, DelOpenTo, DelCopies, DelCloses, DelRemoves, DelRenames,
         Exits, Killed, Dies, Restart, vars, Types, Control, Contents
  <2> QED
    BY <1>2, <2>1, <2>2
<1>4. \A ls : Lines("store")' = ls /\ Distinct(ls) => Distinct(Lines("store"))'
  BY DEF Distinct, SameKey
<1>5. \A ls : Lines("temp")' = ls /\ Distinct(ls) => Distinct(Lines("temp"))'
  BY DEF Distinct, SameKey
<1>6. CASE Looks(s) \/ PutOpen(s)
  BY <1>2, <1>3, <1>4, <1>5, <1>6, LookLines, PutOpenLines
<1>7. CASE UNCHANGED vars
  BY <1>2, <1>3, <1>4, <1>5, <1>7, SameFiles DEF vars
<1>8. CASE PutCloses(s)
  <2>1. Line(s) \in Line2 /\ Lines("store") \in Seq(Line2)
    BY LineTyped, LinesTyped DEF Types
  <2>2. Plain(cmd[s].key) /\ Plain(cmd[s].value)
    BY <1>2, <1>8 DEF PutCloses
  <2>3. \A k \in Keys : HasKey(Line(s), k) => k = Key(s)
    BY <2>2, PlainLine
  <2>4. \A i \in DOMAIN Lines("store") : ~ HasKey(Lines("store")[i], Key(s))
    BY <1>8 DEF PutCloses, Steady
  <2>5. Distinct(Lines("store") \o <<Line(s)>>)
    BY <1>2, <2>1, <2>3, <2>4, NewKeyLines
  <2> QED
    BY <1>2, <1>3, <1>4, <1>5, <1>8, <2>5, PutCloseLines
<1>9. CASE DelOpenTo(s)
  BY <1>2, <1>3, <1>4, <1>5, <1>9, DelOpenLines, NoLines
<1>10. CASE DelCloses(s)
  <2>1. buf[s] = Kept(Lines("store"), Key(s)) /\ Lines("store") \in Seq(Line2)
    BY <1>10, LinesTyped DEF DelCloses, Steady
  <2>2. Distinct(buf[s])
    BY <1>2, <2>1, KeptLines
  <2> QED
    BY <1>2, <1>3, <1>4, <1>5, <1>10, <2>2, DelCloseLines
<1>11. CASE DelRemoves(s)
  BY <1>2, <1>3, <1>4, <1>5, <1>11, DelRemoveLines, NoLines
<1>12. CASE DelRenames(s)
  BY <1>2, <1>3, <1>4, <1>5, <1>12, DelRenameLines, NoLines
<1> QED
  BY <1>6, <1>7, <1>8, <1>9, <1>10, <1>11, <1>12, Steps

-----------------------------------------------------------------------------
(* Until a word that is not plain is typed, every line is a key and a      *)
(* value, each in one part that the buffer of GET holds and neither empty. *)
Pair(l) ==
  /\ l \in Seq(STRING) /\ Len(l) = 2
  /\ l[1] # "" /\ l[2] # "" /\ l[1] \notin DOMAIN Cut /\ l[2] \notin DOMAIN Cut
  /\ <<l[1]>> \in Keys

Pairs(ls) == \A i \in DOMAIN ls : Pair(ls[i])

Clean(s) ==
  "words" \notin disturbed =>
    /\ Pairs(Lines("store")) /\ Pairs(Lines("temp"))
    /\ pc[s] = "get_scan" => from[s] = dir["store"]

LEMMA TwoLong ==
  ASSUME NEW S, NEW p \in Seq(S), Len(p) = 2
  PROVE  DOMAIN p = {1, 2}
<1>1. DOMAIN p = 1 .. Len(p)
  OBVIOUS
<1>2. DOMAIN p = 1 .. 2
  BY <1>1
<1>3. 1 .. 2 = {1, 2}
  OBVIOUS
<1> QED
  BY <1>2, <1>3

LEMMA TwoParts ==
  ASSUME NEW S, NEW p \in Seq(S), NEW q \in Seq(S), Len(p) = 1, Len(q) = 1
  PROVE  p \o q \in Seq(S) /\ Len(p \o q) = 2 /\ (p \o q)[1] = p[1] /\ (p \o q)[2] = q[1]
<1>1. /\ p \o q \in Seq(S) /\ Len(p \o q) = Len(p) + Len(q)
      /\ \A i \in 1 .. Len(p) + Len(q) :
           (p \o q)[i] = IF i <= Len(p) THEN p[i] ELSE q[i - Len(p)]
  BY ConcatProperties
<1>2. Len(p) + Len(q) = 2 /\ 1 \in 1 .. 2 /\ 2 \in 1 .. 2 /\ 2 - 1 = 1
  OBVIOUS
<1> QED
  BY <1>1, <1>2

LEMMA OneOrTwo ==
  /\ Cardinality({1}) = 1 /\ Cardinality({1, 2}) = 2
  /\ Nth({1}, 1) = 1 /\ Nth({1, 2}, 1) = 1 /\ Nth({1, 2}, 2) = 2
<1>1. Cardinality({1}) = 1 /\ IsFiniteSet({1})
  BY FS_Singleton
<1>2. {1} \cup {2} = {1, 2} /\ 2 \notin {1}
  OBVIOUS
<1>3. Cardinality({1, 2}) = 2
  BY <1>1, <1>2, FS_AddElement
<1>4. {k \in {1} : k <= 1} = {1} /\ {k \in {1, 2} : k <= 1} = {1} /\ {k \in {1, 2} : k <= 2} = {1, 2}
  OBVIOUS
<1>5. Nth({1}, 1) = 1
  <2>1. Nth({1}, 1) = CHOOSE i \in {1} : Cardinality({k \in {1} : k <= i}) = 1
    BY DEF Nth
  <2> QED
    BY <1>1, <1>4, <2>1
<1>6. \A i \in {1, 2} : /\ Cardinality({k \in {1, 2} : k <= i}) = 1 <=> i = 1
                        /\ Cardinality({k \in {1, 2} : k <= i}) = 2 <=> i = 2
  BY <1>1, <1>3, <1>4
<1>7. Nth({1, 2}, 1) = 1 /\ Nth({1, 2}, 2) = 2
  <2>1. /\ Nth({1, 2}, 1) = CHOOSE i \in {1, 2} : Cardinality({k \in {1, 2} : k <= i}) = 1
        /\ Nth({1, 2}, 2) = CHOOSE i \in {1, 2} : Cardinality({k \in {1, 2} : k <= i}) = 2
    BY DEF Nth
  <2> QED
    BY <1>6, <2>1
<1> QED
  BY <1>1, <1>3, <1>5, <1>7

(* What strtok and the fgets of GET make of such a line.                   *)
LEMMA PairRead ==
  ASSUME NEW l, Pair(l)
  PROVE  /\ Tokens(l) # {}
         /\ \A k : HasKey(l, k) <=> k = <<l[1]>>
         /\ Token(l, 1) = l[1] /\ ValueOf(l) = <<l[2]>>
         /\ HasValue(l)
         /\ Chunks(l) = <<l>>
<1>1. DOMAIN l = {1, 2} /\ l[1] # "" /\ l[2] # ""
  <2>1. l \in Seq(STRING) /\ Len(l) = 2 /\ l[1] # "" /\ l[2] # ""
    BY DEF Pair
  <2> QED
    BY <2>1, TwoLong
<1>2. Tokens(l) = {1, 2}
  BY <1>1 DEF Tokens
<1>3. HasValue(l)
  <2>1. Cardinality(Tokens(l)) = 2
    BY <1>2, OneOrTwo
  <2>2. 2 >= 2
    OBVIOUS
  <2> QED
    BY <2>1, <2>2 DEF HasValue
<1>4. Token(l, 1) = l[1] /\ ValueOf(l) = <<l[2]>>
  BY <1>2, <1>3, OneOrTwo DEF Token, ValueOf
<1>5. ASSUME NEW k PROVE HasKey(l, k) <=> k = <<l[1]>>
  <2>1. 1 .. 0 = {}
    OBVIOUS
  <2>2. 1 - 1 = 0 /\ 2 - 1 = 1 /\ 1 \in 1 .. 1
    OBVIOUS
  <2>3. k = <<l[1]>> => HasKey(l, k)
    BY <1>1, <2>1, <2>2 DEF HasKey
  <2>4. ASSUME HasKey(l, k) PROVE k = <<l[1]>>
    <3>1. PICK i \in {1, 2} : k = <<l[i]>> /\ \A j \in 1 .. i - 1 : l[j] = ""
      BY <1>1, <2>4 DEF HasKey
    <3>2. i # 2
      BY <1>1, <2>2, <3>1
    <3> QED
      BY <3>1, <3>2
  <2> QED
    BY <2>3, <2>4
<1>6. Chunks(l) = <<l>>
  <2>1. {i \in DOMAIN l : l[i] \in DOMAIN Cut} = {}
    BY <1>1 DEF Pair
  <2> QED
    BY <2>1 DEF Chunks
<1> QED
  BY <1>2, <1>3, <1>4, <1>5, <1>6

LEMMA LineIsPair ==
  ASSUME Types, NEW s \in Shells, Plain(cmd[s].key), Plain(cmd[s].value),
         cmd[s].op \in {"PUT", "UPDATE"}
  PROVE  /\ Pair(Line(s)) /\ <<Line(s)[1]>> = Key(s) /\ <<Line(s)[2]>> = cmd[s].value
         /\ Key(s) \in Keys
<1> DEFINE key == cmd[s].key
           val == cmd[s].value
<1>1. /\ key \in Seq(STRING) /\ key # <<"">> /\ key \in Keys
      /\ val \in Seq(STRING) /\ val # <<"">>
  BY CommandsAssumption DEF Types, Control, Contents, Keys
<1>2. Len(key) = 1 /\ Len(val) = 1 /\ key[1] \notin DOMAIN Cut /\ val[1] \notin DOMAIN Cut
  BY DEF Plain
<1> HIDE DEF key, val
<1>3. key = <<key[1]>> /\ val = <<val[1]>>
  BY <1>1, <1>2, OneAndOne
<1>4. /\ key \o val \in Seq(STRING) /\ Len(key \o val) = 2
      /\ (key \o val)[1] = key[1] /\ (key \o val)[2] = val[1]
  <2>1. \A S : key \in Seq(S) /\ val \in Seq(S)
          => /\ key \o val \in Seq(S) /\ Len(key \o val) = 2
             /\ (key \o val)[1] = key[1] /\ (key \o val)[2] = val[1]
    BY <1>2, TwoParts
  <2> QED
    BY <1>1, <2>1
<1>5. key[1] # "" /\ val[1] # ""
  BY <1>1, <1>3
<1> QED
  BY <1>1, <1>2, <1>3, <1>4, <1>5 DEF Pair, Line, Key, key, val

(* A dictionary made of such lines, no two of them with one key.           *)
CurrentOf(ls) == {l \in ToSet(ls) : HasValue(l)}

DictOf(C) ==
  [k \in {<<Token(l, 1)>> : l \in C} |-> ValueOf(CHOOSE l \in C : HasKey(l, k))]

Entries(C) ==
  \A l \in C : /\ Pair(l) /\ HasValue(l)
               /\ \A m \in C : <<l[1]>> = <<m[1]>> => l = m

LEMMA DictHas ==
  ASSUME NEW C, Entries(C)
  PROVE  /\ DOMAIN DictOf(C) = {<<l[1]>> : l \in C}
         /\ \A l \in C : DictOf(C)[<<l[1]>>] = <<l[2]>>
         /\ DictOf(C) = [k \in DOMAIN DictOf(C) |-> DictOf(C)[k]]
<1>1. ASSUME NEW l \in C
      PROVE  Pair(l) /\ Token(l, 1) = l[1] /\ ValueOf(l) = <<l[2]>>
  BY PairRead DEF Entries
<1>2. {<<Token(l, 1)>> : l \in C} = {<<l[1]>> : l \in C}
  BY <1>1
<1>3. ASSUME NEW l \in C PROVE (CHOOSE m \in C : HasKey(m, <<l[1]>>)) = l
  <2>1. \A m \in C : HasKey(m, <<l[1]>>) <=> <<l[1]>> = <<m[1]>>
    BY <1>1, PairRead
  <2>2. \A m \in C : HasKey(m, <<l[1]>>) <=> m = l
    BY <2>1 DEF Entries
  <2> QED
    BY <2>2
<1>4. DOMAIN DictOf(C) = {<<l[1]>> : l \in C}
  BY <1>2 DEF DictOf
<1>5. ASSUME NEW l \in C PROVE DictOf(C)[<<l[1]>>] = <<l[2]>>
  <2>1. <<l[1]>> \in {<<Token(m, 1)>> : m \in C}
    BY <1>2
  <2>2. DictOf(C)[<<l[1]>>] = ValueOf(CHOOSE m \in C : HasKey(m, <<l[1]>>))
    BY <2>1 DEF DictOf
  <2> QED
    BY <1>1, <1>3, <2>2
<1>6. DictOf(C) = [k \in DOMAIN DictOf(C) |-> DictOf(C)[k]]
  BY DEF DictOf
<1> QED
  BY <1>4, <1>5, <1>6

(* Two dictionaries with the same entries are one.                         *)
LEMMA DictIs ==
  ASSUME NEW C, Entries(C), NEW g, g = [k \in DOMAIN g |-> g[k]],
         DOMAIN g = {<<l[1]>> : l \in C}, \A l \in C : g[<<l[1]>>] = <<l[2]>>
  PROVE  DictOf(C) = g
<1>1. DOMAIN DictOf(C) = DOMAIN g
  BY DictHas
<1>2. ASSUME NEW k \in DOMAIN g PROVE DictOf(C)[k] = g[k]
  <2>1. PICK l \in C : k = <<l[1]>>
    OBVIOUS
  <2> QED
    BY <2>1, DictHas
<1>3. DictOf(C) = [k \in DOMAIN DictOf(C) |-> DictOf(C)[k]]
  BY DictHas
<1> QED
  BY <1>1, <1>2, <1>3

LEMMA DictGrows ==
  ASSUME NEW C, Entries(C), NEW l, Pair(l), HasValue(l),
         \A m \in C : ~ HasKey(m, <<l[1]>>)
  PROVE  /\ <<l[1]>> \notin DOMAIN DictOf(C)
         /\ DictOf(C \cup {l}) =
              [k \in DOMAIN DictOf(C) \cup {<<l[1]>>} |->
                 IF k = <<l[1]>> THEN <<l[2]>> ELSE DictOf(C)[k]]
<1> DEFINE D == DictOf(C)
           key == <<l[1]>>
           val == <<l[2]>>
           g == [k \in DOMAIN D \cup {key} |-> IF k = key THEN val ELSE D[k]]
<1>1. /\ DOMAIN D = {<<m[1]>> : m \in C}
      /\ \A m \in C : D[<<m[1]>>] = <<m[2]>>
  BY DictHas
<1>2. \A m \in C : <<m[1]>> # key
  <2>1. \A m \in C : HasKey(m, key) <=> key = <<m[1]>>
    BY PairRead DEF Entries
  <2> QED
    BY <2>1
<1>3. Entries(C \cup {l})
  <2>1. \A m \in C \cup {l}, n \in C \cup {l} : <<m[1]>> = <<n[1]>> => m = n
    BY <1>2 DEF Entries
  <2> QED
    BY <2>1 DEF Entries
<1>4. key \notin DOMAIN D
  BY <1>1, <1>2
<1>5. DOMAIN g = {<<m[1]>> : m \in C \cup {l}}
  BY <1>1
<1>6. ASSUME NEW m \in C \cup {l} PROVE g[<<m[1]>>] = <<m[2]>>
  <2>1. CASE m = l
    BY <2>1
  <2>2. CASE m \in C
    BY <1>1, <1>2, <2>2
  <2> QED
    BY <2>1, <2>2
<1>7. g = [k \in DOMAIN g |-> g[k]]
  OBVIOUS
<1> HIDE DEF g
<1>8. DictOf(C \cup {l}) = g
  BY <1>3, <1>5, <1>6, <1>7, DictIs
<1> QED
  BY <1>4, <1>8 DEF g

LEMMA DictShrinks ==
  ASSUME NEW C, Entries(C), NEW l \in C
  PROVE  /\ <<l[1]>> \in DOMAIN DictOf(C)
         /\ DictOf({m \in C : ~ HasKey(m, <<l[1]>>)}) =
              [k \in (DOMAIN DictOf(C)) \ {<<l[1]>>} |-> DictOf(C)[k]]
<1> DEFINE D == DictOf(C)
           key == <<l[1]>>
           R == {m \in C : ~ HasKey(m, key)}
           g == [k \in (DOMAIN D) \ {key} |-> D[k]]
<1>1. /\ DOMAIN D = {<<m[1]>> : m \in C}
      /\ \A m \in C : D[<<m[1]>>] = <<m[2]>>
  BY DictHas
<1>2. \A m \in C : HasKey(m, key) <=> key = <<m[1]>>
  BY PairRead DEF Entries
<1>3. Entries(R)
  BY DEF Entries
<1>4. R = {m \in C : <<m[1]>> # key}
  BY <1>2
<1>5. key \in DOMAIN D
  BY <1>1
<1> HIDE DEF R, key, D
<1>6. DOMAIN g = {<<m[1]>> : m \in R}
  <2>1. DOMAIN g = (DOMAIN D) \ {key}
    OBVIOUS
  <2> QED
    BY <1>1, <1>4, <2>1
<1>7. ASSUME NEW m \in R PROVE g[<<m[1]>>] = <<m[2]>>
  BY <1>1, <1>4
<1>8. g = [k \in DOMAIN g |-> g[k]]
  OBVIOUS
<1> HIDE DEF g
<1>9. DictOf(R) = g
  BY <1>3, <1>6, <1>7, <1>8, DictIs
<1> QED
  BY <1>5, <1>9 DEF g, R, key, D

LEMMA CurrentEntries ==
  ASSUME NEW ls, Pairs(ls), Distinct(ls)
  PROVE  Entries(CurrentOf(ls))
<1> SUFFICES ASSUME NEW l \in CurrentOf(ls)
             PROVE  /\ Pair(l) /\ HasValue(l)
                    /\ \A m \in CurrentOf(ls) : <<l[1]>> = <<m[1]>> => l = m
  BY DEF Entries
<1>1. PICK i \in DOMAIN ls : l = ls[i]
  BY DEF CurrentOf, ToSet
<1>2. Pair(l) /\ HasValue(l)
  BY <1>1 DEF Pairs, CurrentOf
<1>3. ASSUME NEW m \in CurrentOf(ls), <<l[1]>> = <<m[1]>> PROVE l = m
  <2>1. PICK j \in DOMAIN ls : m = ls[j]
    BY DEF CurrentOf, ToSet
  <2>2. Pair(m)
    BY <2>1 DEF Pairs
  <2>3. <<l[1]>> \in Keys /\ HasKey(l, <<l[1]>>) /\ HasKey(m, <<l[1]>>)
    BY <1>2, <1>3, <2>2, PairRead DEF Pair
  <2>4. SameKey(ls[i], ls[j])
    BY <1>1, <2>1, <2>3 DEF SameKey
  <2> QED
    BY <1>1, <2>1, <2>4 DEF Distinct
<1> QED
  BY <1>2, <1>3

(* What PUT and DELETE make of the lines with a value.                     *)
LEMMA AppendedCurrent ==
  ASSUME NEW lines \in Seq(Line2), NEW l \in Line2, Pairs(lines), Pair(l)
  PROVE  /\ Pairs(lines \o <<l>>)
         /\ CurrentOf(lines \o <<l>>) =
              IF HasValue(l) THEN CurrentOf(lines) \cup {l} ELSE CurrentOf(lines)
<1> DEFINE n == Len(lines)
           all == lines \o <<l>>
<1>1. /\ n \in Nat /\ DOMAIN lines = 1 .. n /\ DOMAIN all = 1 .. n + 1
      /\ \A i \in 1 .. n : all[i] = lines[i]
      /\ all[n + 1] = l
  OBVIOUS
<1> HIDE DEF n, all
<1>2. \A i \in 1 .. n + 1 : i \in 1 .. n \/ i = n + 1
  BY <1>1
<1>3. \A i \in 1 .. n : i \in 1 .. n + 1
  BY <1>1
<1>4. n + 1 \in 1 .. n + 1
  BY <1>1
<1>5. ToSet(all) = ToSet(lines) \cup {l}
  <2>1. ASSUME NEW m \in ToSet(all) PROVE m \in ToSet(lines) \cup {l}
    BY <1>1, <1>2 DEF ToSet
  <2>2. ASSUME NEW m \in ToSet(lines) \cup {l} PROVE m \in ToSet(all)
    BY <1>1, <1>3, <1>4 DEF ToSet
  <2> QED
    BY <2>1, <2>2
<1>6. Pairs(all)
  BY <1>1, <1>2 DEF Pairs
<1> QED
  BY <1>5, <1>6 DEF CurrentOf, all

LEMMA KeptCurrent ==
  ASSUME NEW lines \in Seq(Line2), Pairs(lines), NEW key
  PROVE  /\ Pairs(Kept(lines, key))
         /\ CurrentOf(Kept(lines, key)) = {l \in CurrentOf(lines) : ~ HasKey(l, key)}
<1> DEFINE P == {i \in DOMAIN lines : ~ (HasKey(lines[i], key) /\ HasValue(lines[i]))}
           kept == Those(lines, P)
<1>1. P \in SUBSET (1 .. Len(lines)) /\ DOMAIN lines = 1 .. Len(lines)
  OBVIOUS
<1>2. /\ kept \in Seq(Line2) /\ Len(kept) \in Nat
      /\ \A j \in 1 .. Len(kept) : Nth(P, j) \in P /\ kept[j] = lines[Nth(P, j)]
      /\ \A i \in P : \E j \in 1 .. Len(kept) : kept[j] = lines[i]
      /\ \A j, k \in 1 .. Len(kept) : Nth(P, j) = Nth(P, k) => j = k
  BY <1>1, ThoseAre
<1>3. kept = Kept(lines, key)
  BY DEF Kept
<1>4. \A i : i \in P <=> i \in DOMAIN lines /\ ~ (HasKey(lines[i], key) /\ HasValue(lines[i]))
  OBVIOUS
<1> HIDE DEF P, kept
<1>5. DOMAIN kept = 1 .. Len(kept)
  BY <1>2
<1>6. Pairs(kept)
  BY <1>2, <1>4, <1>5 DEF Pairs
<1>7. ASSUME NEW l \in CurrentOf(kept)
      PROVE  l \in CurrentOf(lines) /\ ~ HasKey(l, key)
  <2>1. PICK j \in 1 .. Len(kept) : l = kept[j]
    BY <1>5 DEF CurrentOf, ToSet
  <2>2. HasValue(l)
    BY DEF CurrentOf
  <2> QED
    BY <1>2, <1>4, <2>1, <2>2 DEF CurrentOf, ToSet
<1>8. ASSUME NEW l \in CurrentOf(lines), ~ HasKey(l, key) PROVE l \in CurrentOf(kept)
  <2>1. PICK i \in DOMAIN lines : l = lines[i]
    BY DEF CurrentOf, ToSet
  <2>2. PICK j \in 1 .. Len(kept) : kept[j] = lines[i]
    BY <1>2, <1>4, <1>8, <2>1
  <2>3. HasValue(l)
    BY DEF CurrentOf
  <2> QED
    BY <1>5, <2>1, <2>2, <2>3 DEF CurrentOf, ToSet
<1> QED
  BY <1>3, <1>6, <1>7, <1>8

-----------------------------------------------------------------------------
(* Every line stays a pair, until something interferes.                    *)

LEMMA CleanStays ==
  ASSUME Types, NEW s, Shells = {s}, Steady(s), Apart(s), Clean(s), [Next]_vars, DiskTakesAll'
  PROVE  Clean(s)'
<1> s \in Shells
  OBVIOUS
<1> USE DEF At, GoTo, history
<1> SUFFICES ASSUME "words" \notin disturbed'
             PROVE  /\ Pairs(Lines("store"))' /\ Pairs(Lines("temp"))'
                    /\ pc'[s] = "get_scan" => from'[s] = dir'["store"]
  BY DEF Clean
<1>1. "words" \notin disturbed
  BY InterferenceStays
<1>2. /\ Pairs(Lines("store")) /\ Pairs(Lines("temp"))
      /\ pc[s] = "get_scan" => from[s] = dir["store"]
  BY <1>1 DEF Clean
<1>3. pc[s] \notin {"prompt", "dead"} => Plain(cmd[s].key) /\ Plain(cmd[s].value)
  BY <1>1 DEF Apart
<1>4. pc'[s] = "get_scan" => from'[s] = dir'["store"]
  <2>1. CASE GetOpen(s)
    BY <2>1 DEF GetOpen, files, Types, Control, Contents
  <2>2. CASE UNCHANGED vars
    BY <1>2, <2>2 DEF vars, files
  <2>3. ASSUME NEW c \in Commands, Type(s, c) PROVE pc'[s] # "get_scan"
    BY <2>3, CommandsAssumption DEF Type, Types, Control, Contents
  <2>4. CASE ~ GetOpen(s) /\ ~ UNCHANGED vars
    <3>1. pc'[s] # "get_scan"
      BY <2>3, <2>4 DEF Next, Executes, Put, PutOpen, PutRejects, PutWrites, PutCloses,
         Get, GetFinds, GetMisses, GetFaults, List, ListPrints, ListFaults,
         Delete, DelOpenFrom, DelOpenTo, DelCopies, DelCloses, DelRemoves, DelRenames,
         DeleteReturns, Exits, Killed, Dies, Restart, Types, Control, Contents
    <3> QED
      BY <3>1
  <2> QED
    BY <2>1, <2>2, <2>4
<1>5. \A ls : Lines("store")' = ls /\ Pairs(ls) => Pairs(Lines("store"))'
  BY DEF Pairs
<1>6. \A ls : Lines("temp")' = ls /\ Pairs(ls) => Pairs(Lines("temp"))'
  BY DEF Pairs
<1>7. Pairs(<<>>)
  BY DEF Pairs
<1>8. Lines("store") \in Seq(Line2)
  BY LinesTyped
<1>9. CASE Looks(s) \/ PutOpen(s)
  BY <1>2, <1>4, <1>5, <1>6, <1>9, LookLines, PutOpenLines
<1>10. CASE UNCHANGED vars
  BY <1>2, <1>4, <1>5, <1>6, <1>10, SameFiles DEF vars
<1>11. CASE PutCloses(s)
  <2>1. Line(s) \in Line2 /\ Pair(Line(s))
    BY <1>3, <1>11, LineTyped, LineIsPair DEF PutCloses, Types, Control
  <2>2. Pairs(Lines("store") \o <<Line(s)>>)
    BY <1>2, <1>8, <2>1, AppendedCurrent
  <2> QED
    BY <1>2, <1>4, <1>5, <1>6, <1>11, <2>2, PutCloseLines
<1>12. CASE DelOpenTo(s)
  BY <1>2, <1>4, <1>5, <1>6, <1>7, <1>12, DelOpenLines
<1>13. CASE DelCloses(s)
  <2>1. buf[s] = Kept(Lines("store"), Key(s))
    BY <1>13 DEF DelCloses, Steady
  <2>2. Pairs(buf[s])
    BY <1>2, <1>8, <2>1, KeptCurrent
  <2> QED
    BY <1>2, <1>4, <1>5, <1>6, <1>13, <2>2, DelCloseLines
<1>14. CASE DelRemoves(s)
  BY <1>2, <1>4, <1>5, <1>6, <1>7, <1>14, DelRemoveLines
<1>15. CASE DelRenames(s)
  BY <1>2, <1>4, <1>5, <1>6, <1>7, <1>15, DelRenameLines
<1> QED
  BY <1>9, <1>10, <1>11, <1>12, <1>13, <1>14, <1>15, Steps

-----------------------------------------------------------------------------
(* The only shell, from the start.                                         *)

LEMMA AloneStarts ==
  ASSUME NEW s, Shells = {s}, Init
  PROVE  Steady(s) /\ Apart(s) /\ Clean(s)
<1>1. pc[s] = "prompt" /\ Lines("store") = <<>> /\ Lines("temp") = <<>>
  BY DEF Init, Lines
<1> QED
  BY <1>1, NoLines DEF Steady, Apart, Clean, Pairs

(* Where the only shell stands, its streams and its buffer agree with the  *)
(* files, wherever it is killed, and as long as no word with a '=' is      *)
(* typed each of the two files has one line for a key and all lines are    *)
(* pairs: until a full disk cuts a write.                                  *)
THEOREM AloneInvariant ==
  ASSUME NEW s, Shells = {s}
  PROVE  Spec => [](DiskTakesAll => Types /\ Steady(s) /\ Apart(s) /\ Clean(s))
<1>1. Init => Steady(s) /\ Apart(s) /\ Clean(s)
  BY AloneStarts
<1>2. [Next]_vars /\ DiskTakesAll' => DiskTakesAll
  BY InterferenceStays DEF DiskTakesAll
<1>3. /\ Types /\ Steady(s) /\ Apart(s) /\ Clean(s) /\ Types' /\ [Next]_vars /\ DiskTakesAll'
      => Steady(s)' /\ Apart(s)' /\ Clean(s)'
  BY SteadyStays, ApartStays, CleanStays
<1>4. Control /\ (DiskTakesAll => Contents) => (DiskTakesAll => Types)
  BY DEF Types
<1> QED
  BY <1>1, <1>2, <1>3, <1>4, TypesInvariant, PTL DEF Spec

(* README.md: "Duplicate keys are rejected": no two lines of store.txt     *)
(* have one key, for any commands and wherever the only shell is killed,   *)
(* as long as no word with a '=' is typed and no full disk has cut a       *)
(* write.                                                                  *)
THEOREM KeysStayUnique ==
  ASSUME NEW s, Shells = {s}
  PROVE  Spec => []UniqueKeys
<1>1. (DiskTakesAll => Apart(s)) => UniqueKeys
  BY DEF DiskTakesAll, Apart, Distinct, UniqueKeys
<1> QED
  BY <1>1, AloneInvariant, PTL

LEMMA LossStep ==
  ASSUME NEW s, Shells = {s}, DiskTakesAll => Types /\ Steady(s), [Next]_vars
  PROVE  OnlyTruncationDestroysStep
<1> s \in Shells
  OBVIOUS
<1> SUFFICES ASSUME NEW l \in acked, Held(l), "disk" \notin disturbed, ~ At(s, "del_to")
             PROVE  Held(l)'
  BY DEF OnlyTruncationDestroysStep
<1>0. Types /\ Steady(s)
  BY DEF DiskTakesAll
<1> DEFINE S == Lines("store")
           T == Lines("temp")
<1>1. ToSet(<<>>) = {} /\ S \in Seq(Line2)
  BY <1>0, LinesTyped DEF ToSet
<1>2. Held(l)' <=> l \in ToSet(S') \cup ToSet(T')
  BY DEF Held
<1>3. l \in ToSet(S) \cup ToSet(T)
  BY DEF Held
<1> HIDE DEF S, T
<1>5. CASE S' = S /\ ToSet(T) \subseteq ToSet(T')
  BY <1>2, <1>3, <1>5
<1>6. CASE Looks(s) \/ PutOpen(s)
  BY <1>0, <1>5, <1>6, LookLines, PutOpenLines DEF S, T
<1>7. CASE UNCHANGED vars
  BY <1>5, <1>7, SameFiles DEF vars, S, T
<1>8. CASE PutCloses(s)
  BY <1>0, <1>2, <1>3, <1>8, PutCloseKeeps DEF S, T
<1>9. CASE DelCloses(s)
  <2>1. T = <<>>
    BY <1>0, <1>9 DEF DelCloses, At, Steady, T
  <2> QED
    BY <1>0, <1>1, <1>2, <1>3, <1>9, <2>1, DelCloseKeeps DEF S
<1>10. CASE DelRemoves(s)
  <2>1. T = Kept(S, Key(s)) /\ ~ HasKey(l, Key(s))
    BY <1>0, <1>10 DEF DelRemoves, At, Steady, S, T
  <2>2. l \in ToSet(T)
    <3>1. l \in ToSet(S) => l \in ToSet(T)
      BY <1>1, <2>1, KeptLines
    <3> QED
      BY <1>3, <3>1
  <2> QED
    BY <1>0, <1>2, <1>10, <2>2, DelRemoveLines DEF S, T
<1>11. CASE DelRenames(s)
  <2>1. S = <<>>
    BY <1>0, <1>11 DEF DelRenames, At, Steady, S
  <2> QED
    BY <1>0, <1>1, <1>2, <1>3, <1>11, <2>1, DelRenameLines DEF S, T
<1>12. ~ DelOpenTo(s)
  BY DEF DelOpenTo
<1> QED
  BY <1>6, <1>7, <1>8, <1>9, <1>10, <1>11, <1>12, Steps

(* A pair whose PUT has ended leaves the two files in no step but the      *)
(* emptying of temp.txt at the start of a later deletion, unless the disk  *)
(* was full.                                                               *)
THEOREM OnlyTruncationLoses ==
  ASSUME NEW s, Shells = {s}
  PROVE  Spec => OnlyTruncationDestroys
<1>1. (DiskTakesAll => Types /\ Steady(s)) /\ [Next]_vars => OnlyTruncationDestroysStep
  BY LossStep
<1> QED
  BY <1>1, AloneInvariant, PTL DEF Spec, OnlyTruncationDestroys

-----------------------------------------------------------------------------
(* What the dictionary is, and what each step does to it.                  *)

(* The file that stands for the dictionary.                                *)
Now(s) == IF At(s, "del_rename") THEN Lines("temp") ELSE Lines("store")

LEMMA DictionaryIs ==
  ASSUME NEW s, Shells = {s}
  PROVE  /\ Me = s /\ Dictionary = DictOf(CurrentOf(Now(s)))
         /\ Dictionary' = DictOf(CurrentOf(Now(s)'))
<1>1. Me = s
  BY DEF Me
<1>2. Current = CurrentOf(Now(s)) /\ Current' = CurrentOf(Now(s)')
  BY <1>1 DEF Current, CurrentOf, Now
<1>3. Dictionary = DictOf(CurrentOf(Now(s)))
  BY <1>2 DEF Dictionary, DictOf
<1>4. Dictionary' = DictOf(CurrentOf(Now(s)'))
  <2>1. PICK C : C = Current'
    OBVIOUS
  <2>2. Dictionary' = DictOf(C)
    BY <2>1 DEF Dictionary, DictOf
  <2> QED
    BY <1>2, <2>1, <2>2
<1> QED
  BY <1>1, <1>3, <1>4

(* GET stops at the one line with the key.                                 *)
LEMMA StopsAtKey ==
  ASSUME Types, NEW s, Shells = {s}, Apart(s), Clean(s), "words" \notin disturbed,
         At(s, "get_scan"), Stops(s) # {}
  PROVE  FirstStop(s) \in ToSet(Lines("store")) /\ HasKey(FirstStop(s), Key(s))
<1> DEFINE ls == Lines("store")
<1>1. Pairs(ls) /\ Distinct(ls) /\ Key(s) \in Keys
  BY DEF Clean, Apart, Key, Keys, Types, Control, Contents
<1>2. data[from[s]] = ls /\ (from[s] \in ragged) = FALSE
  BY DEF Clean, Types, Control, Contents, At, Lines
<1>3. \A i \in DOMAIN ls : Pair(ls[i])
  BY <1>1 DEF Pairs
<1> HIDE DEF ls
<1>4. ASSUME NEW r \in Stops(s)
      PROVE  /\ r.line \in DOMAIN ls /\ r.part = 1 /\ r.piece = ls[r.line]
             /\ HasKey(ls[r.line], Key(s))
             /\ r = [line |-> r.line, part |-> 1, piece |-> ls[r.line]]
  <2>1. r \in GetReads(ls, FALSE) /\ (HasKey(r.piece, Key(s)) \/ Tokens(r.piece) = {})
    BY <1>2 DEF Stops
  <2>2. PICK i \in DOMAIN ls :
          \E k \in DOMAIN Chunks(ls[i]) :
            r = [line |-> i, part |-> k, piece |-> Chunks(ls[i])[k]]
    BY <2>1 DEF GetReads
  <2>3. Chunks(ls[i]) = <<ls[i]>> /\ Tokens(ls[i]) # {}
    BY <1>3, PairRead
  <2>4. \A k \in DOMAIN <<ls[i]>> : k = 1 /\ <<ls[i]>>[k] = ls[i]
    OBVIOUS
  <2>5. \A k \in DOMAIN Chunks(ls[i]) : k = 1 /\ Chunks(ls[i])[k] = ls[i]
    BY <2>3, <2>4
  <2>6. r = [line |-> i, part |-> 1, piece |-> ls[i]]
    BY <2>2, <2>5
  <2> QED
    BY <2>1, <2>3, <2>6
<1>5. PICK r : r \in Stops(s)
  OBVIOUS
<1>6. \A q \in Stops(s) : q = r
  <2>1. ASSUME NEW q \in Stops(s) PROVE q = r
    <3>1. SameKey(ls[q.line], ls[r.line])
      BY <1>1, <1>4, <1>5 DEF SameKey
    <3>2. q.line = r.line
      BY <1>1, <1>4, <1>5, <3>1 DEF Distinct
    <3> QED
      BY <1>4, <1>5, <3>2
  <2> QED
    BY <2>1
<1>7. NotAfter(r, r)
  <2>1. r.part <= r.part
    BY <1>4, <1>5
  <2> QED
    BY <2>1 DEF NotAfter
<1>8. (CHOOSE r2 \in Stops(s) : \A q \in Stops(s) : NotAfter(r2, q)) = r
  BY <1>5, <1>6, <1>7
<1>9. FirstStop(s) = r.piece
  BY <1>8 DEF FirstStop
<1> QED
  BY <1>4, <1>5, <1>9 DEF ToSet, ls

(* GET shows the key it was asked for and the buffer of main, where it     *)
(* finds no line with the key.                                             *)
Misses(s) == GetMisses(s) \/ (GetOpen(s) /\ dir["store"] = NoFile)

LEMMA NoLineWithKey ==
  ASSUME Types, NEW s, Shells = {s}, Clean(s), "words" \notin disturbed, Misses(s)
  PROVE  \A l \in ToSet(Lines("store")) : ~ HasKey(l, Key(s))
<1> DEFINE ls == Lines("store")
<1> s \in Shells
  OBVIOUS
<1>1. CASE GetOpen(s) /\ dir["store"] = NoFile
  BY <1>1 DEF Lines, ToSet
<1>2. CASE GetMisses(s)
  <2>1. Pairs(ls) /\ data[from[s]] = ls /\ (from[s] \in ragged) = FALSE /\ Stops(s) = {}
    BY <1>2 DEF Clean, GetMisses, Types, Control, Contents, At, Lines
  <2> HIDE DEF ls
  <2> SUFFICES ASSUME NEW i \in DOMAIN ls, HasKey(ls[i], Key(s)) PROVE FALSE
    BY DEF ToSet, ls
  <2> DEFINE r == [line |-> i, part |-> 1, piece |-> ls[i]]
  <2>2. Chunks(ls[i]) = <<ls[i]>>
    BY <2>1, PairRead DEF Pairs
  <2>3. 1 \in DOMAIN <<ls[i]>> /\ <<ls[i]>>[1] = ls[i]
    OBVIOUS
  <2>4. \E k \in DOMAIN Chunks(ls[i]) : r = [line |-> i, part |-> k, piece |-> Chunks(ls[i])[k]]
    BY <2>2, <2>3
  <2>5. r \in GetReads(ls, FALSE)
    BY <2>4 DEF GetReads
  <2>6. r \in Stops(s)
    BY <2>1, <2>5 DEF Stops
  <2> QED
    BY <2>1, <2>6
<1> QED
  BY <1>1, <1>2 DEF Misses

(* The steps the user does not notice.                                     *)
LEMMA HiddenMoves ==
  ASSUME Types, NEW s, Shells = {s}, Steady(s), DiskTakesAll',
         \/ PutOpen(s) \/ PutRejects(s) \/ PutWrites(s)
         \/ (GetOpen(s) /\ ~ Misses(s)) \/ ListPrints(s) \/ Restart(s)
         \/ DelOpenFrom(s) \/ DelOpenTo(s) \/ DelCopies(s) \/ DelCloses(s)
         \/ DelRenames(s) \/ UNCHANGED vars
  PROVE  Now(s)' = Now(s) /\ cmd' = cmd /\ answer' = answer
<1> s \in Shells
  OBVIOUS
<1> USE DEF At, GoTo
<1>1. CASE UNCHANGED vars
  BY <1>1, SameFiles DEF vars, Now
<1>2. CASE DelRenames(s)
  <2>1. pc[s] = "del_rename" /\ pc'[s] \in {"put_open", "prompt"} /\ cmd' = cmd /\ answer' = answer
    BY <1>2 DEF DelRenames, DeleteReturns, Types, Control, Contents
  <2> QED
    BY <1>2, <2>1, DelRenameLines DEF Now
<1>3. CASE ~ DelRenames(s) /\ ~ UNCHANGED vars
  <2>1. /\ pc[s] # "del_rename" /\ pc'[s] # "del_rename"
        /\ cmd' = cmd /\ answer' = answer
    BY <1>3 DEF PutOpen, PutRejects, PutWrites, GetOpen, Misses, ListPrints, Restart,
         DelOpenFrom, DelOpenTo, DelCopies, DelCloses, DeleteReturns, Types, Control, Contents
  <2>2. Lines("store")' = Lines("store")
    <3>1. Looks(s) \/ PutOpen(s) \/ DelOpenTo(s) \/ DelCloses(s)
      BY <1>3 DEF Looks, Get, List
    <3> QED
      BY <3>1, LookLines, PutOpenLines, DelOpenLines, DelCloseLines
  <2> QED
    BY <2>1, <2>2 DEF Now
<1> QED
  BY <1>1, <1>2, <1>3

(* A step that reads the files or ends the process.                        *)
LEMMA ReadMoves ==
  ASSUME Types, NEW s, Shells = {s},
         \/ \E c \in Commands : Type(s, c)
         \/ GetFinds(s) \/ Misses(s) \/ GetFaults(s) \/ ListFaults(s) \/ Exits(s)
  PROVE  Now(s)' = Now(s)
<1> s \in Shells
  OBVIOUS
<1>1. pc[s] # "del_rename" /\ pc'[s] # "del_rename"
  BY CommandsAssumption DEF Type, GetFinds, Misses, GetMisses, GetOpen, GetFaults, ListFaults, Exits, Dies, At, GoTo, Types, Control, Contents
<1>2. Looks(s)
  BY DEF Looks, Get, List, Misses
<1> QED
  BY <1>1, <1>2, LookLines DEF Now, At

(* PUT adds its key.                                                       *)
LEMMA PutMoves ==
  ASSUME Types, NEW s, Shells = {s}, Steady(s), Apart(s), Clean(s), disturbed' = {},
         disturbed = {}, PutCloses(s), DiskTakesAll',
         NEW D, D = DictOf(CurrentOf(Now(s))),
         NEW E, E = DictOf(CurrentOf(Now(s)'))
  PROVE  /\ Key(s) \notin DOMAIN D
         /\ E = [k \in DOMAIN D \cup {Key(s)} |->
                   IF k = Key(s) THEN cmd[s].value ELSE D[k]]
<1> s \in Shells
  OBVIOUS
<1> DEFINE ls == Lines("store")
           l == Line(s)
           C == CurrentOf(ls)
<1>1. pc[s] = "put_close" /\ pc'[s] = "prompt"
  BY DEF PutCloses, At, GoTo, Types, Control, Contents
<1>2. Now(s) = ls /\ Now(s)' = ls \o <<l>>
  <2>1. ls' = ls \o <<l>>
    BY PutCloseLines
  <2> QED
    BY <1>1, <2>1 DEF Now, At
<1>3. /\ Pairs(ls) /\ Distinct(ls) /\ ls \in Seq(Line2)
      /\ Plain(cmd[s].key) /\ Plain(cmd[s].value)
  BY <1>1, LinesTyped DEF Clean, Apart
<1>4. /\ l \in Line2 /\ Pair(l) /\ Key(s) = <<l[1]>> /\ cmd[s].value = <<l[2]>>
  BY <1>1, <1>3, LineTyped, LineIsPair DEF Types, Control
<1>5. \A i \in DOMAIN ls : ~ HasKey(ls[i], Key(s))
  BY <1>1 DEF Steady
<1> HIDE DEF ls, l
<1>6. \A m \in C : ~ HasKey(m, <<l[1]>>)
  BY <1>4, <1>5 DEF CurrentOf, ToSet
<1>7. HasValue(l) /\ CurrentOf(ls \o <<l>>) = C \cup {l}
  BY <1>3, <1>4, PairRead, AppendedCurrent
<1>8. Entries(C)
  BY <1>3, CurrentEntries
<1>9. D = DictOf(C) /\ E = DictOf(C \cup {l})
  BY <1>2, <1>7
<1> HIDE DEF C
<1>10. /\ <<l[1]>> \notin DOMAIN DictOf(C)
       /\ DictOf(C \cup {l}) =
             [k \in DOMAIN DictOf(C) \cup {<<l[1]>>} |->
                IF k = <<l[1]>> THEN <<l[2]>> ELSE DictOf(C)[k]]
  BY <1>4, <1>6, <1>7, <1>8, DictGrows
<1> QED
  BY <1>4, <1>9, <1>10

(* DELETE takes its key away, if it is there.                              *)
LEMMA DeleteMoves ==
  ASSUME Types, NEW s, Shells = {s}, Steady(s), Apart(s), Clean(s),
         disturbed = {}, DelRemoves(s),
         NEW D, D = DictOf(CurrentOf(Now(s))),
         NEW E, E = DictOf(CurrentOf(Now(s)'))
  PROVE  \/ E = D
         \/ /\ Key(s) \in DOMAIN D
            /\ E = [k \in (DOMAIN D) \ {Key(s)} |-> D[k]]
<1> s \in Shells
  OBVIOUS
<1> DEFINE ls == Lines("store")
           C == CurrentOf(ls)
<1>1. pc[s] = "del_remove"
  BY DEF DelRemoves, At
<1>2. Now(s) = ls
  BY <1>1 DEF Now, At
<1>3. Pairs(ls) /\ Distinct(ls) /\ ls \in Seq(Line2)
  BY LinesTyped DEF Clean, Apart
<1>4. CASE dir["store"] = NoFile
  <2>1. UNCHANGED files /\ pc'[s] # "del_rename"
    BY <1>4 DEF DelRemoves, DeleteReturns, GoTo, Types, Control, Contents
  <2>2. Now(s)' = ls
    BY <2>1, SameFiles DEF Now, At
  <2> QED
    BY <1>2, <2>2
<1>5. CASE dir["store"] # NoFile
  <2>1. pc'[s] = "del_rename"
    BY <1>5 DEF DelRemoves, GoTo, Types, Control, Contents
  <2>2. Lines("temp")' = Lines("temp")
    BY DelRemoveLines
  <2>3. Lines("temp") = Kept(ls, Key(s))
    BY <1>1 DEF Steady
  <2>4. Now(s)' = Kept(ls, Key(s))
    BY <2>1, <2>2, <2>3 DEF Now, At
  <2> HIDE DEF ls
  <2>5. CurrentOf(Kept(ls, Key(s))) = {l \in C : ~ HasKey(l, Key(s))}
    BY <1>3, KeptCurrent
  <2>6. Entries(C)
    BY <1>3, CurrentEntries
  <2>7. D = DictOf(C) /\ E = DictOf(CurrentOf(Kept(ls, Key(s))))
    BY <1>2, <2>4
  <2> HIDE DEF C
  <2>8. CASE \E l \in C : HasKey(l, Key(s))
    <3>1. PICK l \in C : HasKey(l, Key(s))
      BY <2>8
    <3>2. Key(s) = <<l[1]>>
      BY <2>6, <3>1, PairRead DEF Entries
    <3>3. /\ <<l[1]>> \in DOMAIN DictOf(C)
          /\ DictOf({m \in C : ~ HasKey(m, <<l[1]>>)}) =
               [k \in (DOMAIN DictOf(C)) \ {<<l[1]>>} |-> DictOf(C)[k]]
      BY <2>6, DictShrinks
    <3>4. E = DictOf({m \in C : ~ HasKey(m, <<l[1]>>)})
      BY <2>5, <2>7, <3>2
    <3> QED
      BY <2>7, <3>2, <3>3, <3>4
  <2>9. CASE ~ \E l \in C : HasKey(l, Key(s))
    <3>1. {l \in C : ~ HasKey(l, Key(s))} = C
      BY <2>9
    <3> QED
      BY <2>5, <2>7, <3>1
  <2> QED
    BY <2>8, <2>9
<1> QED
  BY <1>4, <1>5

(* GET shows what is stored.                                               *)
LEMMA GetMoves ==
  ASSUME Types, NEW s, Shells = {s}, Apart(s), Clean(s), disturbed = {}, GetFinds(s),
         NEW D, D = DictOf(CurrentOf(Now(s)))
  PROVE  Key(s) \in DOMAIN D /\ ValueOf(FirstStop(s)) = D[Key(s)]
<1> DEFINE ls == Lines("store")
           l == FirstStop(s)
<1>1. Now(s) = ls
  BY DEF GetFinds, Now, At
<1>2. Pairs(ls) /\ Distinct(ls)
  BY DEF Clean, Apart
<1>3. l \in ToSet(ls) /\ HasKey(l, Key(s)) /\ HasValue(l)
  BY StopsAtKey DEF GetFinds
<1> HIDE DEF ls, l
<1>4. Entries(CurrentOf(ls)) /\ l \in CurrentOf(ls)
  BY <1>2, <1>3, CurrentEntries DEF CurrentOf
<1>5. Pair(l)
  BY <1>4 DEF Entries
<1>6. Key(s) = <<l[1]>> /\ ValueOf(l) = <<l[2]>>
  BY <1>3, <1>5, PairRead
<1>7. <<l[1]>> \in DOMAIN D /\ D[<<l[1]>>] = <<l[2]>>
  BY <1>1, <1>4, DictHas, ZenonT(60)
<1> QED
  BY <1>6, <1>7 DEF l

-----------------------------------------------------------------------------
(* A key that GET does not find is not in the dictionary.                  *)
LEMMA MissMoves ==
  ASSUME Types, NEW s, Shells = {s}, Apart(s), Clean(s), disturbed = {}, Misses(s),
         NEW D, D = DictOf(CurrentOf(Now(s)))
  PROVE  Key(s) \notin DOMAIN D
<1> DEFINE ls == Lines("store")
<1>1. Now(s) = ls
  BY DEF Misses, GetMisses, GetOpen, Now, At
<1>2. Pairs(ls) /\ Distinct(ls)
  BY DEF Clean, Apart
<1>3. \A l \in ToSet(ls) : ~ HasKey(l, Key(s))
  BY NoLineWithKey
<1> HIDE DEF ls
<1>4. Entries(CurrentOf(ls)) /\ CurrentOf(ls) \subseteq ToSet(ls)
  BY <1>2, CurrentEntries DEF CurrentOf
<1>5. DOMAIN D = {<<l[1]>> : l \in CurrentOf(ls)}
  BY <1>1, <1>4, DictHas
<1>6. \A l \in CurrentOf(ls) : HasKey(l, <<l[1]>>)
  BY <1>4, PairRead DEF Entries
<1> QED
  BY <1>3, <1>4, <1>5, <1>6

LEMMA MapStarts ==
  ASSUME NEW s, Shells = {s}, Init
  PROVE  Map!MapInit
<1> s \in Shells
  OBVIOUS
<1>1. pc[s] = "prompt" /\ Lines("store") = <<>> /\ Lines("temp") = <<>> /\ Me = s
  BY DictionaryIs DEF Init, Lines
<1>3. Current = {}
  BY <1>1 DEF Current, At, ToSet
<1>4. Dictionary = [k \in {} |-> k]
  <2>1. DOMAIN Dictionary = {}
    BY <1>3 DEF Dictionary
  <2>2. Dictionary = [k \in {<<Token(l, 1)>> : l \in Current} |-> Dictionary[k]]
    BY DEF Dictionary
  <2>3. {<<Token(l, 1)>> : l \in Current} = {}
    BY <1>3
  <2> QED
    BY <2>2, <2>3
<1>5. /\ cmd[Me].key \in Keys /\ disturbed = {}
      /\ answer[Me] = [key |-> Junk, value |-> Junk]
  BY <1>1, CommandsAssumption DEF Init, Keys
<1> QED
  BY <1>4, <1>5 DEF Map!MapInit

(* Every shell has shown something.                                        *)
Buffers == DOMAIN answer = Shells

LEMMA BuffersStay == Spec => []Buffers
<1>1. Init => Buffers
  BY DEF Init, Buffers
<1>2. Buffers /\ [Next]_vars => Buffers'
  BY DEF Buffers, Next, Type, Executes, Put, PutOpen, PutRejects, PutWrites, PutCloses,
         Get, GetOpen, GetFinds, GetMisses, ShowsStale, GetFaults, List, ListPrints, ListFaults,
         Delete, DelOpenFrom, DelOpenTo, DelCopies, DelCloses, DelRemoves, DelRenames,
         Exits, Killed, Dies, Restart, vars
<1> QED
  BY <1>1, <1>2, PTL DEF Spec

LEMMA MapMoves ==
  ASSUME NEW s, Shells = {s}, DiskTakesAll => Types /\ Steady(s) /\ Apart(s) /\ Clean(s),
         Buffers, [Next]_vars
  PROVE  \/ Map!MapNext
         \/ UNCHANGED <<Dictionary, cmd[Me].key, answer[Me], disturbed # {}>>
<1> s \in Shells
  OBVIOUS
<1>1. CASE disturbed' # {}
  BY <1>1 DEF Map!MapNext
<1>2. CASE disturbed' = {}
  <2>1. /\ disturbed = {} /\ DiskTakesAll /\ DiskTakesAll' /\ ~ Killed(s)
        /\ Types /\ Steady(s) /\ Apart(s) /\ Clean(s)
    <3>1. disturbed = {} /\ ~ Killed(s)
      BY <1>2, InterferenceStays DEF Killed
    <3> QED
      BY <1>2, <3>1 DEF DiskTakesAll
  <2>2. /\ Me = s /\ Dictionary = DictOf(CurrentOf(Now(s)))
        /\ Dictionary' = DictOf(CurrentOf(Now(s)'))
    BY DictionaryIs
  <2>3. PICK D : D = DictOf(CurrentOf(Now(s)))
    OBVIOUS
  <2>4. PICK E : E = DictOf(CurrentOf(Now(s)'))
    OBVIOUS
  <2>5. Dictionary = D /\ Dictionary' = E /\ (disturbed # {})' = (disturbed # {})
    BY <1>2, <2>1, <2>2, <2>3, <2>4
  <2>6. ASSUME E = D, cmd' = cmd, answer' = answer
        PROVE  UNCHANGED <<Dictionary, cmd[Me].key, answer[Me], disturbed # {}>>
    BY <2>2, <2>5, <2>6
  <2>7. ASSUME NEW c \in Commands, Type(s, c) PROVE Map!MapNext
    <3>1. E = D
      BY <2>1, <2>3, <2>4, <2>7, ReadMoves
    <3>2. cmd'[s].key \in Keys /\ answer' = answer
      BY <2>1, <2>7 DEF Type, Types, Control, Keys
    <3> QED
      BY <2>2, <2>5, <3>1, <3>2 DEF Map!MapNext, Map!Ask
  <2>8. CASE PutCloses(s)
    <3>1. cmd' = cmd /\ answer' = answer
      BY <2>8 DEF PutCloses
    <3>2. /\ Key(s) \notin DOMAIN D
          /\ E = [k \in DOMAIN D \cup {Key(s)} |->
                    IF k = Key(s) THEN cmd[s].value ELSE D[k]]
      BY <1>2, <2>1, <2>3, <2>4, <2>8, PutMoves
    <3>3. Map!Store(cmd[s].value)
      BY <2>2, <2>5, <3>1, <3>2 DEF Map!Store, Key
    <3>4. cmd[s].value \in {c.value : c \in Commands}
      BY <2>1 DEF Types, Control
    <3> QED
      BY <3>3, <3>4 DEF Map!MapNext
  <2>9. CASE DelRemoves(s)
    <3>1. cmd' = cmd /\ answer' = answer
      BY <2>9 DEF DelRemoves
    <3>2. \/ E = D
          \/ /\ Key(s) \in DOMAIN D
             /\ E = [k \in (DOMAIN D) \ {Key(s)} |-> D[k]]
      BY <2>1, <2>3, <2>4, <2>9, DeleteMoves
    <3>3. CASE E = D
      BY <2>6, <3>1, <3>3
    <3>4. CASE E # D
      BY <2>2, <2>5, <3>1, <3>2, <3>4 DEF Map!MapNext, Map!Forget, Key
    <3> QED
      BY <3>3, <3>4
  <2>10. CASE GetFinds(s)
    <3>1. E = D
      BY <2>1, <2>3, <2>4, <2>10, ReadMoves
    <3>2. Key(s) \in DOMAIN D /\ ValueOf(FirstStop(s)) = D[Key(s)]
      BY <2>1, <2>3, <2>10, GetMoves
    <3>3. cmd' = cmd /\ answer'[s] = [key |-> Key(s), value |-> ValueOf(FirstStop(s))]
      BY <2>10 DEF GetFinds, Buffers
    <3> QED
      BY <2>2, <2>5, <3>1, <3>2, <3>3 DEF Map!MapNext, Map!Show, Key
  <2>11. CASE GetFaults(s) \/ ListFaults(s) \/ Exits(s)
    <3>1. E = D
      BY <2>1, <2>3, <2>4, <2>11, ReadMoves
    <3>2. cmd' = cmd /\ answer'[s] = [answer[s] EXCEPT !.value = Junk]
      BY <2>11 DEF GetFaults, ListFaults, Exits, Dies, Buffers
    <3> QED
      BY <2>2, <2>5, <3>1, <3>2 DEF Map!MapNext, Map!Return
  <2>13. CASE Misses(s)
    <3>1. E = D
      BY <2>1, <2>3, <2>4, <2>13, ReadMoves
    <3>2. Key(s) \notin DOMAIN D
      BY <2>1, <2>3, <2>13, MissMoves
    <3>3. cmd' = cmd /\ answer'[s] = [answer[s] EXCEPT !.key = Key(s)]
      BY <2>13 DEF Misses, GetMisses, GetOpen, ShowsStale, Buffers
    <3> QED
      BY <2>2, <2>5, <3>1, <3>2, <3>3 DEF Map!MapNext, Map!Miss, Key
  <2>12. CASE \/ PutOpen(s) \/ PutRejects(s) \/ PutWrites(s)
              \/ (GetOpen(s) /\ ~ Misses(s)) \/ ListPrints(s) \/ Restart(s)
              \/ DelOpenFrom(s) \/ DelOpenTo(s) \/ DelCopies(s) \/ DelCloses(s)
              \/ DelRenames(s) \/ UNCHANGED vars
    <3>1. Now(s)' = Now(s) /\ cmd' = cmd /\ answer' = answer
      BY <2>1, <2>12, HiddenMoves
    <3> QED
      BY <2>3, <2>4, <2>6, <3>1
  <2> QED
    BY <2>1, <2>7, <2>8, <2>9, <2>10, <2>11, <2>12, <2>13, Steps DEF Looks, Get, List, Misses
<1> QED
  BY <1>1, <1>2

(* The store is a dictionary that outlives its shell: what was put is what *)
(* GET shows until it is deleted, and only then can the key be put again;  *)
(* a key that is not there is shown with the value of the GET before.      *)
(* That holds for any plain words, through exit and the fault of LIST,     *)
(* until the shell is killed, a full disk cuts a write or a word that is   *)
(* not plain is typed.                                                     *)
THEOREM MapImplemented ==
  ASSUME NEW s, Shells = {s}
  PROVE  Spec => ImplementsMap
<1>1. Init => Map!MapInit
  BY MapStarts
<1>2. (DiskTakesAll => Types /\ Steady(s) /\ Apart(s) /\ Clean(s)) /\ Buffers /\ [Next]_vars
      => [Map!MapNext]_<<Dictionary, cmd[Me].key, answer[Me], disturbed # {}>>
  BY MapMoves
<1> QED
  BY <1>1, <1>2, AloneInvariant, BuffersStay, PTL DEF Spec, ImplementsMap, Map!MapSpec

(* GET calls strcmp and strncpy with what strtok has found: where all      *)
(* words are plain both are there, whatever was put and deleted and        *)
(* wherever the only shell was killed, unless a full disk has cut a write. *)
THEOREM GetAlwaysFindsTokens ==
  ASSUME NEW s, Shells = {s}
  PROVE  Spec => []GetFindsTokens
<1>1. (DiskTakesAll => Types /\ Steady(s) /\ Apart(s) /\ Clean(s)) => GetFindsTokens
  <2> SUFFICES ASSUME Types, Apart(s), Clean(s), disturbed \subseteq {"kill"},
                      At(s, "get_scan"), Stops(s) # {}
               PROVE  HasValue(FirstStop(s))
    BY DEF DiskTakesAll, GetFindsTokens
  <2>1. FirstStop(s) \in ToSet(Lines("store"))
    BY StopsAtKey
  <2>2. Pair(FirstStop(s))
    BY <2>1 DEF Clean, Pairs, ToSet
  <2> QED
    BY <2>2, PairRead
<1> QED
  BY <1>1, AloneInvariant, PTL
=============================================================================

----------------------------- MODULE Steal_proofs -----------------------------
(***************************************************************************)
(* Proofs about Steal for every command line and all faults.               *)
(***************************************************************************)
EXTENDS Steal, TLAPS

(* main works through the jobs in order: those before i have ended, those  *)
(* after it are untouched, and i is taken once its source is open.         *)
ControlInv ==
  /\ i \in 1 .. Len(Argv) + 1
  /\ pc \in {"open_src", "stat", "open_dest", "read", "write"}
  /\ pc # "open_src" => i <= Len(Argv)
  /\ exit \in {Running, 0, 1}
  /\ success = i - 1
  /\ status \in [JobIds -> {"pending", "taken", "copied", "partial", "failed"}]
  /\ \A j \in JobIds :
       /\ j < i => status[j] \in {"copied", "partial", "failed"}
       /\ j > i => status[j] = "pending"
       /\ j = i => status[j] = IF pc \in {"open_src", "stat"} THEN "pending" ELSE "taken"

LEMMA Jobs == Len(Argv) \in Nat /\ JobIds = 1 .. Len(Argv)
BY CopyAssumption DEF JobIds

(* The end of copy_files.                                                  *)
LEMMA NextFileControl ==
  ASSUME ControlInv, pc \in {"read", "write"}, exit = Running,
         NEW s \in {"copied", "partial", "failed"}, NextFile(s)
  PROVE  ControlInv'
BY Jobs DEF ControlInv, NextFile

LEMMA ControlStep == ControlInv /\ [Next]_vars => ControlInv'
<1> SUFFICES ASSUME ControlInv, [Next]_vars PROVE ControlInv'
  OBVIOUS
<1>1. CASE OpenSrc
  BY <1>1, Jobs DEF ControlInv, OpenSrc, At
<1>2. CASE Missing
  BY <1>2, Jobs DEF ControlInv, Missing
<1>3. CASE Stat
  BY <1>3, Jobs DEF ControlInv, Stat, At
<1>4. CASE OpenTarget \/ Read \/ Write
  BY <1>4, Jobs DEF ControlInv, OpenTarget, Read, Write, At
<1>5. CASE Finish
  BY <1>5, NextFileControl DEF Finish, At
<1>6. CASE ReadFails
  BY <1>6, NextFileControl DEF ReadFails, At
<1>7. CASE WriteStops
  BY <1>7, NextFileControl DEF WriteStops, At
<1>8. CASE Report
  BY <1>8, Jobs DEF ControlInv, Report
<1>9. CASE UNCHANGED vars
  BY <1>9 DEF ControlInv, vars
<1> QED
  BY <1>1, <1>2, <1>3, <1>4, <1>5, <1>6, <1>7, <1>8, <1>9 DEF Next, Step, Exited

(* The jobs are worked through in order, one at a time, and the counter    *)
(* main prints is the number of those that are through.                    *)
THEOREM JobsInOrder == Spec => []ControlInv
<1>1. Init => ControlInv
  BY Jobs DEF Init, ControlInv
<1> QED
  BY <1>1, ControlStep, PTL DEF Spec

-----------------------------------------------------------------------------
(* The refinement of CopyBatch: what its status and batch are here.        *)
Shown ==
  [j \in JobIds |-> IF status[j] = "partial" THEN "copied" ELSE status[j]]

Phase ==
  IF exit = Running THEN "running"
  ELSE IF exit = 0 THEN "reported" ELSE "aborted"

LEMMA EndsJob ==
  ASSUME ControlInv, pc \in {"read", "write"}, exit = Running,
         NEW s \in {"copied", "partial", "failed"}, NextFile(s)
  PROVE  Batch!BatchNext
<1> DEFINE r == IF s = "partial" THEN "copied" ELSE s
<1>1. PICK j \in JobIds : j = i
  BY Jobs DEF ControlInv
<1>2. Shown[j] = "taken" /\ r \in {"copied", "failed"}
  BY <1>1 DEF Shown, ControlInv
<1>3. Shown' = [Shown EXCEPT ![j] = r]
  BY <1>1 DEF Shown, NextFile, ControlInv
<1>4. Phase = "running" /\ Phase' = Phase
  BY DEF Phase, NextFile
<1> HIDE DEF r
<1>5. Batch!End(j)
  BY <1>2, <1>3, <1>4 DEF Batch!End, Shown, Phase
<1> QED
  BY <1>5 DEF Batch!BatchNext

(* The sequential copier keeps the promise of CopyBatch.                   *)
THEOREM BatchImplemented == Spec => ImplementsBatch
<1>1. Init => Batch!BatchInit
  BY DEF Init, Batch!BatchInit, Running
<1>2. ASSUME ControlInv, [Next]_vars
      PROVE  [Batch!BatchNext]_<<Shown, Phase>>
  <2> USE <1>2
  <2>1. CASE Stat
    <3>1. PICK j \in JobIds : j = i /\ status[j] = "pending"
      BY <2>1, Jobs DEF ControlInv, Stat, At
    <3>2. Shown[j] = "pending" /\ Shown' = [Shown EXCEPT ![j] = "taken"]
      BY <2>1, <3>1 DEF Shown, Stat, ControlInv
    <3>3. Phase = "running" /\ Phase' = Phase
      BY <2>1 DEF Phase, Stat, At
    <3>4. Batch!Take(j)
      BY <3>2, <3>3 DEF Batch!Take, Shown, Phase
    <3> QED
      BY <3>4 DEF Batch!BatchNext
  <2>2. CASE Finish \/ ReadFails \/ WriteStops
    BY <2>2, EndsJob DEF Finish, ReadFails, WriteStops, At
  <2>3. CASE Report
    <3>1. \A j \in JobIds : Shown[j] \in {"copied", "failed"}
      BY <2>3, Jobs DEF Report, At, ControlInv, Shown
    <3>2. Phase = "running" /\ Phase' = "reported" /\ Shown' = Shown
      BY <2>3 DEF Report, At, Phase, Shown, Running
    <3> QED
      BY <3>1, <3>2 DEF Batch!BatchNext, Batch!Report, Shown, Phase
  <2>4. CASE Missing
    <3>1. Phase = "running" /\ Phase' = "aborted" /\ Shown' = Shown
      BY <2>4 DEF Missing, At, Phase, Shown, Running
    <3> QED
      BY <3>1 DEF Batch!BatchNext, Batch!Abort, Shown, Phase
  <2>5. CASE UNCHANGED <<status, exit>>
    BY <2>5 DEF Shown, Phase
  <2> QED
    BY <2>1, <2>2, <2>3, <2>4, <2>5 DEF Next, Step, OpenSrc, OpenTarget, Read, Write,
         Exited, vars
<1>3. [][Batch!BatchNext]_<<Shown, Phase>> /\ Batch!BatchInit => ImplementsBatch
  BY PTL DEF ImplementsBatch, Batch!BatchSpec, Shown, Phase
<1> QED
  BY <1>1, <1>2, <1>3, JobsInOrder, PTL DEF Spec

-----------------------------------------------------------------------------
(* The last copy stands, where no destination is anybody's source: the     *)
(* destination main is at holds what has been read of the source so far,   *)
(* and no other file is touched.                                           *)

SourcesApart == \A j, k \in JobIds : Target(j) # Source(k)

Content(j) == InitialFiles[Source(j)]

SourcesStay ==
  \A j \in JobIds :
    Source(j) \in DOMAIN files =>
      Source(j) \in DOMAIN InitialFiles /\ files[Source(j)] = Content(j)

Descriptors ==
  /\ src_fd \in [Copiers -> Paths \cup {NoFile}]
  /\ dest_fd \in [Copiers -> Paths \cup {NoFile}]
  /\ stolen \in [Copiers -> Nat]
  /\ buffer = [c \in Copiers |-> buffer[c]]
  /\ pc = "stat" =>
       /\ src_fd[Me] \in {Source(i), NoFile}
       /\ src_fd[Me] # NoFile => Source(i) \in DOMAIN files
  /\ pc \in {"open_dest", "read", "write"} =>
       src_fd[Me] = Source(i) /\ Source(i) \in DOMAIN files
  /\ pc \in {"read", "write"} =>
       dest_fd[Me] = IF Target(i) \in Unwritable THEN NoFile ELSE Target(i)

OwnCopy ==
  pc \in {"read", "write"} =>
    /\ stolen[Me] <= Len(Content(i))
    /\ Target(i) \notin Unwritable =>
         Target(i) \in DOMAIN files /\ files[Target(i)] = SubSeq(Content(i), 1, stolen[Me])
    /\ pc = "write" =>
         stolen[Me] < Len(Content(i)) /\ buffer[Me] = Content(i)[stolen[Me] + 1]

Overwritten(j) ==
  \E k \in JobIds : k > j /\ Target(k) = Target(j) /\ status[k] # "pending"

Stands(j) ==
  status[j] = "copied" /\ Target(j) \notin Unwritable /\ ~ Overwritten(j) =>
    Target(j) \in DOMAIN files /\ files[Target(j)] = Content(j)

CopyInv ==
  SourcesStay /\ Descriptors /\ OwnCopy /\ (\A j \in JobIds : Stands(j))

IInv == ControlInv /\ CopyInv

LEMMA JobFacts ==
  /\ Len(Argv) \in Nat /\ JobIds = 1 .. Len(Argv)
  /\ \A j \in JobIds :
       /\ Source(j) \in Paths /\ Target(j) \in Paths
       /\ Source(j) # NoFile /\ Target(j) # NoFile
BY CopyAssumption DEF JobIds, Paths

LEMMA ContentType ==
  ASSUME SourcesStay, NEW j \in JobIds, Source(j) \in DOMAIN files
  PROVE  files[Source(j)] = Content(j) /\ Content(j) \in Seq(Blocks)
BY CopyAssumption DEF SourcesStay, Content

(* One more block of a sequence.                                           *)
LEMMA WrittenAtEnd ==
  ASSUME NEW f \in Seq(Blocks), NEW k \in Nat, k < Len(f)
  PROVE  WrittenAt(SubSeq(f, 1, k), k, f[k + 1]) = SubSeq(f, 1, k + 1)
<1>1. Len(SubSeq(f, 1, k)) = k /\ \A n \in 1 .. k : SubSeq(f, 1, k)[n] = f[n]
  OBVIOUS
<1>2. WrittenAt(SubSeq(f, 1, k), k, f[k + 1]) = [n \in 1 .. k + 1 |-> f[n]]
  BY <1>1 DEF WrittenAt
<1>3. SubSeq(f, 1, k + 1) = [n \in 1 .. k + 1 |-> f[n]]
  OBVIOUS
<1> QED
  BY <1>2, <1>3

(* A step that changes no file but the destination of the job under way,   *)
(* and ends no copy, leaves the sources and the copies that stand.         *)
OnlyTarget ==
  /\ DOMAIN files \subseteq DOMAIN files'
  /\ \A p \in DOMAIN files' :
       p # Target(i) => p \in DOMAIN files /\ files'[p] = files[p]

LEMMA OthersStay ==
  ASSUME SourcesApart, IInv, i \in JobIds, OnlyTarget,
         status[i] = "pending" => UNCHANGED files,
         \A j \in JobIds : j # i => status'[j] = status[j],
         status[i] # "pending" => status'[i] # "pending"
  PROVE  SourcesStay' /\ \A j \in JobIds : j # i => Stands(j)'
<1>1. SourcesStay'
  BY DEF SourcesApart, OnlyTarget, SourcesStay, Content, IInv, CopyInv
<1>2. ASSUME NEW j \in JobIds, j # i,
             status'[j] = "copied", Target(j) \notin Unwritable, ~ Overwritten(j)'
      PROVE  Target(j) \in DOMAIN files' /\ files'[Target(j)] = Content(j)
  <2>1. status[j] = "copied" /\ ~ Overwritten(j)
    BY <1>2 DEF Overwritten
  <2>2. j < i
    BY <1>2, <2>1, JobFacts DEF IInv, ControlInv
  <2>3. status[i] # "pending" => Target(j) # Target(i)
    BY <2>1, <2>2 DEF Overwritten
  <2>4. Target(j) \in DOMAIN files /\ files[Target(j)] = Content(j)
    BY <1>2, <2>1 DEF IInv, CopyInv, Stands
  <2> QED
    BY <2>3, <2>4 DEF OnlyTarget
<1> QED
  BY <1>1, <1>2 DEF Stands, Content

LEMMA OpenSrcCopy ==
  ASSUME IInv, OpenSrc PROVE CopyInv'
<1> USE DEF IInv, CopyInv
<1>1. i \in JobIds /\ UNCHANGED <<files, dest_fd, stolen, buffer, i, status>>
  BY JobFacts DEF ControlInv, OpenSrc, OpenSource
<1>2. /\ src_fd' \in [Copiers -> Paths \cup {NoFile}]
      /\ src_fd'[Me] \in {Source(i), NoFile}
      /\ src_fd'[Me] # NoFile => Source(i) \in DOMAIN files
  BY <1>1, JobFacts, OneCopier DEF OpenSrc, OpenSource, Descriptors
<1>3. Descriptors'
  BY <1>1, <1>2 DEF Descriptors, OpenSrc, Source
<1>4. OwnCopy'
  BY DEF OwnCopy, OpenSrc
<1> QED
  BY <1>1, <1>3, <1>4 DEF SourcesStay, Stands, Overwritten, Content

LEMMA StatCopy ==
  ASSUME SourcesApart, IInv, Stat PROVE CopyInv'
<1> USE DEF IInv, CopyInv
<1>1. i \in JobIds /\ status[i] = "pending" /\ UNCHANGED <<copyVars, i>>
  BY JobFacts DEF ControlInv, Stat, At
<1>2. status' = [status EXCEPT ![i] = "taken"] /\ status'[i] = "taken"
  BY <1>1 DEF Stat, ControlInv
<1>3. SourcesStay' /\ \A j \in JobIds : j # i => Stands(j)'
  BY <1>1, <1>2, OthersStay DEF OnlyTarget, copyVars, ControlInv
<1>4. Stands(i)'
  BY <1>1, <1>2 DEF Stands
<1>5. Descriptors' /\ OwnCopy'
  BY <1>1, JobFacts DEF Descriptors, OwnCopy, Stat, At, copyVars, Source
<1> QED
  BY <1>1, <1>3, <1>4, <1>5

LEMMA OpenTargetCopy ==
  ASSUME SourcesApart, IInv, OpenTarget PROVE CopyInv'
<1> USE DEF IInv, CopyInv
<1>1. i \in JobIds /\ status[i] = "taken" /\ UNCHANGED <<src_fd, buffer, i, status>>
  BY JobFacts DEF ControlInv, OpenTarget, At, OpenDest, OpenDestFails
<1>2. /\ src_fd[Me] = Source(i) /\ Source(i) \in DOMAIN files
      /\ Content(i) \in Seq(Blocks)
  BY <1>1, ContentType DEF Descriptors, OpenTarget, At
<1>3. /\ dest_fd' \in [Copiers -> Paths \cup {NoFile}]
      /\ stolen' \in [Copiers -> Nat] /\ stolen'[Me] = 0
      /\ dest_fd'[Me] = IF Target(i) \in Unwritable THEN NoFile ELSE Target(i)
  BY <1>1, JobFacts, OneCopier DEF OpenTarget, OpenDest, OpenDestFails, Descriptors
<1>4. OnlyTarget
  BY DEF OnlyTarget, OpenTarget, OpenDest, OpenDestFails
<1>5. SourcesStay' /\ \A j \in JobIds : j # i => Stands(j)'
  BY <1>1, <1>4, OthersStay
<1>6. Stands(i)'
  BY <1>1 DEF Stands
<1>7. Descriptors'
  BY <1>1, <1>2, <1>3, <1>4 DEF Descriptors, OpenTarget, OnlyTarget, Source, Target
<1>8. Target(i) \notin Unwritable => Target(i) \in DOMAIN files' /\ files'[Target(i)] = <<>>
  BY DEF OpenTarget, OpenDest, OpenDestFails
<1>9. 0 <= Len(Content(i)) /\ SubSeq(Content(i), 1, 0) = <<>>
  BY <1>2
<1>10. OwnCopy'
  BY <1>1, <1>3, <1>8, <1>9 DEF OwnCopy, OpenTarget, Target, Content, Source
<1> QED
  BY <1>1, <1>5, <1>6, <1>7, <1>10

LEMMA ReadCopy ==
  ASSUME IInv, Read PROVE CopyInv'
<1> USE DEF IInv, CopyInv
<1>1. /\ i \in JobIds /\ pc = "read" /\ pc' = "write"
      /\ UNCHANGED <<files, src_fd, dest_fd, stolen, i, status>>
  BY JobFacts DEF ControlInv, Read, At, ReadBlock
<1>2. src_fd[Me] = Source(i) /\ files[Source(i)] = Content(i)
  BY <1>1, ContentType DEF Descriptors
<1>3. /\ buffer' = [c \in Copiers |-> buffer'[c]]
      /\ stolen[Me] < Len(Content(i))
      /\ buffer'[Me] = Content(i)[stolen[Me] + 1]
  BY <1>2, OneCopier DEF Read, ReadBlock, Descriptors
<1>4. Descriptors'
  BY <1>1, <1>3 DEF Descriptors, Source, Target
<1>5. OwnCopy'
  BY <1>1, <1>3 DEF OwnCopy, Content, Source, Target
<1> QED
  BY <1>1, <1>4, <1>5 DEF SourcesStay, Stands, Overwritten, Content

LEMMA WriteCopy ==
  ASSUME SourcesApart, IInv, Write PROVE CopyInv'
<1> USE DEF IInv, CopyInv
<1>1. /\ i \in JobIds /\ status[i] = "taken" /\ pc = "write" /\ pc' = "read"
      /\ UNCHANGED <<src_fd, dest_fd, buffer, i, status>>
  BY JobFacts DEF ControlInv, Write, At, WriteBlock
<1>2. /\ Target(i) \notin Unwritable /\ dest_fd[Me] = Target(i)
      /\ Source(i) \in DOMAIN files
  BY <1>1 DEF Descriptors, Write, WriteBlock
<1>3. /\ Content(i) \in Seq(Blocks)
      /\ stolen[Me] \in Nat /\ stolen[Me] < Len(Content(i))
      /\ buffer[Me] = Content(i)[stolen[Me] + 1]
      /\ Target(i) \in DOMAIN files
      /\ files[Target(i)] = SubSeq(Content(i), 1, stolen[Me])
  BY <1>1, <1>2, OneCopier, ContentType DEF Descriptors, OwnCopy
<1>4. /\ files' = [files EXCEPT ![Target(i)] = WrittenAt(@, stolen[Me], buffer[Me])]
      /\ stolen' = [stolen EXCEPT ![Me] = @ + 1]
  BY <1>2 DEF Write, WriteBlock
<1>5. OnlyTarget
  BY <1>4 DEF OnlyTarget
<1>6. SourcesStay' /\ \A j \in JobIds : j # i => Stands(j)'
  BY <1>1, <1>5, OthersStay
<1>7. Stands(i)'
  BY <1>1 DEF Stands
<1>8. stolen' \in [Copiers -> Nat] /\ stolen'[Me] = stolen[Me] + 1
  BY <1>4, OneCopier DEF Descriptors
<1>9. Descriptors'
  BY <1>1, <1>5, <1>8 DEF Descriptors, OnlyTarget, Source, Target
<1>10. Target(i) \in DOMAIN files' /\ files'[Target(i)] = SubSeq(Content(i), 1, stolen[Me] + 1)
  BY <1>3, <1>4, WrittenAtEnd
<1>11. stolen[Me] + 1 <= Len(Content(i))
  BY <1>3
<1>12. OwnCopy'
  BY <1>1, <1>8, <1>10, <1>11 DEF OwnCopy, Target, Content, Source
<1> QED
  BY <1>1, <1>6, <1>7, <1>9, <1>12

(* copy_files returns: what it calls copied is a copy.                     *)
LEMMA EndCopy ==
  ASSUME SourcesApart, IInv, Finish \/ ReadFails \/ WriteStops PROVE CopyInv'
<1> USE DEF IInv, CopyInv
<1>1. /\ i \in JobIds /\ status[i] = "taken"
      /\ pc \in {"read", "write"} /\ pc' = "open_src"
      /\ UNCHANGED <<stolen, buffer>>
  BY JobFacts DEF ControlInv, Finish, ReadFails, WriteStops, WriteFails, At, NextFile
<1>2. /\ src_fd' \in [Copiers -> Paths \cup {NoFile}]
      /\ dest_fd' \in [Copiers -> Paths \cup {NoFile}]
  BY DEF Descriptors, Finish, ReadFails, WriteStops, WriteFails, Closed
<1>3. Descriptors' /\ OwnCopy'
  BY <1>1, <1>2 DEF Descriptors, OwnCopy
<1>4. PICK s \in {"copied", "partial", "failed"} : status' = [status EXCEPT ![i] = s]
  BY DEF Finish, ReadFails, WriteStops, NextFile
<1>5. status'[i] = s /\ \A j \in JobIds : j # i => status'[j] = status[j]
  BY <1>1, <1>4 DEF ControlInv
<1>6. OnlyTarget
  <2>1. CASE UNCHANGED files
    BY <2>1 DEF OnlyTarget
  <2>2. CASE WriteStops /\ ~ UNCHANGED files
    <3>1. dest_fd[Me] = Target(i)
      BY <1>1, <2>2 DEF WriteStops, WriteFails, Descriptors
    <3> QED
      BY <2>2, <3>1 DEF WriteStops, WriteFails, OnlyTarget
  <2> QED
    BY <2>1, <2>2 DEF Finish, ReadFails
<1>7. SourcesStay' /\ \A j \in JobIds : j # i => Stands(j)'
  BY <1>1, <1>5, <1>6, OthersStay
<1>8. ASSUME NEW j \in JobIds, j = i PROVE Stands(j)'
  <2> SUFFICES ASSUME s = "copied", Target(j) \notin Unwritable
               PROVE  Target(j) \in DOMAIN files' /\ files'[Target(j)] = Content(j)
    BY <1>5, <1>8 DEF Stands, Content, Source, Target
  <2>1. Finish
    BY <1>1, <1>4 DEF Finish, ReadFails, WriteStops, NextFile, ControlInv
  <2>2. pc = "read" /\ src_fd[Me] = Source(j) /\ files[Source(j)] = Content(j)
        /\ Content(j) \in Seq(Blocks)
    BY <1>8, <2>1, ContentType DEF Finish, At, Descriptors
  <2>3. /\ stolen[Me] \in Nat
        /\ stolen[Me] <= Len(Content(j)) /\ stolen[Me] >= Len(Content(j))
        /\ Target(j) \in DOMAIN files
        /\ files[Target(j)] = SubSeq(Content(j), 1, stolen[Me])
    BY <1>8, <2>1, <2>2, OneCopier DEF Finish, AtEnd, OwnCopy, Descriptors
  <2>4. files[Target(j)] = Content(j)
    BY <2>2, <2>3
  <2> QED
    BY <2>1, <2>3, <2>4 DEF Finish
<1> QED
  BY <1>3, <1>7, <1>8

LEMMA CopyStep ==
  ASSUME SourcesApart, IInv, [Next]_vars PROVE CopyInv'
<1>1. CASE Missing \/ Report \/ UNCHANGED vars
  <2>1. UNCHANGED <<copyVars, i, pc, status>>
    BY <1>1 DEF Missing, Report, vars
  <2> QED
    BY <2>1 DEF IInv, CopyInv, copyVars, SourcesStay, Descriptors, OwnCopy, Stands,
         Overwritten, Content, Source, Target
<1> QED
  BY <1>1, OpenSrcCopy, StatCopy, OpenTargetCopy, ReadCopy, WriteCopy, EndCopy
     DEF Next, Step, Exited

(* The last copy to a destination is whole, on any command line on which   *)
(* no destination is a source, whatever was there before and whatever      *)
(* failed on the way.                                                      *)
THEOREM LastCopyAlwaysStands ==
  ASSUME SourcesApart PROVE Spec => []LastCopyStands
<1>1. Init => IInv
  <2>1. Init => ControlInv
    BY Jobs DEF Init, ControlInv
  <2>2. Init => CopyInv
    BY DEF Init, CopyInit, CopyInv, SourcesStay, Content, Descriptors, OwnCopy, Stands
  <2> QED
    BY <2>1, <2>2 DEF IInv
<1>2. IInv /\ [Next]_vars => IInv'
  BY ControlStep, CopyStep DEF IInv
<1>3. IInv => LastCopyStands
  BY DEF IInv, CopyInv, Stands, Overwritten, Content, LastCopyStands
<1> QED
  BY <1>1, <1>2, <1>3, PTL DEF Spec
=============================================================================

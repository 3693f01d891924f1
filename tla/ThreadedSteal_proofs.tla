------------------------- MODULE ThreadedSteal_proofs -------------------------
(***************************************************************************)
(* Proofs about ThreadedSteal for every command line, every number of      *)
(* threads and all faults.                                                 *)
(***************************************************************************)
EXTENDS ThreadedSteal, TLAPS

(* TypeOK in two halves: what copy_files uses, and what main and the queue *)
(* use.                                                                    *)
CopyTypeOK ==
  /\ DOMAIN files \subseteq Paths
  /\ \A p \in DOMAIN files : files[p] \in Seq(Blocks)
  /\ src_fd \in [Copiers -> Paths \cup {NoFile}]
  /\ dest_fd \in [Copiers -> Paths \cup {NoFile}]
  /\ stolen \in [Copiers -> Nat]
  /\ buffer \in [Copiers -> Blocks]

QueueTypeOK ==
  /\ job_index \in 0 .. Len(Argv)
  /\ queue_mutex \in Copiers \cup {NoThread}
  /\ pc \in [Copiers -> Locations]
  /\ next_job \in [Copiers -> JobIds \cup {NoJob}]
  /\ spawned \in 0 .. NUM_THREADS
  /\ joined \in 0 .. spawned
  /\ exit \in {Running, 0, 1}
  /\ status \in
       [JobIds -> {"pending", "taken", "copied", "partial", "failed"}]

(* The mutex is held from the look at job_index to its increment.          *)
QueueHeld ==
  /\ \A t \in Copiers : pc[t] \in {"check", "advance"} => queue_mutex = t
  /\ \A t \in Copiers : pc[t] = "advance" =>
       next_job[t] = job_index + 1 /\ job_index < Len(Argv)
  /\ \A t \in Copiers : Copying(t) => next_job[t] # NoJob

(* A worker stops when the queue is drained, and main joins it then.       *)
Stopping ==
  /\ \A t \in Copiers : t > spawned => pc[t] = "unborn"
  /\ \A t \in Copiers : t <= joined => pc[t] = "stopped"
  /\ \A t \in Copiers : pc[t] = "stopped" => job_index = Len(Argv)

ControlInv == QueueTypeOK /\ QueueHeld /\ JobsClaimedOnce /\ Stopping

(* An open file exists; a worker that reads has a source, and a worker     *)
(* that may write has no destination but the one of its job.               *)
OpenFilesExist ==
  \A t \in Copiers :
    /\ src_fd[t] \in DOMAIN files \cup {NoFile}
    /\ dest_fd[t] \in DOMAIN files \cup {NoFile}

CopyInv == CopyTypeOK /\ OpenFilesExist

OwnFiles ==
  \A t \in Copiers :
    /\ pc[t] \in {"read", "write"} => src_fd[t] # NoFile
    /\ pc[t] \in {"fstat", "read", "write"} =>
         dest_fd[t] \in {Target(next_job[t]), NoFile}

IInv == ControlInv /\ CopyInv /\ OwnFiles

-----------------------------------------------------------------------------
(* The constants as facts the solvers can use.                             *)
LEMMA Jobs ==
  /\ Len(Argv) \in Nat
  /\ JobIds = 1 .. Len(Argv)
  /\ \A j \in JobIds : Source(j) \in Paths /\ Target(j) \in Paths
BY CopyAssumption DEF JobIds, Paths

LEMMA Threads == NUM_THREADS \in Nat \ {0} /\ Copiers = 1 .. NUM_THREADS
BY ThreadsAssumption

(* Writing a block keeps a file a sequence of blocks.                      *)
LEMMA WrittenAtType ==
  ASSUME NEW f \in Seq(Blocks), NEW k \in Nat, NEW b \in Blocks
  PROVE  WrittenAt(f, k, b) \in Seq(Blocks)
<1> DEFINE n == IF Len(f) > k THEN Len(f) ELSE k + 1
<1>1. n \in Nat
  OBVIOUS
<1>2. Damaged \in Blocks
  BY DEF Blocks
<1>3. \A i \in 1 .. n :
        (IF i = k + 1 THEN b ELSE IF i <= Len(f) THEN f[i] ELSE Damaged) \in Blocks
  BY <1>2
<1>4. WrittenAt(f, k, b) =
        [i \in 1 .. n |->
           IF i = k + 1 THEN b ELSE IF i <= Len(f) THEN f[i] ELSE Damaged]
  BY DEF WrittenAt
<1> HIDE DEF n
<1> QED
  BY <1>1, <1>3, <1>4

-----------------------------------------------------------------------------
(* The calls on files keep the types, and the files that are open exist.   *)

LEMMA OpenSourceInv ==
  ASSUME CopyInv, NEW c \in Copiers, NEW p \in Paths, OpenSource(c, p)
  PROVE  CopyInv'
BY DEF CopyInv, CopyTypeOK, OpenFilesExist, OpenSource

LEMMA OpenDestInv ==
  ASSUME CopyInv, NEW c \in Copiers, NEW p \in Paths, OpenDest(c, p)
  PROVE  CopyInv'
<1> USE DEF CopyInv, OpenDest
<1>1. DOMAIN files' = DOMAIN files \cup {p}
  OBVIOUS
<1>2. \A q \in DOMAIN files' : files'[q] \in Seq(Blocks)
  BY <1>1 DEF CopyTypeOK
<1>3. CopyTypeOK'
  BY <1>1, <1>2 DEF CopyTypeOK
<1>4. OpenFilesExist'
  BY <1>1 DEF CopyTypeOK, OpenFilesExist
<1> QED
  BY <1>3, <1>4

LEMMA OpenDestFailsInv ==
  ASSUME CopyInv, NEW c \in Copiers, NEW p, OpenDestFails(c, p)
  PROVE  CopyInv'
BY DEF CopyInv, CopyTypeOK, OpenFilesExist, OpenDestFails

LEMMA ReadBlockInv ==
  ASSUME CopyInv, NEW c \in Copiers, src_fd[c] # NoFile, ReadBlock(c)
  PROVE  CopyInv'
<1>1. src_fd[c] \in DOMAIN files /\ files[src_fd[c]] \in Seq(Blocks)
  BY DEF CopyInv, CopyTypeOK, OpenFilesExist
<1>2. files[src_fd[c]][stolen[c] + 1] \in Blocks
  BY <1>1 DEF CopyInv, CopyTypeOK, ReadBlock
<1> QED
  BY <1>2 DEF CopyInv, CopyTypeOK, OpenFilesExist, ReadBlock

(* A file that is open for writing gets a block, or a damaged one.         *)
LEMMA WrittenInv ==
  ASSUME CopyInv, NEW c \in Copiers, dest_fd[c] # NoFile, NEW b \in Blocks,
         files' = [files EXCEPT ![dest_fd[c]] = WrittenAt(@, stolen[c], b)]
  PROVE  /\ DOMAIN files' = DOMAIN files
         /\ \A p \in DOMAIN files' : files'[p] \in Seq(Blocks)
<1>1. dest_fd[c] \in DOMAIN files /\ files[dest_fd[c]] \in Seq(Blocks)
  BY DEF CopyInv, CopyTypeOK, OpenFilesExist
<1>2. WrittenAt(files[dest_fd[c]], stolen[c], b) \in Seq(Blocks)
  BY <1>1, WrittenAtType DEF CopyInv, CopyTypeOK
<1> QED
  BY <1>1, <1>2 DEF CopyInv, CopyTypeOK

LEMMA WriteBlockInv ==
  ASSUME CopyInv, NEW c \in Copiers, WriteBlock(c)
  PROVE  CopyInv'
<1>1. /\ DOMAIN files' = DOMAIN files
      /\ \A p \in DOMAIN files' : files'[p] \in Seq(Blocks)
  BY WrittenInv DEF CopyInv, CopyTypeOK, WriteBlock
<1> QED
  BY <1>1 DEF CopyInv, CopyTypeOK, OpenFilesExist, WriteBlock

LEMMA ClosedInv ==
  ASSUME CopyInv, NEW c \in Copiers, Closed(c), UNCHANGED <<stolen, buffer>>,
         DOMAIN files' = DOMAIN files,
         \A p \in DOMAIN files' : files'[p] \in Seq(Blocks)
  PROVE  CopyInv'
BY DEF CopyInv, CopyTypeOK, OpenFilesExist, Closed

LEMMA WriteFailsInv ==
  ASSUME CopyInv, NEW c \in Copiers, WriteFails(c)
  PROVE  CopyInv'
<1>1. Damaged \in Blocks
  BY DEF Blocks
<1>2. /\ DOMAIN files' = DOMAIN files
      /\ \A p \in DOMAIN files' : files'[p] \in Seq(Blocks)
  <2>1. CASE files' = files
    BY <2>1 DEF CopyInv, CopyTypeOK
  <2>2. CASE files' # files
    BY <1>1, <2>2, WrittenInv DEF WriteFails
  <2> QED
    BY <2>1, <2>2
<1> QED
  BY <1>2, ClosedInv DEF WriteFails

-----------------------------------------------------------------------------
(* The queue.  What a copying worker does to files does not concern it.    *)

LEMMA ProceedsControl ==
  ASSUME ControlInv, NEW t \in Copiers, Copying(t),
         NEW l \in {"open_dest", "fstat", "read", "write"}, Proceeds(t, l)
  PROVE  ControlInv'
<1> USE Jobs, Threads DEF ControlInv, Proceeds, GoTo, mainVars, queueVars
<1>1. QueueTypeOK'
  BY DEF QueueTypeOK, Locations
<1>2. QueueHeld'
  BY DEF QueueTypeOK, QueueHeld, Copying
<1>3. JobsClaimedOnce'
  BY DEF QueueTypeOK, JobsClaimedOnce, Copying
<1>4. Stopping'
  BY DEF QueueTypeOK, Stopping, Copying
<1> QED
  BY <1>1, <1>2, <1>3, <1>4

LEMMA ReturnsControl ==
  ASSUME ControlInv, NEW t \in Copiers, Copying(t),
         NEW s \in {"copied", "partial", "failed"}, Returns(t, s)
  PROVE  ControlInv'
<1> USE Jobs, Threads DEF ControlInv, Returns, GoTo, mainVars, queueVars
<1>1. QueueTypeOK'
  BY DEF QueueTypeOK, Locations
<1>2. QueueHeld'
  BY DEF QueueTypeOK, QueueHeld, Copying
<1>3. JobsClaimedOnce'
  BY DEF QueueTypeOK, JobsClaimedOnce, Copying
<1>4. Stopping'
  BY DEF QueueTypeOK, Stopping, Copying
<1> QED
  BY <1>1, <1>2, <1>3, <1>4

LEMMA MainControl ==
  ASSUME ControlInv, Main
  PROVE  ControlInv'
<1> USE Jobs, Threads DEF ControlInv, queueVars
<1>1. CASE Spawn
  <2> USE <1>1 DEF Spawn
  <2>1. QueueTypeOK'
    BY DEF QueueTypeOK, Locations
  <2>2. spawned + 1 \in Copiers /\ pc[spawned + 1] = "unborn"
    BY DEF QueueTypeOK, Stopping
  <2>3. QueueHeld'
    BY DEF QueueTypeOK, QueueHeld, Copying
  <2>4. JobsClaimedOnce'
    BY <2>2 DEF QueueTypeOK, JobsClaimedOnce, Copying
  <2>5. Stopping'
    BY <2>2 DEF QueueTypeOK, Stopping
  <2> QED
    BY <2>1, <2>3, <2>4, <2>5
<1>2. CASE SpawnFails \/ Report
  <2> USE <1>2 DEF SpawnFails, Report
  <2>1. QueueTypeOK'
    BY DEF QueueTypeOK
  <2>2. QueueHeld' /\ Stopping'
    BY DEF QueueHeld, Stopping, Copying
  <2>3. JobsClaimedOnce'
    BY DEF JobsClaimedOnce, Copying
  <2> QED
    BY <2>1, <2>2, <2>3
<1>3. CASE Join
  BY <1>3 DEF Join, QueueTypeOK, QueueHeld, JobsClaimedOnce, Copying, Stopping
<1> QED
  BY <1>1, <1>2, <1>3 DEF Main

LEMMA QueueControl ==
  ASSUME ControlInv, NEW t \in Copiers, Queue(t)
  PROVE  ControlInv'
<1> USE Jobs, Threads DEF ControlInv, GoTo, At, mainVars, queueVars
<1>1. CASE Lock(t)
  <2> USE <1>1 DEF Lock
  <2>1. QueueTypeOK'
    BY DEF QueueTypeOK, Locations
  <2>2. QueueHeld'
    BY DEF QueueTypeOK, QueueHeld, NoThread, Copying
  <2>3. JobsClaimedOnce'
    BY DEF QueueTypeOK, JobsClaimedOnce, Copying
  <2>4. Stopping'
    BY DEF QueueTypeOK, Stopping
  <2> QED
    BY <2>1, <2>2, <2>3, <2>4
<1>2. CASE Stop(t)
  <2> USE <1>2 DEF Stop
  <2>1. QueueTypeOK'
    BY DEF QueueTypeOK, Locations
  <2>2. QueueHeld'
    BY DEF QueueTypeOK, QueueHeld, Copying
  <2>3. JobsClaimedOnce'
    BY SMTT(30) DEF QueueTypeOK, JobsClaimedOnce, Copying
  <2>4. Stopping'
    BY DEF QueueTypeOK, Stopping, Drained
  <2> QED
    BY <2>1, <2>2, <2>3, <2>4
<1>3. CASE Fetch(t)
  <2> USE <1>3 DEF Fetch
  <2>1. job_index + 1 \in JobIds
    BY DEF QueueTypeOK, Drained
  <2>2. QueueTypeOK'
    BY <2>1 DEF QueueTypeOK, Locations
  <2>3. QueueHeld'
    BY DEF QueueTypeOK, QueueHeld, Drained, Copying
  <2>4. JobsClaimedOnce'
    BY SMTT(30) DEF QueueTypeOK, JobsClaimedOnce, Copying
  <2>5. Stopping'
    BY DEF QueueTypeOK, Stopping
  <2> QED
    BY <2>2, <2>3, <2>4, <2>5
<1>4. CASE Advance(t)
  <2> USE <1>4 DEF Advance
  <2>1. next_job[t] = job_index + 1 /\ next_job[t] \in JobIds
    BY DEF QueueTypeOK, QueueHeld, Copying
  <2>2. QueueTypeOK'
    BY <2>1 DEF QueueTypeOK, Locations
  <2>3. QueueHeld'
    BY <2>1 DEF QueueTypeOK, QueueHeld, Copying, NoJob
  <2>4. status[next_job[t]] = "pending"
    BY <2>1 DEF JobsClaimedOnce, QueueTypeOK
  <2>5. JobsClaimedOnce'
    <3>1. \A j \in JobIds : status'[j] = "pending" <=> j > job_index'
      BY <2>1 DEF QueueTypeOK, JobsClaimedOnce
    <3>2. \A j \in JobIds : status'[j] = "taken" =>
            \E u \in Copiers : Copying(u)' /\ next_job'[u] = j
      BY <2>1 DEF QueueTypeOK, JobsClaimedOnce, Copying
    <3>3. \A u \in Copiers : Copying(u)' => status'[next_job'[u]] = "taken"
      BY <2>1 DEF QueueTypeOK, JobsClaimedOnce, Copying
    <3>4. \A u, v \in Copiers :
            Copying(u)' /\ Copying(v)' /\ next_job'[u] = next_job'[v] => u = v
      <4>1. \A u \in Copiers : Copying(u)' => u = t \/ Copying(u)
        BY DEF QueueTypeOK, Copying
      <4>2. \A u \in Copiers : Copying(u) => next_job[u] # next_job[t]
        BY <2>4 DEF JobsClaimedOnce
      <4>3. \A u, v \in Copiers :
              Copying(u) /\ Copying(v) /\ next_job[u] = next_job[v] => u = v
        BY DEF JobsClaimedOnce
      <4> QED
        BY <4>1, <4>2, <4>3
    <3> QED
      BY <3>1, <3>2, <3>3, <3>4 DEF JobsClaimedOnce
  <2>6. Stopping'
    BY <2>1 DEF QueueTypeOK, QueueHeld, Stopping
  <2> QED
    BY <2>2, <2>3, <2>5, <2>6
<1> QED
  BY <1>1, <1>2, <1>3, <1>4 DEF Queue

-----------------------------------------------------------------------------
(* A worker's files.                                                       *)

LEMMA InitIInv == Init => IInv
<1> SUFFICES ASSUME Init PROVE IInv
  OBVIOUS
<1> USE Jobs, Threads DEF Init, CopyInit
<1>1. ControlInv
  BY DEF ControlInv, QueueTypeOK, QueueHeld, JobsClaimedOnce, Copying, Stopping,
       Locations, NoThread, NoJob, Running
<1>2. CopyInv
  <2>1. DOMAIN InitialFiles \subseteq Paths
    BY DEF Paths
  <2>2. Damaged \in Blocks
    BY DEF Blocks
  <2> QED
    BY <2>1, <2>2, CopyAssumption DEF CopyInv, CopyTypeOK, OpenFilesExist
<1>3. OwnFiles
  BY DEF OwnFiles
<1> QED
  BY <1>1, <1>2, <1>3 DEF IInv

(* While a worker copies, its job is one of the queue's.                   *)
LEMMA CopyingHasJob ==
  ASSUME ControlInv, NEW t \in Copiers, Copying(t)
  PROVE  next_job[t] \in JobIds
BY DEF ControlInv, QueueTypeOK, QueueHeld

LEMMA CopyIInv ==
  ASSUME IInv, NEW t \in Copiers, Copy(t)
  PROVE  IInv'
<1> USE DEF IInv
<1>1. CASE OpenSrc(t)
  <2> USE <1>1 DEF OpenSrc, At
  <2>1. Copying(t) /\ next_job[t] \in JobIds
    BY CopyingHasJob DEF Copying
  <2>2. ControlInv'
    BY <2>1, ProceedsControl
  <2>3. CopyInv'
    BY <2>1, Jobs, OpenSourceInv
  <2>4. OwnFiles'
    BY DEF OwnFiles, OpenSource, Proceeds, GoTo, ControlInv, QueueTypeOK,
         CopyInv, CopyTypeOK, Target
  <2> QED
    BY <2>2, <2>3, <2>4
<1>2. CASE OpenTarget(t)
  <2> USE <1>2 DEF OpenTarget, At
  <2>1. Copying(t) /\ next_job[t] \in JobIds
    BY CopyingHasJob DEF Copying
  <2>2. ControlInv'
    BY <2>1, ProceedsControl
  <2>3. CopyInv'
    BY <2>1, Jobs, OpenDestInv, OpenDestFailsInv
  <2>4. OwnFiles'
    BY DEF OwnFiles, OpenDest, OpenDestFails, Proceeds, GoTo, ControlInv,
         QueueTypeOK, CopyInv, CopyTypeOK
  <2> QED
    BY <2>2, <2>3, <2>4
<1>3. CASE Stat(t) \/ StatFails(t)
  <2> USE <1>3 DEF Stat, StatFails, At
  <2>1. Copying(t)
    BY DEF Copying
  <2>2. ControlInv'
    BY <2>1, ProceedsControl, ReturnsControl
  <2>3. CopyInv'
    BY DEF CopyInv, CopyTypeOK, OpenFilesExist, copyVars
  <2>4. OwnFiles'
    BY DEF OwnFiles, copyVars, Proceeds, Returns, GoTo, ControlInv, QueueTypeOK
  <2> QED
    BY <2>2, <2>3, <2>4
<1>4. CASE Read(t)
  <2> USE <1>4 DEF Read, At
  <2>1. Copying(t)
    BY DEF Copying
  <2>2. ControlInv'
    BY <2>1, ProceedsControl
  <2>3. CopyInv'
    BY ReadBlockInv DEF OwnFiles
  <2>4. OwnFiles'
    BY DEF OwnFiles, ReadBlock, Proceeds, GoTo, ControlInv, QueueTypeOK
  <2> QED
    BY <2>2, <2>3, <2>4
<1>5. CASE Finish(t) \/ ReadFails(t)
  <2> USE <1>5 DEF Finish, ReadFails, At
  <2>1. Copying(t)
    BY DEF Copying
  <2>2. ControlInv'
    BY <2>1, ReturnsControl
  <2>3. CopyInv'
    BY ClosedInv DEF CopyInv, CopyTypeOK
  <2>4. OwnFiles'
    BY DEF OwnFiles, Closed, Returns, GoTo, ControlInv, QueueTypeOK, CopyInv,
         CopyTypeOK
  <2> QED
    BY <2>2, <2>3, <2>4
<1>6. CASE Write(t)
  <2> USE <1>6 DEF Write, At
  <2>1. Copying(t)
    BY DEF Copying
  <2>2. ControlInv'
    BY <2>1, ProceedsControl
  <2>3. CopyInv'
    BY WriteBlockInv
  <2>4. OwnFiles'
    BY DEF OwnFiles, WriteBlock, Proceeds, GoTo, ControlInv, QueueTypeOK
  <2> QED
    BY <2>2, <2>3, <2>4
<1>7. CASE WriteStops(t)
  <2> USE <1>7 DEF WriteStops, At
  <2>1. Copying(t)
    BY DEF Copying
  <2>2. ControlInv'
    BY <2>1, ReturnsControl
  <2>3. CopyInv'
    BY WriteFailsInv
  <2>4. OwnFiles'
    BY DEF OwnFiles, WriteFails, Closed, Returns, GoTo, ControlInv, QueueTypeOK,
         CopyInv, CopyTypeOK
  <2> QED
    BY <2>2, <2>3, <2>4
<1> QED
  BY <1>1, <1>2, <1>3, <1>4, <1>5, <1>6, <1>7 DEF Copy

LEMMA NextIInv ==
  ASSUME IInv, [Next]_vars
  PROVE  IInv'
<1> USE DEF IInv
<1>1. CASE Main
  <2>1. ControlInv'
    BY <1>1, MainControl
  <2>2. CopyInv'
    BY <1>1 DEF Main, Spawn, SpawnFails, Join, Report, copyVars, CopyInv,
         CopyTypeOK, OpenFilesExist
  <2>3. OwnFiles'
    BY <1>1 DEF Main, Spawn, SpawnFails, Join, Report, copyVars, OwnFiles,
         ControlInv, QueueTypeOK
  <2> QED
    BY <2>1, <2>2, <2>3
<1>2. CASE \E t \in Copiers : Queue(t)
  <2>1. PICK t \in Copiers : Queue(t)
    BY <1>2
  <2>2. ControlInv'
    BY <2>1, QueueControl
  <2>3. CopyInv'
    BY <2>1 DEF Queue, Lock, Stop, Fetch, Advance, copyVars, CopyInv, CopyTypeOK,
         OpenFilesExist
  <2>4. OwnFiles'
    BY <2>1 DEF Queue, Lock, Stop, Fetch, Advance, At, GoTo, copyVars, OwnFiles,
         ControlInv, QueueTypeOK
  <2> QED
    BY <2>2, <2>3, <2>4
<1>3. CASE \E t \in Copiers : Copy(t)
  BY <1>3, CopyIInv
<1>4. CASE UNCHANGED vars
  <2> USE <1>4 DEF vars, copyVars, queueVars, mainVars
  <2>1. ControlInv'
    BY DEF ControlInv, QueueTypeOK, QueueHeld, JobsClaimedOnce, Copying, Stopping
  <2>2. CopyInv' /\ OwnFiles'
    BY DEF CopyInv, CopyTypeOK, OpenFilesExist, OwnFiles
  <2> QED
    BY <2>1, <2>2
<1> QED
  BY <1>1, <1>2, <1>3, <1>4 DEF Next, Exited

-----------------------------------------------------------------------------
(* The program keeps its types and the queue hands out every job once, for *)
(* any number of workers.                                                  *)
THEOREM Invariant == Spec => []IInv
<1>1. Init => IInv
  BY InitIInv
<1>2. IInv /\ [Next]_vars => IInv'
  BY NextIInv
<1> QED
  BY <1>1, <1>2, PTL DEF Spec

(* An index into job_queue, and all else, has a value its type allows.     *)
THEOREM TypeCorrect == Spec => []TypeOK
<1>1. IInv => TypeOK
  BY DEF IInv, ControlInv, CopyInv, QueueTypeOK, CopyTypeOK, TypeOK
<1> QED
  BY <1>1, Invariant, PTL

(* worker takes every job off the queue once, under queue_mutex.           *)
THEOREM JobsAreClaimedOnce == Spec => []JobsClaimedOnce
<1>1. IInv => JobsClaimedOnce
  BY DEF IInv, ControlInv
<1> QED
  BY <1>1, Invariant, PTL

(* No step of copy_files changes a file that is not the destination of a   *)
(* job under way.                                                          *)
THEOREM OnlyTargetsAreChanged == Spec => OnlyTargetsChange
<1>1. ASSUME IInv, [Next]_vars PROVE OnlyTargetsChangeStep
  <2>1. CASE files' = files
    BY <2>1 DEF OnlyTargetsChangeStep
  <2>2. CASE \E t \in Copiers : OpenTarget(t)
    BY <2>2 DEF OnlyTargetsChangeStep, OpenTarget, OpenDest, OpenDestFails, At,
         Copying
  <2>3. CASE \E t \in Copiers : Write(t) \/ WriteStops(t)
    <3>1. PICK t \in Copiers : Write(t) \/ WriteStops(t)
      BY <2>3
    <3>2. Copying(t)
      BY <3>1 DEF Write, WriteStops, At, Copying
    <3>3. CASE dest_fd[t] = NoFile
      BY <3>1, <3>3, <2>1 DEF Write, WriteStops, WriteBlock, WriteFails
    <3>4. CASE dest_fd[t] # NoFile
      <4>1. dest_fd[t] = Target(next_job[t])
        BY <1>1, <3>1, <3>4 DEF IInv, OwnFiles, Write, WriteStops, At
      <4>2. /\ DOMAIN files' = DOMAIN files
            /\ \A p \in DOMAIN files : p # dest_fd[t] => files'[p] = files[p]
        BY <3>1, <2>1 DEF Write, WriteStops, WriteBlock, WriteFails
      <4> QED
        BY <3>2, <4>1, <4>2 DEF OnlyTargetsChangeStep
    <3> QED
      BY <3>3, <3>4
  <2> QED
    BY <1>1, <2>1, <2>2, <2>3 DEF Next, Main, Spawn, SpawnFails, Join, Report,
         Queue, Lock, Stop, Fetch, Advance, Copy, OpenSrc, OpenSource, Stat,
         StatFails, Read, ReadBlock, Finish, ReadFails, Exited, vars, copyVars
<1>2. [][OnlyTargetsChangeStep]_vars <=> OnlyTargetsChange
  BY DEF OnlyTargetsChange
<1> QED
  BY <1>1, <1>2, Invariant, PTL DEF Spec

-----------------------------------------------------------------------------
(* CopyBatch.  When main has joined all workers no job is left.            *)
LEMMA AllEndedWhenJoined ==
  ASSUME IInv, joined = NUM_THREADS
  PROVE  \A j \in JobIds : status[j] \notin {"pending", "taken"}
<1> USE Jobs, Threads DEF IInv, ControlInv
<1>1. \A t \in Copiers : pc[t] = "stopped"
  BY DEF Stopping
<1>2. 1 \in Copiers
  OBVIOUS
<1>3. job_index = Len(Argv)
  BY <1>1, <1>2 DEF Stopping
<1>4. \A t \in Copiers : ~ Copying(t)
  BY <1>1 DEF Copying
<1> QED
  BY <1>3, <1>4 DEF JobsClaimedOnce, QueueTypeOK

(* What CopyBatch sees of the jobs.                                        *)
Shown ==
  [j \in JobIds |-> IF status[j] = "partial" THEN "copied" ELSE status[j]]

Phase ==
  IF exit = Running THEN "running"
  ELSE IF exit = 0 THEN "reported" ELSE "aborted"

LEMMA ShownTaken ==
  ASSUME IInv, NEW j \in JobIds, status[j] = "pending",
         status' = [status EXCEPT ![j] = "taken"]
  PROVE  Shown[j] = "pending" /\ Shown' = [Shown EXCEPT ![j] = "taken"]
BY DEF Shown, IInv, ControlInv, QueueTypeOK

LEMMA ShownEnded ==
  ASSUME IInv, NEW j \in JobIds, status[j] = "taken",
         NEW s \in {"copied", "partial", "failed"},
         status' = [status EXCEPT ![j] = s]
  PROVE  /\ Shown[j] = "taken"
         /\ \E r \in {"copied", "failed"} : Shown' = [Shown EXCEPT ![j] = r]
<1> DEFINE r == IF s = "partial" THEN "copied" ELSE s
<1>1. Shown' = [Shown EXCEPT ![j] = r]
  BY DEF Shown, IInv, ControlInv, QueueTypeOK
<1>2. Shown[j] = "taken" /\ r \in {"copied", "failed"}
  BY DEF Shown
<1> QED
  BY <1>1, <1>2

(* The workers and main together keep the promise of CopyBatch.            *)
THEOREM BatchImplemented == Spec => ImplementsBatch
<1>1. Init => Batch!BatchInit
  BY DEF Init, Batch!BatchInit, Running
<1>2. ASSUME IInv, [Next]_vars
      PROVE  [Batch!BatchNext]_<<Shown, Phase>>
  <2> USE <1>2
  <2>1. CASE \E t \in Copiers : Advance(t)
    <3>1. PICK t \in Copiers : Advance(t)
      BY <2>1
    <3>0. PICK j \in JobIds : j = next_job[t]
      BY <3>1, Jobs DEF IInv, ControlInv, QueueTypeOK, QueueHeld, Advance, At
    <3>2. status[j] = "pending"
      BY <3>0, <3>1, Jobs DEF IInv, ControlInv, QueueTypeOK, QueueHeld, JobsClaimedOnce,
           Advance, At
    <3>3. Shown[j] = "pending" /\ Shown' = [Shown EXCEPT ![j] = "taken"]
      BY <3>0, <3>1, <3>2, ShownTaken DEF Advance
    <3>4. Phase = "running" /\ Phase' = Phase
      BY <3>1 DEF Advance, At, mainVars, Phase
    <3>5. Batch!Take(j)
      BY <3>3, <3>4 DEF Batch!Take, Shown, Phase
    <3> QED
      BY <3>5 DEF Batch!BatchNext
  <2>2. CASE \E t \in Copiers : \E s \in {"copied", "partial", "failed"} :
               Copying(t) /\ exit = Running /\ Returns(t, s)
    <3>1. PICK t \in Copiers, s \in {"copied", "partial", "failed"} :
            Copying(t) /\ exit = Running /\ Returns(t, s)
      BY <2>2
    <3>0. PICK j \in JobIds : j = next_job[t]
      BY <3>1, CopyingHasJob DEF IInv
    <3>2. status[j] = "taken"
      BY <3>0, <3>1 DEF IInv, ControlInv, JobsClaimedOnce
    <3>3. /\ Shown[j] = "taken"
          /\ \E r \in {"copied", "failed"} : Shown' = [Shown EXCEPT ![j] = r]
      BY <3>0, <3>1, <3>2, ShownEnded DEF Returns
    <3>4. Phase = "running" /\ Phase' = Phase
      BY <3>1 DEF Returns, mainVars, Phase
    <3>5. Batch!End(j)
      BY <3>3, <3>4 DEF Batch!End, Shown, Phase
    <3> QED
      BY <3>5 DEF Batch!BatchNext
  <2>3. CASE Report
    <3>1. \A j \in JobIds : status[j] \notin {"pending", "taken"}
      BY <2>3, AllEndedWhenJoined DEF Report
    <3>2. \A j \in JobIds : Shown[j] \in {"copied", "failed"}
      BY <3>1 DEF Shown, IInv, ControlInv, QueueTypeOK
    <3>3. Phase = "running" /\ Phase' = "reported" /\ Shown' = Shown
      BY <2>3 DEF Report, Phase, Shown, Running
    <3> QED
      BY <3>2, <3>3 DEF Batch!BatchNext, Batch!Report, Shown, Phase
  <2>4. CASE SpawnFails
    <3>1. Phase = "running" /\ Phase' = "aborted" /\ Shown' = Shown
      BY <2>4 DEF SpawnFails, Phase, Shown, Running
    <3> QED
      BY <3>1 DEF Batch!BatchNext, Batch!Abort, Shown, Phase
  <2>5. CASE UNCHANGED <<status, exit>>
    BY <2>5 DEF Shown, Phase
  <2> QED
    BY <2>1, <2>2, <2>3, <2>4, <2>5 DEF Next, Main, Spawn, Join, Queue, Lock, Stop,
         Fetch, Copy, OpenSrc, OpenTarget, Stat, StatFails, Read, Finish, ReadFails,
         Write, WriteStops, Proceeds, mainVars, At, Copying, Exited, vars
<1>3. [][Batch!BatchNext]_<<Shown, Phase>> /\ Batch!BatchInit => ImplementsBatch
  BY PTL DEF ImplementsBatch, Batch!BatchSpec, Shown, Phase
<1> QED
  BY <1>1, <1>2, <1>3, Invariant, PTL DEF Spec

-----------------------------------------------------------------------------
(* Faithful copies, where every destination is a file of its own and       *)
(* nobody's source: a destination is at all times what its worker has read *)
(* of the source so far.                                                   *)

Content(j) == InitialFiles[Source(j)]

SourcesStay ==
  \A j \in JobIds :
    /\ Source(j) \in DOMAIN files => Source(j) \in DOMAIN InitialFiles
    /\ Source(j) \in DOMAIN files => files[Source(j)] = Content(j)

OwnCopy(t) ==
  LET j == next_job[t] IN
  /\ pc[t] \in {"open_dest", "fstat", "read", "write"} =>
       src_fd[t] \in {Source(j), NoFile}
  /\ pc[t] \in {"fstat", "read", "write"} /\ src_fd[t] # NoFile =>
       /\ dest_fd[t] = NoFile => Target(j) \in Unwritable
       /\ stolen[t] <= Len(Content(j))
       /\ dest_fd[t] # NoFile =>
            files[Target(j)] = SubSeq(Content(j), 1, stolen[t])
       /\ pc[t] = "write" =>
            stolen[t] < Len(Content(j)) /\ buffer[t] = Content(j)[stolen[t] + 1]

CopiedExist ==
  \A j \in JobIds :
    status[j] = "copied" /\ Target(j) \notin Unwritable => Target(j) \in DOMAIN files

FaithInv ==
  SourcesStay /\ (\A t \in Copiers : OwnCopy(t)) /\ CopiedExist /\ CopiesFaithful

(* One more block of a sequence.                                           *)
LEMMA WrittenAtEnd ==
  ASSUME NEW f \in Seq(Blocks), NEW k \in Nat, k < Len(f)
  PROVE  WrittenAt(SubSeq(f, 1, k), k, f[k + 1]) = SubSeq(f, 1, k + 1)
<1>1. Len(SubSeq(f, 1, k)) = k /\ \A i \in 1 .. k : SubSeq(f, 1, k)[i] = f[i]
  OBVIOUS
<1>2. WrittenAt(SubSeq(f, 1, k), k, f[k + 1]) = [i \in 1 .. k + 1 |-> f[i]]
  BY <1>1 DEF WrittenAt
<1>3. SubSeq(f, 1, k + 1) = [i \in 1 .. k + 1 |-> f[i]]
  OBVIOUS
<1> QED
  BY <1>2, <1>3

LEMMA ContentType ==
  ASSUME IInv, SourcesStay, NEW j \in JobIds, Source(j) \in DOMAIN files
  PROVE  Content(j) \in Seq(Blocks)
BY CopyAssumption DEF SourcesStay, Content

(* Other jobs have other files.                                            *)
LEMMA Apart ==
  ASSUME TargetsApart, NEW i \in JobIds, NEW j \in JobIds
  PROVE  Target(i) # Source(j) /\ (i # j => Target(i) # Target(j))
BY DEF TargetsApart

(* A copying worker touches its destination and its own variables.         *)
LEMMA CopyFrame ==
  ASSUME IInv, NEW t \in Copiers, Copy(t)
  PROVE  /\ next_job' = next_job
         /\ \A u \in Copiers \ {t} :
              /\ pc'[u] = pc[u] /\ src_fd'[u] = src_fd[u]
              /\ dest_fd'[u] = dest_fd[u] /\ stolen'[u] = stolen[u]
              /\ buffer'[u] = buffer[u]
         /\ \A j \in JobIds : j # next_job[t] => status'[j] = status[j]
         /\ DOMAIN files \subseteq DOMAIN files'
         /\ \A p \in DOMAIN files' : p # Target(next_job[t]) =>
              p \in DOMAIN files /\ files'[p] = files[p]
<1> USE DEF IInv, ControlInv, QueueTypeOK, CopyInv, CopyTypeOK
<1>1. CASE OpenSrc(t) \/ Stat(t) \/ StatFails(t) \/ Read(t)
  BY <1>1 DEF OpenSrc, Stat, StatFails, Read, OpenSource, ReadBlock, Proceeds,
       Returns, GoTo, copyVars
<1>2. CASE OpenTarget(t)
  BY <1>2 DEF OpenTarget, OpenDest, OpenDestFails, Proceeds, GoTo
<1>3. CASE Finish(t) \/ ReadFails(t)
  BY <1>3 DEF Finish, ReadFails, Closed, Returns, GoTo
<1>4. CASE Write(t)
  <2>1. dest_fd[t] = Target(next_job[t])
    BY <1>4 DEF Write, WriteBlock, At, OwnFiles
  <2> QED
    BY <1>4, <2>1 DEF Write, WriteBlock, Proceeds, GoTo
<1>5. CASE WriteStops(t)
  <2>1. dest_fd[t] # NoFile => dest_fd[t] = Target(next_job[t])
    BY <1>5 DEF WriteStops, At, OwnFiles
  <2>2. /\ DOMAIN files' = DOMAIN files
        /\ \A p \in DOMAIN files : p # Target(next_job[t]) => files'[p] = files[p]
    BY <1>5, <2>1 DEF WriteStops, WriteFails
  <2> QED
    BY <1>5, <2>2 DEF WriteStops, WriteFails, Closed, Returns, GoTo
<1> QED
  BY <1>1, <1>2, <1>3, <1>4, <1>5 DEF Copy

LEMMA CopyFaithful ==
  ASSUME TargetsApart, IInv, FaithInv, NEW t \in Copiers, Copy(t)
  PROVE  FaithInv'
<1> USE DEF FaithInv
<1> DEFINE j == next_job[t]
<1>1. Copying(t) /\ j \in JobIds /\ status[j] = "taken"
  <2>1. Copying(t)
    BY DEF Copy, OpenSrc, OpenTarget, Stat, StatFails, Read, Finish, ReadFails,
         Write, WriteStops, At, Copying
  <2> QED
    BY <2>1, CopyingHasJob DEF IInv, ControlInv, JobsClaimedOnce
<1>2. SourcesStay'
  BY <1>1, CopyFrame, Apart DEF SourcesStay, Content
<1>3. ASSUME NEW u \in Copiers \ {t} PROVE OwnCopy(u)'
  <2>1. CASE pc[u] \in {"fstat", "read", "write"} /\ src_fd[u] # NoFile
             /\ dest_fd[u] # NoFile
    <3>1. next_job[u] \in JobIds /\ next_job[u] # j
      BY <1>1, <2>1, CopyingHasJob DEF IInv, ControlInv, JobsClaimedOnce, Copying
    <3>2. Target(next_job[u]) \in DOMAIN files
      BY <2>1 DEF IInv, OwnFiles, CopyInv, OpenFilesExist
    <3>3. files'[Target(next_job[u])] = files[Target(next_job[u])]
      BY <1>1, <3>1, <3>2, CopyFrame, Apart
    <3> QED
      BY <2>1, <3>3, CopyFrame DEF OwnCopy, Content, Target, Source
  <2>2. CASE ~ (pc[u] \in {"fstat", "read", "write"} /\ src_fd[u] # NoFile
                /\ dest_fd[u] # NoFile)
    BY <2>2, CopyFrame DEF OwnCopy, Content, Target, Source
  <2> QED
    BY <2>1, <2>2
<1>4. OwnCopy(t)'
  <2>1. CASE OpenSrc(t)
    BY <2>1 DEF OpenSrc, OpenSource, Proceeds, GoTo, OwnCopy, IInv, ControlInv,
         QueueTypeOK, CopyInv, CopyTypeOK, Source
  <2>2. CASE OpenTarget(t)
    <3> USE <2>2 DEF OpenTarget, At, Proceeds, GoTo
    <3>1. /\ pc'[t] = "fstat" /\ stolen'[t] = 0 /\ src_fd' = src_fd
          /\ next_job' = next_job
          /\ dest_fd'[t] = NoFile => Target(j) \in Unwritable
          /\ dest_fd'[t] # NoFile => files'[Target(j)] = <<>>
      BY <1>1, Jobs, CopyAssumption DEF OpenDest, OpenDestFails, IInv, ControlInv,
           QueueTypeOK, CopyInv, CopyTypeOK
    <3>2. src_fd[t] \in {Source(j), NoFile}
      BY DEF OwnCopy
    <3>3. src_fd[t] # NoFile => Content(j) \in Seq(Blocks)
      BY <1>1, <3>2, ContentType DEF IInv, CopyInv, OpenFilesExist
    <3>4. src_fd[t] # NoFile => 0 <= Len(Content(j)) /\ SubSeq(Content(j), 1, 0) = <<>>
      BY <3>3
    <3> QED
      BY <3>1, <3>2, <3>4 DEF OwnCopy, Content, Source, Target
  <2>3. CASE Stat(t)
    BY <2>3 DEF Stat, At, Proceeds, GoTo, copyVars, OwnCopy, Content, Source,
         Target, IInv, ControlInv, QueueTypeOK
  <2>4. CASE Read(t)
    <3> USE <2>4 DEF Read, At, Proceeds, GoTo
    <3>1. src_fd[t] = Source(j) /\ src_fd[t] # NoFile
      BY DEF OwnCopy, IInv, OwnFiles
    <3>2. files[src_fd[t]] = Content(j)
      BY <1>1, <3>1 DEF IInv, CopyInv, OpenFilesExist, SourcesStay
    <3>3. /\ stolen[t] < Len(Content(j))
          /\ buffer'[t] = Content(j)[stolen[t] + 1]
      BY <3>2 DEF ReadBlock, IInv, CopyInv, CopyTypeOK
    <3>4. /\ pc'[t] = "write" /\ UNCHANGED <<files, src_fd, dest_fd, stolen, next_job>>
      BY DEF ReadBlock, IInv, ControlInv, QueueTypeOK
    <3> QED
      BY <3>1, <3>3, <3>4 DEF OwnCopy, Content, Source, Target
  <2>5. CASE Write(t)
    <3> USE <2>5 DEF Write, At, Proceeds, GoTo
    <3>1. /\ src_fd[t] = Source(j) /\ src_fd[t] # NoFile
          /\ dest_fd[t] = Target(j) /\ dest_fd[t] # NoFile
      BY DEF OwnCopy, IInv, OwnFiles, WriteBlock
    <3>2. /\ Target(j) \in DOMAIN files
          /\ Content(j) \in Seq(Blocks)
      BY <1>1, <3>1, ContentType DEF IInv, CopyInv, OpenFilesExist
    <3>3. /\ stolen[t] \in Nat /\ stolen[t] < Len(Content(j))
          /\ buffer[t] = Content(j)[stolen[t] + 1]
          /\ files[Target(j)] = SubSeq(Content(j), 1, stolen[t])
      BY <3>1 DEF OwnCopy, IInv, CopyInv, CopyTypeOK
    <3>4. files'[Target(j)] = SubSeq(Content(j), 1, stolen[t] + 1)
      BY <3>1, <3>2, <3>3, WrittenAtEnd DEF WriteBlock
    <3>5. /\ pc'[t] = "read" /\ stolen'[t] = stolen[t] + 1
          /\ UNCHANGED <<src_fd, dest_fd, next_job>>
      BY DEF WriteBlock, IInv, ControlInv, QueueTypeOK, CopyInv, CopyTypeOK
    <3>6. stolen[t] + 1 <= Len(Content(j))
      BY <3>2, <3>3
    <3> QED
      BY <3>1, <3>4, <3>5, <3>6 DEF OwnCopy, Content, Source, Target
  <2>6. CASE StatFails(t) \/ Finish(t) \/ ReadFails(t) \/ WriteStops(t)
    BY <2>6 DEF StatFails, Finish, ReadFails, WriteStops, Returns, GoTo, OwnCopy,
         IInv, ControlInv, QueueTypeOK
  <2> QED
    BY <2>1, <2>2, <2>3, <2>4, <2>5, <2>6 DEF Copy
<1>5. ASSUME NEW i \in JobIds, status'[i] = "copied", Target(i) \notin Unwritable
      PROVE  Target(i) \in DOMAIN files' /\ files'[Target(i)] = InitialFiles[Source(i)]
  <2>1. CASE i # j
    <3>1. status[i] = "copied"
      BY <1>5, <2>1, CopyFrame
    <3>2. Target(i) \in DOMAIN files /\ files[Target(i)] = InitialFiles[Source(i)]
      BY <1>5, <3>1 DEF CopiedExist, CopiesFaithful
    <3> QED
      BY <1>1, <2>1, <3>2, CopyFrame, Apart
  <2>2. CASE i = j
    <3>1. Finish(t)
      BY <1>1, <1>5, <2>2 DEF Copy, OpenSrc, OpenTarget, Stat, StatFails, Read,
           ReadFails, Write, WriteStops, Proceeds, Returns, IInv, ControlInv,
           QueueTypeOK
    <3>2. /\ src_fd[t] = Source(j) /\ src_fd[t] # NoFile
          /\ dest_fd[t] = Target(j) /\ dest_fd[t] # NoFile
      BY <1>5, <2>2, <3>1 DEF Finish, At, OwnCopy, IInv, OwnFiles
    <3>3. files[src_fd[t]] = Content(j) /\ Target(j) \in DOMAIN files
      BY <1>1, <3>2 DEF IInv, CopyInv, OpenFilesExist, SourcesStay
    <3>4. /\ Content(j) \in Seq(Blocks)
          /\ stolen[t] \in Nat
          /\ stolen[t] <= Len(Content(j)) /\ stolen[t] >= Len(Content(j))
          /\ files[Target(j)] = SubSeq(Content(j), 1, stolen[t])
      BY <1>1, <3>1, <3>2, <3>3, ContentType DEF Finish, AtEnd, At, OwnCopy, IInv,
           CopyInv, CopyTypeOK, OpenFilesExist
    <3>5. files[Target(j)] = Content(j)
      BY <3>4
    <3> QED
      BY <2>2, <3>1, <3>3, <3>5 DEF Finish, Content
  <2> QED
    BY <2>1, <2>2
<1> QED
  BY <1>2, <1>3, <1>4, <1>5 DEF CopiedExist, CopiesFaithful

LEMMA OtherFaithful ==
  ASSUME IInv, FaithInv,
         Main \/ (\E t \in Copiers : Queue(t)) \/ UNCHANGED vars
  PROVE  FaithInv'
<1> USE DEF FaithInv
<1>1. UNCHANGED copyVars
  BY DEF Main, Spawn, SpawnFails, Join, Report, Queue, Lock, Stop, Fetch, Advance,
       vars
<1>2. \A j \in JobIds : status'[j] = "copied" => status[j] = "copied"
  BY DEF Main, Spawn, SpawnFails, Join, Report, Queue, Lock, Stop, Fetch, Advance,
       vars, mainVars, queueVars, IInv, ControlInv, QueueTypeOK
<1>3. SourcesStay' /\ CopiedExist' /\ CopiesFaithful'
  BY <1>1, <1>2 DEF copyVars, SourcesStay, Content, CopiedExist, CopiesFaithful
<1>4. ASSUME NEW u \in Copiers PROVE OwnCopy(u)'
  <2>1. \/ pc'[u] = pc[u] /\ next_job'[u] = next_job[u]
        \/ pc'[u] \notin {"open_dest", "fstat", "read", "write"}
    BY DEF Main, Spawn, SpawnFails, Join, Report, Queue, Lock, Stop, Fetch, Advance,
         vars, GoTo, IInv, ControlInv, QueueTypeOK
  <2> QED
    BY <1>1, <2>1 DEF copyVars, OwnCopy, Content, Source, Target
<1> QED
  BY <1>3, <1>4

(* A copy_files that ran to the end of its source left an equal file, on   *)
(* any command line whose destinations are apart.                          *)
THEOREM CopiesAreFaithful ==
  ASSUME TargetsApart PROVE Spec => []CopiesFaithful
<1>1. Init => FaithInv
  BY Threads DEF Init, CopyInit, FaithInv, SourcesStay, Content, OwnCopy,
       CopiedExist, CopiesFaithful
<1>2. IInv /\ FaithInv /\ [Next]_vars => FaithInv'
  BY CopyFaithful, OtherFaithful DEF Next, Exited
<1>3. FaithInv => CopiesFaithful
  BY DEF FaithInv
<1> QED
  BY <1>1, <1>2, <1>3, Invariant, PTL DEF Spec

-----------------------------------------------------------------------------
(* The end.  That the program ends under a fair scheduler rests on two     *)
(* facts about its steps, which hold under every scheduler: each one       *)
(* brings the end nearer, and somebody can take one until it has come.     *)

SourcesApart == \A i, j \in JobIds : Target(i) # Source(j)

(* Blocks of a job's source.                                               *)
Size(j) == IF Source(j) \in DOMAIN InitialFiles THEN Len(Content(j)) ELSE 0

(* Steps a worker may take before it is done with its job and has looked   *)
(* at the queue again.                                                     *)
Left(t) ==
  CASE pc[t] \in {"stopped", "advance"} -> 0
    [] pc[t] = "check" -> 1
    [] pc[t] = "lock" -> 2
    [] pc[t] = "unborn" -> 3
    [] pc[t] = "write" -> 3 + 2 * (Size(next_job[t]) - stolen[t])
    [] pc[t] = "read" -> 4 + 2 * (Size(next_job[t]) - stolen[t])
    [] pc[t] = "fstat" -> 5 + 2 * Size(next_job[t])
    [] pc[t] = "open_dest" -> 6 + 2 * Size(next_job[t])
    [] pc[t] = "open_src" -> 7 + 2 * Size(next_job[t])

(* No copy goes beyond its source.                                         *)
Within(t) ==
  LET j == next_job[t] IN
  /\ pc[t] \in {"open_dest", "fstat", "read", "write"} =>
       src_fd[t] \in {Source(j), NoFile}
  /\ pc[t] = "fstat" => stolen[t] = 0
  /\ pc[t] = "read" => stolen[t] <= Size(j)
  /\ pc[t] = "write" => stolen[t] < Size(j)

WithinInv == SourcesStay /\ \A t \in Copiers : Within(t)

(* A job more is taken; or a worker has less left, and no worker more; or  *)
(* main goes on to its next join or returns.                               *)
EndNearsStep ==
  \/ job_index' = job_index + 1 /\ job_index < Len(Argv)
  \/ /\ job_index' = job_index
     /\ \E t \in Copiers :
          Left(t)' < Left(t) /\ \A u \in Copiers \ {t} : Left(u)' = Left(u)
  \/ /\ UNCHANGED <<job_index, pc, next_job, stolen>>
     /\ \/ joined < NUM_THREADS /\ joined' = joined + 1 /\ exit' = exit
        \/ exit = Running /\ exit' # Running
EndNears == [][EndNearsStep]_vars

LEMMA SizeIs ==
  /\ \A j \in JobIds : Size(j) \in Nat
  /\ IInv /\ SourcesStay =>
       \A j \in JobIds : Source(j) \in DOMAIN files => Len(files[Source(j)]) = Size(j)
<1>1. ASSUME NEW j \in JobIds PROVE Size(j) \in Nat
  <2>1. Source(j) \in DOMAIN InitialFiles => Content(j) \in Seq(Blocks)
    BY CopyAssumption DEF Content
  <2> QED
    BY <2>1 DEF Size
<1>2. IInv /\ SourcesStay =>
        \A j \in JobIds : Source(j) \in DOMAIN files => Len(files[Source(j)]) = Size(j)
  BY DEF SourcesStay, Size
<1> QED
  BY <1>1, <1>2

(* One step of a copying worker.                                           *)
LEMMA CopyNears ==
  ASSUME SourcesApart, IInv, WithinInv, NEW t \in Copiers, Copy(t)
  PROVE  Within(t)' /\ Left(t)' < Left(t) /\ Left(t) \in Nat
<1> DEFINE j == next_job[t]
<1>1. Copying(t) /\ j \in JobIds
  <2>1. Copying(t)
    BY DEF Copy, OpenSrc, OpenTarget, Stat, StatFails, Read, Finish, ReadFails,
         Write, WriteStops, At, Copying
  <2> QED
    BY <2>1, CopyingHasJob DEF IInv
<1>2. PICK n \in Nat : n = Size(j)
  BY <1>1, SizeIs
<1>3. next_job'[t] = j /\ Size(j)' = n
  BY <1>2, CopyFrame DEF Size, Content, Source
<1>4. /\ stolen[t] \in Nat /\ t \in DOMAIN pc /\ t \in DOMAIN stolen
      /\ src_fd \in [Copiers -> Paths \cup {NoFile}]
      /\ pc \in [Copiers -> Locations] /\ stolen \in [Copiers -> Nat]
  BY DEF IInv, ControlInv, QueueTypeOK, CopyInv, CopyTypeOK
<1>5. CASE OpenSrc(t)
  <2>1. pc[t] = "open_src" /\ pc'[t] = "open_dest" /\ src_fd'[t] \in {Source(j), NoFile}
    BY <1>4, <1>5 DEF OpenSrc, OpenSource, At, Proceeds, GoTo, Locations
  <2> QED
    BY <1>2, <1>3, <2>1 DEF Within, Left, Source
<1>6. CASE OpenTarget(t)
  <2>1. pc[t] = "open_dest" /\ pc'[t] = "fstat" /\ src_fd' = src_fd /\ stolen'[t] = 0
    BY <1>4, <1>6 DEF OpenTarget, OpenDest, OpenDestFails, At, Proceeds, GoTo, Locations
  <2>2. src_fd[t] \in {Source(j), NoFile}
    BY <2>1 DEF WithinInv, Within
  <2> QED
    BY <1>2, <1>3, <2>1, <2>2 DEF Within, Left, Source
<1>7. CASE Stat(t)
  <2>1. pc[t] = "fstat" /\ pc'[t] = "read" /\ src_fd' = src_fd /\ stolen' = stolen
    BY <1>4, <1>7 DEF Stat, At, Proceeds, GoTo, Locations, copyVars
  <2>2. src_fd[t] \in {Source(j), NoFile} /\ stolen[t] = 0
    BY <2>1 DEF WithinInv, Within
  <2> QED
    BY <1>2, <1>3, <2>1, <2>2 DEF Within, Left, Source
<1>8. CASE Read(t)
  <2>1. pc[t] = "read" /\ pc'[t] = "write" /\ src_fd' = src_fd /\ stolen' = stolen
    BY <1>4, <1>8 DEF Read, ReadBlock, At, Proceeds, GoTo, Locations
  <2>2. src_fd[t] = Source(j) /\ src_fd[t] # NoFile
    BY <2>1 DEF WithinInv, Within, IInv, OwnFiles
  <2>3. stolen[t] < n
    BY <1>1, <1>2, <1>8, <2>2, SizeIs DEF Read, ReadBlock, WithinInv, IInv, CopyInv, OpenFilesExist
  <2> QED
    BY <1>2, <1>3, <1>4, <2>1, <2>2, <2>3 DEF Within, Left, Source
<1>9. CASE Write(t)
  <2>1. /\ pc[t] = "write" /\ pc'[t] = "read"
        /\ src_fd' = src_fd /\ stolen'[t] = stolen[t] + 1
    BY <1>4, <1>9 DEF Write, WriteBlock, At, Proceeds, GoTo, Locations
  <2>2. src_fd[t] \in {Source(j), NoFile} /\ stolen[t] < n
    BY <1>2, <2>1 DEF WithinInv, Within
  <2> QED
    BY <1>2, <1>3, <1>4, <2>1, <2>2 DEF Within, Left, Source
<1>10. CASE StatFails(t) \/ Finish(t) \/ ReadFails(t) \/ WriteStops(t)
  <2>1. pc[t] \in {"fstat", "read", "write"} /\ pc'[t] = "lock"
    BY <1>4, <1>10 DEF StatFails, Finish, ReadFails, WriteStops, At, Returns, GoTo, Locations
  <2>2. /\ pc[t] = "read" => stolen[t] <= n
        /\ pc[t] = "write" => stolen[t] < n
    BY <1>2 DEF WithinInv, Within
  <2>3. Within(t)' /\ Left(t)' = 2
    BY <2>1 DEF Within, Left
  <2>4. Left(t) \in Nat /\ Left(t) > 2
    <3>1. CASE pc[t] = "fstat"
      BY <1>2, <3>1 DEF Left
    <3>2. CASE pc[t] = "read"
      BY <1>2, <1>4, <2>2, <3>2 DEF Left
    <3>3. CASE pc[t] = "write"
      BY <1>2, <1>4, <2>2, <3>3 DEF Left
    <3> QED
      BY <2>1, <3>1, <3>2, <3>3
  <2> QED
    BY <2>3, <2>4
<1> QED
  BY <1>5, <1>6, <1>7, <1>8, <1>9, <1>10 DEF Copy

LEMMA OthersLeft ==
  ASSUME NEW u \in Copiers, pc'[u] = pc[u], next_job'[u] = next_job[u],
         stolen'[u] = stolen[u], src_fd'[u] = src_fd[u]
  PROVE  Left(u)' = Left(u) /\ (Within(u) => Within(u)')
BY DEF Left, Within, Size, Content, Source

LEMMA StepNears ==
  ASSUME SourcesApart, IInv, WithinInv, [Next]_vars
  PROVE  WithinInv' /\ (EndNearsStep \/ UNCHANGED vars)
<1>1. CASE \E t \in Copiers : Copy(t)
  <2>1. PICK t \in Copiers : Copy(t)
    BY <1>1
  <2>2. \A u \in Copiers \ {t} : Left(u)' = Left(u) /\ Within(u)'
    BY <2>1, CopyFrame, OthersLeft DEF WithinInv
  <2>3. Within(t)' /\ Left(t)' < Left(t)
    BY <2>1, CopyNears
  <2>4. SourcesStay'
    <3>1. Copying(t) /\ next_job[t] \in JobIds
      <4>1. Copying(t)
        BY <2>1 DEF Copy, OpenSrc, OpenTarget, Stat, StatFails, Read, Finish, ReadFails,
             Write, WriteStops, At, Copying
      <4> QED
        BY <4>1, CopyingHasJob DEF IInv
    <3> QED
      BY <2>1, <3>1, CopyFrame DEF SourcesStay, WithinInv, SourcesApart, Content
  <2>5. job_index' = job_index
    BY <2>1 DEF Copy, OpenSrc, OpenTarget, Stat, StatFails, Read, Finish, ReadFails,
         Write, WriteStops, Proceeds, Returns, queueVars
  <2> QED
    BY <2>2, <2>3, <2>4, <2>5 DEF WithinInv, EndNearsStep
<1>2. CASE \E t \in Copiers : Queue(t)
  <2>1. PICK t \in Copiers : Queue(t)
    BY <1>2
  <2> USE DEF IInv, ControlInv, QueueTypeOK, At, GoTo
  <2>2. UNCHANGED <<files, src_fd, stolen>>
    BY <2>1 DEF Queue, Lock, Stop, Fetch, Advance, copyVars
  <2>3. \A u \in Copiers \ {t} : pc'[u] = pc[u] /\ next_job'[u] = next_job[u]
    BY <2>1 DEF Queue, Lock, Stop, Fetch, Advance
  <2>4. \A u \in Copiers \ {t} : Left(u)' = Left(u) /\ Within(u)'
    BY <2>2, <2>3, OthersLeft DEF WithinInv
  <2>5. pc'[t] \in {"check", "stopped", "advance", "open_src"}
    BY <2>1 DEF Queue, Lock, Stop, Fetch, Advance
  <2>6. WithinInv'
    <3>1. SourcesStay'
      BY <2>2 DEF SourcesStay, WithinInv, Content
    <3>2. Within(t)'
      BY <2>5 DEF Within
    <3> QED
      BY <2>4, <3>1, <3>2 DEF WithinInv
  <2>7. CASE Advance(t)
    <3>1. job_index' = job_index + 1 /\ job_index < Len(Argv)
      BY <2>7 DEF Advance, QueueHeld
    <3> QED
      BY <2>6, <3>1 DEF EndNearsStep
  <2>8. CASE Lock(t) \/ Stop(t) \/ Fetch(t)
    <3>1. job_index' = job_index
      BY <2>8 DEF Lock, Stop, Fetch, queueVars
    <3>2. \/ pc[t] = "lock" /\ pc'[t] = "check"
          \/ pc[t] = "check" /\ pc'[t] \in {"stopped", "advance"}
      BY <2>8 DEF Lock, Stop, Fetch
    <3>3. Left(t)' < Left(t)
      BY <3>2 DEF Left
    <3> QED
      BY <2>4, <2>6, <3>1, <3>3 DEF EndNearsStep
  <2> QED
    BY <2>1, <2>7, <2>8 DEF Queue
<1>3. CASE Main
  <2>1. UNCHANGED <<files, src_fd, stolen, next_job, job_index>>
    BY <1>3 DEF Main, Spawn, SpawnFails, Join, Report, copyVars, queueVars
  <2>2. SourcesStay'
    BY <2>1 DEF SourcesStay, WithinInv, Content
  <2>3. CASE Spawn
    <3>1. spawned + 1 \in Copiers /\ pc[spawned + 1] = "unborn"
      BY <2>3, Threads DEF Spawn, IInv, ControlInv, QueueTypeOK, Stopping
    <3>2. PICK t \in Copiers : t = spawned + 1
      BY <3>1
    <3>3. pc'[t] = "lock" /\ \A u \in Copiers \ {t} : pc'[u] = pc[u]
      BY <2>3, <3>2 DEF Spawn, IInv, ControlInv, QueueTypeOK
    <3>4. \A u \in Copiers \ {t} : Left(u)' = Left(u) /\ Within(u)'
      BY <2>1, <3>3, OthersLeft DEF WithinInv
    <3>5. Within(t)' /\ Left(t)' < Left(t)
      BY <3>1, <3>2, <3>3 DEF Within, Left
    <3> QED
      BY <2>1, <2>2, <3>4, <3>5 DEF WithinInv, EndNearsStep
  <2>4. CASE SpawnFails \/ Join \/ Report
    <3>1. UNCHANGED pc
      BY <2>4 DEF SpawnFails, Join, Report
    <3>2. WithinInv'
      BY <2>1, <2>2, <3>1, OthersLeft DEF WithinInv
    <3>3. \/ joined < NUM_THREADS /\ joined' = joined + 1 /\ exit' = exit
          \/ exit = Running /\ exit' # Running
      BY <2>4 DEF SpawnFails, Join, Report, Running
    <3> QED
      BY <2>1, <3>1, <3>2, <3>3 DEF EndNearsStep
  <2> QED
    BY <1>3, <2>3, <2>4 DEF Main
<1>4. CASE UNCHANGED vars
  <2>1. UNCHANGED <<files, src_fd, stolen, next_job, pc>>
    BY <1>4 DEF vars, copyVars
  <2>2. SourcesStay' /\ \A u \in Copiers : Within(u)'
    BY <2>1, OthersLeft DEF SourcesStay, WithinInv, Content
  <2> QED
    BY <1>4, <2>2 DEF WithinInv
<1> QED
  BY <1>1, <1>2, <1>3, <1>4 DEF Next, Exited

(* Whatever calls fail and however the workers take turns, every step of   *)
(* the program takes a job, shortens a worker's way or is one of main's    *)
(* last: with finitely many jobs of finite size there are finitely many    *)
(* steps.  Jobs may share a destination, but none may be a source: a file  *)
(* that grows while it is read is not bounded by what it was.              *)
THEOREM EndAlwaysNears ==
  ASSUME SourcesApart
  PROVE  Spec => [](\A t \in Copiers : Left(t) \in Nat) /\ EndNears
<1>1. Init => WithinInv
  BY Threads DEF Init, CopyInit, WithinInv, SourcesStay, Content, Within
<1>2. IInv /\ WithinInv /\ [Next]_vars => WithinInv'
  BY StepNears
<1>3. IInv /\ WithinInv /\ [Next]_vars => [EndNearsStep]_vars
  BY StepNears
<1>4. IInv /\ WithinInv => \A t \in Copiers : Left(t) \in Nat
  <2> SUFFICES ASSUME IInv, WithinInv, NEW t \in Copiers PROVE Left(t) \in Nat
    OBVIOUS
  <2>1. pc[t] \in Locations /\ stolen[t] \in Nat
    BY DEF IInv, ControlInv, QueueTypeOK, CopyInv, CopyTypeOK
  <2>2. Copying(t) => Size(next_job[t]) \in Nat
    BY CopyingHasJob, SizeIs DEF IInv
  <2>3. Within(t)
    BY DEF WithinInv
  <2>4. CASE Copying(t)
    <3>1. PICK n \in Nat : n = Size(next_job[t])
      BY <2>2, <2>4
    <3> QED
      BY <2>1, <2>3, <2>4, <3>1 DEF Within, Left, Copying
  <2>5. CASE ~ Copying(t)
    BY <2>1, <2>5 DEF Left, Copying, Locations
  <2> QED
    BY <2>4, <2>5
<1>5. EndNears <=> [][EndNearsStep]_vars
  BY DEF EndNears
<1> QED
  BY <1>1, <1>2, <1>3, <1>4, <1>5, Invariant, PTL DEF Spec

(* The mutex is held by a worker that is about to release it.              *)
HolderReleases == queue_mutex # NoThread => pc[queue_mutex] \in {"check", "advance"}

(* Somebody can go on: main, or a worker that is not waiting for the mutex.*)
(* At every place of the loops but "lock" some call's outcome is possible. *)
CanGoOn ==
  \/ spawned < NUM_THREADS \/ joined = NUM_THREADS \/ pc[joined + 1] = "stopped"
  \/ \E t \in Copiers :
       pc[t] \notin {"unborn", "lock", "stopped"} \/ (pc[t] = "lock" /\ queue_mutex = NoThread)

SpawnedWork == \A t \in Copiers : t <= spawned => pc[t] # "unborn"

(* Nobody is waited for in vain: as long as main has not returned, main or *)
(* a worker can go on, so no lock is kept and no join is endless.          *)
THEOREM NobodyWaitsInVain == Spec => [](exit = Running => CanGoOn)
<1> DEFINE Inv == HolderReleases /\ SpawnedWork
<1> USE Threads
<1>1. Init => Inv
  BY DEF Init, HolderReleases, SpawnedWork
<1>2. ASSUME IInv, Inv, [Next]_vars PROVE Inv'
  <2> USE <1>2 DEF IInv, ControlInv, QueueTypeOK, HolderReleases, SpawnedWork, NoThread
  <2>1. CASE Main
    BY <2>1 DEF Main, Spawn, SpawnFails, Join, Report, queueVars, Stopping
  <2>2. CASE \E t \in Copiers : Queue(t)
    BY <2>2 DEF Queue, Lock, Stop, Fetch, Advance, At, GoTo, queueVars, mainVars, QueueHeld
  <2>3. CASE \E t \in Copiers : Copy(t)
    <3>1. PICK t \in Copiers : Copy(t)
      BY <2>3
    <3>2. /\ Copying(t) /\ UNCHANGED <<queue_mutex, spawned>>
          /\ pc'[t] \in {"lock", "open_dest", "fstat", "read", "write"}
      BY <3>1 DEF Copy, OpenSrc, OpenTarget, Stat, StatFails, Read, Finish, ReadFails,
           Write, WriteStops, Proceeds, Returns, At, GoTo, queueVars, mainVars, Copying
    <3>3. queue_mutex # t
      BY <3>2 DEF Copying
    <3> QED
      BY <3>1, <3>2, <3>3, CopyFrame
  <2>4. CASE UNCHANGED vars
    BY <2>4 DEF vars, queueVars, mainVars
  <2> QED
    BY <2>1, <2>2, <2>3, <2>4 DEF Next, Exited
<1>3. IInv /\ Inv => CanGoOn
  <2> SUFFICES ASSUME IInv, Inv, spawned = NUM_THREADS, joined # NUM_THREADS,
                      pc[joined + 1] # "stopped"
               PROVE  CanGoOn
    BY DEF CanGoOn, IInv, ControlInv, QueueTypeOK
  <2>1. PICK t \in Copiers : t = joined + 1
    BY DEF IInv, ControlInv, QueueTypeOK
  <2>2. pc[t] \notin {"unborn", "stopped"}
    BY <2>1 DEF SpawnedWork
  <2> QED
    BY <2>2 DEF CanGoOn, HolderReleases, IInv, ControlInv, QueueTypeOK
<1> QED
  BY <1>1, <1>2, <1>3, Invariant, PTL DEF Spec
=============================================================================

---------------------------- MODULE ThreadedSteal ----------------------------
(***************************************************************************)
(* steal/threaded_steal.c from the moment the job queue is built: main     *)
(* spawns the workers and joins them, the workers take jobs off the queue  *)
(* under queue_mutex and copy one file each at a time.                     *)
(*                                                                         *)
(* A step of a worker is a system call or a critical section's read or     *)
(* write of job_index.  Once main has returned the process is gone and no  *)
(* thread takes another step.                                              *)
(***************************************************************************)
EXTENDS CopyFiles

CONSTANT NUM_THREADS

ASSUME ThreadsAssumption ==
  NUM_THREADS \in Nat \ {0} /\ Copiers = 1 .. NUM_THREADS

NoThread == 0
NoJob == 0
Running == -1     (* exit before main returns *)

VARIABLES
  job_index,    (* jobs taken off the queue so far                         *)
  queue_mutex,  (* the thread that holds it, or NoThread                   *)
  pc,           (* where each worker stands                                *)
  next_job,     (* job each worker has read from the queue                 *)
  spawned,      (* workers main has created                                *)
  joined,       (* workers main has joined                                 *)
  exit,         (* what main returned, or Running                          *)
  status        (* of each job: what its copy_files returned               *)

mainVars == <<spawned, joined, exit>>
queueVars == <<job_index, queue_mutex>>
vars == <<copyVars, queueVars, pc, next_job, mainVars, status>>

Locations ==
  {"unborn", "lock", "check", "advance", "open_src", "open_dest", "fstat",
   "read", "write", "stopped"}

Init ==
  /\ CopyInit
  /\ job_index = 0
  /\ queue_mutex = NoThread
  /\ pc = [t \in Copiers |-> "unborn"]
  /\ next_job = [t \in Copiers |-> NoJob]
  /\ spawned = 0 /\ joined = 0 /\ exit = Running
  /\ status = [j \in JobIds |-> "pending"]

-----------------------------------------------------------------------------
(* main.                                                                   *)

Spawn ==
  /\ exit = Running
  /\ spawned < NUM_THREADS
  /\ spawned' = spawned + 1
  /\ pc' = [pc EXCEPT ![spawned + 1] = "lock"]
  /\ UNCHANGED <<copyVars, queueVars, next_job, joined, exit, status>>

(* pthread_create fails: main returns and takes the other workers along.   *)
SpawnFails ==
  /\ exit = Running
  /\ spawned < NUM_THREADS
  /\ "thread" \in Faults
  /\ exit' = 1
  /\ UNCHANGED <<copyVars, queueVars, pc, next_job, spawned, joined, status>>

Join ==
  /\ exit = Running
  /\ spawned = NUM_THREADS
  /\ joined < NUM_THREADS
  /\ pc[joined + 1] = "stopped"
  /\ joined' = joined + 1
  /\ UNCHANGED <<copyVars, queueVars, pc, next_job, spawned, exit, status>>

(* "All files copied successfully."                                        *)
(* Faulty variant: the last worker is not waited for.                      *)
ReportEarly ==
  /\ exit = Running
  /\ spawned = NUM_THREADS
  /\ joined >= NUM_THREADS - 1
  /\ exit' = 0
  /\ UNCHANGED <<copyVars, queueVars, pc, next_job, spawned, joined, status>>
Report ==
  /\ exit = Running
  /\ spawned = NUM_THREADS
  /\ joined = NUM_THREADS
  /\ exit' = 0
  /\ UNCHANGED <<copyVars, queueVars, pc, next_job, spawned, joined, status>>

-----------------------------------------------------------------------------
(* worker: the queue.                                                      *)

At(t, l) == exit = Running /\ pc[t] = l

GoTo(t, l) == pc' = [pc EXCEPT ![t] = l]

(* Faulty variant: the lock is taken without waiting for it.               *)
LockWithoutWaiting(t) ==
  /\ At(t, "lock")
  /\ queue_mutex' = t
  /\ GoTo(t, "check")
  /\ UNCHANGED <<copyVars, job_index, next_job, mainVars, status>>
Lock(t) ==
  /\ At(t, "lock")
  /\ queue_mutex = NoThread
  /\ queue_mutex' = t
  /\ GoTo(t, "check")
  /\ UNCHANGED <<copyVars, job_index, next_job, mainVars, status>>

(* job_index >= job_count.  Faulty variant: > instead of >=.               *)
DrainedLate == job_index > Len(Argv)
Drained == job_index >= Len(Argv)

(* The queue is empty: unlock and leave the loop.                          *)
(* Faulty variant: the worker leaves with the mutex locked.                *)
StopLocked(t) ==
  /\ At(t, "check")
  /\ Drained
  /\ GoTo(t, "stopped")
  /\ UNCHANGED <<copyVars, queueVars, next_job, mainVars, status>>
Stop(t) ==
  /\ At(t, "check")
  /\ Drained
  /\ queue_mutex' = NoThread
  /\ GoTo(t, "stopped")
  /\ UNCHANGED <<copyVars, job_index, next_job, mainVars, status>>

(* next_job = job_queue[job_index].                                        *)
Fetch(t) ==
  /\ At(t, "check")
  /\ ~ Drained
  /\ next_job' = [next_job EXCEPT ![t] = job_index + 1]
  /\ GoTo(t, "advance")
  /\ UNCHANGED <<copyVars, queueVars, mainVars, status>>

(* ++job_index and unlock.                                                 *)
Advance(t) ==
  /\ At(t, "advance")
  /\ job_index' = job_index + 1
  /\ queue_mutex' = NoThread
  /\ status' = [status EXCEPT ![next_job[t]] = "taken"]
  /\ GoTo(t, "open_src")
  /\ UNCHANGED <<copyVars, next_job, mainVars>>

-----------------------------------------------------------------------------
(* worker: copy_files, which ends with s for the worker's job.             *)

Returns(t, s) ==
  /\ status' = [status EXCEPT ![next_job[t]] = s]
  /\ GoTo(t, "lock")
  /\ UNCHANGED <<queueVars, next_job, mainVars>>

Proceeds(t, l) ==
  /\ GoTo(t, l)
  /\ UNCHANGED <<queueVars, next_job, mainVars, status>>

OpenSrc(t) ==
  /\ At(t, "open_src")
  /\ OpenSource(t, Source(next_job[t]))
  /\ Proceeds(t, "open_dest")

(* The destination is opened, and emptied, before the source is looked at. *)
(* Faulty variant: the two paths are swapped.                              *)
OpenTargetSwapped(t) ==
  /\ At(t, "open_dest")
  /\ OpenDest(t, Source(next_job[t]))
  /\ Proceeds(t, "fstat")
OpenTarget(t) ==
  /\ At(t, "open_dest")
  /\ \/ OpenDest(t, Target(next_job[t]))
     \/ OpenDestFails(t, Target(next_job[t]))
  /\ Proceeds(t, "fstat")

Stat(t) ==
  /\ At(t, "fstat")
  /\ src_fd[t] # NoFile
  /\ UNCHANGED copyVars
  /\ Proceeds(t, "read")

(* fstat(-1): copy_files returns 1 and never closes the destination.       *)
StatFails(t) ==
  /\ At(t, "fstat")
  /\ src_fd[t] = NoFile
  /\ UNCHANGED copyVars
  /\ Returns(t, "failed")

Read(t) ==
  /\ At(t, "read")
  /\ ReadBlock(t)
  /\ Proceeds(t, "write")

(* read() returned 0: both files are closed and copy_files returns 0.      *)
Finish(t) ==
  /\ At(t, "read")
  /\ AtEnd(t)
  /\ Closed(t)
  /\ UNCHANGED <<files, stolen, buffer>>
  /\ Returns(t, "copied")

(* read() returned -1: copy_files says so, and returns 0 all the same.     *)
ReadFails(t) ==
  /\ At(t, "read")
  /\ "read" \in Faults
  /\ Closed(t)
  /\ UNCHANGED <<files, stolen, buffer>>
  /\ Returns(t, "partial")

Write(t) ==
  /\ At(t, "write")
  /\ WriteBlock(t)
  /\ Proceeds(t, "read")

WriteStops(t) ==
  /\ At(t, "write")
  /\ WriteFails(t)
  /\ Returns(t, "failed")

-----------------------------------------------------------------------------
Main == Spawn \/ SpawnFails \/ Join \/ Report

Queue(t) == Lock(t) \/ Stop(t) \/ Fetch(t) \/ Advance(t)

Copy(t) ==
  \/ OpenSrc(t) \/ OpenTarget(t) \/ Stat(t) \/ StatFails(t)
  \/ Read(t) \/ Finish(t) \/ ReadFails(t) \/ Write(t) \/ WriteStops(t)

Exited == exit # Running /\ UNCHANGED vars

Next == Main \/ (\E t \in Copiers : Queue(t) \/ Copy(t)) \/ Exited

Spec == Init /\ [][Next]_vars

(* Every thread is scheduled again and again.                              *)
FairSpec ==
  /\ Spec
  /\ WF_vars(Main)
  /\ \A t \in Copiers : WF_vars(Queue(t) \/ Copy(t))

-----------------------------------------------------------------------------
(* Properties.                                                             *)

(* Every variable has a value the program's types allow, and an index into *)
(* job_queue stays inside the jobs main has queued.                        *)
TypeOK ==
  /\ DOMAIN files \subseteq Paths
  /\ \A p \in DOMAIN files : files[p] \in Seq(Blocks)
  /\ src_fd \in [Copiers -> Paths \cup {NoFile}]
  /\ dest_fd \in [Copiers -> Paths \cup {NoFile}]
  /\ stolen \in [Copiers -> Nat]
  /\ buffer \in [Copiers -> Blocks]
  /\ job_index \in 0 .. Len(Argv)
  /\ queue_mutex \in Copiers \cup {NoThread}
  /\ pc \in [Copiers -> Locations]
  /\ next_job \in [Copiers -> JobIds \cup {NoJob}]
  /\ spawned \in 0 .. NUM_THREADS
  /\ joined \in 0 .. spawned
  /\ exit \in {Running, 0, 1}
  /\ status \in
       [JobIds -> {"pending", "taken", "copied", "partial", "failed"}]

Copying(t) ==
  pc[t] \in {"open_src", "open_dest", "fstat", "read", "write"}

(* The queue hands out every job once: a job behind job_index is with      *)
(* exactly one worker or has ended, and no worker has another one's job.   *)
(* The mutex spans the read and the increment of job_index.                *)
JobsClaimedOnce ==
  /\ \A j \in JobIds : status[j] = "pending" <=> j > job_index
  /\ \A j \in JobIds :
       status[j] = "taken" => \E t \in Copiers : Copying(t) /\ next_job[t] = j
  /\ \A t \in Copiers : Copying(t) => status[next_job[t]] = "taken"
  /\ \A t, u \in Copiers :
       Copying(t) /\ Copying(u) /\ next_job[t] = next_job[u] => t = u

(* A copy that ran to the end of its source without an error leaves the    *)
(* destination equal to the source, whatever it held before and whatever   *)
(* the other workers do, provided no two jobs share a file.                *)
CopiesFaithful ==
  \A j \in JobIds :
    status[j] = "copied" /\ Target(j) \notin Unwritable =>
      files[Target(j)] = InitialFiles[Source(j)]

(* No step changes a file that is not the destination of a job under way;  *)
(* in particular the sources stay what they were.                          *)
OnlyTargetsChangeStep ==
  \A p \in DOMAIN files' :
    p \notin {Target(next_job[t]) : t \in {u \in Copiers : Copying(u)}} =>
      p \in DOMAIN files /\ files'[p] = files[p]
OnlyTargetsChange == [][OnlyTargetsChangeStep]_vars

(* The program ends, whichever system calls fail: no worker waits for the  *)
(* queue for ever and main's joins return.                                 *)
Terminates == <>(exit # Running)

(* The workers together keep the promise of CopyBatch.  A copy that met a  *)
(* read error ended like one that was completed, for that is what          *)
(* copy_files returns.                                                     *)
Batch ==
  INSTANCE CopyBatch WITH
    Jobs <- JobIds,
    status <- [j \in JobIds |->
                 IF status[j] = "partial" THEN "copied" ELSE status[j]],
    batch <- IF exit = Running THEN "running"
             ELSE IF exit = 0 THEN "reported" ELSE "aborted"
ImplementsBatch == Batch!BatchSpec

(* Every destination holds the whole of a source of that name in the end,  *)
(* as after the sequential copier.  It fails for two sources of one name,  *)
(* whose workers write the same file at their own offsets.                 *)
TargetsWhole ==
  exit = 0 =>
    \A j \in JobIds :
      files[Target(j)] \in
        {InitialFiles[Source(i)] : i \in {k \in JobIds : Target(k) = Target(j)}}
=============================================================================

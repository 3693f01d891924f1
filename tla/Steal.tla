-------------------------------- MODULE Steal --------------------------------
(***************************************************************************)
(* steal/steal.c: the sequential copier.  It works through the command     *)
(* line in order and gives up at the first source it cannot open.          *)
(***************************************************************************)
EXTENDS CopyFiles, FiniteSets

Me == 1     (* the only thread *)

ASSUME OneCopier == Copiers = {Me}

Running == -1     (* exit before main returns *)

VARIABLES
  i,         (* the argument main is at                                    *)
  pc,        (* where main stands                                          *)
  success,   (* the counter main prints at the end                         *)
  exit,      (* what main returned, or Running                             *)
  status     (* of each job: how its copy_files ended                      *)

vars == <<copyVars, i, pc, success, exit, status>>

Init ==
  /\ CopyInit
  /\ i = 1 /\ pc = "open_src" /\ success = 0 /\ exit = Running
  /\ status = [j \in JobIds |-> "pending"]

At(l) == exit = Running /\ pc = l

OpenSrc ==
  /\ At("open_src")
  /\ i <= Len(Argv)
  /\ OpenSource(Me, Source(i))
  /\ pc' = "stat"
  /\ UNCHANGED <<i, success, exit, status>>

(* stat() or open() failed: main returns 1 and leaves the rest undone.     *)
(* Faulty variant: main goes on with the next argument.                    *)
MissingSkipped ==
  /\ At("stat")
  /\ src_fd[Me] = NoFile
  /\ i' = i + 1
  /\ pc' = "open_src"
  /\ UNCHANGED <<copyVars, success, exit, status>>
Missing ==
  /\ At("stat")
  /\ src_fd[Me] = NoFile
  /\ exit' = 1
  /\ UNCHANGED <<copyVars, i, pc, success, status>>

Stat ==
  /\ At("stat")
  /\ src_fd[Me] # NoFile
  /\ pc' = "open_dest"
  /\ status' = [status EXCEPT ![i] = "taken"]
  /\ UNCHANGED <<copyVars, i, success, exit>>

OpenTarget ==
  /\ At("open_dest")
  /\ OpenDest(Me, Target(i)) \/ OpenDestFails(Me, Target(i))
  /\ pc' = "read"
  /\ UNCHANGED <<i, success, exit, status>>

Read ==
  /\ At("read")
  /\ ReadBlock(Me)
  /\ pc' = "write"
  /\ UNCHANGED <<i, success, exit, status>>

Write ==
  /\ At("write")
  /\ WriteBlock(Me)
  /\ pc' = "read"
  /\ UNCHANGED <<i, success, exit, status>>

(* copy_files has returned: success is counted whatever it returned, both  *)
(* files are closed and main turns to the next argument.                   *)
NextFile(s) ==
  /\ status' = [status EXCEPT ![i] = s]
  /\ success' = success + 1
  /\ i' = i + 1
  /\ pc' = "open_src"
  /\ UNCHANGED exit

Finish ==
  /\ At("read")
  /\ AtEnd(Me)
  /\ Closed(Me)
  /\ UNCHANGED <<files, stolen, buffer>>
  /\ NextFile("copied")

ReadFails ==
  /\ At("read")
  /\ "read" \in Faults
  /\ Closed(Me)
  /\ UNCHANGED <<files, stolen, buffer>>
  /\ NextFile("partial")

WriteStops ==
  /\ At("write")
  /\ WriteFails(Me)
  /\ NextFile("failed")

Report ==
  /\ At("open_src")
  /\ i > Len(Argv)
  /\ exit' = 0
  /\ UNCHANGED <<copyVars, i, pc, success, status>>

Step ==
  \/ OpenSrc \/ Missing \/ Stat \/ OpenTarget \/ Read \/ Write
  \/ Finish \/ ReadFails \/ WriteStops \/ Report

Exited == exit # Running /\ UNCHANGED vars

Next == Step \/ Exited

Spec == Init /\ [][Next]_vars

-----------------------------------------------------------------------------
(* A destination holds the whole of the last source copied to it, also     *)
(* when several sources have one name and whatever it held before.         *)
LastCopyStands ==
  \A j \in JobIds :
    LET overwritten ==
          \E k \in JobIds : k > j /\ Target(k) = Target(j) /\ status[k] # "pending"
    IN  status[j] = "copied" /\ Target(j) \notin Unwritable /\ ~ overwritten =>
          files[Target(j)] = InitialFiles[Source(j)]

(* The sequential copier keeps the same promise as the threaded one.       *)
Batch ==
  INSTANCE CopyBatch WITH
    Jobs <- JobIds,
    status <- [j \in JobIds |->
                 IF status[j] = "partial" THEN "copied" ELSE status[j]],
    batch <- IF exit = Running THEN "running"
             ELSE IF exit = 0 THEN "reported" ELSE "aborted"
ImplementsBatch == Batch!BatchSpec
=============================================================================

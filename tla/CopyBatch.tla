------------------------------ MODULE CopyBatch ------------------------------
(***************************************************************************)
(* What a batch copier promises, whatever the order and the number of its  *)
(* workers: every job is taken up once, ends once, and the batch is        *)
(* reported finished only when no job is pending or under way.  Both       *)
(* copiers of steal/ implement this specification.                         *)
(***************************************************************************)
CONSTANT Jobs

VARIABLES
  status,   (* of every job: "pending", "taken", "copied" or "failed"      *)
  batch     (* "running", "reported", or "aborted"                         *)

BatchInit ==
  /\ status = [j \in Jobs |-> "pending"]
  /\ batch = "running"

Take(j) ==
  /\ batch = "running"
  /\ status[j] = "pending"
  /\ status' = [status EXCEPT ![j] = "taken"]
  /\ batch' = batch

End(j) ==
  /\ batch = "running"
  /\ status[j] = "taken"
  /\ \E s \in {"copied", "failed"} : status' = [status EXCEPT ![j] = s]
  /\ batch' = batch

Report ==
  /\ batch = "running"
  /\ \A j \in Jobs : status[j] \in {"copied", "failed"}
  /\ batch' = "reported"
  /\ status' = status

Abort ==
  /\ batch = "running"
  /\ batch' = "aborted"
  /\ status' = status

BatchNext == (\E j \in Jobs : Take(j) \/ End(j)) \/ Report \/ Abort

BatchSpec == BatchInit /\ [][BatchNext]_<<status, batch>>
=============================================================================

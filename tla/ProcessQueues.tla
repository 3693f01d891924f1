--------------------------- MODULE ProcessQueues ----------------------------
(***************************************************************************)
(* mlfq-implementation/mlfq.c: the process table and the queues of the     *)
(* levels, under any sequence of calls, up to an add_process for which the *)
(* table has no room.  The scheduler that is to make them, simulate_mlfq,  *)
(* is declared there and not written.                                      *)
(***************************************************************************)
EXTENDS Integers, Sequences

CONSTANTS
  Levels,           (* of queues                                           *)
  MaxProcesses      (* entries of the table and of each queue              *)

VARIABLES
  total_processes,
  mlfq,             (* [queue, front, rear] for each level                 *)
  waiting           (* history: for each level, who was enqueued and not   *)
                    (* dequeued; a process that is refused is not in it    *)

queueVars == <<total_processes, mlfq, waiting>>

NULL == 0

Init ==
  /\ total_processes = 0
  /\ mlfq = [l \in Levels |->
       [queue |-> [k \in 0 .. MaxProcesses - 1 |-> NULL], front |-> 0, rear |-> -1]]
  /\ waiting = [l \in Levels |-> <<>>]

(* process_list has no bounds check: the process after the last that fits  *)
(* is written over what lies behind the table, the queues perhaps.  What   *)
(* the program does from then on is undefined, and not modelled.           *)
Defined == total_processes <= MaxProcesses

(* A process is its place in process_list, from 1.                         *)
add_process ==
  /\ total_processes' = total_processes + 1
  /\ UNCHANGED <<mlfq, waiting>>

(* Full also when there is room before front.                              *)
enqueue(l, p) ==
  /\ IF mlfq[l].rear < MaxProcesses - 1
     THEN /\ mlfq' = [mlfq EXCEPT ![l] =
               [queue |-> [@.queue EXCEPT ![mlfq[l].rear + 1] = p],
                front |-> @.front, rear |-> @.rear + 1]]
          /\ waiting' = [waiting EXCEPT ![l] = Append(@, p)]
     ELSE UNCHANGED <<mlfq, waiting>>
  /\ UNCHANGED total_processes

is_empty(l) == mlfq[l].rear < mlfq[l].front

Taken(l, front, rear) ==
  /\ mlfq' = [mlfq EXCEPT ![l] =
       [queue |-> [@.queue EXCEPT ![mlfq[l].front] = NULL],
        front |-> front, rear |-> rear]]
  /\ waiting' = [waiting EXCEPT ![l] = Tail(@)]
  /\ UNCHANGED total_processes

(* Faulty variant: front and rear start over when one process is left.     *)
dequeue_early(l) ==
  /\ ~is_empty(l)
  /\ LET q == mlfq[l]
     IN  IF q.front + 1 >= q.rear THEN Taken(l, 0, -1) ELSE Taken(l, q.front + 1, q.rear)
dequeue(l) ==
  /\ ~is_empty(l)
  /\ LET q == mlfq[l]
     IN  IF q.front + 1 > q.rear THEN Taken(l, 0, -1) ELSE Taken(l, q.front + 1, q.rear)

Next ==
  Defined /\
  (\/ add_process
   \/ \E l \in Levels : \/ dequeue(l)
                        \/ \E p \in 1 .. total_processes : enqueue(l, p))

-----------------------------------------------------------------------------
(* As long as no more processes were added than process_list holds, each   *)
(* level gives its processes back in the order in which it took them,      *)
(* refuses nobody when it is empty, and keeps no pointer to a process that *)
(* has left.                                                               *)
QueuesAreFifo ==
  Defined => \A l \in Levels :
    LET q == mlfq[l]
    IN  /\ waiting[l] = [k \in 1 .. q.rear - q.front + 1 |-> q.queue[q.front + k - 1]]
        /\ waiting[l] = <<>> => q.rear < MaxProcesses - 1
        /\ \A k \in 0 .. MaxProcesses - 1 : q.queue[k] = NULL <=> k \notin q.front .. q.rear
=============================================================================

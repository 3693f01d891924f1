-------------------------- MODULE Programs_proofs --------------------------
(***************************************************************************)
(* Proofs about the small programs, one after the other: for each one an   *)
(* invariant of its own variables, which the steps of the others leave     *)
(* alone.                                                                  *)
(***************************************************************************)
EXTENDS Programs, FiniteSetTheorems, SequenceTheorems, WellFoundedInduction, TLAPS

LEMMA Alone ==
  [Next]_vars =>
    /\ Elf!Next \/ UNCHANGED elfVars
    /\ Vector!Next \/ UNCHANGED vecVars
    /\ Queues!Next \/ UNCHANGED queueVars
    /\ Printf!Next \/ UNCHANGED outVars
    /\ Dump!Next \/ UNCHANGED dumpVars
    /\ Logger!Next \/ UNCHANGED logVars
    /\ Sleep!Next \/ UNCHANGED slumberVars
BY DEF Next, vars, RunElf, RunVector, RunQueues, RunPrintf, RunDump, RunLogger, RunSleep

-----------------------------------------------------------------------------
(* slumber.                                                                *)

(* What has been slept and what is left make the whole.                    *)
Sleeping ==
  /\ remaining \in Nat /\ elapsed \in Nat
  /\ slumber_pc \in {"start", "handling"} => elapsed = 0
  /\ slumber_pc \in {"asleep", "woken"} => elapsed + remaining = Seconds * Ticks
  /\ slumber_pc = "over" => elapsed = Seconds * Ticks

LEMMA SleepingStays ==
  ASSUME Sleeping, Sleep!Next \/ UNCHANGED slumberVars
  PROVE  Sleeping'
<1> DEFINE whole == Seconds * Ticks
<1>1. whole \in Nat
  BY SleepAssumption
<1> HIDE DEF whole
<1>2. CASE Sleep!Handle
  BY <1>2 DEF Sleeping, Sleep!Handle, whole
<1>3. CASE Sleep!Begin
  BY <1>1, <1>3 DEF Sleeping, Sleep!Begin, Sleep!Sleep, whole
<1>4. CASE Sleep!Again
  BY <1>4 DEF Sleeping, Sleep!Again, Sleep!Sleep, whole
<1>5. CASE Sleep!Tick
  BY <1>1, <1>5 DEF Sleeping, Sleep!Tick, whole
<1>6. CASE Sleep!Interrupt
  BY <1>6 DEF Sleeping, Sleep!Interrupt, whole
<1>7. CASE Sleep!WakeUp \/ Sleep!OtherError
  BY <1>1, <1>7 DEF Sleeping, Sleep!WakeUp, Sleep!OtherError, Sleep!Ends, whole
<1>8. CASE UNCHANGED slumberVars
  BY <1>8 DEF Sleeping, slumberVars
<1> QED
  BY <1>2, <1>3, <1>4, <1>5, <1>6, <1>7, <1>8 DEF Sleep!Next

(* However often it is interrupted, slumber sleeps for the ticks it was    *)
(* asked for, whatever their number and that of the interrupts.            *)
THEOREM AlwaysSleepsItOut == Spec => []SleepsItOut
<1>1. Init => Sleeping
  BY DEF Init, Sleep!Init, Sleeping
<1>2. Sleeping /\ [Next]_vars => Sleeping'
  BY Alone, SleepingStays
<1>3. Sleeping => SleepsItOut
  BY DEF Sleeping, SleepsItOut, Sleep!SleepsItOut
<1> QED
  BY <1>1, <1>2, <1>3, PTL DEF Spec

-----------------------------------------------------------------------------
(* The dynamic array.                                                      *)

Values == Vals \cup {Vector!Unset}

(* The block begins with what was pushed, and has room for it.             *)
Filled ==
  /\ vec.data \in Seq(Values) /\ vec.size \in Nat /\ pushed \in Seq(Vals)
  /\ vec.size = Len(pushed)
  /\ vec_status \in {"none", "ok", "exited"} =>
       /\ vec.size <= Len(vec.data)
       /\ \A k \in 1 .. vec.size : vec.data[k] = pushed[k]
  /\ vec_status \in {"none", "ok", "exited", "undefined"}
  /\ vec_status = "undefined" => Len(vec.data) = 0 /\ Len(pushed) = 1

LEMMA FunctionIsSeq ==
  ASSUME NEW S, NEW n \in Nat, NEW f \in [1 .. n -> S]
  PROVE  f \in Seq(S) /\ Len(f) = n
<1>1. f \in Seq(S)
  BY SeqDef
<1>2. DOMAIN f = 1 .. n /\ DOMAIN f = 1 .. Len(f) /\ Len(f) \in Nat
  BY <1>1
<1> QED
  BY <1>1, <1>2

LEMMA StoredFilled ==
  ASSUME NEW data \in Seq(Values), NEW val \in Vals, Filled, vec_status = "ok",
         \A k \in 1 .. vec.size : data[k] = vec.data[k],
         \/ vec.size < Len(data)
         \/ vec.size = 0 /\ Len(data) = 0,
         Vector!Stored(data, val)
  PROVE  Filled'
<1> DEFINE new == [data EXCEPT ![vec.size + 1] = val]
<1>1. vec'.data = new /\ vec'.size = vec.size + 1 /\ pushed' = Append(pushed, val)
  BY DEF Vector!Stored
<1>2. new \in Seq(Values) /\ Len(new) = Len(data)
  <2>1. data \in [1 .. Len(data) -> Values] /\ Len(data) \in Nat /\ val \in Values
    BY DEF Values
  <2>2. new \in [1 .. Len(data) -> Values]
    BY <2>1
  <2> QED
    BY <2>1, <2>2, FunctionIsSeq
<1>3. /\ pushed' \in Seq(Vals) /\ Len(pushed') = vec.size + 1 /\ vec.size + 1 \in Nat
      /\ \A k \in 1 .. vec.size : pushed'[k] = pushed[k]
      /\ pushed'[vec.size + 1] = val
  BY <1>1 DEF Filled
<1>4. CASE vec.size < Len(data)
  <2>1. vec_status' = "ok" /\ vec.size + 1 \in DOMAIN data
    BY <1>4 DEF Vector!Stored, Filled
  <2>2. \A k \in 1 .. vec.size : new[k] = data[k] /\ data[k] = pushed[k]
    BY <1>4 DEF Filled
  <2>3. new[vec.size + 1] = val
    BY <2>1
  <2>4. \A k \in 1 .. vec.size + 1 : new[k] = pushed'[k]
    <3> SUFFICES ASSUME NEW k \in 1 .. vec.size + 1 PROVE new[k] = pushed'[k]
      OBVIOUS
    <3>1. k \in 1 .. vec.size \/ k = vec.size + 1
      BY DEF Filled
    <3> HIDE DEF new
    <3>2. CASE k \in 1 .. vec.size
      BY <1>3, <2>2, <3>2
    <3>3. CASE k = vec.size + 1
      <4>1. new[k] = val
        BY <2>3, <3>3
      <4>2. pushed'[k] = val
        BY <1>3, <3>3
      <4> QED
        BY <4>1, <4>2
    <3> QED
      BY <3>1, <3>2, <3>3
  <2> HIDE DEF new
  <2> QED
    BY <1>1, <1>2, <1>3, <1>4, <2>1, <2>4 DEF Filled
<1>5. CASE vec.size = 0 /\ Len(data) = 0
  <2>1. vec_status' = "undefined"
    BY <1>5 DEF Vector!Stored
  <2> HIDE DEF new
  <2> QED
    BY <1>1, <1>2, <1>3, <1>5, <2>1 DEF Filled
<1> QED
  BY <1>4, <1>5

LEMMA DoubledIs ==
  ASSUME Filled
  PROVE  /\ Vector!Doubled \in Seq(Values) /\ Len(Vector!Doubled) = 2 * Len(vec.data)
         /\ \A k \in 1 .. Len(vec.data) : Vector!Doubled[k] = vec.data[k]
<1> DEFINE n == Len(vec.data)
           d == [k \in 1 .. 2 * n |-> IF k <= n THEN vec.data[k] ELSE Vector!Unset]
<1>1. n \in Nat /\ 2 * n \in Nat /\ \A k \in 1 .. n : vec.data[k] \in Values
  BY DEF Filled
<1>2. d = Vector!Doubled
  BY DEF Vector!Doubled, Vector!capacity
<1>3. d \in [1 .. 2 * n -> Values]
  BY <1>1 DEF Values
<1>4. d \in Seq(Values) /\ Len(d) = 2 * n
  BY <1>1, <1>3, FunctionIsSeq
<1> QED
  BY <1>1, <1>2, <1>4

LEMMA FilledStays ==
  ASSUME Filled, Vector!Next \/ UNCHANGED vecVars
  PROVE  Filled'
<1>1. CASE Vector!initialize_vector
  <2>1. CASE Vector!OutOfMemory
    BY <1>1, <2>1 DEF Vector!initialize_vector, Vector!OutOfMemory, Filled
  <2>2. CASE vec' = [data |-> [k \in 1 .. 4 |-> Vector!Unset], size |-> 0]
             /\ pushed' = <<>> /\ vec_status' = "ok"
    <3>1. [k \in 1 .. 4 |-> Vector!Unset] \in [1 .. 4 -> Values]
      BY DEF Values
    <3>2. vec'.data \in Seq(Values) /\ Len(vec'.data) = 4 /\ vec'.size = 0
      BY <2>2, <3>1, FunctionIsSeq
    <3>3. pushed' \in Seq(Vals) /\ Len(pushed') = 0
      BY <2>2
    <3> QED
      BY <2>2, <3>2, <3>3 DEF Filled
  <2> QED
    BY <1>1, <2>1, <2>2 DEF Vector!initialize_vector
<1>2. ASSUME NEW val \in Vals, Vector!push_back(val) PROVE Filled'
  <2>1. CASE Vector!OutOfMemory
    BY <1>2, <2>1 DEF Vector!push_back, Vector!OutOfMemory, Filled
  <2>2. CASE vec.size >= Len(vec.data) /\ Vector!Stored(Vector!Doubled, val)
    <3>1. vec_status = "ok" /\ vec.size = Len(vec.data)
      BY <1>2, <2>2 DEF Vector!push_back, Filled
    <3> QED
      BY <2>2, <3>1, DoubledIs, StoredFilled DEF Filled
  <2>3. CASE vec.size < Len(vec.data) /\ Vector!Stored(vec.data, val)
    <3>1. vec_status = "ok"
      BY <1>2 DEF Vector!push_back
    <3> QED
      BY <2>3, <3>1, StoredFilled DEF Filled
  <2> QED
    BY <1>2, <2>1, <2>2, <2>3 DEF Vector!push_back, Vector!capacity, Filled
<1>3. CASE Vector!delete_vector
  BY <1>3 DEF Vector!delete_vector, Filled
<1>4. CASE UNCHANGED vecVars
  BY <1>4 DEF vecVars, Filled
<1> QED
  BY <1>1, <1>2, <1>3, <1>4 DEF Vector!Next

(* The vector holds what was pushed, in order, and stays inside its block  *)
(* through any number of growths, but for the first push after             *)
(* delete_vector.                                                          *)
THEOREM VectorAlwaysHolds == Spec => []VectorHolds
<1>1. Init => Filled
  BY DEF Init, Vector!Init, Filled
<1>2. Filled /\ [Next]_vars => Filled'
  BY Alone, FilledStays
<1>3. ASSUME Filled PROVE VectorHolds
  <2>1. CASE vec_status = "ok"
    <3>1. /\ SubSeq(vec.data, 1, vec.size) \in Seq(Values)
          /\ Len(SubSeq(vec.data, 1, vec.size)) = vec.size
          /\ \A k \in 1 .. vec.size : SubSeq(vec.data, 1, vec.size)[k] = vec.data[k]
      BY <1>3, <2>1 DEF Filled
    <3>2. pushed \in Seq(Values) /\ Len(pushed) = vec.size
      BY <1>3 DEF Filled, Values
    <3>3. SubSeq(vec.data, 1, vec.size) = pushed
      BY <1>3, <2>1, <3>1, <3>2, SeqEqual DEF Filled
    <3> QED
      BY <2>1, <3>3 DEF VectorHolds, Vector!VectorHolds
  <2>2. CASE vec_status # "ok"
    BY <1>3, <2>2 DEF Filled, VectorHolds, Vector!VectorHolds, Vector!capacity
  <2> QED
    BY <2>1, <2>2
<1> QED
  BY <1>1, <1>2, <1>3, PTL DEF Spec

-----------------------------------------------------------------------------
(* The queues of the scheduler.                                            *)

Queue ==
  [queue : [0 .. MaxProcesses - 1 -> Nat], front : 0 .. MaxProcesses - 1,
   rear : -1 .. MaxProcesses - 1]

(* Each array holds, from front to rear, those who wait, and nothing else. *)
InLine(q, w) ==
  /\ q.front <= q.rear + 1
  /\ q.rear < q.front => q.rear = -1
  /\ Len(w) = q.rear - q.front + 1
  /\ \A k \in 1 .. Len(w) : w[k] = q.queue[q.front + k - 1]
  /\ \A k \in 0 .. MaxProcesses - 1 :
       q.queue[k] = Queues!NULL <=> k \notin q.front .. q.rear

Queueing ==
  /\ total_processes \in Nat
  /\ mlfq \in [Levels -> Queue]
  /\ waiting \in [Levels -> Seq(Nat)]
  /\ \A l \in Levels : InLine(mlfq[l], waiting[l])

LEMMA EnqueueStays ==
  ASSUME Queueing, NEW l \in Levels, NEW p \in 1 .. total_processes,
         Queues!enqueue(l, p)
  PROVE  Queueing'
<1> USE QueuesAssumption
<1> DEFINE q == mlfq[l]
           w == waiting[l]
<1>1. CASE mlfq[l].rear < MaxProcesses - 1
  <2> DEFINE more == [q.queue EXCEPT ![q.rear + 1] = p]
             q1 == [queue |-> more, front |-> q.front, rear |-> q.rear + 1]
  <2>1. q \in Queue /\ w \in Seq(Nat) /\ InLine(q, w) /\ p \in Nat /\ p # 0
    BY DEF Queueing
  <2>2. mlfq' = [mlfq EXCEPT ![l] = q1] /\ waiting' = [waiting EXCEPT ![l] = Append(w, p)]
        /\ total_processes' = total_processes
    BY <1>1 DEF Queues!enqueue, Queueing
  <2>3. /\ more \in [0 .. MaxProcesses - 1 -> Nat] /\ more[q.rear + 1] = p
        /\ \A k \in 0 .. MaxProcesses - 1 : k # q.rear + 1 => more[k] = q.queue[k]
    BY <1>1, <2>1 DEF Queue
  <2> HIDE DEF more
  <2>6. /\ q1 \in Queue
        /\ q1.queue = more /\ q1.front = q.front /\ q1.rear = q.rear + 1
    <3>1. q.front \in 0 .. MaxProcesses - 1 /\ q.rear \in -1 .. MaxProcesses - 1
      BY <2>1 DEF Queue
    <3> HIDE DEF q
    <3>2. q.rear + 1 \in -1 .. MaxProcesses - 1
      <4>1. q.rear < MaxProcesses - 1
        BY <1>1 DEF q
      <4> QED
        BY <3>1, <4>1
    <3> QED
      BY <2>3, <3>1, <3>2 DEF Queue
  <2>4. Append(w, p) \in Seq(Nat)
    BY <2>1
  <2> HIDE DEF q1, q, w
  <2>5. InLine(q1, Append(w, p))
    <3>1. q1.rear \in Int /\ q1.front \in Int /\ q.rear \in Int /\ q.front \in Int
      BY <2>1, <2>6 DEF Queue
    <3>2. /\ q.front <= q.rear + 1 /\ Len(w) = q.rear - q.front + 1
      BY <2>1 DEF InLine
    <3>3. Len(Append(w, p)) = Len(w) + 1 /\ Append(w, p)[Len(w) + 1] = p
          /\ \A k \in 1 .. Len(w) : Append(w, p)[k] = w[k]
      BY <2>1
    <3>4. ASSUME NEW k \in 1 .. Len(Append(w, p))
          PROVE  Append(w, p)[k] = q1.queue[q1.front + k - 1]
      <4>1. CASE k = Len(w) + 1
        BY <2>3, <2>6, <3>1, <3>2, <3>3, <4>1
      <4>2. CASE k \in 1 .. Len(w)
        <5>1. q.front + k - 1 \in 0 .. MaxProcesses - 1 /\ q.front + k - 1 # q.rear + 1
          <6>1. q.front \in Nat /\ q.rear < MaxProcesses - 1 /\ k <= q.rear - q.front + 1
            BY <1>1, <2>1, <3>2, <4>2 DEF Queue, q
          <6> QED
            BY <3>1, <4>2, <6>1, SMTT(30)
        <5>2. w[k] = q.queue[q.front + k - 1]
          BY <2>1, <4>2 DEF InLine
        <5> QED
          BY <2>3, <2>6, <3>3, <4>2, <5>1, <5>2
      <4> QED
        BY <2>1, <3>3, <4>1, <4>2
    <3>5. ASSUME NEW k \in 0 .. MaxProcesses - 1
          PROVE  q1.queue[k] = Queues!NULL <=> k \notin q1.front .. q1.rear
      <4>1. q.queue[k] = Queues!NULL <=> k \notin q.front .. q.rear
        BY <2>1 DEF InLine
      <4>2. CASE k = q.rear + 1
        BY <2>1, <2>3, <2>6, <3>1, <3>2, <4>2 DEF Queues!NULL
      <4>3. CASE k # q.rear + 1
        BY <2>3, <2>6, <3>1, <3>2, <4>1, <4>3
      <4> QED
        BY <4>2, <4>3
    <3>6. q1.front <= q1.rear + 1 /\ ~ (q1.rear < q1.front)
          /\ Len(Append(w, p)) = q1.rear - q1.front + 1
      BY <2>6, <3>1, <3>2, <3>3
    <3> QED
      BY <3>4, <3>5, <3>6 DEF InLine
  <2> QED
    BY <2>2, <2>4, <2>5, <2>6 DEF Queueing
<1>2. CASE ~ (mlfq[l].rear < MaxProcesses - 1)
  BY <1>2 DEF Queueing, Queues!enqueue
<1> QED
  BY <1>1, <1>2

LEMMA DequeueStays ==
  ASSUME Queueing, NEW l \in Levels, Queues!dequeue(l)
  PROVE  Queueing'
<1> USE QueuesAssumption
<1> DEFINE q == mlfq[l]
           w == waiting[l]
           gone == [q.queue EXCEPT ![q.front] = Queues!NULL]
<1>1. /\ q \in Queue /\ w \in Seq(Nat) /\ InLine(q, w)
      /\ ~ (q.rear < q.front)
  BY DEF Queueing, Queues!dequeue, Queues!is_empty
<1>2. total_processes' = total_processes /\ waiting' = [waiting EXCEPT ![l] = Tail(w)]
  BY DEF Queues!dequeue, Queues!Taken
<1>3. Tail(w) \in Seq(Nat) /\ Len(Tail(w)) = Len(w) - 1
      /\ \A k \in 1 .. Len(w) - 1 : Tail(w)[k] = w[k + 1]
  <2>1. Len(w) > 0
    <3>1. q.front \in Int /\ q.rear \in Int
      BY <1>1 DEF Queue
    <3> QED
      BY <1>1, <3>1 DEF InLine
  <2>2. w \in Seq(Nat)
    BY <1>1
  <2> HIDE DEF w
  <2> QED
    BY <2>1, <2>2
<1>4. PICK front, rear :
        /\ mlfq' = [mlfq EXCEPT ![l] = [queue |-> gone, front |-> front, rear |-> rear]]
        /\ IF q.front + 1 > q.rear THEN front = 0 /\ rear = -1
           ELSE front = q.front + 1 /\ rear = q.rear
  BY DEF Queues!dequeue, Queues!Taken, Queueing, Queue
<1> DEFINE q1 == [queue |-> gone, front |-> front, rear |-> rear]
<1>8. /\ gone \in [0 .. MaxProcesses - 1 -> Nat] /\ gone[q.front] = 0
      /\ \A k \in 0 .. MaxProcesses - 1 : k # q.front => gone[k] = q.queue[k]
  BY <1>1 DEF Queue, Queues!NULL
<1>9. q.front \in Nat /\ q.rear \in Int /\ q.rear <= MaxProcesses - 1
  BY <1>1 DEF Queue
<1> HIDE DEF gone
<1> HIDE DEF q, w
<1>10. front \in 0 .. MaxProcesses - 1 /\ rear \in -1 .. MaxProcesses - 1
  BY <1>4, <1>9
<1>5. q1 \in Queue /\ q1.queue = gone /\ q1.front = front /\ q1.rear = rear
  BY <1>8, <1>10 DEF Queue
<1> HIDE DEF q1
<1>6. InLine(q1, Tail(w))
  <2>1. Len(w) = q.rear - q.front + 1 /\ front \in Int /\ rear \in Int
    BY <1>1, <1>4, <1>9 DEF InLine
  <2>2. ASSUME NEW k \in 1 .. Len(w) - 1
        PROVE  Tail(w)[k] = gone[front + k - 1]
    <3>1. q.front + 1 <= q.rear /\ front = q.front + 1
      BY <1>4, <1>9, <2>1
    <3>2. w[k + 1] = q.queue[q.front + (k + 1) - 1]
      BY <1>1, <1>9, <2>1, SMTT(30) DEF InLine
    <3>3. q.front + k \in 0 .. MaxProcesses - 1 /\ q.front + k # q.front
      BY <1>9, <2>1
    <3>4. q.front + (k + 1) - 1 = q.front + k /\ front + k - 1 = q.front + k
      BY <1>9, <3>1
    <3> QED
      BY <1>3, <1>8, <3>2, <3>3, <3>4
  <2>3. ASSUME NEW k \in 0 .. MaxProcesses - 1
        PROVE  gone[k] = 0 <=> k \notin front .. rear
    <3>1. q.queue[k] = 0 <=> k \notin q.front .. q.rear
      BY <1>1 DEF InLine, Queues!NULL
    <3>2. CASE k = q.front
      BY <1>4, <1>8, <1>9, <3>2
    <3>3. CASE k # q.front
      <4>1. gone[k] = q.queue[k]
        BY <1>8, <3>3
      <4>2. ~ (q.rear < q.front)
        BY <1>1
      <4>3. k \in q.front .. q.rear <=> k \in front .. rear
        BY <1>4, <1>9, <1>10, <3>3, <4>2
      <4> QED
        BY <3>1, <4>1, <4>3
    <3> QED
      BY <3>2, <3>3
  <2>7. ~ (q.rear < q.front)
    BY <1>1
  <2>8. Len(Tail(w)) = q.rear - q.front
    BY <1>3, <1>9, <2>1
  <2>4. Len(Tail(w)) = rear - front + 1 /\ front <= rear + 1
    BY <1>4, <1>9, <1>10, <2>7, <2>8
  <2>5. rear < front => rear = -1
    BY <1>1, <1>4, <1>9, <1>10
  <2>6. Len(Tail(w)) = Len(w) - 1
    BY <1>3
  <2> QED
    BY <1>5, <2>2, <2>3, <2>4, <2>5, <2>6 DEF InLine, Queues!NULL
<1>7. mlfq' = [mlfq EXCEPT ![l] = q1]
  BY <1>4 DEF q1, q
<1> QED
  BY <1>2, <1>3, <1>5, <1>6, <1>7 DEF Queueing

LEMMA QueueingStays ==
  ASSUME Queueing, Queues!Next \/ UNCHANGED queueVars
  PROVE  Queueing'
<1>1. CASE Queues!add_process
  BY <1>1 DEF Queues!add_process, Queueing
<1>2. CASE UNCHANGED queueVars
  BY <1>2 DEF queueVars, Queueing
<1> QED
  BY <1>1, <1>2, EnqueueStays, DequeueStays DEF Queues!Next

(* Until process_list overruns, each level gives its processes back in the *)
(* order in which it took them, refuses nobody when it is empty, and       *)
(* forgets a process that has left, for any number of levels and places.   *)
THEOREM QueuesAlwaysFifo == Spec => []QueuesAreFifo
<1> USE QueuesAssumption
<1>1. Init => Queueing
  BY DEF Init, Queues!Init, Queueing, Queue, InLine, Queues!NULL
<1>2. Queueing /\ [Next]_vars => Queueing'
  BY Alone, QueueingStays
<1>3. ASSUME Queueing PROVE QueuesAreFifo
  <2> SUFFICES ASSUME NEW l \in Levels
               PROVE  /\ waiting[l] = [k \in 1 .. mlfq[l].rear - mlfq[l].front + 1 |->
                                         mlfq[l].queue[mlfq[l].front + k - 1]]
                      /\ waiting[l] = <<>> => mlfq[l].rear < MaxProcesses - 1
                      /\ \A k \in 0 .. MaxProcesses - 1 :
                           mlfq[l].queue[k] = Queues!NULL
                             <=> k \notin mlfq[l].front .. mlfq[l].rear
    BY DEF QueuesAreFifo, Queues!QueuesAreFifo
  <2> DEFINE q == mlfq[l]
             w == waiting[l]
  <2>1. q \in Queue /\ w \in Seq(Nat) /\ InLine(q, w)
    BY <1>3 DEF Queueing
  <2> HIDE DEF q, w
  <2>2. w = [k \in 1 .. Len(w) |-> w[k]]
    BY <2>1
  <2>3. w = [k \in 1 .. q.rear - q.front + 1 |-> q.queue[q.front + k - 1]]
    BY <2>1, <2>2 DEF InLine
  <2>4. w = <<>> => q.rear < MaxProcesses - 1
    BY <2>1 DEF InLine, Queue
  <2>5. \A k \in 0 .. MaxProcesses - 1 :
          q.queue[k] = Queues!NULL <=> k \notin q.front .. q.rear
    BY <2>1 DEF InLine
  <2> QED
    BY <2>3, <2>4, <2>5 DEF q, w
<1> QED
  BY <1>1, <1>2, <1>3, PTL DEF Spec

-----------------------------------------------------------------------------
(* The hex dump.                                                           *)

Byte == 0 .. 255

DumpedRow == [offset : Nat, hex : Seq(Seq(Nat)), ascii : Seq(Nat)]

RowShown(r) ==
  /\ rows[r].offset = Dump!Shown(r - 1)
  /\ \A k \in DOMAIN rows[r].hex :
       LET byte == rest[Dump!Shown(r - 1) + k]
       IN  rows[r].hex[k] = Dump!Digits(byte) /\ rows[r].ascii[k] = Dump!Ascii(byte)

(* What is unread is what the rows do not show yet.                        *)
Dumping ==
  /\ rest \in Seq(Byte) /\ unread \in Seq(Byte) /\ rows \in Seq(DumpedRow)
  /\ offset \in Nat /\ offset = Dump!Shown(Len(rows))
  /\ offset + Len(unread) = Len(rest)
  /\ \A k \in 1 .. Len(unread) : unread[k] = rest[offset + k]
  /\ dump_status = "ended" => Len(unread) = 0
  /\ \A r \in 1 .. Len(rows) : RowShown(r)

(* The digits of a byte are those of the word it is widened to.            *)
LEMMA HexShows ==
  ASSUME NEW byte \in Byte
  PROVE  /\ Dump!Hex(byte) = Dump!Digits(byte) /\ Dump!Hex(byte) \in Seq(Nat)
         /\ Dump!Ascii(byte) \in Nat
<1> DEFINE n == Dump!Int32(byte)
           digit(k) == (n \div 16^k) % 16
<1>1. Dump!Ascii(byte) \in Nat
  BY DEF Byte, Dump!Ascii, Dump!Dot
<1>2. digit(0) = byte % 16 /\ digit(1) = (byte \div 16)
  <2>1. 16^0 = 1 /\ 16^1 = 16
    OBVIOUS
  <2> QED
    BY <2>1, SMTT(30) DEF Byte, Dump!Int32
<1>3. CASE byte < 128
  <2>1. Dump!Hex(byte) = [k \in 1 .. 2 |-> digit(2 - k)]
    BY <1>3 DEF Dump!Hex, Dump!Int32, Byte
  <2> HIDE DEF digit
  <2>2. Dump!Hex(byte) = <<byte \div 16, byte % 16>>
    BY <1>2, <2>1
  <2>3. Dump!Digits(byte) = <<byte \div 16, byte % 16>>
    BY <1>3 DEF Dump!Digits
  <2> QED
    BY <1>1, <2>2, <2>3 DEF Byte
<1>4. CASE ~ (byte < 128)
  <2>1. Dump!Hex(byte) = [k \in 1 .. 8 |-> digit(8 - k)]
    BY <1>4 DEF Dump!Hex, Dump!Int32, Byte
  <2>2. \A k \in 2 .. 7 : digit(k) = 15
    <3>1. n \in -128 .. -1
      BY <1>4 DEF Byte, Dump!Int32
    <3> HIDE DEF n
    <3>2. digit(2) = 15 /\ digit(3) = 15 /\ digit(4) = 15
      BY <3>1, SMTT(30)
    <3>3. digit(5) = 15 /\ digit(6) = 15 /\ digit(7) = 15
      BY <3>1, SMTT(30)
    <3> HIDE DEF digit
    <3> QED
      BY <3>2, <3>3
  <2> HIDE DEF digit
  <2>3. Dump!Hex(byte) = <<15, 15, 15, 15, 15, 15, byte \div 16, byte % 16>>
    BY <1>2, <2>1, <2>2
  <2>4. Dump!Digits(byte) = <<15, 15, 15, 15, 15, 15, byte \div 16, byte % 16>>
    BY <1>4 DEF Dump!Digits
  <2> QED
    BY <1>1, <2>3, <2>4 DEF Byte
<1> QED
  BY <1>3, <1>4

LEMMA RowStays ==
  ASSUME Dumping, NEW n \in Nat, Dump!ShowRow(n), n <= Len(unread), n <= Width,
         dump_status' = dump_status
  PROVE  Dumping'
<1> USE DumpAssumption
<1> DEFINE given == Dump!Given(n)
           row == [offset |-> offset,
                   hex |-> [k \in 1 .. n |-> Dump!Hex(given[k])],
                   ascii |-> [k \in 1 .. n |-> Dump!Ascii(given[k])]]
<1>1. /\ dump_status = "running" /\ n > 0
      /\ rows' = Append(rows, row) /\ offset' = offset + n
      /\ unread' = SubSeq(unread, n + 1, Len(unread)) /\ rest' = rest
  BY DEF Dump!ShowRow, Dump!Row
<1>2. /\ unread \in Seq(Byte) /\ Len(unread) \in Nat /\ offset \in Nat
       /\ offset + Len(unread) = Len(rest)
       /\ \A k \in 1 .. Len(unread) : unread[k] = rest[offset + k]
  BY DEF Dumping
<1>3. \A r \in 1 .. Len(rows) : RowShown(r)
  BY DEF Dumping
<1>4. \A k \in 1 .. n : given[k] = unread[k] /\ given[k] \in Byte /\ unread[k] = rest[offset + k]
  <2>1. \A k \in 1 .. n : k \in 1 .. Width /\ k \in 1 .. Len(unread) /\ k <= n
    BY DEF Dumping
  <2>2. \A k \in 1 .. n : given[k] = unread[k]
    BY <2>1 DEF Dump!Given
  <2> QED
    BY <2>1, <2>2 DEF Dumping
<1> HIDE DEF given
<1>5. row.hex \in Seq(Seq(Nat)) /\ Len(row.hex) = n /\ DOMAIN row.hex = 1 .. n
  <2>1. row.hex \in [1 .. n -> Seq(Nat)]
    BY <1>4, HexShows
  <2> QED
    BY <2>1, FunctionIsSeq
<1>6. row.ascii \in Seq(Nat)
  <2>1. row.ascii \in [1 .. n -> Nat]
    BY <1>4, HexShows
  <2> QED
    BY <2>1, FunctionIsSeq
<1>7. row \in DumpedRow /\ row.offset = offset
  BY <1>5, <1>6 DEF DumpedRow, Dumping
<1>8. \A k \in 1 .. n :
        /\ row.hex[k] = Dump!Digits(rest[offset + k])
        /\ row.ascii[k] = Dump!Ascii(rest[offset + k])
  BY <1>4, HexShows
<1> HIDE DEF row
<1> PICK m \in Nat : m = Len(rows)
  BY DEF Dumping
<1>9. /\ m \in Nat /\ rows' \in Seq(DumpedRow) /\ Len(rows') = m + 1
      /\ rows'[m + 1] = row
      /\ \A r \in 1 .. m : rows'[r] = rows[r]
  BY <1>1, <1>7 DEF Dumping
<1>10. \A r \in 0 .. m : Dump!Shown(r)' = Dump!Shown(r)
  BY <1>9 DEF Dump!Shown
<1>11. Dump!Shown(m + 1)' = offset + n
  BY <1>5, <1>7, <1>9 DEF Dump!Shown
<1>12. ASSUME NEW r \in 1 .. m PROVE RowShown(r)'
  <2>1. RowShown(r) /\ rows'[r] = rows[r] /\ Dump!Shown(r - 1)' = Dump!Shown(r - 1)
    <3>1. r - 1 \in 0 .. m
      BY <1>9
    <3> QED
      BY <1>9, <1>10, <1>3, <3>1
  <2> QED
    BY <1>1, <2>1 DEF RowShown
<1>13. RowShown(m + 1)'
  <2>1. (m + 1) - 1 = m /\ Dump!Shown(m)' = offset
    BY <1>1, <1>9, <1>10 DEF Dumping
  <2>2. rows'[m + 1].offset = offset /\ DOMAIN rows'[m + 1].hex = 1 .. n
    BY <1>5, <1>7, <1>9
  <2> QED
    BY <1>1, <1>8, <1>9, <2>1, <2>2 DEF RowShown
<1>14. /\ unread' \in Seq(Byte) /\ Len(unread') = Len(unread) - n
       /\ \A k \in 1 .. Len(unread) - n : unread'[k] = unread[n + k]
  BY <1>1, <1>2, SMTT(30)
<1>15. \A k \in 1 .. Len(unread') : unread'[k] = rest'[offset' + k]
  <2> SUFFICES ASSUME NEW k \in 1 .. Len(unread) - n PROVE unread'[k] = rest[offset' + k]
    BY <1>1, <1>14
  <2>1. n + k \in 1 .. Len(unread) /\ offset' + k = offset + (n + k)
    BY <1>1, <1>2
  <2> QED
    BY <1>14, <1>2, <2>1
<1>17. offset' \in Nat /\ offset' + Len(unread') = Len(rest')
  <2>1. offset' = offset + n /\ Len(unread') = Len(unread) - n /\ Len(rest') = Len(rest)
    BY <1>1, <1>14
  <2>2. Len(unread) \in Nat /\ offset \in Nat /\ offset + Len(unread) = Len(rest)
    BY <1>2
  <2> QED
    BY <2>1, <2>2
<1>18. \A r \in 1 .. Len(rows') : RowShown(r)'
  <2>1. \A r \in 1 .. m + 1 : r \in 1 .. m \/ r = m + 1
    BY <1>9
  <2> QED
    BY <1>9, <1>12, <1>13, <2>1
<1> QED
  BY <1>1, <1>9, <1>11, <1>14, <1>15, <1>17, <1>18 DEF Dumping

LEMMA DumpingStays ==
  ASSUME Dumping, Dump!Next \/ UNCHANGED dumpVars
  PROVE  Dumping'
<1> DEFINE least == Dump!Smaller(Width, Len(unread))
<1>1. least \in Nat /\ least <= Width /\ least <= Len(unread)
  BY DumpAssumption DEF Dumping, Dump!Smaller
<1> HIDE DEF least
<1>3. ASSUME NEW n \in 1 .. least, Dump!ShowRow(n), dump_status' = dump_status
      PROVE  Dumping'
  <2>1. n \in Nat /\ n <= Len(unread) /\ n <= Width
    BY <1>1, DumpAssumption DEF Dumping
  <2> QED
    BY <1>3, <2>1, RowStays
<1>4. CASE Dump!Close
  <2>1. /\ dump_status' = "ended" => Len(unread) = 0
        /\ UNCHANGED <<unread, rest, offset, rows>>
    BY <1>4 DEF Dump!Close
  <2>2. \A r : RowShown(r)' <=> RowShown(r)
    BY <2>1 DEF RowShown, Dump!Shown
  <2>3. Dump!Shown(Len(rows))' = Dump!Shown(Len(rows))
    BY <2>1 DEF Dump!Shown
  <2> QED
    BY <2>1, <2>2, <2>3 DEF Dumping
<1>5. CASE UNCHANGED dumpVars
  BY <1>5 DEF dumpVars, Dumping, RowShown, Dump!Shown
<1> QED
  BY <1>3, <1>4, <1>5 DEF Dump!Next, Dump!Dump, least

(* What is printed is the file, row by row, each byte as Digits says and   *)
(* its character or a dot beside it, for any file, any width of the rows   *)
(* and any read errors.                                                    *)
THEOREM DumpAlwaysShowsFile == Spec => []DumpShowsFile
<1>1. Init => Dumping
  BY DumpAssumption DEF Init, Dump!Init, Dumping, Dump!Shown, Byte
<1>2. Dumping /\ [Next]_vars => Dumping'
  BY Alone, DumpingStays
<1>3. ASSUME Dumping PROVE DumpShowsFile
  <2>1. DOMAIN rows = 1 .. Len(rows)
    BY <1>3 DEF Dumping
  <2> QED
    BY <1>3, <2>1 DEF Dumping, RowShown, DumpShowsFile, Dump!DumpShowsFile, Dump!Ascii,
       Dump!Printable
<1> QED
  BY <1>1, <1>2, <1>3, PTL DEF Spec

-----------------------------------------------------------------------------
(* The signal logger.                                                      *)

Places(q, s) == {l \in DOMAIN q : q[l] = s}
Lines(q, s) == Cardinality(Places(q, s))

LEMMA LinesFinite ==
  ASSUME NEW S, NEW q \in Seq(S), NEW s
  PROVE  IsFiniteSet(Places(q, s)) /\ Lines(q, s) \in Nat
<1>1. IsFiniteSet(1 .. Len(q)) /\ Places(q, s) \in SUBSET (1 .. Len(q))
  BY FS_Interval DEF Places
<1> QED
  BY <1>1, FS_Subset, FS_CardinalityType DEF Lines

LEMMA LinesOfAppend ==
  ASSUME NEW S, NEW q \in Seq(S), NEW e \in S, NEW s
  PROVE  Lines(Append(q, e), s) = IF e = s THEN Lines(q, s) + 1 ELSE Lines(q, s)
<1> DEFINE n == Len(q) + 1
<1>1. /\ n \in Nat /\ DOMAIN Append(q, e) = 1 .. n /\ DOMAIN q = 1 .. n - 1
      /\ Append(q, e)[n] = e /\ \A l \in 1 .. n - 1 : Append(q, e)[l] = q[l]
  OBVIOUS
<1> HIDE DEF n
<1>2. \A l \in 1 .. n : l \in 1 .. n - 1 \/ l = n
  BY <1>1
<1>3. 1 .. n - 1 \subseteq 1 .. n /\ n \in 1 .. n /\ n \notin 1 .. n - 1
  BY <1>1, Len(q) \in Nat DEF n
<1>4. CASE e = s
  <2>1. Places(Append(q, e), s) = Places(q, s) \cup {n}
    BY <1>1, <1>2, <1>3, <1>4 DEF Places
  <2>2. n \notin Places(q, s)
    BY <1>1, <1>3 DEF Places
  <2> QED
    BY <1>4, <2>1, <2>2, LinesFinite, FS_AddElement DEF Lines
<1>5. CASE e # s
  <2>1. Places(Append(q, e), s) = Places(q, s)
    BY <1>1, <1>2, <1>3, <1>5 DEF Places
  <2> QED
    BY <1>5, <2>1 DEF Lines
<1> QED
  BY <1>4, <1>5

LEMMA LinesOfBoth ==
  ASSUME NEW S, NEW p \in Seq(S), NEW q \in Seq(S), NEW s
  PROVE  Lines(p \o q, s) = Lines(p, s) + Lines(q, s)
<1> DEFINE m == Len(p)
           n == Len(q)
           P == Places(p, s)
           Q == Places(q, s)
           R == {l \in 1 .. m + n : l > m /\ (p \o q)[l] = s}
           f == [l \in Q |-> m + l]
<1>1. /\ m \in Nat /\ n \in Nat /\ DOMAIN p = 1 .. m /\ DOMAIN q = 1 .. n
      /\ DOMAIN (p \o q) = 1 .. m + n
      /\ \A l \in 1 .. m : (p \o q)[l] = p[l]
      /\ \A l \in 1 .. n : (p \o q)[m + l] = q[l]
  OBVIOUS
<1>2. IsFiniteSet(P) /\ IsFiniteSet(Q) /\ Cardinality(P) \in Nat /\ Cardinality(Q) \in Nat
  BY LinesFinite DEF Lines
<1> HIDE DEF m, n
<1>3. P \subseteq 1 .. m /\ Q \subseteq 1 .. n
  BY <1>1 DEF Places
<1>4. f \in Bijection(Q, R)
  <2>1. \A l \in Q : m + l \in R
    BY <1>1, <1>3 DEF Places
  <2>2. \A l \in R : l - m \in Q /\ m + (l - m) = l
    <3> SUFFICES ASSUME NEW l \in R PROVE l - m \in Q /\ m + (l - m) = l
      OBVIOUS
    <3>1. l - m \in 1 .. n /\ m + (l - m) = l
      BY <1>1
    <3>2. (p \o q)[m + (l - m)] = q[l - m]
      BY <1>1, <3>1
    <3> QED
      BY <1>1, <3>1, <3>2 DEF Places
  <2>3. \A k, l \in Q : f[k] = f[l] => k = l
    BY <1>1, <1>3
  <2> HIDE DEF P, Q, R
  <2>4. f \in [Q -> R] /\ \A l \in R : f[l - m] = l /\ l - m \in Q
    BY <2>1, <2>2
  <2> HIDE DEF f
  <2> QED
    BY <2>3, <2>4 DEF Bijection, Injection, Surjection, IsInjective
<1>5. IsFiniteSet(R) /\ Cardinality(R) = Cardinality(Q)
  BY <1>2, <1>4, FS_Bijection DEF ExistsBijection
<1>6. Places(p \o q, s) = P \cup R
  <2>1. 1 .. m \subseteq 1 .. m + n
    BY <1>1
  <2>2. \A l \in 1 .. m + n : l \in 1 .. m \/ l > m
    BY <1>1
  <2>3. \A l \in 1 .. m : l \in P <=> (p \o q)[l] = s
    BY <1>1 DEF Places
  <2> QED
    BY <1>1, <1>3, <2>1, <2>2, <2>3 DEF Places
<1>7. P \cap R = {}
  BY <1>1, <1>3
<1> HIDE DEF P, R, Q
<1>8. Cardinality(P \cup R) = Cardinality(P) + Cardinality(R)
  <2>1. Cardinality(P \cup R) = Cardinality(P) + Cardinality(R) - Cardinality(P \cap R)
    BY <1>2, <1>5, FS_Union
  <2>2. Cardinality(P \cap R) = 0
    BY <1>7, FS_EmptySet
  <2> QED
    BY <1>2, <1>5, <2>1, <2>2
<1> QED
  BY <1>5, <1>6, <1>8 DEF Lines, P, Q

(* The logger's module counts with the Cardinality of FiniteSets, too.     *)
LEMMA SameCardinality == \A S : Logger!Cardinality(S) = Cardinality(S)
BY Zenon DEF Logger!Cardinality, Cardinality

Sigs == Logger!Signals
Handler ==
  [sig : Sigs, pc : {"printf", "printing", "fflush", "flushing"}]

(* The handler of s has been called and has not printed yet.               *)
Silent(s) ==
  \E h \in DOMAIN handlers :
    handlers[h].sig = s /\ handlers[h].pc \in {"printf", "printing"}
Unprinted(s) == IF Silent(s) THEN 1 ELSE 0

(* Where what was sent is: in the log, on its way there, or pending.       *)
Kept(s) == Lines(logged, s) + Lines(stdout, s) + Unprinted(s) + pending[s]

Accounted(s) ==
  /\ Kept(s) <= sent[s]
  /\ sent[s] > 0 => Kept(s) > 0
  /\ s \in Queued => Kept(s) = sent[s]

LogTypes ==
  /\ pending \in [Sigs -> Nat] /\ sent \in [Sigs -> Nat]
  /\ handlers \in Seq(Handler) /\ stdout \in Seq(Sigs) /\ logged \in Seq(Sigs)

Logging ==
  /\ LogTypes
  /\ \A g, h \in DOMAIN handlers : handlers[g].sig = handlers[h].sig => g = h
  /\ handlers = <<>> => stdout = <<>>
  /\ \A s \in Sigs : Accounted(s) /\ (s \notin Queued => pending[s] <= 1)

LEMMA KeptTyped ==
  ASSUME LogTypes, NEW s \in Sigs
  PROVE  /\ Lines(logged, s) \in Nat /\ Lines(stdout, s) \in Nat
         /\ Unprinted(s) \in {0, 1} /\ pending[s] \in Nat /\ sent[s] \in Nat
         /\ Kept(s) \in Nat
<1>1. Lines(logged, s) \in Nat /\ Lines(stdout, s) \in Nat
  BY LinesFinite DEF LogTypes
<1>2. Unprinted(s) \in {0, 1} /\ pending[s] \in Nat /\ sent[s] \in Nat
  BY DEF Unprinted, LogTypes
<1> QED
  BY <1>1, <1>2 DEF Kept

LEMMA SendLogs ==
  ASSUME Logging, NEW s \in Sigs, Logger!Send(s)
  PROVE  Logging'
<1>1. UNCHANGED <<handlers, stdout, logged>>
  BY DEF Logger!Send
<1>2. CASE Logger!Installed(s)
  <2>1. /\ pending' = [pending EXCEPT ![s] = IF s \in Queued THEN @ + 1 ELSE 1]
        /\ sent' = [sent EXCEPT ![s] = @ + 1]
    BY <1>2 DEF Logger!Send
  <2>2. LogTypes'
    BY <1>1, <2>1 DEF Logging, LogTypes
  <2>3. ASSUME NEW t \in Sigs
        PROVE  Accounted(t)' /\ (t \notin Queued => pending'[t] <= 1)
    <3>1. /\ Lines(logged, t)' = Lines(logged, t) /\ Lines(stdout, t)' = Lines(stdout, t)
          /\ Unprinted(t)' = Unprinted(t)
      BY <1>1 DEF Lines, Places, Unprinted, Silent
    <3>2. /\ Lines(logged, t) \in Nat /\ Lines(stdout, t) \in Nat
          /\ Unprinted(t) \in {0, 1} /\ pending[t] \in Nat /\ sent[t] \in Nat
      BY KeptTyped DEF Logging
    <3>3. Accounted(t) /\ (t \notin Queued => pending[t] <= 1)
      BY DEF Logging
    <3>4. t # s => pending'[t] = pending[t] /\ sent'[t] = sent[t]
      BY <2>1 DEF Logging, LogTypes
    <3>5. t = s => /\ sent'[t] = sent[t] + 1
                   /\ pending'[t] = IF t \in Queued THEN pending[t] + 1 ELSE 1
      BY <2>1 DEF Logging, LogTypes
    <3>6. CASE t # s
      BY <3>1, <3>3, <3>4, <3>6 DEF Accounted, Kept
    <3>7. CASE t = s
      BY <3>1, <3>2, <3>3, <3>5, <3>7 DEF Accounted, Kept
    <3> QED
      BY <3>6, <3>7
  <2> QED
    BY <1>1, <2>2, <2>3 DEF Logging
<1>3. CASE ~ Logger!Installed(s)
  BY <1>1, <1>3 DEF Logger!Send, Logging, LogTypes, Accounted, Kept, Lines, Places,
     Unprinted, Silent
<1> QED
  BY <1>2, <1>3

LEMMA MovesLog ==
  ASSUME Logging, LogTypes', sent' = sent,
         \A g, h \in DOMAIN handlers' : handlers'[g].sig = handlers'[h].sig => g = h,
         handlers' = <<>> => stdout' = <<>>,
         \A t \in Sigs : Kept(t)' = Kept(t) /\ pending'[t] <= pending[t]
  PROVE  Logging'
<1>1. ASSUME NEW t \in Sigs PROVE Accounted(t)' /\ (t \notin Queued => pending'[t] <= 1)
  <2>1. pending[t] \in Nat /\ pending'[t] \in Nat
    BY DEF Logging, LogTypes
  <2>2. Accounted(t) /\ (t \notin Queued => pending[t] <= 1)
    BY DEF Logging
  <2> QED
    BY <2>1, <2>2 DEF Accounted
<1> QED
  BY <1>1 DEF Logging

LEMMA DeliverLogs ==
  ASSUME Logging, NEW s \in Sigs, Logger!Deliver(s)
  PROVE  Logging'
<1> DEFINE call == [sig |-> s, pc |-> "printf"]
<1>1. /\ handlers' = Append(handlers, call) /\ sent' = sent
      /\ stdout' = stdout /\ logged' = logged
      /\ pending' = [pending EXCEPT ![s] = @ - 1] /\ pending[s] > 0
      /\ \A h \in DOMAIN handlers : handlers[h].sig # s
  BY DEF Logger!Deliver
<1>2. call \in Handler /\ call.sig = s /\ call.pc = "printf"
  BY DEF Handler
<1> HIDE DEF call
<1>3. LogTypes'
  BY <1>1, <1>2 DEF Logging, LogTypes
<1> PICK n \in Nat : n = Len(handlers)
  BY DEF Logging, LogTypes
<1>4. /\ DOMAIN handlers = 1 .. n /\ DOMAIN handlers' = 1 .. n + 1
      /\ handlers'[n + 1] = call
      /\ \A h \in 1 .. n : handlers'[h] = handlers[h]
  BY <1>1, <1>2 DEF Logging, LogTypes
<1>5. \A h \in 1 .. n + 1 : h \in 1 .. n \/ h = n + 1
  OBVIOUS
<1>6. \A g, h \in DOMAIN handlers' : handlers'[g].sig = handlers'[h].sig => g = h
  <2>1. \A h \in 1 .. n : handlers'[h].sig # s
    BY <1>1, <1>4
  <2>2. \A g, h \in 1 .. n : handlers'[g].sig = handlers'[h].sig => g = h
    BY <1>4 DEF Logging
  <2> QED
    BY <1>2, <1>4, <1>5, <2>1, <2>2
<1>7. handlers' # <<>>
  BY <1>4
<1>8. ASSUME NEW t \in Sigs PROVE Kept(t)' = Kept(t) /\ pending'[t] <= pending[t]
  <2>1. Lines(logged, t)' = Lines(logged, t) /\ Lines(stdout, t)' = Lines(stdout, t)
    BY <1>1 DEF Lines, Places
  <2>2. /\ Lines(logged, t) \in Nat /\ Lines(stdout, t) \in Nat
        /\ Unprinted(t) \in {0, 1} /\ pending[t] \in Nat
    BY KeptTyped DEF Logging
  <2>3. CASE t # s
    <3>1. Silent(t)' <=> Silent(t)
      <4>1. 1 .. n \subseteq 1 .. n + 1
        OBVIOUS
      <4> QED
        BY <1>2, <1>4, <1>5, <2>3, <4>1 DEF Silent
    <3>2. pending'[t] = pending[t]
      BY <1>1, <2>3 DEF Logging, LogTypes
    <3> QED
      BY <2>1, <2>2, <3>1, <3>2 DEF Kept, Unprinted
  <2>4. CASE t = s
    <3>1. ~ Silent(t)
      BY <1>1, <2>4 DEF Silent
    <3>2. Silent(t)'
      BY <1>2, <1>4, <2>4 DEF Silent
    <3>3. pending'[t] = pending[t] - 1
      BY <1>1, <2>4 DEF Logging, LogTypes
    <3> QED
      BY <2>1, <2>2, <3>1, <3>2, <3>3 DEF Kept, Unprinted
  <2> QED
    BY <2>3, <2>4
<1> QED
  BY <1>1, <1>3, <1>6, <1>7, <1>8, MovesLog

(* Entering printf or fflush changes nothing of what is kept.              *)
LEMMA EnterLogs ==
  ASSUME Logging,
         NEW step \in {"printf", "fflush"}, NEW inside \in {"printing", "flushing"},
         step = "printf" <=> inside = "printing",
         Logger!Call(step, inside)
  PROVE  Logging'
<1> PICK n \in Nat : n = Len(handlers)
  BY DEF Logging, LogTypes
<1> DEFINE s == handlers[n].sig
<1>1. /\ n > 0 /\ handlers[n].pc = step /\ n \in DOMAIN handlers
      /\ pending' = pending /\ sent' = sent /\ logged' = logged /\ stdout' = stdout
      /\ \/ handlers' = handlers
         \/ handlers' = [handlers EXCEPT ![n] = [sig |-> s, pc |-> inside]]
  <2>1. Logger!Running(step) /\ n = Logger!top
    BY DEF Logger!Call, Logger!top
  <2>2. /\ n > 0 /\ handlers[n].pc = step /\ n \in DOMAIN handlers
        /\ pending' = pending /\ sent' = sent
    BY <2>1 DEF Logger!Running, Logger!top, Logging, LogTypes
  <2>3. logged' = logged /\ stdout' = stdout
    BY DEF Logger!Call
  <2>4. Logger!At(inside) = [handlers EXCEPT ![n] = [sig |-> s, pc |-> inside]]
    BY <2>1, <2>2 DEF Logger!At
  <2>5. handlers' = handlers \/ handlers' = Logger!At(inside)
    BY DEF Logger!Call
  <2> QED
    BY <2>2, <2>3, <2>4, <2>5
<1>2. CASE handlers' = handlers
  <2>1. UNCHANGED <<pending, handlers, stdout, logged, sent>>
    BY <1>1, <1>2
  <2> HIDE DEF s
  <2> QED
    BY <2>1 DEF Logging, LogTypes, Accounted, Kept, Lines, Places, Unprinted, Silent
<1>3. CASE handlers' = [handlers EXCEPT ![n] = [sig |-> s, pc |-> inside]]
  <2>1. [sig |-> s, pc |-> inside] \in Handler
    <3>1. handlers[n] \in Handler
      BY <1>1 DEF Logging, LogTypes
    <3> QED
      BY <3>1 DEF Handler
  <2>2. LogTypes'
    <3>1. handlers \in [1 .. n -> Handler]
      BY DEF Logging, LogTypes
    <3>2. handlers' \in [1 .. n -> Handler]
      BY <1>3, <2>1, <3>1
    <3>3. handlers' \in Seq(Handler)
      BY <3>2, FunctionIsSeq
    <3> QED
      BY <1>1, <3>3 DEF Logging, LogTypes
  <2>3. /\ DOMAIN handlers' = DOMAIN handlers
        /\ handlers'[n].sig = s /\ handlers'[n].pc = inside
        /\ \A h \in DOMAIN handlers : h # n => handlers'[h] = handlers[h]
    BY <1>1, <1>3
  <2>4. \A g \in DOMAIN handlers : handlers'[g].sig = handlers[g].sig
    BY <2>3
  <2>5. \A g, h \in DOMAIN handlers' : handlers'[g].sig = handlers'[h].sig => g = h
    BY <2>3, <2>4 DEF Logging
  <2>6. handlers' # <<>>
    BY <1>1, <2>3
  <2>7. ASSUME NEW t \in Sigs PROVE Kept(t)' = Kept(t) /\ pending'[t] <= pending[t]
    <3>1. Lines(logged, t)' = Lines(logged, t) /\ Lines(stdout, t)' = Lines(stdout, t)
      BY <1>1 DEF Lines, Places
    <3>2. Silent(t)' <=> Silent(t)
      <4>1. \A h \in DOMAIN handlers :
              handlers'[h].pc \in {"printf", "printing"}
                <=> handlers[h].pc \in {"printf", "printing"}
        BY <1>1, <2>3
      <4> QED
        BY <2>3, <2>4, <4>1 DEF Silent
    <3>3. pending[t] \in Nat
      BY DEF Logging, LogTypes
    <3> QED
      BY <1>1, <3>1, <3>2, <3>3 DEF Kept, Unprinted
  <2> QED
    BY <1>1, <2>2, <2>5, <2>6, <2>7, MovesLog
<1> QED
  BY <1>1, <1>2, <1>3

LEMMA PrintfLogs == ASSUME Logging, Logger!Printf PROVE Logging'
<1> PICK n \in Nat : n = Len(handlers)
  BY DEF Logging, LogTypes
<1> DEFINE s == handlers[n].sig
<1>1. /\ n > 0 /\ handlers[n].pc = "printing" /\ n \in DOMAIN handlers
      /\ pending' = pending /\ sent' = sent /\ logged' = logged
      /\ stdout' = Append(stdout, s)
      /\ handlers' = [handlers EXCEPT ![n] = [sig |-> s, pc |-> "fflush"]]
  BY DEF Logger!Printf, Logger!Running, Logger!At, Logger!top, Logging, LogTypes
<1>2. s \in Sigs /\ [sig |-> s, pc |-> "fflush"] \in Handler
  <2>1. handlers[n] \in Handler
    BY <1>1 DEF Logging, LogTypes
  <2> QED
    BY <2>1 DEF Handler
<1>3. /\ DOMAIN handlers' = DOMAIN handlers
      /\ handlers'[n].sig = s /\ handlers'[n].pc = "fflush"
      /\ \A h \in DOMAIN handlers : h # n => handlers'[h] = handlers[h]
  BY <1>1
<1>4. LogTypes'
  <2>1. handlers \in [1 .. n -> Handler]
    BY DEF Logging, LogTypes
  <2>2. handlers' \in [1 .. n -> Handler]
    BY <1>1, <1>2, <2>1
  <2>3. handlers' \in Seq(Handler)
    BY <2>2, FunctionIsSeq
  <2> QED
    BY <1>1, <1>2, <2>3 DEF Logging, LogTypes
<1>5. \A g \in DOMAIN handlers : handlers'[g].sig = handlers[g].sig
  BY <1>3
<1>6. \A g, h \in DOMAIN handlers' : handlers'[g].sig = handlers'[h].sig => g = h
  BY <1>3, <1>5 DEF Logging
<1>7. handlers' # <<>>
  BY <1>1, <1>3
<1> HIDE DEF s
<1>8. ASSUME NEW t \in Sigs PROVE Kept(t)' = Kept(t) /\ pending'[t] <= pending[t]
  <2>1. Lines(logged, t)' = Lines(logged, t)
    BY <1>1 DEF Lines, Places
  <2>2. /\ Lines(logged, t) \in Nat /\ Lines(stdout, t) \in Nat
        /\ Unprinted(t) \in {0, 1} /\ pending[t] \in Nat
    BY KeptTyped DEF Logging
  <2>3. Lines(stdout, t)' = IF s = t THEN Lines(stdout, t) + 1 ELSE Lines(stdout, t)
    <3>1. Lines(stdout, t)' = Lines(stdout', t)
      BY DEF Lines, Places
    <3>2. stdout \in Seq(Sigs)
      BY DEF Logging, LogTypes
    <3> QED
      BY <1>1, <1>2, <3>1, <3>2, LinesOfAppend
  <2>4. CASE s # t
    <3>1. Silent(t)' <=> Silent(t)
      BY <1>3, <1>5, <2>4 DEF Silent, s
    <3> QED
      BY <1>1, <2>1, <2>2, <2>3, <2>4, <3>1 DEF Kept, Unprinted
  <2>5. CASE s = t
    <3>1. Silent(t)
      BY <1>1, <2>5 DEF Silent, s
    <3>2. ~ Silent(t)'
      <4>1. \A h \in DOMAIN handlers : handlers[h].sig = t => h = n
        BY <1>1, <2>5 DEF Logging, s
      <4> QED
        BY <1>3, <1>5, <4>1 DEF Silent
    <3>3. Unprinted(t) = 1 /\ Unprinted(t)' = 0
      BY <3>1, <3>2 DEF Unprinted
    <3>4. Lines(stdout, t)' = Lines(stdout, t) + 1
      BY <2>3, <2>5
    <3>5. Kept(t) = Lines(logged, t) + Lines(stdout, t) + 1 + pending[t]
      BY <3>3 DEF Kept
    <3>6. Kept(t)' = Lines(logged, t) + (Lines(stdout, t) + 1) + 0 + pending[t]
      BY <1>1, <2>1, <3>3, <3>4 DEF Kept
    <3> QED
      BY <1>1, <2>2, <3>5, <3>6
  <2> QED
    BY <2>4, <2>5
<1> QED
  BY <1>1, <1>4, <1>6, <1>7, <1>8, MovesLog

LEMMA FflushLogs == ASSUME Logging, Logger!Fflush PROVE Logging'
<1> PICK n \in Nat : n = Len(handlers)
  BY DEF Logging, LogTypes
<1>1. /\ n > 0 /\ handlers[n].pc = "flushing" /\ DOMAIN handlers = 1 .. n
      /\ pending' = pending /\ sent' = sent
      /\ logged' = logged \o stdout /\ stdout' = <<>>
      /\ handlers' = SubSeq(handlers, 1, n - 1)
  BY DEF Logger!Fflush, Logger!Running, Logger!top, Logging, LogTypes
<1>2. /\ handlers' \in Seq(Handler) /\ DOMAIN handlers' = 1 .. n - 1
      /\ \A h \in 1 .. n - 1 : handlers'[h] = handlers[h]
  BY <1>1 DEF Logging, LogTypes
<1>3. <<>> \in Seq(Sigs)
  OBVIOUS
<1>4. LogTypes'
  BY <1>1, <1>2, <1>3 DEF Logging, LogTypes
<1>5. 1 .. n - 1 \subseteq 1 .. n /\ \A h \in 1 .. n : h \in 1 .. n - 1 \/ h = n
  OBVIOUS
<1>6. \A g, h \in DOMAIN handlers' : handlers'[g].sig = handlers'[h].sig => g = h
  BY <1>1, <1>2, <1>5 DEF Logging
<1>7. ASSUME NEW t \in Sigs PROVE Kept(t)' = Kept(t) /\ pending'[t] <= pending[t]
  <2>1. /\ Lines(logged, t) \in Nat /\ Lines(stdout, t) \in Nat
        /\ Unprinted(t) \in {0, 1} /\ pending[t] \in Nat
    BY KeptTyped DEF Logging
  <2>2. Lines(logged, t)' = Lines(logged, t) + Lines(stdout, t)
    <3>1. Lines(logged, t)' = Lines(logged', t)
      BY DEF Lines, Places
    <3>2. stdout \in Seq(Sigs) /\ logged \in Seq(Sigs)
      BY DEF Logging, LogTypes
    <3> QED
      BY <1>1, <3>1, <3>2, LinesOfBoth
  <2>3. Lines(stdout, t)' = 0
    <3>1. Places(stdout, t)' = {}
      BY <1>1 DEF Places
    <3> QED
      BY <3>1, FS_EmptySet DEF Lines
  <2>4. Silent(t)' <=> Silent(t)
    BY <1>1, <1>2, <1>5 DEF Silent
  <2> QED
    BY <1>1, <2>1, <2>2, <2>3, <2>4 DEF Kept, Unprinted
<1> QED
  BY <1>1, <1>4, <1>6, <1>7, MovesLog

LEMMA LoggingStays ==
  ASSUME Logging, Logger!Next \/ UNCHANGED logVars
  PROVE  Logging'
<1>1. CASE Logger!Install \/ UNCHANGED logVars
  <2>1. UNCHANGED <<pending, handlers, stdout, logged, sent>>
    BY <1>1 DEF Logger!Install, logVars
  <2> QED
    BY <2>1 DEF Logging, LogTypes, Accounted, Kept, Lines, Places, Unprinted, Silent
<1>2. CASE Logger!CallPrintf
  BY <1>2, EnterLogs DEF Logger!CallPrintf
<1>3. CASE Logger!CallFflush
  BY <1>3, EnterLogs DEF Logger!CallFflush
<1> QED
  BY <1>1, <1>2, <1>3, SendLogs, DeliverLogs, PrintfLogs, FflushLogs DEF Logger!Next, Sigs

(* No signal goes missing while the logger lives, for any number of        *)
(* signals, whatever others interrupt its handler outside of printf and    *)
(* fflush.                                                                 *)
THEOREM SignalsAlwaysLogged == Spec => []SignalsLogged
<1>1. ASSUME Init PROVE Logging
  <2>1. /\ pending = [s \in Sigs |-> 0] /\ sent = [s \in Sigs |-> 0]
        /\ handlers = <<>> /\ stdout = <<>> /\ logged = <<>>
    BY <1>1 DEF Init, Logger!Init, Sigs
  <2>2. LogTypes
    BY <2>1 DEF LogTypes
  <2>3. ASSUME NEW s \in Sigs PROVE Kept(s) = 0
    <3>1. Lines(logged, s) = 0 /\ Lines(stdout, s) = 0
      BY <2>1, FS_EmptySet DEF Lines, Places
    <3>2. Unprinted(s) = 0
      BY <2>1 DEF Unprinted, Silent
    <3> QED
      BY <2>1, <3>1, <3>2 DEF Kept
  <2> QED
    BY <2>1, <2>2, <2>3 DEF Logging, Accounted
<1>2. Logging /\ [Next]_vars => Logging'
  BY Alone, LoggingStays
<1>3. ASSUME Logging PROVE SignalsLogged
  <2> SUFFICES ASSUME handlers = <<>>, NEW s \in Sigs
               PROVE  LET lines == Cardinality({l \in DOMAIN logged : logged[l] = s})
                      IN  /\ lines + pending[s] <= sent[s]
                          /\ sent[s] > 0 => lines + pending[s] > 0
                          /\ s \in Queued => lines + pending[s] = sent[s]
    BY SameCardinality DEF SignalsLogged, Logger!SignalsLogged, Sigs
  <2>5. Lines(logged, s) = Cardinality({l \in DOMAIN logged : logged[l] = s})
    BY DEF Lines, Places
  <2>1. /\ Lines(logged, s) \in Nat /\ pending[s] \in Nat /\ sent[s] \in Nat
    BY <1>3, KeptTyped DEF Logging
  <2>2. Lines(stdout, s) = 0
    BY <1>3, FS_EmptySet DEF Lines, Places, Logging
  <2>3. Unprinted(s) = 0
    BY DEF Unprinted, Silent
  <2>4. Accounted(s)
    BY <1>3 DEF Logging
  <2> QED
    BY <2>1, <2>2, <2>3, <2>4, <2>5 DEF Accounted, Kept
<1> QED
  BY <1>1, <1>2, <1>3, PTL DEF Spec

-----------------------------------------------------------------------------
(* The ELF loader.                                                         *)

Phdr == [type : STRING, offset : 0 .. Words - 1, vaddr : 0 .. Words - 1,
         filesz : 0 .. Words - 1, memsz : 0 .. Words - 1]
Phdrs == 1 .. Elf!phnum

Blocks == {Elf!Segment(segments[m].phdr) : m \in DOMAIN segments}

Before == {"open", "ident", "magic", "header", "checks", "print"}
Loading == {"load", "segment", "interp"}

(* The byte a header puts at an offset of its segment.                     *)
ByteAt(p, o) ==
  IF o >= p.filesz THEN Elf!Zero
  ELSE IF p.offset + o < file.length THEN p.offset + o ELSE Elf!Junk

(* A segment is the one a header asks for, one of those that were read.    *)
Faithful(s) ==
  /\ s.phdr \in Phdrs /\ s.phdr < i
  /\ file.phdrs[s.phdr].type = "LOAD"
  /\ s.vaddr = file.phdrs[s.phdr].vaddr /\ s.size = file.phdrs[s.phdr].memsz
  /\ ~ Elf!Negative(file.phdrs[s.phdr].offset) =>
       \A o \in 0 .. s.size - 1 : s.memory[o] = ByteAt(file.phdrs[s.phdr], o)

Loader ==
  /\ file \in Files /\ i \in Nat \ {0} /\ pos \in Nat
  /\ pc \in Before \cup Loading \cup {"table", "undefined", "free", "done"}
  /\ exit \in {0, 1, Elf!Running}
  /\ exit = Elf!Running <=> pc # "done"
  /\ DOMAIN segments = 1 .. Len(segments) /\ Len(segments) \in Nat

(* The segments are those of the headers so far, in their order.           *)
Image ==
  /\ pc = "segment" /\ ~ Elf!Negative(file.phdrs[i].offset) => pos = file.phdrs[i].offset
  /\ pc \in {"segment", "interp"} => i \in Phdrs
  /\ pc = "segment" => file.phdrs[i].type = "LOAD"
  /\ pc = "interp" => file.phdrs[i].type = "INTERP"
  /\ pc \in Before \cup {"table"} => segments = <<>>
  /\ pc # "undefined" => \A m \in DOMAIN segments : Faithful(segments[m])
  /\ \A m, n \in DOMAIN segments : m < n => segments[m].phdr < segments[n].phdr
  /\ pc \in Loading \cup {"free"} \/ exit = 0 =>
       \A k \in Phdrs : k < i /\ file.phdrs[k].type = "LOAD" =>
         \E m \in DOMAIN segments : segments[m].phdr = k
  /\ pc = "free" \/ exit = 0 => i > Elf!phnum

(* What is allocated at every step.                                        *)
Heap ==
  /\ pc \in Before => heap = {}
  /\ pc \in {"table", "load", "free"} => heap = {Elf!Table} \cup Blocks
  /\ pc = "segment" => heap = {Elf!Table, Elf!Segment(i)} \cup Blocks
  /\ pc = "interp" => heap = {Elf!Table, Elf!Interp} \cup Blocks
  /\ pc = "done" => heap = (IF exit = 0 THEN {} ELSE Blocks) /\ fd = "closed"

ElfInv == Loader /\ Image /\ Heap

LEMMA BlocksApart ==
  /\ Elf!Table # Elf!Interp
  /\ \A k : Elf!Segment(k) # Elf!Table /\ Elf!Segment(k) # Elf!Interp
  /\ \A k, l : Elf!Segment(k) = Elf!Segment(l) => k = l
BY DEF Elf!Table, Elf!Interp, Elf!Segment

LEMMA PhdrTyped ==
  ASSUME Loader, NEW k \in Phdrs
  PROVE  file.phdrs[k] \in Phdr /\ file.length \in Nat /\ file.phoff \in Nat /\ Elf!phnum \in Nat
<1>1. file.phdrs \in Seq(Phdr) /\ file.length \in Nat /\ file.phoff \in Nat
  <2>1. /\ file.phdrs \in Seq(Phdr) /\ file.length \in Nat
        /\ file.phoff \in 0 .. Words - 1
    BY ElfAssumption DEF Loader, Phdr
  <2>2. 0 .. Words - 1 \subseteq Nat
    BY ElfAssumption
  <2> QED
    BY <2>1, <2>2
<1> QED
  BY <1>1 DEF Phdrs, Elf!phnum

(* Nothing that is loaded is freed when the loader fails.                  *)
LEMMA FailReleases ==
  ASSUME ElfInv, pc \notin {"free", "done", "undefined"},
         NEW given, Elf!Fail(given),
         given \cap Blocks = {}, heap \ given \subseteq Blocks,
         Blocks \subseteq heap
  PROVE  ElfInv'
<1>1. /\ pc' = "done" /\ exit' = 1 /\ fd' = "closed" /\ heap' = heap \ given
      /\ UNCHANGED <<file, pos, i, segments, answers>>
  BY DEF Elf!Fail
<1>2. Blocks' = Blocks
  BY <1>1 DEF Blocks
<1>3. heap' = Blocks
  BY <1>1
<1>4. Loader'
  BY <1>1 DEF ElfInv, Loader, Before, Loading, Elf!Running
<1>5. \A s : Faithful(s)' <=> Faithful(s)
  BY <1>1 DEF Faithful, ByteAt, Phdrs, Elf!phnum
<1>6. Image'
  BY <1>1, <1>5 DEF ElfInv, Image, Before, Loading
<1>7. Heap'
  BY <1>1, <1>2, <1>3 DEF Heap, Before
<1> QED
  BY <1>4, <1>6, <1>7 DEF ElfInv

(* Up to the table there is nothing to free.                               *)
LEMMA BeforeStays ==
  ASSUME ElfInv,
         \/ Elf!Open \/ Elf!ReadIdent \/ Elf!Magic \/ Elf!ReadHeader
         \/ Elf!CheckHeader \/ Elf!PrintPhdr \/ Elf!AllocateTable
  PROVE  ElfInv'
<1> USE ElfAssumption
<1>1. pc \in Before /\ segments = <<>> /\ heap = {} /\ exit = Elf!Running
  BY DEF Elf!Open, Elf!ReadIdent, Elf!Magic, Elf!ReadHeader, Elf!CheckHeader,
     Elf!PrintPhdr, Elf!AllocateTable, Elf!Goes, ElfInv, Loader, Image, Heap, Before
<1>2. Blocks = {}
  BY <1>1 DEF Blocks
<1>3. CASE Elf!Fail({})
  BY <1>1, <1>2, <1>3, FailReleases DEF Before
<1>4. CASE /\ pc' \in Before /\ exit' = exit /\ file' = file
           /\ i' \in Nat \ {0} /\ pos' \in Nat /\ UNCHANGED <<heap, segments>>
  BY <1>1, <1>4 DEF ElfInv, Loader, Image, Heap, Before, Loading, Elf!Running
<1>5. CASE /\ pc' = "table" /\ exit' = exit /\ file' = file /\ i' = i /\ pos' \in Nat
           /\ heap' = heap \cup {Elf!Table} /\ segments' = segments
  <2>1. Blocks' = {}
    BY <1>1, <1>5 DEF Blocks
  <2>2. Loader' /\ Image'
    BY <1>1, <1>5 DEF ElfInv, Loader, Image, Before, Loading, Elf!Running
  <2>3. Heap'
    BY <1>1, <1>5, <2>1 DEF Heap, Before
  <2> QED
    BY <2>2, <2>3 DEF ElfInv
<1>6. Elf!Seek(file.phoff) \in Nat /\ pos \in Nat /\ i \in Nat \ {0}
  BY DEF ElfInv, Loader, Elf!Seek
<1>7. CASE Elf!Open \/ Elf!ReadIdent \/ Elf!Magic \/ Elf!ReadHeader \/ Elf!CheckHeader
  BY <1>3, <1>4, <1>6, <1>7 DEF Elf!Open, Elf!ReadIdent, Elf!Magic, Elf!ReadHeader,
     Elf!CheckHeader, Elf!Goes, Before
<1>8. CASE Elf!PrintPhdr
  BY <1>3, <1>4, <1>6, <1>8 DEF Elf!PrintPhdr, Elf!Goes, Before
<1>9. CASE Elf!AllocateTable
  BY <1>3, <1>5, <1>6, <1>9 DEF Elf!AllocateTable, Elf!Goes
<1> QED
  BY <1>7, <1>8, <1>9

LEMMA SameFaithful ==
  ASSUME file' = file, i \in Nat, i' \in Nat, i <= i'
  PROVE  \A s : s.phdr \in Nat /\ Faithful(s) => Faithful(s)'
BY DEF Faithful, ByteAt, Phdrs, Elf!phnum

(* The loop over the headers, but for the reading of a segment.            *)
LEMMA LoopStays ==
  ASSUME ElfInv,
         \/ Elf!ReadTable \/ Elf!AllocateSegment \/ Elf!AllocateInterp
         \/ Elf!ReadInterp \/ Elf!SkipPhdr \/ Elf!Translate
  PROVE  ElfInv'
<1>1. /\ pc \in {"table", "load", "interp"} /\ exit = Elf!Running
      /\ pos \in Nat /\ i \in Nat \ {0} /\ Elf!phnum \in Nat
      /\ file \in Files /\ DOMAIN segments = 1 .. Len(segments)
      /\ \A m, n \in DOMAIN segments : m < n => segments[m].phdr < segments[n].phdr
      /\ \A m \in DOMAIN segments : Faithful(segments[m])
      /\ \A m \in DOMAIN segments : segments[m].phdr \in Nat
  <2>1. pc \in {"table", "load", "interp"} /\ exit = Elf!Running
    BY DEF Elf!ReadTable, Elf!AllocateSegment, Elf!AllocateInterp, Elf!ReadInterp,
       Elf!ReadInterpOrFree, Elf!SkipPhdr, Elf!Translate, Elf!Goes, ElfInv, Loader
  <2>2. Elf!phnum \in Nat
    BY ElfAssumption DEF ElfInv, Loader, Elf!phnum
  <2> QED
    BY <2>1, <2>2 DEF ElfInv, Loader, Image, Faithful, Phdrs
<1>2. /\ pc = "table" => heap = {Elf!Table} \cup Blocks /\ segments = <<>>
      /\ pc = "load" => heap = {Elf!Table} \cup Blocks
      /\ pc = "interp" => heap = {Elf!Table, Elf!Interp} \cup Blocks
  BY DEF ElfInv, Heap, Image
<1>3. Elf!Table \notin Blocks /\ Elf!Interp \notin Blocks
  BY BlocksApart DEF Blocks
<1>4. CASE Elf!Fail({Elf!Table}) /\ pc \in {"table", "load"}
  BY <1>2, <1>3, <1>4, FailReleases
<1>5. CASE Elf!Fail({Elf!Interp, Elf!Table}) /\ pc = "interp"
  BY <1>2, <1>3, <1>5, FailReleases
<1>6. ASSUME file' = file, segments' = segments, exit' = exit, i' = i \/ i' = i + 1, pos' \in Nat,
             pc' \in {"load", "segment", "interp", "free", "undefined"},
             pc' = "segment" => i' \in Phdrs /\ pos' = Elf!Seek(file.phdrs[i'].offset)
                                /\ file.phdrs[i'].type = "LOAD",
             pc' = "interp" => i' \in Phdrs /\ file.phdrs[i'].type = "INTERP",
             pc' = "free" => i' > Elf!phnum,
             \A k \in Phdrs : k < i' /\ file.phdrs[k].type = "LOAD" =>
               \E m \in DOMAIN segments : segments[m].phdr = k
      PROVE  Loader' /\ Image' /\ Blocks' = Blocks
  <2>1. Phdrs' = Phdrs /\ Elf!phnum' = Elf!phnum
    BY <1>6 DEF Phdrs, Elf!phnum
  <2>2. \A m \in DOMAIN segments : Faithful(segments[m])'
    <3>1. i' \in Nat /\ i <= i'
      BY <1>1, <1>6
    <3>2. \A s : s.phdr \in Nat /\ Faithful(s) => Faithful(s)'
      BY <1>1, <1>6, <3>1, SameFaithful
    <3>3. \A m \in DOMAIN segments : segments'[m] = segments[m]
      BY <1>6
    <3> QED
      BY <1>1, <1>6, <3>2, <3>3 DEF Faithful, ByteAt
  <2>3. Loader'
    BY <1>1, <1>6 DEF ElfInv, Loader, Before, Loading, Elf!Running
  <2>4. Image'
    BY <1>1, <1>6, <2>1, <2>2 DEF Image, Before, Loading, Elf!Running, Elf!Seek, Elf!Negative
  <2>5. Blocks' = Blocks
    BY <1>6 DEF Blocks
  <2> QED
    BY <2>3, <2>4, <2>5
<1>7. pc \in Loading => \A k \in Phdrs : k < i /\ file.phdrs[k].type = "LOAD" =>
                          \E m \in DOMAIN segments : segments[m].phdr = k
  BY DEF ElfInv, Image
<1>8. \A k \in Phdrs : file.phdrs[k] \in Phdr
  BY PhdrTyped DEF ElfInv
<1>9. \A k \in Nat : k < i + 1 => k < i \/ k = i
  BY <1>1
<1>10. CASE Elf!ReadTable
  <2>1. CASE Elf!Fail({Elf!Table})
    BY <1>4, <1>10, <2>1 DEF Elf!ReadTable
  <2>2. CASE ~ Elf!Fail({Elf!Table})
    <3>1. /\ pc = "table" /\ pc' = "load" /\ i' = 1 /\ pos' = pos + PhdrSize * Elf!phnum
          /\ UNCHANGED <<file, exit, heap, segments>>
      BY <1>10, <2>2 DEF Elf!ReadTable, Elf!Goes
    <3>2. pos' \in Nat
      <4>1. PhdrSize * Elf!phnum \in Nat
        BY <1>1, ElfAssumption
      <4> QED
        BY <1>1, <3>1, <4>1
    <3>3. segments = <<>> /\ \A k \in Phdrs : ~ (k < 1)
      BY <1>2, <3>1 DEF Phdrs
    <3>4. Loader' /\ Image'
      BY <1>1, <3>1, <3>2, <3>3 DEF ElfInv, Loader, Image, Before, Loading, Elf!Running,
         Phdrs, Elf!phnum
    <3>5. Heap'
      BY <1>1, <1>2, <3>1 DEF Heap, Blocks, Before
    <3> QED
      BY <3>4, <3>5 DEF ElfInv
  <2> QED
    BY <2>1, <2>2
<1>11. CASE Elf!AllocateSegment
  <2>1. CASE Elf!Fail({Elf!Table})
    BY <1>4, <1>11, <2>1 DEF Elf!AllocateSegment
  <2>2. CASE ~ Elf!Fail({Elf!Table})
    <3>1. /\ pc = "load" /\ pc' = "segment" /\ i <= Elf!phnum /\ file.phdrs[i].type = "LOAD"
          /\ pos' = Elf!Seek(file.phdrs[i].offset) /\ heap' = heap \cup {Elf!Segment(i)}
          /\ UNCHANGED <<file, exit, i, segments>>
      BY <1>11, <2>2 DEF Elf!AllocateSegment, Elf!Goes, Elf!phdr
    <3>2. i \in Phdrs
      BY <1>1, <3>1 DEF Phdrs
    <3>3. pos' \in Nat
      BY <1>1, <1>8, <3>1, <3>2 DEF Phdr, Elf!Seek
    <3>4. Loader' /\ Image' /\ Blocks' = Blocks
      BY <1>6, <1>7, <3>1, <3>2, <3>3 DEF Loading
    <3>5. Heap'
      BY <1>1, <1>2, <3>1, <3>4 DEF Heap, Before
    <3> QED
      BY <3>4, <3>5 DEF ElfInv
  <2> QED
    BY <2>1, <2>2
<1>12. CASE Elf!AllocateInterp
  <2>1. CASE Elf!Fail({Elf!Table})
    BY <1>4, <1>12, <2>1 DEF Elf!AllocateInterp
  <2>2. CASE ~ Elf!Fail({Elf!Table})
    <3>1. /\ pc = "load" /\ pc' = "interp" /\ i <= Elf!phnum /\ file.phdrs[i].type = "INTERP"
          /\ heap' = heap \cup {Elf!Interp}
          /\ UNCHANGED <<file, exit, i, pos, segments>>
      BY <1>12, <2>2 DEF Elf!AllocateInterp, Elf!Goes, Elf!phdr
    <3>2. i \in Phdrs
      BY <1>1, <3>1 DEF Phdrs
    <3>4. Loader' /\ Image' /\ Blocks' = Blocks
      BY <1>1, <1>6, <1>7, <3>1, <3>2 DEF Loading
    <3>5. Heap'
      BY <1>1, <1>2, <3>1, <3>4 DEF Heap, Before
    <3> QED
      BY <3>4, <3>5 DEF ElfInv
  <2> QED
    BY <2>1, <2>2
<1>13. CASE Elf!ReadInterp
  <2>1. CASE Elf!Fail({Elf!Interp, Elf!Table})
    BY <1>5, <1>13, <2>1 DEF Elf!ReadInterp, Elf!ReadInterpOrFree
  <2>2. CASE ~ Elf!Fail({Elf!Interp, Elf!Table})
    <3>1. /\ pc = "interp" /\ pc' \in {"load", "undefined"}
          /\ heap' = heap \ {Elf!Interp} /\ i' = i + 1
          /\ UNCHANGED <<file, exit, pos, segments>>
      BY <1>13, <2>2 DEF Elf!ReadInterp, Elf!ReadInterpOrFree, Elf!Goes
    <3>2. file.phdrs[i].type # "LOAD"
      BY <3>1 DEF ElfInv, Image
    <3>3. \A k \in Phdrs : k < i' /\ file.phdrs[k].type = "LOAD" => k < i
      BY <1>9, <3>1, <3>2 DEF Phdrs
    <3>4. Loader' /\ Image' /\ Blocks' = Blocks
      BY <1>1, <1>6, <1>7, <3>1, <3>3 DEF Loading
    <3>5. heap' = {Elf!Table} \cup Blocks
      BY <1>2, <1>3, <3>1, BlocksApart
    <3>6. Heap'
      BY <1>1, <3>1, <3>4, <3>5 DEF Heap, Before
    <3> QED
      BY <3>4, <3>6 DEF ElfInv
  <2> QED
    BY <2>1, <2>2
<1>14. CASE Elf!SkipPhdr
  <2>1. /\ pc = "load" /\ pc' = "load" /\ i' = i + 1 /\ file.phdrs[i].type # "LOAD"
        /\ UNCHANGED <<file, exit, heap, pos, segments>>
    BY <1>14 DEF Elf!SkipPhdr, Elf!Goes, Elf!phdr
  <2>2. \A k \in Phdrs : k < i' /\ file.phdrs[k].type = "LOAD" => k < i
    BY <1>9, <2>1 DEF Phdrs
  <2>3. Loader' /\ Image' /\ Blocks' = Blocks
    BY <1>1, <1>6, <1>7, <2>1, <2>2 DEF Loading
  <2>4. Heap'
    BY <1>1, <1>2, <2>1, <2>3 DEF Heap, Before
  <2> QED
    BY <2>3, <2>4 DEF ElfInv
<1>15. CASE Elf!Translate
  <2>1. /\ pc = "load" /\ pc' = "free" /\ i > Elf!phnum
        /\ UNCHANGED <<file, exit, heap, i, pos, segments>>
    BY <1>15 DEF Elf!Translate, Elf!Goes
  <2>2. Loader' /\ Image' /\ Blocks' = Blocks
    BY <1>1, <1>6, <1>7, <2>1 DEF Loading
  <2>3. Heap'
    BY <1>1, <1>2, <2>1, <2>2 DEF Heap, Before
  <2> QED
    BY <2>2, <2>3 DEF ElfInv
<1> QED
  BY <1>10, <1>11, <1>12, <1>13, <1>14, <1>15

(* A segment that is read holds the bytes of the file that the header puts *)
(* there, and zero where the file has nothing for it.                      *)
LEMMA SegmentStays == ASSUME ElfInv, Elf!ReadSegment PROVE ElfInv'
<1> DEFINE p == file.phdrs[i]
           got == Elf!Got(pos, p.filesz)
           new == [vaddr |-> p.vaddr, size |-> p.memsz, phdr |-> i,
                   memory |-> [o \in 0 .. p.memsz - 1 |->
                     CASE o < got -> pos + o
                       [] got <= o /\ o < p.filesz -> Elf!Junk
                       [] OTHER -> Elf!Zero]]
<1>1. /\ pc = "segment" /\ i \in Phdrs /\ i \in Nat \ {0} /\ exit = Elf!Running
      /\ p.type = "LOAD" /\ pos \in Nat
      /\ ~ Elf!Negative(p.offset) => pos = p.offset /\ file \in Files
      /\ heap = {Elf!Table, Elf!Segment(i)} \cup Blocks
  BY DEF Elf!ReadSegment, Elf!ReadSegmentThen, ElfInv, Loader, Image, Heap
<1>2. /\ p \in Phdr /\ file.length \in Nat /\ Elf!phnum \in Nat
  BY <1>1, PhdrTyped DEF ElfInv
<1>3. /\ \A m \in DOMAIN segments : Faithful(segments[m])
      /\ \A m, n \in DOMAIN segments : m < n => segments[m].phdr < segments[n].phdr
      /\ DOMAIN segments = 1 .. Len(segments) /\ Len(segments) \in Nat
      /\ \A k \in Phdrs : k < i /\ file.phdrs[k].type = "LOAD" =>
           \E m \in DOMAIN segments : segments[m].phdr = k
  BY <1>1 DEF ElfInv, Loader, Image, Loading
<1>4. \A m \in DOMAIN segments : segments[m].phdr \in Nat /\ segments[m].phdr < i
  BY <1>2, <1>3 DEF Faithful, Phdrs
<1>5. Elf!Table \notin Blocks /\ Elf!Segment(i) \notin Blocks
  BY <1>1, <1>4, BlocksApart DEF Blocks
<1>6. CASE Elf!Fail({Elf!Segment(i), Elf!Table})
  BY <1>1, <1>5, <1>6, FailReleases
<1>7. CASE ~ Elf!Fail({Elf!Segment(i), Elf!Table})
  <2>1. /\ pc' = (IF got > p.memsz THEN "undefined" ELSE "load")
        /\ segments' = Append(segments, new)
        /\ pos' = pos + got /\ i' = i + 1
        /\ UNCHANGED <<file, exit, heap>>
    BY <1>7 DEF Elf!ReadSegment, Elf!ReadSegmentThen, Elf!Goes, Elf!phdr
  <2>2. got \in Nat /\ got <= p.filesz
    BY <1>1, <1>2 DEF Elf!Got, Phdr
  <2>3. ~ Elf!Negative(p.offset) => \A o \in 0 .. p.memsz - 1 : new.memory[o] = ByteAt(p, o)
    <3>1. p.filesz \in Nat /\ p.offset \in Nat /\ p.memsz \in Nat
      BY <1>2 DEF Phdr
    <3> SUFFICES ASSUME ~ Elf!Negative(p.offset), NEW o \in 0 .. p.memsz - 1
                 PROVE  new.memory[o] = ByteAt(p, o)
      OBVIOUS
    <3>2. o \in Nat
      BY <3>1
    <3>3. o < got <=> o < p.filesz /\ p.offset + o < file.length
      BY <1>1, <1>2, <3>1, <3>2 DEF Elf!Got
    <3>4. new.memory[o] = CASE o < got -> pos + o
                            [] got <= o /\ o < p.filesz -> Elf!Junk
                            [] OTHER -> Elf!Zero
      OBVIOUS
    <3> HIDE DEF new
    <3> QED
      BY <1>1, <2>2, <3>1, <3>2, <3>3, <3>4 DEF ByteAt
  <2>4. new.vaddr = p.vaddr /\ new.size = p.memsz /\ new.phdr = i
    OBVIOUS
  <2> HIDE DEF new, got
  <2>5. PICK n \in Nat : n = Len(segments)
    BY <1>3
  <2>6. /\ DOMAIN segments' = 1 .. n + 1 /\ Len(segments') = n + 1
        /\ segments'[n + 1] = new
        /\ \A m \in 1 .. n : segments'[m] = segments[m]
    BY <1>3, <2>1, <2>5
  <2>7. Phdrs' = Phdrs /\ Elf!phnum' = Elf!phnum
    BY <2>1 DEF Phdrs, Elf!phnum
  <2>8. Loader'
    BY <1>1, <2>1, <2>2, <2>6 DEF ElfInv, Loader, Before, Loading, Elf!Running
  <2>9. \A m \in 1 .. n + 1 : m \in 1 .. n \/ m = n + 1
    OBVIOUS
  <2>10. \A s : s.phdr \in Nat /\ Faithful(s) => Faithful(s)'
    BY <1>1, <2>1, SameFaithful
  <2>11. PICK read : read = new
    OBVIOUS
  <2>12. Faithful(read)' \/ pc' = "undefined"
    <3>1. /\ read.phdr = i /\ read.vaddr = p.vaddr /\ read.size = p.memsz
          /\ ~ Elf!Negative(p.offset) =>
               \A o \in 0 .. p.memsz - 1 : read.memory[o] = ByteAt(p, o)
      BY <2>3, <2>4, <2>11
    <3>2. \A q, o : ByteAt(q, o)' = ByteAt(q, o)
      BY <2>1 DEF ByteAt
    <3>3. i' = i + 1 /\ i < i + 1 /\ file' = file
      BY <1>1, <2>1
    <3> HIDE DEF p
    <3>4. p = file.phdrs[i]
      BY DEF p
    <3> QED
      BY <1>1, <2>7, <3>1, <3>2, <3>3, <3>4 DEF Faithful
  <2>13. \A m \in 1 .. n + 1 : Faithful(segments[m])' \/ pc' = "undefined"
    <3> SUFFICES ASSUME NEW m \in 1 .. n + 1, pc' # "undefined"
                 PROVE  Faithful(segments[m])'
      OBVIOUS
    <3>1. PICK s : s = segments'[m]
      OBVIOUS
    <3>2. CASE m \in 1 .. n
      <4>1. s = segments[m]
        BY <2>6, <3>1, <3>2
      <4>2. Faithful(s) /\ s.phdr \in Nat
        BY <1>3, <1>4, <2>5, <3>2, <4>1
      <4>3. Faithful(s)'
        BY <2>10, <4>2
      <4> QED
        BY <3>1, <4>3 DEF Faithful, ByteAt
    <3>3. CASE m = n + 1
      <4>1. s = read
        BY <2>6, <2>11, <3>1, <3>3
      <4>2. Faithful(s)'
        BY <2>12, <4>1
      <4> QED
        BY <3>1, <4>2 DEF Faithful, ByteAt
    <3> QED
      BY <2>9, <3>2, <3>3
  <2>14. \A m \in 1 .. n + 1 : segments'[m].phdr = IF m = n + 1 THEN i ELSE segments[m].phdr
    BY <2>4, <2>6, <2>9
  <2>15. \A l, m \in 1 .. n + 1 : l < m => segments'[l].phdr < segments'[m].phdr
    <3> SUFFICES ASSUME NEW l \in 1 .. n + 1, NEW m \in 1 .. n + 1, l < m
                 PROVE  segments'[l].phdr < segments'[m].phdr
      OBVIOUS
    <3>1. l \in 1 .. n /\ segments'[l].phdr = segments[l].phdr
      BY <2>14
    <3>2. CASE m = n + 1
      BY <1>4, <2>5, <1>3, <2>14, <3>1, <3>2
    <3>3. CASE m \in 1 .. n
      BY <1>3, <2>5, <2>14, <3>1, <3>3
    <3> QED
      BY <2>9, <3>2, <3>3
  <2>16. \A k \in Phdrs : k < i + 1 /\ file.phdrs[k].type = "LOAD" =>
           \E m \in 1 .. n + 1 : segments'[m].phdr = k
    <3> SUFFICES ASSUME NEW k \in Phdrs, k < i + 1, file.phdrs[k].type = "LOAD"
                 PROVE  \E m \in 1 .. n + 1 : segments'[m].phdr = k
      OBVIOUS
    <3>1. CASE k = i
      BY <2>5, <2>14, <3>1
    <3>2. CASE k < i
      <4>1. PICK m \in 1 .. n : segments[m].phdr = k
        BY <1>3, <2>5, <3>2
      <4> QED
        BY <2>14, <4>1
    <3> QED
      BY <1>1, <1>2, <3>1, <3>2 DEF Phdrs
  <2>17. Image'
    BY <1>1, <2>1, <2>6, <2>7, <2>13, <2>15, <2>16, SMTT(30) DEF Image, Before, Loading, Elf!Running
  <2>18. Blocks' = Blocks \cup {Elf!Segment(i)}
    <3>1. Blocks' = {Elf!Segment(segments'[m].phdr) : m \in 1 .. n + 1}
      BY <2>6 DEF Blocks
    <3>2. Blocks = {Elf!Segment(segments[m].phdr) : m \in 1 .. n}
      BY <1>3, <2>5 DEF Blocks
    <3>3. n + 1 \in 1 .. n + 1 /\ \A m \in 1 .. n : m \in 1 .. n + 1 /\ m # n + 1
      OBVIOUS
    <3> QED
      BY <2>9, <2>14, <3>1, <3>2, <3>3
  <2>19. Heap'
    BY <1>1, <2>1, <2>18 DEF Heap, Before
  <2> QED
    BY <2>8, <2>17, <2>19 DEF ElfInv
<1> QED
  BY <1>6, <1>7

LEMMA ElfInvStays ==
  ASSUME ElfInv, Elf!Next \/ UNCHANGED elfVars
  PROVE  ElfInv'
<1>1. CASE UNCHANGED elfVars
  <2>1. UNCHANGED <<file, pc, exit, fd, pos, i, heap, segments>>
    BY <1>1 DEF elfVars
  <2>2. \A s : Faithful(s)' <=> Faithful(s)
    BY <2>1 DEF Faithful, ByteAt, Phdrs, Elf!phnum
  <2>3. Blocks' = Blocks /\ Phdrs' = Phdrs /\ Elf!phnum' = Elf!phnum
    BY <2>1 DEF Blocks, Phdrs, Elf!phnum
  <2>4. Loader'
    BY <2>1 DEF ElfInv, Loader
  <2>5. Image'
    BY <2>1, <2>2, <2>3 DEF ElfInv, Image
  <2>6. Heap'
    BY <2>1, <2>3 DEF ElfInv, Heap
  <2> QED
    BY <2>4, <2>5, <2>6 DEF ElfInv
<1>2. CASE Elf!FreeAll
  <2>1. /\ pc = "free" /\ pc' = "done" /\ exit' = 0 /\ fd' = "closed"
        /\ heap' = heap \ ({Elf!Table} \cup Blocks)
        /\ UNCHANGED <<file, pos, i, segments>>
    BY <1>2 DEF Elf!FreeAll, Blocks
  <2>2. \A s : Faithful(s)' <=> Faithful(s)
    BY <2>1 DEF Faithful, ByteAt, Phdrs, Elf!phnum
  <2>3. Phdrs' = Phdrs /\ Elf!phnum' = Elf!phnum
    BY <2>1 DEF Phdrs, Elf!phnum
  <2>4. heap' = {}
    BY <2>1 DEF ElfInv, Heap
  <2>5. Loader'
    BY <2>1 DEF ElfInv, Loader, Elf!Running
  <2>6. Image'
    BY <2>1, <2>2, <2>3 DEF ElfInv, Image, Before, Loading
  <2>7. Heap'
    BY <2>1, <2>4 DEF Heap, Before
  <2> QED
    BY <2>5, <2>6, <2>7 DEF ElfInv
<1> QED
  BY <1>1, <1>2, BeforeStays, LoopStays, SegmentStays DEF Elf!Next

LEMMA ElfInvariant == Spec => []ElfInv
<1>1. Init => ElfInv
  BY DEF Init, Elf!Init, ElfInv, Loader, Image, Heap, Before, Loading, Elf!Running, Blocks
<1>2. ElfInv /\ [Next]_vars => ElfInv'
  BY Alone, ElfInvStays
<1> QED
  BY <1>1, <1>2, PTL DEF Spec

(* Whichever way the loader returns, the descriptor is closed and of the   *)
(* blocks it allocated only the segments read before a failure stay.       *)
THEOREM AlwaysReleased == Spec => []Released
<1>1. ElfInv => Released
  BY DEF ElfInv, Loader, Heap, Released, Elf!Released, Blocks, Elf!Running
<1> QED
  BY <1>1, ElfInvariant, PTL

(* Looking an address up.                                                  *)
Hits(a) ==
  {m \in 1 .. Len(segments) :
     a >= segments[m].vaddr /\ a < (segments[m].vaddr + segments[m].size) % Words}

LEMMA LeastNumber ==
  ASSUME NEW T \in SUBSET Nat, T # {}
  PROVE  \E m \in T : \A l \in T : m <= l
<1> DEFINE R == {ss \in Nat \X Nat : ss[1] < ss[2]}
<1>1. IsWellFoundedOn(R, Nat)
  BY NatLessThanWellFounded DEF OpToRel
<1>2. \A l, m \in Nat : l < m => <<l, m>> \in R
  OBVIOUS
<1> HIDE DEF R
<1>3. PICK m \in T : \A l \in T : <<l, m>> \notin R
  BY <1>1, WFMin
<1>4. \A l \in T : ~ (l < m)
  BY <1>2, <1>3
<1> QED
  BY <1>4

LEMMA FirstHit ==
  ASSUME Loader, NEW a
  PROVE  /\ Hits(a) = {} => Elf!vaddr_to_host(a) = Elf!NoHost
         /\ \A m \in Hits(a) : (\A l \in Hits(a) : m <= l) =>
              Elf!vaddr_to_host(a) = <<m, a - segments[m].vaddr>>
<1> DEFINE first == Elf!Min(Hits(a))
<1>1. Elf!vaddr_to_host(a) =
        LET m == IF Hits(a) # {} THEN first ELSE 0
        IN  IF m = 0 THEN Elf!NoHost ELSE <<m, a - segments[m].vaddr>>
  BY DEF Elf!vaddr_to_host, Elf!SelectInSeq, Hits
<1>2. ASSUME NEW m \in Hits(a), \A l \in Hits(a) : m <= l PROVE first = m
  <2>1. first \in Hits(a) /\ \A l \in Hits(a) : first <= l
    BY <1>2 DEF Elf!Min
  <2>2. Hits(a) \in SUBSET Nat
    BY DEF Hits, Loader
  <2>3. m \in Nat /\ first \in Nat /\ m <= first /\ first <= m
    BY <1>2, <2>1, <2>2
  <2> HIDE DEF first
  <2> QED
    BY <2>3
<1>3. \A m \in Hits(a) : m # 0
  BY DEF Hits
<1> HIDE DEF first
<1> QED
  BY <1>1, <1>2, <1>3

(* The segments an address is looked up in are those of the headers that   *)
(* hold it; the end of a header wraps where the address space ends.        *)
LEMMA HitsHold ==
  ASSUME ElfInv, pc # "undefined", NEW a \in 0 .. Words - 1
  PROVE  /\ \A m \in Hits(a) : segments[m].phdr \in Phdrs /\ Elf!Holds(segments[m].phdr, a)
         /\ \A m \in DOMAIN segments :
              LET k == segments[m].phdr
              IN  Elf!Holds(k, a) /\ file.phdrs[k].vaddr + file.phdrs[k].memsz < Words => m \in Hits(a)
<1> SUFFICES ASSUME NEW m \in DOMAIN segments
             PROVE  LET k == segments[m].phdr
                        p == file.phdrs[k]
                    IN  /\ m \in Hits(a) => k \in Phdrs /\ Elf!Holds(k, a)
                        /\ Elf!Holds(k, a) /\ p.vaddr + p.memsz < Words => m \in Hits(a)
  BY DEF Hits, ElfInv, Loader
<1>1. PICK s : s = segments[m]
  OBVIOUS
<1>2. Faithful(s) /\ m \in 1 .. Len(segments)
  BY <1>1 DEF ElfInv, Image, Loader
<1>3. PICK p : p = file.phdrs[s.phdr]
  OBVIOUS
<1>4. /\ s.phdr \in Phdrs /\ p.type = "LOAD" /\ p \in Phdr
      /\ s.vaddr = p.vaddr /\ s.size = p.memsz
  BY <1>2, <1>3, PhdrTyped DEF Faithful, ElfInv
<1>5. /\ p.vaddr \in Nat /\ p.memsz \in Nat /\ a \in Nat /\ Words \in Nat \ {0}
  BY <1>4, ElfAssumption DEF Phdr
<1>6. PICK sum \in Nat : sum = p.vaddr + p.memsz
  BY <1>5
<1>7. sum % Words <= sum /\ (sum < Words => sum % Words = sum) /\ sum % Words \in Nat
  BY <1>5
<1>8. m \in Hits(a) <=> p.vaddr <= a /\ a < sum % Words
  BY <1>1, <1>2, <1>4, <1>5, <1>6 DEF Hits
<1>9. Elf!Holds(s.phdr, a) <=> p.vaddr <= a /\ a < sum
  BY <1>3, <1>4, <1>6 DEF Elf!Holds
<1> QED
  BY <1>1, <1>3, <1>4, <1>5, <1>6, <1>7, <1>8, <1>9

(* However many headers there are and whatever they ask for: once they are *)
(* loaded, an address translates to the first segment it belongs to, and   *)
(* the byte found there is the one the file prescribes.                    *)
THEOREM ImageAlwaysLoaded == Spec => []ImageLoaded
<1>1. ASSUME ElfInv PROVE ImageLoaded
  <2> SUFFICES ASSUME pc = "free" \/ exit = 0, NEW a \in 0 .. Words - 1
               PROVE  LET host == Elf!vaddr_to_host(a)
                          ks == {k \in 1 .. Elf!phnum : Elf!Holds(k, a)}
                      IN  IF ks = {} THEN host = Elf!NoHost
                          ELSE LET k == CHOOSE k \in ks : \A l \in ks : k <= l
                                   p == file.phdrs[k]
                                   o == a - p.vaddr
                               IN  p.vaddr + p.memsz < Words =>
                                     /\ host # Elf!NoHost
                                     /\ segments[host[1]].phdr = k /\ host[2] = o
                                     /\ ~ Elf!Negative(p.offset) =>
                                          segments[host[1]].memory[o] = ByteAt(p, o)
    BY DEF ImageLoaded, Elf!ImageLoaded, ByteAt
  <2> DEFINE host == Elf!vaddr_to_host(a)
             ks == {k \in 1 .. Elf!phnum : Elf!Holds(k, a)}
             k == CHOOSE k \in ks : \A l \in ks : k <= l
             p == file.phdrs[k]
  <2>1. pc # "undefined" /\ i > Elf!phnum /\ Elf!phnum \in Nat /\ i \in Nat
    BY <1>1, ElfAssumption DEF ElfInv, Image, Loader, Elf!Running, Elf!phnum
  <2>2. \A m \in Hits(a) : segments[m].phdr \in ks
    BY <1>1, <2>1, HitsHold DEF Phdrs
  <2>3. CASE ks = {}
    BY <1>1, <2>2, <2>3, FirstHit DEF ElfInv
  <2>4. CASE ks # {} /\ p.vaddr + p.memsz < Words
    <3>1. k \in ks /\ \A l \in ks : k <= l
      <4>1. \E m \in ks : \A l \in ks : m <= l
        <5>1. ks \in SUBSET Nat
          BY <2>1
        <5> HIDE DEF ks
        <5> QED
          BY <2>4, <5>1, LeastNumber
      <4> QED
        BY <4>1
    <3> HIDE DEF k
    <3>2. k \in Phdrs /\ k \in Nat /\ k < i /\ Elf!Holds(k, a) /\ p.type = "LOAD"
      BY <2>1, <3>1 DEF Phdrs, Elf!Holds
    <3>3. PICK m \in DOMAIN segments : segments[m].phdr = k
      BY <1>1, <2>1, <3>2 DEF ElfInv, Image
    <3>4. m \in Hits(a)
      BY <1>1, <2>1, <2>4, <3>2, <3>3, HitsHold
    <3>5. \A l \in Hits(a) : m <= l
      <4> SUFFICES ASSUME NEW l \in Hits(a), l < m PROVE FALSE
        BY <3>4 DEF Hits
      <4>1. segments[l].phdr < segments[m].phdr
        BY <1>1 DEF ElfInv, Image, Loader, Hits
      <4>2. k <= segments[l].phdr /\ segments[l].phdr \in Nat
        BY <2>1, <2>2, <3>1
      <4> QED
        BY <3>2, <3>3, <4>1, <4>2
    <3>6. host = <<m, a - segments[m].vaddr>>
      BY <1>1, <3>4, <3>5, FirstHit DEF ElfInv
    <3>7. Faithful(segments[m])
      BY <1>1, <2>1 DEF ElfInv, Image
    <3>8. segments[m].vaddr = p.vaddr /\ segments[m].size = p.memsz
      BY <3>3, <3>7 DEF Faithful
    <3>9. p \in Phdr
      BY <1>1, <3>2, PhdrTyped DEF ElfInv
    <3>10. a - p.vaddr \in 0 .. p.memsz - 1
      BY <3>2, <3>9, ElfAssumption DEF Elf!Holds, Phdr
    <3>11. ~ Elf!Negative(p.offset) =>
             segments[m].memory[a - p.vaddr] = ByteAt(p, a - p.vaddr)
      BY <3>3, <3>7, <3>8, <3>10 DEF Faithful
    <3>12. host # Elf!NoHost /\ host[1] = m /\ host[2] = a - p.vaddr
      BY <3>6, <3>8 DEF Elf!NoHost
    <3> HIDE DEF host, p
    <3> QED
      BY <2>4, <3>3, <3>11, <3>12 DEF k, host, p
  <2> QED
    BY <2>3, <2>4
<1> QED
  BY <1>1, ElfInvariant, PTL

-----------------------------------------------------------------------------
(* sysout.  An int has at most ten digits, so that facts about powers of   *)
(* ten are facts about ten numbers.                                        *)

Ints == Printf!MinInt .. MaxInt

Shown(m, k) == [j \in 1 .. k |-> 48 + ((m \div 10^(k - j)) % 10)]

(* m has k digits.                                                         *)
HasPlaces(m, k) == m < 10^k /\ (k = 1 \/ m >= 10^(k - 1))

LEMMA IntsSmall == MaxInt \in Nat /\ MaxInt < 10^10
BY IntAssumption, SMTT(60)

LEMMA IntsAre ==
  /\ Ints \subseteq Int /\ 0 \in Ints
  /\ \A n \in Ints : n <= MaxInt /\ -n <= MaxInt + 1
  /\ \A n \in Int : n <= MaxInt /\ -n <= MaxInt + 1 => n \in Ints
BY IntsSmall DEF Ints, Printf!MinInt

LEMMA QuotientNearer ==
  ASSUME NEW n \in Ints
  PROVE  /\ Printf!Quotient(n) \in Ints
         /\ \A m \in Nat : n # 0 /\ -m <= n /\ n <= m =>
              -(m - 1) <= Printf!Quotient(n) /\ Printf!Quotient(n) <= m - 1
<1>1. n \in Int /\ MaxInt \in Nat /\ n <= MaxInt /\ -n <= MaxInt + 1
  BY IntsAre, IntsSmall
<1>2. \A l \in Nat : l \div 10 \in Nat /\ l \div 10 <= l /\ (l # 0 => l \div 10 < l)
  BY Z3
<1>3. CASE n < 0
  <2>1. PICK l \in Nat : l = -n /\ l # 0
    BY <1>1, <1>3
  <2>2. PICK q \in Nat : q = l \div 10 /\ q < l
    BY <1>2, <2>1
  <2>3. Printf!Quotient(n) = -q
    BY <1>3, <2>1, <2>2 DEF Printf!Quotient
  <2>4. -q \in Ints
    BY <1>1, <2>1, <2>2, IntsAre
  <2> QED
    BY <1>1, <2>1, <2>2, <2>3, <2>4
<1>4. CASE n >= 0
  <2>1. PICK q \in Nat : q = n \div 10 /\ q <= n /\ (n # 0 => q < n)
    BY <1>1, <1>2, <1>4
  <2>2. Printf!Quotient(n) = q
    BY <1>1, <1>4, <2>1 DEF Printf!Quotient
  <2>3. q \in Ints
    BY <1>1, <2>1, IntsAre
  <2> QED
    BY <1>1, <1>4, <2>1, <2>2, <2>3
<1> QED
  BY <1>1, <1>3, <1>4

(* What the definition of Digits says of n, given those of the quotient.   *)
DigitsOf(g, n) ==
  IF n = 0 THEN <<>>
  ELSE Append(g[Printf!Quotient(n)], Printf!Zero + Printf!Remainder(n))

(* The recursion of Digits ends, for a quotient is nearer to 0.            *)
LEMMA DigitsUpTo ==
  \A m \in Nat : \E g : \A n \in Ints : -m <= n /\ n <= m => g[n] = DigitsOf(g, n)
<1> DEFINE Good(g, m) == \A n \in Ints : -m <= n /\ n <= m => g[n] = DigitsOf(g, n)
           bad == {m \in Nat : ~ \E g : Good(g, m)}
<1> SUFFICES ASSUME bad # {} PROVE FALSE
  OBVIOUS
<1>1. bad \in SUBSET Nat
  OBVIOUS
<1>2. PICK m \in bad : \A l \in bad : m <= l
  <2> HIDE DEF bad
  <2> QED
    BY <1>1, LeastNumber
<1>3. m \in Nat /\ ~ \E g : Good(g, m)
  OBVIOUS
<1>4. m # 0
  <2>1. Good([n \in Ints |-> <<>>], 0)
    <3> SUFFICES ASSUME NEW n \in Ints, -0 <= n, n <= 0
                 PROVE  [l \in Ints |-> <<>>][n] = DigitsOf([l \in Ints |-> <<>>], n)
      OBVIOUS
    <3>1. n = 0
      BY IntsAre
    <3> QED
      BY <3>1 DEF DigitsOf
  <2> HIDE DEF Good
  <2> QED
    BY <1>3, <2>1
<1>5. m - 1 \in Nat /\ m - 1 \notin bad
  <2> HIDE DEF bad
  <2> QED
    BY <1>2, <1>3, <1>4
<1>6. PICK g : Good(g, m - 1)
  BY <1>5
<1> DEFINE h == [n \in Ints |-> IF -(m - 1) <= n /\ n <= m - 1 THEN g[n] ELSE DigitsOf(g, n)]
<1>7. Good(h, m)
  <2> SUFFICES ASSUME NEW n \in Ints, -m <= n, n <= m
               PROVE  h[n] = DigitsOf(h, n)
    OBVIOUS
  <2>1. h[n] = DigitsOf(g, n)
    <3>1. -(m - 1) <= n /\ n <= m - 1 => g[n] = DigitsOf(g, n)
      BY <1>6
    <3> HIDE DEF Good, bad
    <3> QED
      BY <3>1
  <2>2. n # 0 => h[Printf!Quotient(n)] = g[Printf!Quotient(n)]
    <3> HIDE DEF Good, bad
    <3> QED
      BY <1>3, QuotientNearer
  <2> HIDE DEF h, Good, bad
  <2> QED
    BY <2>1, <2>2 DEF DigitsOf
<1> HIDE DEF Good, h
<1> QED
  BY <1>3, <1>7

LEMMA DigitsAre == \A n \in Ints : Printf!Digits[n] = DigitsOf(Printf!Digits, n)
<1> DEFINE Body(g) == [n \in Ints |-> DigitsOf(g, n)]
<1>1. \E g : g = Body(g)
  <2>1. PICK g : \A n \in Ints : -(MaxInt + 1) <= n /\ n <= MaxInt + 1 => g[n] = DigitsOf(g, n)
    <3>1. MaxInt + 1 \in Nat
      BY IntsSmall
    <3> QED
      BY <3>1, DigitsUpTo
  <2>2. \A n \in Ints : g[n] = DigitsOf(g, n)
    BY <2>1, IntsAre, IntsSmall
  <2> DEFINE h == [n \in Ints |-> g[n]]
  <2>3. \A n \in Ints : DigitsOf(h, n) = DigitsOf(g, n)
    BY QuotientNearer DEF DigitsOf
  <2>4. h = Body(h)
    BY <2>2, <2>3
  <2> QED
    BY <2>4
<1>2. Printf!Digits = CHOOSE g : g = Body(g)
  BY DEF Printf!Digits, DigitsOf, Ints
<1>3. Printf!Digits = Body(Printf!Digits)
  BY <1>1, <1>2
<1> QED
  BY <1>3

LEMMA ShiftDown ==
  \A m \in Nat, d \in 1 .. 9 : (m \div 10) \div 10^(d - 1) = m \div 10^d
<1> SUFFICES ASSUME NEW m \in Nat, NEW d \in 1 .. 9
             PROVE  (m \div 10) \div 10^(d - 1) = m \div 10^d
  OBVIOUS
<1>1. d = 1 => (m \div 10) \div 10^(d - 1) = m \div 10^d
  OBVIOUS
<1>2. d = 2 => (m \div 10) \div 10^(d - 1) = m \div 10^d
  OBVIOUS
<1>3. d = 3 => (m \div 10) \div 10^(d - 1) = m \div 10^d
  OBVIOUS
<1>4. d = 4 => (m \div 10) \div 10^(d - 1) = m \div 10^d
  OBVIOUS
<1>5. d = 5 => (m \div 10) \div 10^(d - 1) = m \div 10^d
  OBVIOUS
<1>6. d = 6 => (m \div 10) \div 10^(d - 1) = m \div 10^d
  OBVIOUS
<1>7. d = 7 => (m \div 10) \div 10^(d - 1) = m \div 10^d
  OBVIOUS
<1>8. d = 8 => (m \div 10) \div 10^(d - 1) = m \div 10^d
  OBVIOUS
<1>9. d = 9 => (m \div 10) \div 10^(d - 1) = m \div 10^d
  OBVIOUS
<1>10. \/ d = 1 \/ d = 2 \/ d = 3 \/ d = 4 \/ d = 5
       \/ d = 6 \/ d = 7 \/ d = 8 \/ d = 9
  OBVIOUS
<1> QED
  BY <1>1, <1>2, <1>3, <1>4, <1>5, <1>6, <1>7, <1>8, <1>9, <1>10

(* Ten are enough for an int, and the quotient has one place less.         *)
LEMMA PlacesOf ==
  ASSUME NEW m \in Nat, m < 10^10
  PROVE  /\ \E k \in 1 .. 10 : HasPlaces(m, k)
         /\ \A k \in 1 .. 10 : HasPlaces(m, k) /\ m < 10 => k = 1
         /\ \A k \in 1 .. 10 : HasPlaces(m, k) /\ m >= 10 =>
              k - 1 \in 1 .. 10 /\ HasPlaces(m \div 10, k - 1)
<1>1. \E k \in 1 .. 10 : HasPlaces(m, k)
  <2>1. HasPlaces(m, 1) \/ m >= 10^1
    BY SMT DEF HasPlaces
  <2>2. m >= 10^1 => HasPlaces(m, 2) \/ m >= 10^2
    BY SMT DEF HasPlaces
  <2>3. m >= 10^2 => HasPlaces(m, 3) \/ m >= 10^3
    BY SMT DEF HasPlaces
  <2>4. m >= 10^3 => HasPlaces(m, 4) \/ m >= 10^4
    BY SMT DEF HasPlaces
  <2>5. m >= 10^4 => HasPlaces(m, 5) \/ m >= 10^5
    BY SMT DEF HasPlaces
  <2>6. m >= 10^5 => HasPlaces(m, 6) \/ m >= 10^6
    BY SMT DEF HasPlaces
  <2>7. m >= 10^6 => HasPlaces(m, 7) \/ m >= 10^7
    BY SMT DEF HasPlaces
  <2>8. m >= 10^7 => HasPlaces(m, 8) \/ m >= 10^8
    BY SMT DEF HasPlaces
  <2>9. m >= 10^8 => HasPlaces(m, 9) \/ m >= 10^9
    BY SMT DEF HasPlaces
  <2>10. m >= 10^9 => HasPlaces(m, 10)
    BY SMT DEF HasPlaces
  <2> QED
    BY <2>1, <2>2, <2>3, <2>4, <2>5, <2>6, <2>7, <2>8, <2>9, <2>10
<1>2. ASSUME NEW k \in 1 .. 10, HasPlaces(m, k), m < 10 PROVE k = 1
  <2>2. k = 2 => 10^(k - 1) >= 10
    BY SMT
  <2>3. k = 3 => 10^(k - 1) >= 10
    BY SMT
  <2>4. k = 4 => 10^(k - 1) >= 10
    BY SMT
  <2>5. k = 5 => 10^(k - 1) >= 10
    BY SMT
  <2>6. k = 6 => 10^(k - 1) >= 10
    BY SMT
  <2>7. k = 7 => 10^(k - 1) >= 10
    BY SMT
  <2>8. k = 8 => 10^(k - 1) >= 10
    BY SMT
  <2>9. k = 9 => 10^(k - 1) >= 10
    BY SMT
  <2>10. k = 10 => 10^(k - 1) >= 10
    BY SMT
  <2> QED
    BY <1>2, <2>2, <2>3, <2>4, <2>5, <2>6, <2>7, <2>8, <2>9, <2>10 DEF HasPlaces
<1>3. ASSUME NEW k \in 1 .. 10, HasPlaces(m, k), m >= 10
      PROVE  k - 1 \in 1 .. 10 /\ HasPlaces(m \div 10, k - 1)
  <2>1. k # 1
    <3>1. k = 1 => 10^k = 10
      BY SMT
    <3> QED
      BY <1>3, <3>1 DEF HasPlaces
  <2>2. CASE k = 2
    BY <1>3, <2>2, SMT DEF HasPlaces
  <2>3. CASE k = 3
    BY <1>3, <2>3, SMT DEF HasPlaces
  <2>4. CASE k = 4
    BY <1>3, <2>4, SMT DEF HasPlaces
  <2>5. CASE k = 5
    BY <1>3, <2>5, SMT DEF HasPlaces
  <2>6. CASE k = 6
    BY <1>3, <2>6, SMT DEF HasPlaces
  <2>7. CASE k = 7
    BY <1>3, <2>7, SMT DEF HasPlaces
  <2>8. CASE k = 8
    BY <1>3, <2>8, SMT DEF HasPlaces
  <2>9. CASE k = 9
    BY <1>3, <2>9, SMT DEF HasPlaces
  <2>10. CASE k = 10
    BY <1>3, <2>10, SMT DEF HasPlaces
  <2> QED
    BY <2>1, <2>2, <2>3, <2>4, <2>5, <2>6, <2>7, <2>8, <2>9, <2>10
<1> QED
  BY <1>1, <1>2, <1>3

LEMMA AppendIs ==
  ASSUME NEW S, NEW s \in Seq(S), NEW c, NEW t,
         t = [j \in 1 .. Len(s) + 1 |-> IF j <= Len(s) THEN s[j] ELSE c]
  PROVE  t = Append(s, c)
<1> DEFINE T == S \cup {c}
<1>1. s \in Seq(T) /\ c \in T /\ Len(s) \in Nat
  OBVIOUS
<1>2. t \in [1 .. Len(s) + 1 -> T] /\ Len(s) + 1 \in Nat
  OBVIOUS
<1>3. t \in Seq(T) /\ Len(t) = Len(s) + 1
  <2> HIDE DEF T
  <2> QED
    BY <1>2, FunctionIsSeq
<1>4. Append(s, c) \in Seq(T) /\ Len(Append(s, c)) = Len(s) + 1
  <2> HIDE DEF T
  <2> QED
    BY <1>1, AppendProperties
<1>5. \A j \in 1 .. Len(t) : t[j] = Append(s, c)[j]
  BY <1>3
<1> HIDE DEF T
<1> QED
  BY <1>3, <1>4, <1>5, SeqEqual

(* Taking the lowest digit off, and the higher ones before it, is reading  *)
(* the digits from the highest place on.                                   *)
LEMMA DigitsShown ==
  \A n \in Nat : \A k \in 1 .. 10 :
    n # 0 /\ n <= MaxInt /\ HasPlaces(n, k) => Printf!Digits[n] = Shown(n, k)
<1> DEFINE Good(n) == \A k \in 1 .. 10 : n # 0 /\ n <= MaxInt /\ HasPlaces(n, k) => Printf!Digits[n] = Shown(n, k)
           bad == {n \in Nat : ~ Good(n)}
<1> SUFFICES ASSUME bad # {} PROVE FALSE
  OBVIOUS
<1>1. bad \in SUBSET Nat
  OBVIOUS
<1>2. PICK n \in bad : \A l \in bad : n <= l
  <2> HIDE DEF bad
  <2> QED
    BY <1>1, LeastNumber
<1>3. PICK k \in 1 .. 10 : n # 0 /\ n <= MaxInt /\ HasPlaces(n, k) /\ Printf!Digits[n] # Shown(n, k)
  OBVIOUS
<1>4. n \in Nat /\ n < 10^10 /\ n \in Ints
  <2>1. n \in Nat
    OBVIOUS
  <2> HIDE DEF bad
  <2> QED
    BY <1>3, <2>1, IntsSmall, IntsAre
<1>5. PICK q \in Nat : q = n \div 10 /\ q < n
  BY <1>3, <1>4, Z3
<1>6. Good(q)
  BY <1>2, <1>5
<1> HIDE DEF bad
<1>7. n \div 10^0 = n /\ n - 10 * q = n % 10
  BY <1>4, <1>5
<1>8. Printf!Digits[n] = Append(Printf!Digits[q], 48 + (n % 10))
  <2>1. Printf!Quotient(n) = q
    BY <1>4, <1>5 DEF Printf!Quotient
  <2>2. Printf!Remainder(n) = n % 10
    BY <1>7, <2>1 DEF Printf!Remainder
  <2> QED
    BY <1>3, <1>4, <2>1, <2>2, DigitsAre DEF DigitsOf, Printf!Zero
<1>9. CASE n < 10
  <2>1. k = 1 /\ q = 0
    BY <1>3, <1>4, <1>5, <1>9, PlacesOf
  <2>2. Printf!Digits[q] = <<>>
    BY <2>1, DigitsAre, IntsAre DEF DigitsOf
  <2>3. Shown(n, k) = <<48 + (n % 10)>>
    BY <1>7, <2>1 DEF Shown
  <2> QED
    BY <1>3, <1>8, <2>2, <2>3
<1>10. CASE n >= 10
  <2>1. k - 1 \in 1 .. 10 /\ HasPlaces(q, k - 1)
    BY <1>3, <1>4, <1>5, <1>10, PlacesOf
  <2>2. q # 0 /\ q <= MaxInt
    BY <1>3, <1>4, <1>5, <1>10, IntsSmall
  <2>3. Printf!Digits[q] = Shown(q, k - 1)
    BY <1>6, <2>1, <2>2
  <2>4. \A j \in 1 .. k - 1 : q \div 10^(k - 1 - j) = n \div 10^(k - j)
    <3> SUFFICES ASSUME NEW j \in 1 .. k - 1
                 PROVE  q \div 10^(k - 1 - j) = n \div 10^(k - j)
      OBVIOUS
    <3>1. k - j \in 1 .. 9 /\ (k - j) - 1 = k - 1 - j
      OBVIOUS
    <3> QED
      BY <1>4, <1>5, <3>1, ShiftDown
  <2>5. Shown(n, k) = Append(Shown(q, k - 1), 48 + (n % 10))
    <3> DEFINE s == Shown(q, k - 1)
               d == 48 + (n % 10)
    <3>1. s \in Seq(Int) /\ Len(s) = k - 1
      <4>1. \A j \in 1 .. k - 1 : 48 + ((q \div 10^(k - 1 - j)) % 10) \in Int
        BY <1>4, <2>4
      <4> QED
        BY <2>1, <4>1 DEF Shown
    <3>2. ASSUME NEW j \in 1 .. k
          PROVE  48 + ((n \div 10^(k - j)) % 10) = IF j <= Len(s) THEN s[j] ELSE d
      <4>1. CASE j = k
        <5>1. 10^(k - j) = 10^0 /\ ~ (j <= Len(s))
          BY <3>1, <4>1
        <5> HIDE DEF s
        <5> QED
          BY <1>7, <5>1
      <4>2. CASE j # k
        <5>1. j \in 1 .. k - 1 /\ j <= Len(s)
          BY <3>1, <4>2
        <5>2. s[j] = 48 + ((q \div 10^(k - 1 - j)) % 10)
          BY <5>1 DEF Shown
        <5> HIDE DEF s
        <5> QED
          BY <2>4, <5>1, <5>2
      <4> QED
        BY <4>1, <4>2
    <3>3. Shown(n, k) = [j \in 1 .. Len(s) + 1 |-> IF j <= Len(s) THEN s[j] ELSE d]
      <4>1. Len(s) + 1 = k
        BY <3>1
      <4> HIDE DEF s, d
      <4> QED
        BY <3>2, <4>1 DEF Shown
    <3> HIDE DEF s, d
    <3>4. Shown(n, k) = Append(s, d)
      BY <3>1, <3>3, AppendIs
    <3> QED
      BY <3>4 DEF s, d
  <2> QED
    BY <1>3, <1>8, <2>3, <2>5
<1> QED
  BY <1>4, <1>9, <1>10

LEMMA DecimalPrinted ==
  \A n \in Ints : n # Printf!MinInt => Printf!print_int(n) = Printf!Decimal(n)
<1> SUFFICES ASSUME NEW n \in Ints, n # Printf!MinInt
             PROVE  Printf!print_int(n) = Printf!Decimal(n)
  OBVIOUS
<1> DEFINE m == IF n < 0 THEN -n ELSE n
           places == CHOOSE k \in 1 .. 10 : HasPlaces(m, k)
<1>1. n \in Int /\ m \in Nat /\ m <= MaxInt /\ m < 10^10
  BY IntsAre, IntsSmall DEF Printf!MinInt
<1>2. places \in 1 .. 10 /\ HasPlaces(m, places)
  <2> HIDE DEF m
  <2> QED
    BY <1>1, PlacesOf
<1>3. Printf!Decimal(n) = IF n < 0 THEN <<45>> \o Shown(m, places) ELSE Shown(m, places)
  BY DEF Printf!Decimal, HasPlaces, Shown, Printf!Minus, Printf!Zero
<1> HIDE DEF places
<1>4. CASE n = 0
  <2>1. places = 1
    BY <1>1, <1>2, <1>4, PlacesOf
  <2>2. Shown(0, 1) = <<48>>
    BY DEF Shown
  <2> QED
    BY <1>3, <1>4, <2>1, <2>2 DEF Printf!print_int, Printf!Zero
<1>5. CASE n > 0
  <2>1. Printf!Digits[n] = Shown(n, places)
    BY <1>1, <1>2, <1>5, DigitsShown
  <2> QED
    BY <1>1, <1>3, <1>5, <2>1 DEF Printf!print_int
<1>6. CASE n < 0
  <2>1. Printf!Digits[-n] = Shown(-n, places)
    BY <1>1, <1>2, <1>6, DigitsShown
  <2> QED
    BY <1>1, <1>3, <1>6, <2>1 DEF Printf!print_int, Printf!Negated, Printf!Minus
<1> QED
  BY <1>1, <1>4, <1>5, <1>6

(* For any format and any int but the least, of up to 32 bits: what sysout *)
(* writes is the format with its arguments put in.                         *)
THEOREM SysoutAlwaysPrints == Spec => []SysoutPrints
<1> DEFINE Inv == SysoutPrints /\ out_status \in {"running", "undefined"}
<1>1. Init => Inv
  BY DEF Init, Printf!Init, SysoutPrints, Printf!SysoutPrints
<1>2. Inv /\ [Next]_vars => Inv'
  <2> SUFFICES ASSUME Inv, Printf!Next \/ UNCHANGED outVars PROVE Inv'
    BY Alone
  <2> USE DEF SysoutPrints, Printf!SysoutPrints
  <2>1. CASE Printf!Plain \/ Printf!ConvertC \/ Printf!ConvertS \/ Printf!ConvertOther
    BY <2>1 DEF Printf!Plain, Printf!ConvertC, Printf!ConvertS, Printf!ConvertOther, Printf!Writes
  <2>2. CASE Printf!ConvertD
    <3>1. PICK n \in Ints :
            Printf!Writes(2, Printf!print_int(n), Printf!Decimal(n),
                          IF n = Printf!MinInt THEN "undefined" ELSE "running")
      BY <2>2 DEF Printf!ConvertD, Ints
    <3>2. n # Printf!MinInt => Printf!print_int(n) = Printf!Decimal(n)
      BY DecimalPrinted
    <3> QED
      BY <3>1, <3>2 DEF Printf!Writes
  <2>3. CASE Printf!PercentAtEnd
    BY <2>3 DEF Printf!PercentAtEnd, Printf!Writes
  <2>4. CASE UNCHANGED outVars
    BY <2>4 DEF outVars
  <2> QED
    BY <2>1, <2>2, <2>3, <2>4 DEF Printf!Next
<1> QED
  BY <1>1, <1>2, PTL DEF Spec
=============================================================================

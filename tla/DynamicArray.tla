---------------------------- MODULE DynamicArray ----------------------------
(***************************************************************************)
(* dynamic-array/vector.c: an IntegerVector and a caller that makes any    *)
(* sequence of calls, after the first initialize_vector.                   *)
(***************************************************************************)
EXTENDS Integers, Sequences

CONSTANTS
  Vals,         (* what is pushed                                          *)
  MaxPushes     (* bound: pushes between two initializations               *)

VARIABLES
  vec,          (* [data, size]; the capacity is the length of data        *)
  pushed,       (* history: what was pushed since initialize_vector        *)
  vec_status    (* "none" before the first call, then "ok"; "exited";      *)
                (* "undefined" when a value went outside the block         *)

vecVars == <<vec, pushed, vec_status>>

Unset == 0      (* what malloc and realloc leave in a block                *)

Init ==
  /\ vec = [data |-> <<>>, size |-> 0]
  /\ pushed = <<>>
  /\ vec_status = "none"

capacity == Len(vec.data)

OutOfMemory == vec_status' = "exited" /\ UNCHANGED <<vec, pushed>>

initialize_vector ==
  /\ vec_status \in {"none", "ok"}
  /\ \/ /\ vec' = [data |-> [k \in 1 .. 4 |-> Unset], size |-> 0]
        /\ pushed' = <<>>
        /\ vec_status' = "ok"
     \/ OutOfMemory

Stored(data, val) ==
  /\ vec' = [data |-> [data EXCEPT ![vec.size + 1] = val], size |-> vec.size + 1]
  /\ pushed' = Append(pushed, val)
  /\ vec_status' = IF vec.size + 1 \in DOMAIN data THEN "ok" ELSE "undefined"

Doubled == [k \in 1 .. 2 * capacity |-> IF k <= capacity THEN vec.data[k] ELSE Unset]

(* Faulty variant: the block grows one push too late.                      *)
push_back_late(val) ==
  /\ vec_status = "ok" /\ Len(pushed) < MaxPushes
  /\ IF vec.size > capacity THEN Stored(Doubled, val) \/ OutOfMemory
     ELSE Stored(vec.data, val)
push_back(val) ==
  /\ vec_status = "ok" /\ Len(pushed) < MaxPushes
  /\ IF vec.size >= capacity THEN Stored(Doubled, val) \/ OutOfMemory
     ELSE Stored(vec.data, val)

delete_vector ==
  /\ vec_status = "ok"
  /\ vec' = [data |-> <<>>, size |-> 0]
  /\ pushed' = <<>>
  /\ UNCHANGED vec_status

Next ==
  \/ initialize_vector \/ delete_vector
  \/ \E val \in Vals : push_back(val)

-----------------------------------------------------------------------------
(* The vector holds what was pushed, in order and through every growth,    *)
(* and stays inside its block.  The one call that does not is the first    *)
(* push after delete_vector: twice a capacity of 0 is no room.             *)
VectorHolds ==
  /\ vec_status = "ok" => SubSeq(vec.data, 1, vec.size) = pushed
  /\ vec_status = "undefined" => capacity = 0 /\ Len(pushed) = 1
=============================================================================

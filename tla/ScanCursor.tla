---------------------------- MODULE ScanCursor ----------------------------
(***************************************************************************)
(* What the liquidation scan's persisted cursor promises: a round robin    *)
(* over the pools, each walked in storage-key order.  The cursor is empty  *)
(* until the first run saves one; afterwards it only moves to a later key  *)
(* of the same pool, or to the start (key 0) of the next pool, the last    *)
(* pool wrapping to the first.  It never goes back over keys already       *)
(* walked.                                                                 *)
(***************************************************************************)
EXTENDS Naturals, Sequences

CONSTANTS
  NumPools,  \* pools, indexed 1..NumPools
  NumKeys    \* storage-key positions, 1..NumKeys; 0 is the start of a pool

VARIABLE cursor

Positions == (1..NumPools) \X (0..NumKeys)

Init == cursor = <<>>

(* The first saved cursor: wherever the first run, from a random pool,     *)
(* stopped.                                                                *)
FirstSave ==
  /\ cursor = <<>>
  /\ cursor' \in Positions

(* A run stopped on its budget: a later key of the same pool.              *)
Advance ==
  /\ cursor # <<>>
  /\ \E k \in (cursor[2] + 1)..NumKeys : cursor' = <<cursor[1], k>>

(* A run reached the end of its pool: the next pool, from its start.       *)
NextPool ==
  /\ cursor # <<>>
  /\ cursor' = <<IF cursor[1] < NumPools THEN cursor[1] + 1 ELSE 1, 0>>

Next == FirstSave \/ Advance \/ NextPool

Spec == Init /\ [][Next]_cursor

=============================================================================

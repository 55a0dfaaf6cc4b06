------------------------- MODULE LiquidationWorker -------------------------
(***************************************************************************)
(* The asset pool's offchain worker (asset_pool/src/lib.rs,                *)
(* _offchain_worker): after every block a worker takes the offchain        *)
(* StorageLock, reads the persistent cursor OFFCHAIN_WORKER_DATA (a pool   *)
(* index and the storage key to resume after), walks at most               *)
(* max_iterations LoanInfos entries of that pool, and saves where to go    *)
(* on: the same pool after the last key seen, or the next pool from its    *)
(* start.  The liquidation call inside the loop is commented out, so the   *)
(* cursor and the lock are the whole of its effect.                        *)
(*                                                                         *)
(* A worker reads the chain state of its block: the keys it walks are a    *)
(* snapshot.  LoanInfos keys appear and disappear as update_deposit /      *)
(* update_debit create and remove loans (AssetPool), here an environment   *)
(* step.  Storage keys are ordered by KeyOrder; a key is its position in   *)
(* it, and position 0 is "no key" (None).                                  *)
(***************************************************************************)
EXTENDS Naturals, Sequences, FiniteSets

CONSTANTS
  Workers,        \* offchain worker runs that may overlap (model values)
  AssetPoolIds,   \* T::AssetPoolIds, a sequence of currency ids
  KeyOrder,       \* the accounts in the order of their LoanInfos storage keys
  MaxIterations   \* OFFCHAIN_WORKER_MAX_ITERATIONS

ASSUME /\ Len(AssetPoolIds) > 0
       /\ MaxIterations \in Nat \ {0}

Pools == 1..Len(AssetPoolIds)
Keys  == 1..Len(KeyOrder)
NoLock == "none"       \* no lock entry, or an expired one
Forgotten == "forgotten" \* guard.forget(): held until its deadline passes

VARIABLES
  loanKeys,      \* LoanInfos keys (positions) present under each pool index
  toBeContinue,  \* OFFCHAIN_WORKER_DATA: <<>> or <<pool, previous key>>
  lock,          \* OFFCHAIN_WORKER_LOCK: NoLock, a worker, or Forgotten
  run            \* each worker's run: pc, pool, last key, count, snapshot

vars == <<loanKeys, toBeContinue, lock, run>>

Idle == [pc |-> "idle", pool |-> 1, key |-> 0, count |-> 0, keys |-> {}]

Init ==
  /\ loanKeys = [i \in Pools |-> {}]
  /\ toBeContinue = <<>>
  /\ lock = NoLock
  /\ run = [w \in Workers |-> Idle]

(* The key iter_prefix yields after position k of a snapshot, 0 if none.   *)
NextKey(keys, k) ==
  LET later == {j \in keys : j > k}
  IN IF later = {} THEN 0 ELSE CHOOSE j \in later : \A m \in later : j <= m

(* The pool index move with `<=` for `<`                                   *)
NextPoolIndexOffByOne(i) == IF i <= Len(AssetPoolIds) THEN i + 1 ELSE 1

(* The pool index move without the wrap to the first pool                  *)
NextPoolIndexNoWrap(i) == IF i < Len(AssetPoolIds) THEN i + 1 ELSE i

(* The pool after index i, wrapping to the first (lines 474-479).          *)
NextPoolIndex(i) == IF i < Len(AssetPoolIds) THEN i + 1 ELSE 1

(* try_lock succeeds, then the cursor is read; without one a random pool   *)
(* is picked.  The worker walks the keys of its block's state.             *)
Start(w) ==
  /\ run[w].pc = "idle"
  /\ lock = NoLock
  /\ \E start \in IF toBeContinue = <<>> THEN {<<i, 0>> : i \in Pools}
                                         ELSE {toBeContinue} :
       run' = [run EXCEPT ![w] = [pc |-> "scanning", pool |-> start[1],
                                  key |-> start[2], count |-> 0,
                                  keys |-> loanKeys[start[1]]]]
  /\ lock' = w
  /\ UNCHANGED <<loanKeys, toBeContinue>>

(* One turn of the while-let loop: the next entry, then extend_lock.       *)
Scan(w) ==
  LET r == run[w] IN
  /\ r.pc = "scanning"
  /\ r.count < MaxIterations
  /\ NextKey(r.keys, r.key) # 0
  /\ lock = w
  /\ run' = [run EXCEPT ![w].key = NextKey(r.keys, r.key), ![w].count = @ + 1]
  /\ UNCHANGED <<loanKeys, toBeContinue, lock>>

(* Mutation: Finish restarting the same pool when its keys ran out.       *)
FinishKeepsPool(w) ==
  LET r == run[w]
      finished == r.count < MaxIterations /\ NextKey(r.keys, r.key) = 0
  IN
  /\ r.pc = "scanning"
  /\ r.count = MaxIterations \/ finished
  /\ toBeContinue' = IF finished THEN <<r.pool, 0>> ELSE <<r.pool, r.key>>
  /\ lock' = Forgotten
  /\ run' = [run EXCEPT ![w] = Idle]
  /\ UNCHANGED loanKeys

(* The iterator stops: finished when the keys ran out before the budget,   *)
(* otherwise the cursor keeps the last key; then guard.forget().           *)
Finish(w) ==
  LET r == run[w]
      finished == r.count < MaxIterations /\ NextKey(r.keys, r.key) = 0
  IN
  /\ r.pc = "scanning"
  /\ r.count = MaxIterations \/ finished
  /\ toBeContinue' = IF finished THEN <<NextPoolIndex(r.pool), 0>>
                     ELSE <<r.pool, r.key>>
  /\ lock' = Forgotten
  /\ run' = [run EXCEPT ![w] = Idle]
  /\ UNCHANGED loanKeys

(* LOCK_DURATION passes after a forgotten guard: the lock is free again.   *)
Expire ==
  /\ lock = Forgotten
  /\ lock' = NoLock
  /\ UNCHANGED <<loanKeys, toBeContinue, run>>

(* A loan is created or removed in pool i by a deposit or debit update.    *)
LoanChange(i, k) ==
  /\ loanKeys' = [loanKeys EXCEPT ![i] = IF k \in @ THEN @ \ {k} ELSE @ \cup {k}]
  /\ UNCHANGED <<toBeContinue, lock, run>>

Next ==
  \/ \E w \in Workers : Start(w) \/ Scan(w) \/ Finish(w)
  \/ Expire
  \/ \E i \in Pools, k \in Keys : LoanChange(i, k)

(* A worker is started after every block, and a run in progress goes on   *)
(* to its end (each extend_lock renews the deadline long before it         *)
(* passes); the lock's deadline passes.  Loans change only when users      *)
(* call, so LoanChange has no fairness.                                    *)
Fairness ==
  /\ WF_vars(\E w \in Workers : Start(w))
  /\ \A w \in Workers : WF_vars(Scan(w)) /\ WF_vars(Finish(w))
  /\ WF_vars(Expire)

Spec == Init /\ [][Next]_vars /\ Fairness

-----------------------------------------------------------------------------
TypeOK ==
  /\ \A i \in Pools : loanKeys[i] \subseteq Keys
  /\ toBeContinue \in {<<>>} \cup (Pools \X ({0} \cup Keys))
  /\ lock \in Workers \cup {NoLock, Forgotten}
  /\ \A w \in Workers : run[w].pool \in Pools /\ run[w].count \in 0..MaxIterations

(* The liquidation scan reaches every loan: a loan that stays in LoanInfos *)
(* is visited again and again, whatever pool the random start picked, how *)
(* the max_iterations budget cuts the walk, and how loans come and go.    *)
EveryLoanScanned ==
  \A i \in Pools, k \in Keys :
    []<>(\/ k \notin loanKeys[i]
         \/ \E w \in Workers : run[w].pc = "scanning" /\ run[w].pool = i /\ run[w].key = k)

(* The persisted cursor refines ScanCursor: whatever runs overlap and     *)
(* however loans come and go, each saved OFFCHAIN_WORKER_DATA is a later   *)
(* key of the pool it was in, or the start of the next pool, never a       *)
(* position already walked: no run resumes from a cursor older than the    *)
(* last one saved.                                                         *)
ScanOrder == INSTANCE ScanCursor WITH
  NumPools <- Len(AssetPoolIds), NumKeys <- Len(KeyOrder), cursor <- toBeContinue

CursorRefined == ScanOrder!Spec

=============================================================================

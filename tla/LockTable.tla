----------------------------- MODULE LockTable ------------------------------
(***************************************************************************)
(* common/locktable.rs: LockTable, a fixed array of lock slots ("stripes"),*)
(* each a spin::Mutex<LockValue>.  try_lock and unlock hold the slot's     *)
(* mutex for their whole body, so each is one atomic step on one slot.     *)
(***************************************************************************)
LOCAL INSTANCE Naturals

CONSTANTS Stripes      \* the slot indices 0 .. size-1

VARIABLE locks         \* locks[s]: the LockValue of slot s

\* enum TryLockResult
Success == "Success"
Wait    == "Wait"
Die     == "Die"
TryLockResult == {Success, Wait, Die}

\* struct LockValue
LockValue == [locked : BOOLEAN, version_number : Nat]

\* the value unlock() and new() leave in a slot
Unlocked == [locked |-> FALSE, version_number |-> 0]

\* the value a successful try_lock of transaction_id leaves in a slot
LockedBy(transaction_id) == [locked |-> TRUE, version_number |-> transaction_id]

TypeOK == locks \in [Stripes -> LockValue]

\* LockTable::new
Init == locks = [s \in Stripes |-> Unlocked]

\* mutant of TryLock: the slot is taken without looking at `locked`
TryLockNoCheck(key, transaction_id, result) ==
    /\ result = Success
    /\ locks' = [locks EXCEPT ![key] = LockedBy(transaction_id)]

\* LockTable::try_lock.  A free slot is taken; a held one answers Die to a
\* requester whose id is larger than the holder's and Wait to any other.
TryLock(key, transaction_id, result) ==
    \/ /\ ~locks[key].locked
       /\ result = Success
       /\ locks' = [locks EXCEPT ![key] = LockedBy(transaction_id)]
    \/ /\ locks[key].locked
       /\ transaction_id > locks[key].version_number
       /\ result = Die
       /\ UNCHANGED locks
    \/ /\ locks[key].locked
       /\ transaction_id <= locks[key].version_number
       /\ result = Wait
       /\ UNCHANGED locks

\* LockTable::unlock: no ownership check, the slot is cleared whoever holds it
Unlock(key) == locks' = [locks EXCEPT ![key] = Unlocked]
=============================================================================

-------------------------------- MODULE WDTX --------------------------------
(***************************************************************************)
(* cc/mod.rs: the transaction protocol WDTX (and WDTXPersist, whose read,  *)
(* write, delete, abort and try_commit have the same bodies).              *)
(*                                                                         *)
(* A transaction locks the stripe of a key the first time it touches the   *)
(* key, buffers its writes in redo_log and its deletes in remove_log, and  *)
(* try_commit applies both to the shared map and then unlocks its stripes. *)
(*                                                                         *)
(* Transactions run on different cores.  What they share is the lock       *)
(* table, the map and GLOBAL_CLOCK; every access to one of them is atomic  *)
(* (a slot mutex, a bucket mutex, a fetch_add), and a method that makes    *)
(* several such accesses is one action per access, with pc[t] saying where *)
(* the method stands.  What a method does to the transaction's own fields  *)
(* happens in the step of the shared access that comes before it.          *)
(*                                                                         *)
(* This module is the API as it stands: any method may be called on an     *)
(* active transaction in any order.  KVStore restricts it to what          *)
(* transact and transact_mut do.                                           *)
(***************************************************************************)
EXTENDS Naturals, Sequences, FiniteSets

CONSTANTS Txns,        \* the transaction handles that may be alive at once
          Keys, Values,
          None,        \* Option::None
          Unit,        \* the return value ()
          Stripes,     \* the lock table's slot indices
          StripeOf,    \* WDTX::hash(key, lock_table.size())
          Buckets,     \* the map's bucket indices
          BucketOf,    \* compute_bucket_idx(key)
          MaxTid       \* bound: GLOBAL_CLOCK stops at MaxTid

ASSUME /\ StripeOf \in [Keys -> Stripes]
       /\ MaxTid \in Nat \ {0}
       /\ None \notin Values /\ Unit \notin Values /\ None # Unit

VARIABLES locks,         \* the LockTable
          buckets,       \* the map
          GLOBAL_CLOCK,  \* the next transaction id
          tx,            \* tx[t]: the fields of the WDTX struct of handle t
          pc,            \* pc[t]: where handle t stands
          key,           \* key[t]: the key of the method that is under way
          cursor,        \* cursor[t]: the position of the loop under way
          ret            \* ret[t]: what the last finished method returned

vars == <<locks, buckets, GLOBAL_CLOCK, tx, pc, key, cursor, ret>>

LT   == INSTANCE LockTable
Map  == INSTANCE SimpleHashMap
Set  == INSTANCE SimpleSet
Redo == INSTANCE RedoLog
SeqX == INSTANCE SequencesExt

Tids == 0 .. MaxTid - 1

(***************************************************************************)
(* pc[t]:                                                                  *)
(*   none        no transaction was begun on this handle yet               *)
(*   active      between two method calls                                  *)
(*   read_get    read():   the stripe was just locked, map.get is next     *)
(*   delete_get  delete(): the stripe was just locked, map.get is next     *)
(*   spin        in the `loop` of read/write/delete with ret == Wait       *)
(*   abort       in the loop of abort()                                    *)
(*   commit      in the loops of try_commit()                              *)
(*   finished    try_commit() returned                                     *)
(***************************************************************************)
PcValues == {"none", "active", "read_get", "delete_get", "spin", "abort",
             "commit", "finished"}

\* struct WDTX (lock_table, map and hash are the shared state and constants)
WDTXStruct == [tid          : Tids,
               locked_index : Seq(Stripes),
               redo_log     : Seq([key : Keys, val : Values]),
               remove_log   : Seq(Keys),
               is_aborted   : BOOLEAN]

\* WDTX::new with the id it drew from GLOBAL_CLOCK
New(id) == [tid          |-> id,
            locked_index |-> Set!New,
            redo_log     |-> Redo!New,
            remove_log   |-> Set!New,
            is_aborted   |-> FALSE]

\* self.locked_index.contains(&self.hash(key, self.lock_table.size()))
HoldsStripe(t, k) == Set!Contains(tx[t].locked_index, StripeOf[k])

\* self.redo_log.get(key) is Some(_)
Buffered(t, k) == Redo!Get(tx[t].redo_log, k) # None

-----------------------------------------------------------------------------
(* Helpers: how a method ends.                                             *)

Returns(t, value) == ret' = [ret EXCEPT ![t] = value]

\* the method goes on at `label`, working on key k
GoesOn(t, label, k) ==
    /\ pc'     = [pc EXCEPT ![t] = label]
    /\ key'    = [key EXCEPT ![t] = k]
    /\ cursor' = cursor

\* the method is over
Done(t) ==
    /\ pc'     = [pc EXCEPT ![t] = "active"]
    /\ key'    = [key EXCEPT ![t] = None]
    /\ cursor' = [cursor EXCEPT ![t] = 0]

\* mutant of EntersAbort: abort() returns without unlocking anything
EntersAbortNoUnlock(t) == Done(t)

\* abort() is entered: `for key in &self.locked_index.data`
EntersAbort(t) ==
    IF tx[t].locked_index = <<>>
    THEN Done(t)
    ELSE /\ pc'     = [pc EXCEPT ![t] = "abort"]
         /\ cursor' = [cursor EXCEPT ![t] = 1]
         /\ key'    = [key EXCEPT ![t] = None]

\* `ret == Wait`: the method enters its `loop` with the result Wait
Spins(t, k) ==
    /\ GoesOn(t, "spin", k)
    /\ UNCHANGED <<buckets, GLOBAL_CLOCK, tx, ret>>

-----------------------------------------------------------------------------
Init ==
    /\ LT!Init
    /\ Map!Init
    /\ GLOBAL_CLOCK = 0
    /\ tx     = [t \in Txns |-> New(0)]
    /\ pc     = [t \in Txns |-> "none"]
    /\ key    = [t \in Txns |-> None]
    /\ cursor = [t \in Txns |-> 0]
    /\ ret    = [t \in Txns |-> Unit]

\* mutant of Begin: the id is the value of the clock after the increment
BeginNewValue(t) ==
    /\ pc[t] \in {"none", "finished"}
    /\ GLOBAL_CLOCK < MaxTid
    /\ GLOBAL_CLOCK' = GLOBAL_CLOCK + 1
    /\ tx' = [tx EXCEPT ![t] = New(GLOBAL_CLOCK + 1)]
    /\ Done(t)
    /\ Returns(t, Unit)
    /\ UNCHANGED <<locks, buckets>>

\* WDTX::new (KVStore::begin): a fresh transaction with the next id
Begin(t) ==
    /\ pc[t] \in {"none", "finished"}
    /\ GLOBAL_CLOCK < MaxTid
    /\ GLOBAL_CLOCK' = GLOBAL_CLOCK + 1
    /\ tx' = [tx EXCEPT ![t] = New(GLOBAL_CLOCK)]
    /\ Done(t)
    /\ Returns(t, Unit)
    /\ UNCHANGED <<locks, buckets>>

\* One iteration of the `loop` of read, write or delete with ret == Wait:
\* `ret` is tested again and try_lock is not called again, so nothing
\* changes and the thread stays in the loop.
SpinLoop(t) ==
    /\ pc[t] = "spin"
    /\ UNCHANGED vars

-----------------------------------------------------------------------------
(* read                                                                    *)

\* read() answered without try_lock: the transaction is aborted, the key is
\* buffered, or its stripe is held already
ReadLocal(t, k) ==
    /\ pc[t] = "active"
    /\ \/ /\ tx[t].is_aborted
          /\ Returns(t, None)
       \/ /\ ~tx[t].is_aborted
          /\ Buffered(t, k)
          /\ Returns(t, Redo!Get(tx[t].redo_log, k))
       \/ /\ ~tx[t].is_aborted
          /\ ~Buffered(t, k)
          /\ HoldsStripe(t, k)
          /\ Returns(t, IF Set!Contains(tx[t].remove_log, k)
                        THEN None ELSE Map!Get(k))
    /\ UNCHANGED <<locks, buckets, GLOBAL_CLOCK, tx, pc, key, cursor>>

\* read() of a key whose stripe is not held: try_lock and its three results
ReadLock(t, k) ==
    /\ pc[t] = "active"
    /\ ~tx[t].is_aborted
    /\ ~Buffered(t, k)
    /\ ~HoldsStripe(t, k)
    /\ \E result \in LT!TryLockResult :
          /\ LT!TryLock(StripeOf[k], tx[t].tid, result)
          /\ \/ /\ result = LT!Success
                /\ tx' = [tx EXCEPT ![t].locked_index =
                                        Set!Insert(@, StripeOf[k])]
                /\ GoesOn(t, "read_get", k)
                /\ UNCHANGED <<buckets, GLOBAL_CLOCK, ret>>
             \/ /\ result = LT!Wait
                /\ Spins(t, k)
             \/ /\ result = LT!Die
                /\ tx' = [tx EXCEPT ![t].is_aborted = TRUE]
                /\ EntersAbort(t)
                /\ Returns(t, None)
                /\ UNCHANGED <<buckets, GLOBAL_CLOCK>>

\* mutant of ReadGet: the stripe is unlocked as soon as the value is read
ReadGetUnlocks(t) ==
    /\ pc[t] = "read_get"
    /\ Returns(t, Map!Get(key[t]))
    /\ Done(t)
    /\ LT!Unlock(StripeOf[key[t]])
    /\ tx' = [tx EXCEPT ![t].locked_index =
                            SelectSeq(@, LAMBDA s : s # StripeOf[key[t]])]
    /\ UNCHANGED <<buckets, GLOBAL_CLOCK>>

\* read(): `return self.map.get(key)` after the stripe was locked
ReadGet(t) ==
    /\ pc[t] = "read_get"
    /\ Returns(t, Map!Get(key[t]))
    /\ Done(t)
    /\ UNCHANGED <<locks, buckets, GLOBAL_CLOCK, tx>>

-----------------------------------------------------------------------------
(* write                                                                   *)

\* write() without try_lock: the transaction is aborted, the key is
\* buffered (update), or its stripe is held already (insert)
WriteLocal(t, k, v) ==
    /\ pc[t] = "active"
    /\ \/ /\ tx[t].is_aborted
          /\ tx' = tx
       \/ /\ ~tx[t].is_aborted
          /\ Buffered(t, k)
          /\ tx' = [tx EXCEPT ![t].redo_log = Redo!Update(@, k, v)]
       \/ /\ ~tx[t].is_aborted
          /\ ~Buffered(t, k)
          /\ HoldsStripe(t, k)
          /\ tx' = [tx EXCEPT ![t].redo_log = Redo!Insert(@, k, v)]
    /\ Returns(t, Unit)
    /\ UNCHANGED <<locks, buckets, GLOBAL_CLOCK, pc, key, cursor>>

\* mutant of WriteLock: the write is buffered and the stripe is not locked
WriteLockSkipsLock(t, k, v) ==
    /\ pc[t] = "active"
    /\ ~tx[t].is_aborted
    /\ ~Buffered(t, k)
    /\ ~HoldsStripe(t, k)
    /\ tx' = [tx EXCEPT ![t].redo_log = Redo!Insert(@, k, v)]
    /\ Returns(t, Unit)
    /\ UNCHANGED <<locks, buckets, GLOBAL_CLOCK, pc, key, cursor>>

\* write() of a key whose stripe is not held
WriteLock(t, k, v) ==
    /\ pc[t] = "active"
    /\ ~tx[t].is_aborted
    /\ ~Buffered(t, k)
    /\ ~HoldsStripe(t, k)
    /\ \E result \in LT!TryLockResult :
          /\ LT!TryLock(StripeOf[k], tx[t].tid, result)
          /\ \/ /\ result = LT!Success
                /\ tx' = [tx EXCEPT
                            ![t].locked_index = Set!Insert(@, StripeOf[k]),
                            ![t].redo_log     = Redo!Insert(@, k, v)]
                /\ Returns(t, Unit)
                /\ UNCHANGED <<buckets, GLOBAL_CLOCK, pc, key, cursor>>
             \/ /\ result = LT!Wait
                /\ Spins(t, k)
             \/ /\ result = LT!Die
                /\ tx' = [tx EXCEPT ![t].is_aborted = TRUE]
                /\ EntersAbort(t)
                /\ Returns(t, Unit)
                /\ UNCHANGED <<buckets, GLOBAL_CLOCK>>

-----------------------------------------------------------------------------
(* delete                                                                  *)

\* the end of delete(): the key is marked removed if the map has it
MarksRemoved(t, k) ==
    /\ tx' = [tx EXCEPT ![t].remove_log =
                 IF Map!Get(k) # None THEN Set!Insert(@, k) ELSE @]
    /\ Returns(t, Map!Get(k) # None)

\* delete() without try_lock: the transaction is aborted, the key is
\* marked removed already, it is buffered, or its stripe is held
DeleteLocal(t, k) ==
    /\ pc[t] = "active"
    /\ \/ /\ tx[t].is_aborted
          /\ Returns(t, None)
          /\ tx' = tx
       \/ /\ ~tx[t].is_aborted
          /\ Set!Contains(tx[t].remove_log, k)
          /\ Returns(t, FALSE)
          /\ tx' = tx
       \/ /\ ~tx[t].is_aborted
          /\ ~Set!Contains(tx[t].remove_log, k)
          /\ Buffered(t, k)
          /\ tx' = [tx EXCEPT ![t].redo_log   = Redo!Remove(@, k),
                              ![t].remove_log = Set!Insert(@, k)]
          /\ Returns(t, TRUE)
       \/ /\ ~tx[t].is_aborted
          /\ ~Set!Contains(tx[t].remove_log, k)
          /\ ~Buffered(t, k)
          /\ HoldsStripe(t, k)
          /\ MarksRemoved(t, k)
    /\ UNCHANGED <<locks, buckets, GLOBAL_CLOCK, pc, key, cursor>>

\* delete() of a key whose stripe is not held.  On Die the transaction is
\* marked aborted and the method returns: abort() is not called.
DeleteLock(t, k) ==
    /\ pc[t] = "active"
    /\ ~tx[t].is_aborted
    /\ ~Set!Contains(tx[t].remove_log, k)
    /\ ~Buffered(t, k)
    /\ ~HoldsStripe(t, k)
    /\ \E result \in LT!TryLockResult :
          /\ LT!TryLock(StripeOf[k], tx[t].tid, result)
          /\ \/ /\ result = LT!Success
                /\ tx' = [tx EXCEPT ![t].locked_index =
                                        Set!Insert(@, StripeOf[k])]
                /\ GoesOn(t, "delete_get", k)
                /\ UNCHANGED <<buckets, GLOBAL_CLOCK, ret>>
             \/ /\ result = LT!Wait
                /\ Spins(t, k)
             \/ /\ result = LT!Die
                /\ tx' = [tx EXCEPT ![t].is_aborted = TRUE]
                /\ Returns(t, None)
                /\ UNCHANGED <<buckets, GLOBAL_CLOCK, pc, key, cursor>>

\* delete(): `self.map.get(key)` after the stripe was locked
DeleteGet(t) ==
    /\ pc[t] = "delete_get"
    /\ MarksRemoved(t, key[t])
    /\ Done(t)
    /\ UNCHANGED <<locks, buckets, GLOBAL_CLOCK>>

-----------------------------------------------------------------------------
(* abort                                                                   *)

\* abort() called by the user of the transaction.  It unlocks the stripes
\* and changes no field: is_aborted stays false and locked_index stays.
Abort(t) ==
    /\ pc[t] = "active"
    /\ EntersAbort(t)
    /\ Returns(t, Unit)
    /\ UNCHANGED <<locks, buckets, GLOBAL_CLOCK, tx>>

\* one iteration of the loop of abort()
AbortUnlock(t) ==
    /\ pc[t] = "abort"
    /\ LT!Unlock(tx[t].locked_index[cursor[t]])
    /\ IF cursor[t] = Len(tx[t].locked_index)
       THEN Done(t)
       ELSE /\ cursor' = [cursor EXCEPT ![t] = @ + 1]
            /\ UNCHANGED <<pc, key>>
    /\ UNCHANGED <<buckets, GLOBAL_CLOCK, tx, ret>>

-----------------------------------------------------------------------------
(* try_commit                                                              *)

Inserts(t) == [i \in DOMAIN tx[t].redo_log |->
                 [op |-> "insert", key |-> tx[t].redo_log[i].key,
                                   val |-> tx[t].redo_log[i].val]]
Removes(t) == [i \in DOMAIN tx[t].remove_log |->
                 [op |-> "remove", key |-> tx[t].remove_log[i]]]
Unlocks(t) == [i \in DOMAIN tx[t].locked_index |->
                 [op |-> "unlock", stripe |-> tx[t].locked_index[i]]]

\* mutant of CommitWork: the stripes are unlocked before the write set is
\* applied
CommitWorkUnlockFirst(t) == Unlocks(t) \o Inserts(t) \o Removes(t)

\* The body of try_commit for a transaction that is not aborted: its three
\* loops, in their order, as the sequence of the shared accesses they make.
CommitWork(t) == Inserts(t) \o Removes(t) \o Unlocks(t)

\* the access the commit of t makes next
CommitItem(t) == CommitWork(t)[cursor[t]]

\* try_commit() is called
TryCommit(t) ==
    /\ pc[t] = "active"
    /\ \/ /\ tx[t].is_aborted
          /\ pc' = [pc EXCEPT ![t] = "finished"]
          /\ Returns(t, FALSE)
          /\ UNCHANGED cursor
       \/ /\ ~tx[t].is_aborted
          /\ CommitWork(t) = <<>>
          /\ pc' = [pc EXCEPT ![t] = "finished"]
          /\ Returns(t, TRUE)
          /\ UNCHANGED cursor
       \/ /\ ~tx[t].is_aborted
          /\ CommitWork(t) # <<>>
          /\ pc' = [pc EXCEPT ![t] = "commit"]
          /\ cursor' = [cursor EXCEPT ![t] = 1]
          /\ UNCHANGED ret
    /\ UNCHANGED <<locks, buckets, GLOBAL_CLOCK, tx, key>>

\* after an access of the commit: the next one, or `true` is returned
CommitGoesOn(t) ==
    IF cursor[t] = Len(CommitWork(t))
    THEN /\ pc' = [pc EXCEPT ![t] = "finished"]
         /\ cursor' = [cursor EXCEPT ![t] = 0]
         /\ Returns(t, TRUE)
    ELSE /\ cursor' = [cursor EXCEPT ![t] = @ + 1]
         /\ UNCHANGED <<pc, ret>>

\* `self.map.insert(&entry.key, &entry.val.clone())`
CommitInsert(t) ==
    /\ pc[t] = "commit"
    /\ CommitItem(t).op = "insert"
    /\ Map!Insert(CommitItem(t).key, CommitItem(t).val)
    /\ CommitGoesOn(t)
    /\ UNCHANGED <<locks, GLOBAL_CLOCK, tx, key>>

\* `self.map.remove(key)`
CommitRemove(t) ==
    /\ pc[t] = "commit"
    /\ CommitItem(t).op = "remove"
    /\ Map!Remove(CommitItem(t).key)
    /\ CommitGoesOn(t)
    /\ UNCHANGED <<locks, GLOBAL_CLOCK, tx, key>>

\* mutant of CommitUnlock: the slot is released only if it is found free
CommitUnlockIfFree(t) ==
    /\ pc[t] = "commit"
    /\ CommitItem(t).op = "unlock"
    /\ ~locks[CommitItem(t).stripe].locked
    /\ LT!Unlock(CommitItem(t).stripe)
    /\ CommitGoesOn(t)
    /\ UNCHANGED <<buckets, GLOBAL_CLOCK, tx, key>>

\* `self.lock_table.unlock(*key)`
CommitUnlock(t) ==
    /\ pc[t] = "commit"
    /\ CommitItem(t).op = "unlock"
    /\ LT!Unlock(CommitItem(t).stripe)
    /\ CommitGoesOn(t)
    /\ UNCHANGED <<buckets, GLOBAL_CLOCK, tx, key>>

-----------------------------------------------------------------------------
\* a method is called on handle t
Call(t) ==
    \/ Begin(t)
    \/ \E k \in Keys : \/ ReadLocal(t, k)
                       \/ ReadLock(t, k)
                       \/ DeleteLocal(t, k)
                       \/ DeleteLock(t, k)
                       \/ \E v \in Values : \/ WriteLocal(t, k, v)
                                            \/ WriteLock(t, k, v)
    \/ Abort(t)
    \/ TryCommit(t)

\* the method under way on handle t makes its next shared access
Step(t) ==
    \/ SpinLoop(t)
    \/ ReadGet(t)
    \/ DeleteGet(t)
    \/ AbortUnlock(t)
    \/ CommitInsert(t)
    \/ CommitRemove(t)
    \/ CommitUnlock(t)

Next == \E t \in Txns : Call(t) \/ Step(t)

Spec == Init /\ [][Next]_vars

-----------------------------------------------------------------------------
\* bound on the accesses of one commit: an insert or a remove for every key
\* and an unlock for every stripe
MaxWork == 2 * Cardinality(Keys) + Cardinality(Stripes)

TypeOK ==
    /\ LT!TypeOK
    /\ Map!TypeOK
    /\ GLOBAL_CLOCK \in 0 .. MaxTid
    /\ tx \in [Txns -> WDTXStruct]
    /\ pc \in [Txns -> PcValues]
    /\ key \in [Txns -> Keys \cup {None}]
    /\ cursor \in [Txns -> 0 .. MaxWork]
    /\ ret \in [Txns -> Values \cup {None, Unit} \cup BOOLEAN]
-----------------------------------------------------------------------------
(* Properties.                                                             *)

\* The stripes handle t counts on: those it locked, until it aborts, and
\* during its commit those the unlock loop has not reached yet.
HeldStripes(t) ==
    CASE pc[t] \in {"active", "read_get", "delete_get", "spin"}
             /\ ~tx[t].is_aborted
           -> SeqX!ToSet(tx[t].locked_index)
      [] pc[t] = "commit"
           -> {CommitWork(t)[i].stripe :
                 i \in {j \in cursor[t] .. Len(CommitWork(t)) :
                          CommitWork(t)[j].op = "unlock"}}
      [] OTHER -> {}

\* the keys of the write set of t
WriteSet(t) == {e.key : e \in SeqX!ToSet(tx[t].redo_log)}
                   \cup SeqX!ToSet(tx[t].remove_log)

\* Mutual exclusion of the stripes.  Every stripe in the locked_index of a
\* live transaction is locked in the lock table under that transaction's
\* id: between try_lock returning Success and the unlock loops of abort and
\* try_commit nobody else can take or free the slot, whatever the other
\* transactions do in between.
OwnedStripesAreLocked ==
    \A t \in Txns : \A s \in HeldStripes(t) :
        locks[s] = LT!LockedBy(tx[t].tid)

\* Strict two-phase locking of the map.  A step changes what the map holds
\* for a key only if it is a step of the commit of a transaction that holds
\* the key's stripe in the lock table at that moment: try_commit writes
\* before it unlocks, and only keys whose stripes read/write/delete locked.
WritesUnderLock ==
    [][\A k \in Keys :
          Map!Get(k)' # Map!Get(k) =>
              \E t \in Txns :
                  /\ pc[t] = "commit"
                  /\ cursor'[t] # cursor[t]
                  /\ locks[StripeOf[k]] = LT!LockedBy(tx[t].tid)]_vars

\* The write set stays inside the locks.  Every key buffered in redo_log or
\* remove_log of a transaction that is not aborted has its stripe locked
\* under the transaction's id, so that what try_commit applies was
\* protected since the key was first touched (write and delete lock before
\* they buffer, and an aborted transaction buffers nothing more).
WriteSetIsLocked ==
    \A t \in Txns :
        pc[t] \in {"active", "read_get", "delete_get", "spin"}
            /\ ~tx[t].is_aborted
        => \A k \in WriteSet(t) :
               locks[StripeOf[k]] = LT!LockedBy(tx[t].tid)

\* Commit installs the write set.  When try_commit has applied its inserts
\* and removes and is about to unlock, the map holds the buffered value of
\* every key of redo_log: what the transaction's own read() returned for
\* the key is what its commit leaves in the map.
ApplyDone(t) ==
    /\ pc[t] = "commit"
    /\ \A i \in cursor[t] .. Len(CommitWork(t)) :
           CommitWork(t)[i].op = "unlock"

CommitInstallsWrites ==
    \A t \in Txns :
        ApplyDone(t) =>
            \A i \in DOMAIN tx[t].redo_log :
                Map!Get(tx[t].redo_log[i].key) = tx[t].redo_log[i].val

\* No lock is orphaned.  Every locked slot of the lock table belongs to a
\* transaction that is still going to unlock it: one that is alive and has
\* the stripe in its locked_index, and that is either not aborted or inside
\* abort().  A lock left behind by a transaction that ended ("Die: mark
\* aborted, release all held locks") makes every later transaction on that
\* stripe die or wait for ever.
NoOrphanLocks ==
    \A s \in Stripes :
        locks[s].locked =>
            \E t \in Txns :
                /\ pc[t] \notin {"none", "finished"}
                /\ tx[t].tid = locks[s].version_number
                /\ Set!Contains(tx[t].locked_index, s)
                /\ ~tx[t].is_aborted \/ pc[t] = "abort"

\* Wait is retried.  A transaction that got Wait from try_lock calls
\* try_lock again: once the stripe it waits for is free it leaves the loop.
WaitIsRetried ==
    \A t \in Txns :
        (pc[t] = "spin" /\ ~locks[StripeOf[key[t]]].locked)
            ~> (pc[t] # "spin")

\* Commit releases every lock.  A commit that has begun to apply its write
\* set returns, and when it returns no stripe of locked_index is locked
\* under the transaction's id any more: the loops of try_commit take no
\* lock that is held across a step, and the unlock loop covers all of
\* locked_index.
CommitReleases ==
    \A t \in Txns :
        (pc[t] = "commit")
            ~> (/\ pc[t] = "finished"
                /\ \A s \in SeqX!ToSet(tx[t].locked_index) :
                       locks[s] # LT!LockedBy(tx[t].tid))
=============================================================================

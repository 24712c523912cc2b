--------------------------- MODULE KVStorePersist ---------------------------
(***************************************************************************)
(* kvstore/mod.rs: TxKVStorePersist, the store behind KVSTORE, with the    *)
(* transaction WDTXPersist of cc/mod.rs and the closures of the system     *)
(* calls of syscall/funcs.rs.                                              *)
(*                                                                         *)
(* read, write, delete, abort and try_commit of WDTXPersist are the text   *)
(* of WDTX's (get, insert_no_log and remove_no_log of the persistent map   *)
(* have the bodies of SimpleHashMap's), so the actions of WDTX stand for   *)
(* them.  What is new is try_commit_persist: every entry of the write set  *)
(* goes through PersistentHashMap::insert or remove, which locks the       *)
(* bucket, appends a record to the log under the Disk's mutex, block by    *)
(* block, and then changes the bucket.  The Result of insert and remove is *)
(* dropped (`let _ =`).                                                    *)
(*                                                                         *)
(* The bucket mutex is taken here together with the Disk's: a thread that  *)
(* waits for the Disk holding a bucket only delays the others.             *)
(***************************************************************************)
EXTENDS KVStore

CONSTANTS KV, RM, LenWord, Zero, Empty, Torn, Ok, Err,  \* see PersistentHashMap
          BlockChunks, NumBlocks, IOFails,              \* see Disk
          Closures    \* the closures the callers pass, with their `persist`

VARIABLES blocks, current_block, current_address_in_block, work,  \* the Disk
          kind,       \* kind[c]: the closure thread c runs, and its `persist`
          durable,    \* history: the map that the persistent commits made
          io_failed   \* history: a read or write of the device has failed

diskvars == <<blocks, current_block, current_address_in_block, work>>
pvars    == <<kvvars, diskvars, kind, durable, io_failed>>

Strs == Keys \cup Values \cup {Empty, Torn}

\* the records, the replay and the Disk of the persistent map
PM == INSTANCE PersistentHashMap
          WITH NumBuckets <- Cardinality(Buckets),
               BucketOf   <- [s \in Strs |-> IF s \in Keys THEN BucketOf[s]
                                                           ELSE 0],
               pc <- "idle", op <- None, ret <- Ok, crashes <- 0,
               Calls <- {}, Overfill <- TRUE, MaxCrashes <- 0

\* syscall/funcs.rs: what each system call passes to transact_mut
read_kv          == [methods |-> {"read"},   persist |-> FALSE]
write_kv         == [methods |-> {"write"},  persist |-> FALSE]
write_kv_persist == [methods |-> {"write"},  persist |-> TRUE]
delete_kv        == [methods |-> {"delete"}, persist |-> FALSE]

ASSUME /\ Closures \subseteq [methods : SUBSET {"read", "write", "delete"},
                              persist : BOOLEAN]
       /\ Buckets = 0 .. Cardinality(Buckets) - 1

-----------------------------------------------------------------------------
\* TxKVStorePersist::new: build_from_disk of a device that was never
\* written, and a new lock table
PInit ==
    /\ KVInit
    /\ blocks = [b \in PM!D!Blocks |-> PM!D!ZeroBlock]
    /\ current_block = 0
    /\ current_address_in_block = 0
    /\ work = <<>>
    /\ kind = [c \in Txns |-> None]
    /\ durable = [s \in Strs |-> None]
    /\ io_failed = FALSE

\* transact / transact_mut is called with a closure and `persist`
Enter(c, wrapper, closure) ==
    /\ Transact(c, wrapper)
    /\ kind' = [kind EXCEPT ![c] = closure]
    /\ UNCHANGED <<diskvars, durable, io_failed>>

\* insert and remove hold the bucket of their key from before the append
\* until the bucket is changed; get, insert_no_log and remove_no_log of a
\* key of that bucket spin until then
MapFree(k) ==
    ~\E t \in Txns : /\ pc[t] \in {"persist_write", "persist_apply"}
                     /\ BucketOf[CommitItem(t).key] = BucketOf[k]

\* `f(&mut tx)`: the closure calls its method
PBody(c) ==
    /\ call[c] \in Wrappers
    /\ ops[c] < MaxOps
    /\ \E k \in Keys, method \in kind[c].methods :
          /\ Invokes(c, method, k)
          /\ method # "write" /\ ReadsMap(c, k) => MapFree(k)
          /\ Sees(c, method # "write" /\ ReadsMap(c, k), k)
    /\ ops' = [ops EXCEPT ![c] = @ + 1]
    /\ UNCHANGED <<call, diskvars, kind, durable, io_failed>>

\* the method under way, or try_commit, makes its next shared access
PInternal(c) ==
    /\ call[c] \in Wrappers
    /\ pc[c] \in {"read_get", "delete_get"} => MapFree(key[c])
    /\ pc[c] = "commit" /\ CommitItem(c).op # "unlock"
          => MapFree(CommitItem(c).key)
    /\ Step(c)
    /\ Sees(c, pc[c] \in {"read_get", "delete_get"}, key[c])
    /\ UNCHANGED <<call, ops, diskvars, kind, durable, io_failed>>

\* try_commit_persist() is called
TryCommitPersist(t) ==
    /\ pc[t] = "active"
    /\ \/ /\ tx[t].is_aborted
          /\ pc' = [pc EXCEPT ![t] = "finished"]
          /\ Returns(t, FALSE)
          /\ UNCHANGED cursor
       \/ /\ ~tx[t].is_aborted
          /\ CommitWork(t) = <<>>
          /\ pc' = [pc EXCEPT ![t] = "finished"]
          /\ Returns(t, TRUE)
          /\ UNCHANGED cursor
       \/ /\ ~tx[t].is_aborted
          /\ CommitWork(t) # <<>>
          /\ pc' = [pc EXCEPT ![t] = "persist"]
          /\ cursor' = [cursor EXCEPT ![t] = 1]
          /\ UNCHANGED ret
    /\ UNCHANGED <<locks, buckets, GLOBAL_CLOCK, tx, key>>

\* the closure returned: `if persist { tx.try_commit_persist() } else
\* { tx.try_commit() }`
PCommit(c) ==
    /\ call[c] \in Wrappers
    /\ IF kind[c].persist THEN TryCommitPersist(c) ELSE TryCommit(c)
    /\ seen' = [seen EXCEPT ![c] = Nothing]
    /\ UNCHANGED <<call, ops, diskvars, kind, durable, io_failed>>

\* the wrapper ends, begins again or panics, as in TxKVStore
PLeaves(c) ==
    /\ \/ Return(c) /\ kind' = [kind EXCEPT ![c] = None]
       \/ Retry(c) /\ UNCHANGED kind
       \/ AssertFails(c) /\ kind' = [kind EXCEPT ![c] = None]
    /\ UNCHANGED <<diskvars, durable, io_failed>>

-----------------------------------------------------------------------------
(* try_commit_persist                                                      *)

\* the record of an entry of the write set
Record(item) ==
    IF item.op = "insert" THEN PM!InsertRecord(item.key, item.val)
    ELSE PM!RemoveRecord(item.key)

\* after an access of the commit: the next one, or `true` is returned
PersistGoesOn(t) ==
    IF cursor[t] = Len(CommitWork(t))
    THEN /\ pc' = [pc EXCEPT ![t] = "finished"]
         /\ cursor' = [cursor EXCEPT ![t] = 0]
         /\ Returns(t, TRUE)
    ELSE /\ pc' = [pc EXCEPT ![t] = "persist"]
         /\ cursor' = [cursor EXCEPT ![t] = @ + 1]
         /\ UNCHANGED ret

\* mutant of PersistLog: the entry is applied as try_commit applies it,
\* without a record
PersistLogNoLog(t) ==
    /\ pc[t] = "persist"
    /\ CommitItem(t).op # "unlock"
    /\ pc' = [pc EXCEPT ![t] = "persist_apply"]
    /\ UNCHANGED <<locks, buckets, GLOBAL_CLOCK, tx, key, cursor, ret, call,
                   ops, seen, diskvars, kind, durable, io_failed>>

\* map.insert / map.remove up to the first write of append_to_disk: remove
\* of a key that is not in the map returns Ok(false) and logs nothing; a
\* failing read of the current block is an Err that the commit drops
PersistLog(t) ==
    /\ pc[t] = "persist"
    /\ CommitItem(t).op # "unlock"
    /\ MapFree(CommitItem(t).key)
    /\ LET absent == /\ CommitItem(t).op = "remove"
                     /\ Map!Get(CommitItem(t).key) = None
       IN  \/ /\ absent
              /\ PersistGoesOn(t)
              /\ UNCHANGED <<diskvars, io_failed>>
           \/ /\ ~absent /\ work = <<>>
              /\ PM!D!AppendToDisk(Record(CommitItem(t)))
              /\ pc' = [pc EXCEPT ![t] = "persist_write"]
              /\ UNCHANGED <<cursor, ret, io_failed>>
           \/ /\ ~absent /\ work = <<>>
              /\ PM!D!AppendReadFails
              /\ io_failed' = TRUE
              /\ PersistGoesOn(t)
              /\ UNCHANGED diskvars
    /\ UNCHANGED <<locks, buckets, GLOBAL_CLOCK, tx, key, call, ops, seen,
                   kind, durable>>

\* a block of the record is written; after the last one the Disk is free
PersistWrite(t) ==
    /\ pc[t] = "persist_write"
    /\ PM!D!WriteDone
    /\ pc' = [pc EXCEPT ![t] = IF work' = <<>> THEN "persist_apply" ELSE @]
    /\ UNCHANGED <<locks, buckets, GLOBAL_CLOCK, tx, key, cursor, ret, call,
                   ops, seen, kind, durable, io_failed>>

\* a write of the record fails: insert returns Err, the bucket stays as it
\* is, and the commit goes on to its next entry
PersistWriteFails(t) ==
    /\ pc[t] = "persist_write"
    /\ PM!D!WriteFails
    /\ io_failed' = TRUE
    /\ PersistGoesOn(t)
    /\ UNCHANGED <<locks, buckets, GLOBAL_CLOCK, tx, key, call, ops, seen,
                   kind, durable>>

\* the record is in the log: the bucket is changed
PersistApply(t) ==
    /\ pc[t] = "persist_apply"
    /\ LET item == CommitItem(t) IN
         IF item.op = "insert"
         THEN /\ Map!Insert(item.key, item.val)
              /\ durable' = [durable EXCEPT ![item.key] = item.val]
         ELSE /\ Map!Remove(item.key)
              /\ durable' = [durable EXCEPT ![item.key] = None]
    /\ PersistGoesOn(t)
    /\ UNCHANGED <<locks, GLOBAL_CLOCK, tx, key, call, ops, seen, diskvars,
                   kind, io_failed>>

\* `self.lock_table.unlock(*key)`
PersistUnlock(t) ==
    /\ pc[t] = "persist"
    /\ CommitItem(t).op = "unlock"
    /\ LT!Unlock(CommitItem(t).stripe)
    /\ PersistGoesOn(t)
    /\ UNCHANGED <<buckets, GLOBAL_CLOCK, tx, key, call, ops, seen, diskvars,
                   kind, durable, io_failed>>

\* the next access of try_commit_persist
Persists(c) ==
    \/ PersistLog(c)
    \/ PersistWrite(c)
    \/ PersistWriteFails(c)
    \/ PersistApply(c)
    \/ PersistUnlock(c)

-----------------------------------------------------------------------------
PNext ==
    \E c \in Txns :
        \/ \E wrapper \in Wrappers, closure \in Closures :
               Enter(c, wrapper, closure)
        \/ PBody(c)
        \/ PInternal(c)
        \/ PCommit(c)
        \/ Persists(c)
        \/ PLeaves(c)

PSpec == PInit /\ [][PNext]_pvars

-----------------------------------------------------------------------------
(* Properties.                                                             *)

\* the entries that are in the log and not yet in their bucket
Pending == {CommitItem(t) : t \in {u \in Txns : pc[u] = "persist_apply"}}

\* the map of the persistent commits once the pending entries are applied
DurableSoon ==
    [s \in Strs |->
        IF \E item \in Pending : item.key = s
        THEN LET item == CHOOSE i \in Pending : i.key = s
             IN  IF item.op = "insert" THEN item.val ELSE None
        ELSE durable[s]]

\* The log holds what was committed with persist: as long as the device
\* has not failed, whenever no append is under way the records of the log
\* replay to the map that the calls of insert and remove of
\* try_commit_persist made, in whatever order the commits of two threads
\* reached the Disk and the buckets, and whatever try_commit changed in
\* memory without a record.
LogHoldsDurable ==
    work = <<>> /\ ~io_failed /\ PM!ZeroBlocks # {}
        => PM!Logged = DurableSoon

\* Records are written under the lock: a step that changes a block of the
\* device belongs to a try_commit_persist whose transaction holds the
\* stripe of the key of the record, so that the unlock loop of the commit
\* comes after its last write and no other transaction can log the same
\* key in between.
LogsUnderLock ==
    [][blocks' # blocks =>
         \E t \in Txns :
            /\ pc[t] = "persist_write"
            /\ locks[StripeOf[CommitItem(t).key]] = LT!LockedBy(tx[t].tid)
      ]_pvars

\* try_commit_persist installs the write set, as try_commit does: when the
\* commit has gone through its inserts and removes and is about to unlock,
\* the map holds the buffered value of every key of redo_log.  It is what
\* `let _ = self.map.insert(..)` owes to the caller that gets `true`, and
\* the system call that returns 0, when the append of a record failed.
PersistCommitInstallsWrites ==
    \A t \in Txns :
        /\ pc[t] = "persist"
        /\ \A i \in cursor[t] .. Len(CommitWork(t)) :
               CommitWork(t)[i].op = "unlock"
        => \A i \in DOMAIN tx[t].redo_log :
               Map!Get(tx[t].redo_log[i].key) = tx[t].redo_log[i].val

\* try_commit_persist only appends: no step of a commit changes a chunk
\* of the device that is before the cursor of the Disk, whichever thread
\* wrote it and also when an append ran off the end of the device and the
\* next one starts where the cursor was left.
AppendOnly ==
    [][\A b \in PM!D!Blocks :
          /\ b < current_block => blocks'[b] = blocks[b]
          /\ b = current_block =>
                \A i \in 1 .. current_address_in_block :
                    blocks'[b][i] = blocks[b][i]]_pvars
=============================================================================

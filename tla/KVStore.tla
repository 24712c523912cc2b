------------------------------- MODULE KVStore -------------------------------
(***************************************************************************)
(* kvstore/mod.rs: TxKVStore, the store the kernel's system calls and      *)
(* benchmarks use.  transact and transact_mut run a closure on a fresh     *)
(* transaction and commit it; transact_mut begins again when try_commit    *)
(* returns false, transact asserts that it returned true.                  *)
(*                                                                         *)
(* A handle of WDTX is here a thread inside one call of transact or        *)
(* transact_mut.  The closure is any sequence of at most MaxOps reads,     *)
(* writes and deletes: it never calls abort() or try_commit() itself.      *)
(***************************************************************************)
EXTENDS WDTX

CONSTANTS Wrappers,  \* the wrappers the threads call
          Methods,   \* the methods the closures call
          MaxOps     \* bound: a closure calls at most MaxOps methods

ASSUME /\ Wrappers \subseteq {"transact", "transact_mut"}
       /\ Methods \subseteq {"read", "write", "delete"}
       /\ MaxOps \in Nat

VARIABLES call,      \* call[c]: the wrapper thread c is in
          ops,       \* ops[c]: the methods the closure called in this attempt
          seen       \* history: seen[c][k] is what this attempt of c, alive
                     \* and not yet in its commit, found in the map for k

kvvars == <<locks, buckets, GLOBAL_CLOCK, tx, pc, key, cursor, ret, call, ops,
            seen>>

Nothing == [c \in {} |-> None]

KVInit ==
    /\ Init
    /\ call = [c \in Txns |-> "none"]
    /\ ops  = [c \in Txns |-> 0]
    /\ seen = [c \in Txns |-> Nothing]

\* transact / transact_mut is called: `committed = false`, the loop is
\* entered and `self.begin()` makes the first transaction
Transact(c, wrapper) ==
    /\ call[c] = "none"
    /\ Begin(c)
    /\ call' = [call EXCEPT ![c] = wrapper]
    /\ ops'  = [ops EXCEPT ![c] = 0]
    /\ seen' = [seen EXCEPT ![c] = Nothing]

\* read and delete go to the map for a key whose stripe is held and that
\* is in neither log
ReadsMap(c, k) ==
    /\ ~tx[c].is_aborted /\ HoldsStripe(c, k)
    /\ ~Buffered(c, k) /\ ~Set!Contains(tx[c].remove_log, k)

\* history: a method of thread c has returned, after `self.map.get(key)`
\* if it reads; what an attempt has seen is forgotten when it dies
Sees(c, reads, k) ==
    seen' = [seen EXCEPT ![c] =
                IF tx'[c].is_aborted THEN Nothing
                ELSE IF ~reads THEN @
                ELSE [j \in DOMAIN @ \cup {k} |->
                         IF j = k THEN Map!Get(k) ELSE @[j]]]

\* the method of the closure that is called for key k
Invokes(c, method, k) ==
    \/ method = "read" /\ (ReadLocal(c, k) \/ ReadLock(c, k))
    \/ method = "delete" /\ (DeleteLocal(c, k) \/ DeleteLock(c, k))
    \/ /\ method = "write"
       /\ \E v \in Values : WriteLocal(c, k, v) \/ WriteLock(c, k, v)

\* `f(&mut tx)`: the closure calls a method of the transaction
Body(c) ==
    /\ call[c] \in Wrappers
    /\ ops[c] < MaxOps
    /\ \E k \in Keys, method \in Methods :
          /\ Invokes(c, method, k)
          /\ Sees(c, method # "write" /\ ReadsMap(c, k), k)
    /\ ops' = [ops EXCEPT ![c] = @ + 1]
    /\ UNCHANGED call

\* the method under way makes its next shared access
Internal(c) ==
    /\ call[c] \in Wrappers
    /\ Step(c)
    /\ Sees(c, pc[c] \in {"read_get", "delete_get"}, key[c])
    /\ UNCHANGED <<call, ops>>

\* the closure returned: `committed = tx.try_commit()`
Commit(c) ==
    /\ call[c] \in Wrappers
    /\ TryCommit(c)
    /\ seen' = [seen EXCEPT ![c] = Nothing]
    /\ UNCHANGED <<call, ops>>

\* the wrapper is left: `tx` goes out of scope
Leaves(c, how) ==
    /\ call' = [call EXCEPT ![c] = how]
    /\ ops'  = [ops EXCEPT ![c] = 0]
    /\ seen' = [seen EXCEPT ![c] = Nothing]
    /\ tx'   = [tx EXCEPT ![c] = New(0)]
    /\ pc'   = [pc EXCEPT ![c] = "none"]
    /\ ret'  = [ret EXCEPT ![c] = Unit]
    /\ UNCHANGED <<locks, buckets, GLOBAL_CLOCK, key, cursor>>

\* `committed` is true: the assertion of transact holds, the loop ends
Return(c) ==
    /\ call[c] \in Wrappers
    /\ pc[c] = "finished"
    /\ ret[c] = TRUE
    /\ Leaves(c, "none")

\* transact_mut, `committed` is false: the loop begins a new transaction
Retry(c) ==
    /\ call[c] = "transact_mut"
    /\ pc[c] = "finished"
    /\ ret[c] = FALSE
    /\ Begin(c)
    /\ ops' = [ops EXCEPT ![c] = 0]
    /\ seen' = [seen EXCEPT ![c] = Nothing]
    /\ UNCHANGED call

\* transact, `committed` is false: `assert_eq!(committed, true)` panics
AssertFails(c) ==
    /\ call[c] = "transact"
    /\ pc[c] = "finished"
    /\ ret[c] = FALSE
    /\ Leaves(c, "panicked")

\* what thread c does once it is inside a wrapper
Runs(c) ==
    \/ Body(c)
    \/ Internal(c)
    \/ Commit(c)
    \/ Return(c)
    \/ Retry(c)
    \/ AssertFails(c)

KVNext == \E c \in Txns : \/ \E wrapper \in Wrappers : Transact(c, wrapper)
                          \/ Runs(c)

KVSpec == KVInit /\ [][KVNext]_kvvars

\* A thread inside a wrapper keeps running: each core executes its own
\* thread, and no step of a thread waits for another thread (try_lock
\* never blocks, the slot and bucket mutexes are held for one access).
KVFairSpec == KVSpec /\ \A c \in Txns : WF_kvvars(Runs(c))

-----------------------------------------------------------------------------
KVTypeOK ==
    /\ TypeOK
    /\ call \in [Txns -> Wrappers \cup {"none", "panicked"}]
    /\ ops \in [Txns -> 0 .. MaxOps]
    /\ \A c \in Txns : seen[c] \in [DOMAIN seen[c] -> Values \cup {None}]
                       /\ DOMAIN seen[c] \subseteq Keys

\* A transaction is isolated: until its try_commit, every value that its
\* closure has found in the map is the value the map still holds, whatever
\* the other threads have read, written, committed or given up in between,
\* so that all its reads and its writes are those of one moment.  (read
\* and delete lock the stripe of a key before map.get and nothing unlocks
\* it before the unlock loop of the commit; a transaction that has died
\* has given its stripes back and commits nothing.)
ReadsAreCurrent ==
    \A c \in Txns : \A k \in DOMAIN seen[c] : Map!Get(k) = seen[c][k]

\* transact never panics: the assertion `committed == true` in its loop
\* holds, because the loop is there to run the transaction until it commits
\* ("wrap the transaction body in a loop until try_commit returns true").
TransactNeverPanics == \A c \in Txns : call[c] # "panicked"
=============================================================================

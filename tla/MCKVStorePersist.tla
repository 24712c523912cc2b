-------------------------- MODULE MCKVStorePersist --------------------------
(***************************************************************************)
(* KVStorePersist for TLC: two threads, two keys with a stripe each in one *)
(* bucket, so that a commit that holds the bucket of k1 keeps a reader of  *)
(* k2 out, and blocks of four chunks so that the record of an insert (five *)
(* chunks) crosses the end of a block.  The closures are those of the four *)
(* system calls and one that writes and deletes with `persist`, which the  *)
(* wrappers accept from any caller.                                        *)
(***************************************************************************)
EXTENDS KVStorePersist, TLC

CONSTANTS k1, k2

MCKeys     == {k1, k2}
MCStripes  == {0, 1}
MCBuckets  == {0}
MCStripeOf == (k1 :> 0) @@ (k2 :> 1)
MCBucketOf == (k1 :> 0) @@ (k2 :> 0)

update_persist == [methods |-> {"write", "delete"}, persist |-> TRUE]
MCClosures == {read_kv, delete_kv, write_kv_persist, update_persist}

\* the closure of write_kv_persist alone
MCWritePersist == {write_kv_persist}

\* Threads are interchangeable: no definition names one of them.
Symmetry == Permutations(Txns)
=============================================================================

------------------------------ MODULE MCKVStore ------------------------------
(***************************************************************************)
(* KVStore for TLC: two threads, three keys on two stripes and two         *)
(* buckets.  k1 and k3 share a stripe, k1 and k2 share a bucket, so that a *)
(* lock covers more than one key and a bucket holds more than one entry.   *)
(*                                                                         *)
(* Wide: a stripe for every key, all in one bucket.  A transaction can     *)
(* hold two stripes and meet a conflict on the third, so that abort() and  *)
(* the unlock loop of try_commit run over more than one stripe.            *)
(***************************************************************************)
EXTENDS KVStore, TLC

CONSTANTS k1, k2, k3

MCKeys     == {k1, k2, k3}
MCStripes  == {0, 1}
MCBuckets  == {0, 1}
MCStripeOf == (k1 :> 0) @@ (k2 :> 1) @@ (k3 :> 0)
MCBucketOf == (k1 :> 0) @@ (k2 :> 0) @@ (k3 :> 1)

WideStripes  == {0, 1, 2}
WideBuckets  == {0}
WideStripeOf == (k1 :> 0) @@ (k2 :> 1) @@ (k3 :> 2)
WideBucketOf == (k1 :> 0) @@ (k2 :> 0) @@ (k3 :> 0)

\* Threads and values are interchangeable: no definition names one of them.
Symmetry == Permutations(Txns) \cup Permutations(Values)
=============================================================================

----------------------------- MODULE MCContainers -----------------------------
(***************************************************************************)
(* Containers for TLC: three keys, so that a Vec has a first, a middle and *)
(* a last element and swap_remove differs from remove; two of them in one  *)
(* bucket; two values, so that an overwrite shows.                         *)
(***************************************************************************)
EXTENDS Containers, TLC

CONSTANTS k1, k2, k3

MCKeys     == {k1, k2, k3}
MCBuckets  == {0, 1}
MCBucketOf == (k1 :> 0) @@ (k2 :> 0) @@ (k3 :> 1)
=============================================================================

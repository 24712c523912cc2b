-------------------------------- MODULE MCWDTX --------------------------------
(***************************************************************************)
(* WDTX for TLC: two transaction handles used through the Transaction      *)
(* trait itself, two keys on two stripes.                                  *)
(***************************************************************************)
EXTENDS WDTX, TLC

CONSTANTS k1, k2

MCKeys     == {k1, k2}
MCStripes  == {0, 1}
MCBuckets  == {0}
MCStripeOf == (k1 :> 0) @@ (k2 :> 1)
MCBucketOf == (k1 :> 0) @@ (k2 :> 0)
=============================================================================

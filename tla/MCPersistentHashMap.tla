------------------------- MODULE MCPersistentHashMap -------------------------
(***************************************************************************)
(* PersistentHashMap for TLC: two keys in two buckets, blocks of four       *)
(* chunks so that a record of five or three chunks crosses the end of a    *)
(* block after the first call.  MCOneKey is the key set of the run in      *)
(* which the device fails and the power is lost: there the states differ   *)
(* in what is on the device, and one key with two values is enough for a   *)
(* record to be torn, stale or overwritten.                                *)
(***************************************************************************)
EXTENDS PersistentHashMap, TLC

CONSTANTS k1, k2

MCKeys     == {k1, k2}
MCOneKey   == {k1}
MCBucketOf == (k1 :> 0) @@ (k2 :> 1) @@ (Empty :> 0) @@ (Torn :> 1)
                 @@ [v \in Values |-> 0]

\* The values are interchangeable: no definition names one of them, and a
\* value read back as a key falls into bucket 0 whichever it is.
Symmetry == Permutations(Values)
=============================================================================

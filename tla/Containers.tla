------------------------------ MODULE Containers ------------------------------
(***************************************************************************)
(* The three containers of the engine under one sequence of calls:         *)
(* SimpleSet (common/set.rs), RedoLog (cc/redo.rs) and SimpleHashMap       *)
(* (common/map.rs).  Every call is made on each container that has the     *)
(* method, so that the Vecs behind them go through the same history of     *)
(* pushes, overwrites, remove and swap_remove, in every order of keys.     *)
(***************************************************************************)
EXTENDS Naturals, Sequences, FiniteSets

CONSTANTS Keys, Values, None, Buckets, BucketOf

VARIABLES data,      \* the Vec of a SimpleSet of keys
          entries,   \* the Vec of a RedoLog
          buckets,   \* the buckets of a SimpleHashMap
          last       \* the last call

vars == <<data, entries, buckets, last>>

Set  == INSTANCE SimpleSet
Redo == INSTANCE RedoLog
Map  == INSTANCE SimpleHashMap
SeqX == INSTANCE SequencesExt

Init ==
    /\ data    = Set!New
    /\ entries = Redo!New
    /\ Map!Init
    /\ last    = None

\* set.insert(&k); log.insert(&k, &v); map.insert(&k, &v)
Insert(k, v) ==
    /\ data'    = Set!Insert(data, k)
    /\ entries' = Redo!Insert(entries, k, v)
    /\ Map!Insert(k, v)
    /\ last'    = [op |-> "insert", key |-> k, val |-> v]

\* log.update(&k, &v)
Update(k, v) ==
    /\ entries' = Redo!Update(entries, k, v)
    /\ last'    = [op |-> "update", key |-> k, val |-> v]
    /\ UNCHANGED <<data, buckets>>

\* set.remove(&k); log.remove(&k); map.remove(&k)
Remove(k) ==
    /\ data'    = Set!Remove(data, k)
    /\ entries' = Redo!Remove(entries, k)
    /\ Map!Remove(k)
    /\ last'    = [op |-> "remove", key |-> k, val |-> None]

Next == \E k \in Keys : \/ Remove(k)
                        \/ \E v \in Values : Insert(k, v) \/ Update(k, v)

Spec == Init /\ [][Next]_vars

-----------------------------------------------------------------------------
\* The refinement mapping: a container is what its readers see of it.
Abs == INSTANCE AbstractContainers WITH
           members <- SeqX!ToSet(data),
           pending <- [k \in Keys |-> Redo!Get(entries, k)],
           store   <- Map!Contents

\* The containers implement their abstractions.  Whatever the order of the
\* calls, contains()/get() after a call answer as a set and a map would:
\* find-or-append in insert, the position search and swap_remove in
\* SimpleSet::remove and RedoLog::remove, Vec::remove in the buckets.
ImplementsAbstract == Abs!Spec

\* No key twice.  A Vec holds every key at most once, and a bucket holds
\* only keys that hash to it: remove() takes out the first match only, and
\* get() returns the first match only, so a second entry of a key would
\* come back after a remove and hide a later insert.
NoDuplicates ==
    /\ Len(data) = Cardinality(SeqX!ToSet(data))
    /\ Len(entries) = Cardinality({e.key : e \in SeqX!ToSet(entries)})
    /\ \A b \in Buckets :
          /\ Len(buckets[b]) = Cardinality({e.key : e \in SeqX!ToSet(buckets[b])})
          /\ \A e \in SeqX!ToSet(buckets[b]) : BucketOf[e.key] = b
=============================================================================

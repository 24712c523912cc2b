----------------------------- MODULE SimpleSet ------------------------------
(***************************************************************************)
(* common/set.rs: SimpleSet<T>, a set kept as a Vec without duplicates.    *)
(* A transaction keeps its held stripes (locked_index) and its deleted     *)
(* keys (remove_log) in one.  The value of a set is the sequence `data`;   *)
(* each method is an operator from the old sequence to the new one.        *)
(* The order of `data` is kept because abort() and try_commit() iterate    *)
(* over it.                                                                *)
(***************************************************************************)
LOCAL INSTANCE Naturals
LOCAL INSTANCE Sequences
LOCAL SeqX == INSTANCE SequencesExt

\* SimpleSet::new
New == <<>>

\* SimpleSet::contains
Contains(data, item) == \E i \in DOMAIN data : data[i] = item

\* mutant of SwapRemove: pops the last element, whatever the position
SwapRemovePops(data, pos) == SeqX!Front(data)

\* Vec::swap_remove: the last element takes the place of the removed one.
SwapRemove(data, pos) == SeqX!Front(SeqX!ReplaceAt(data, pos, SeqX!Last(data)))

\* mutant of Insert: pushes without looking for the item
InsertAlways(data, item) == Append(data, item)

\* SimpleSet::insert
Insert(data, item) ==
    IF Contains(data, item) THEN data ELSE Append(data, item)

\* SimpleSet::remove
Remove(data, item) ==
    IF Contains(data, item)
    THEN SwapRemove(data, SeqX!SelectInSeq(data, LAMBDA x : x = item))
    ELSE data

\* SimpleSet::size
Size(data) == Len(data)
=============================================================================

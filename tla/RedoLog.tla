------------------------------ MODULE RedoLog -------------------------------
(***************************************************************************)
(* cc/redo.rs: RedoLog<K, V>, the write set of one transaction: a Vec of   *)
(* RedoEntry {key, val} holding at most one entry per key.  It is owned by *)
(* one transaction and never shared, so its methods are operators on the   *)
(* sequence `entries`.                                                     *)
(***************************************************************************)
LOCAL INSTANCE Naturals
LOCAL INSTANCE Sequences
LOCAL SeqX == INSTANCE SequencesExt

CONSTANT None       \* Option::None

\* struct RedoEntry
RedoEntry(key, val) == [key |-> key, val |-> val]

\* RedoLog::new
New == <<>>

\* The position of the first entry of `key`, 0 when there is none
\* (the iter().find / iter().position of every method).
Position(entries, key) == SeqX!SelectInSeq(entries, LAMBDA e : e.key = key)

\* RedoLog::get
Get(entries, key) ==
    IF Position(entries, key) = 0 THEN None
    ELSE entries[Position(entries, key)].val

\* RedoLog::update: a no-op when the key has no entry
Update(entries, key, new_val) ==
    IF Position(entries, key) = 0 THEN entries
    ELSE [entries EXCEPT ![Position(entries, key)].val = new_val]

\* RedoLog::insert: find-or-append
Insert(entries, key, val) ==
    IF Position(entries, key) = 0 THEN Append(entries, RedoEntry(key, val))
    ELSE Update(entries, key, val)

\* RedoLog::remove: swap_remove of the key's entry
Remove(entries, key) ==
    IF Position(entries, key) = 0 THEN entries
    ELSE SeqX!Front(SeqX!ReplaceAt(entries, Position(entries, key),
                                   SeqX!Last(entries)))

\* RedoLog::size
Size(entries) == Len(entries)
=============================================================================

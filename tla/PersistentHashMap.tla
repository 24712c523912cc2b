-------------------------- MODULE PersistentHashMap --------------------------
(***************************************************************************)
(* disk/persistentmap.rs: PersistentHashMap, the bucketed map that writes  *)
(* a record to the log on the Disk before it changes its memory, and that  *)
(* is built again from the log when the kernel starts                      *)
(* (TxKVStorePersist::new calls build_from_disk).                          *)
(*                                                                         *)
(* A record is a sequence of chunks of 8 bytes: the tag "KVKVKVKV" or      *)
(* "KVREMOVE", then for the key, and for the value of an insert, the       *)
(* length as a big-endian u64 and the bytes filled up with zeros.  Keys    *)
(* and values are strings of 1 to 8 bytes without a zero byte, so each is  *)
(* one chunk, and a length word is one chunk whose first byte is zero.     *)
(*                                                                         *)
(* The bucket mutex is held over a whole insert or remove and the Disk has *)
(* a mutex of its own, so the calls on one map happen one after another;   *)
(* what can fall between two writes of a call is a failure of the device   *)
(* or the loss of power.                                                   *)
(***************************************************************************)
EXTENDS Naturals, Sequences, FiniteSets

CONSTANTS Keys, Values,
          KV, RM,        \* the chunks "KVKVKVKV" and "KVREMOVE"
          LenWord,       \* a length word of a string of 1 to 8 bytes
          Zero,          \* eight zero bytes (also the length word of "")
          Empty, Torn,   \* the string "" and a string that is no key or value
          None, Ok, Err,
          NumBuckets, BucketOf,
          BlockChunks, NumBlocks, IOFails,
          Calls,         \* the methods the callers use
          Overfill,      \* TRUE: calls are made that run past the device's end
          MaxCrashes     \* bound: losses of power in a behaviour

ASSUME /\ Calls \subseteq {"insert", "remove", "compact_logs"}
       /\ Overfill \in BOOLEAN
       /\ MaxCrashes \in Nat

VARIABLES buckets,                   \* PersistentHashMap.buckets
          blocks, current_block, current_address_in_block, work,  \* the Disk
          pc,        \* "idle", "writing" (a call is in the Disk), "down"
          op,        \* the call in progress, then the last call
          ret,       \* what the last call returned
          crashes    \* losses of power so far

vars == <<buckets, blocks, current_block, current_address_in_block, work,
          pc, op, ret, crashes>>

Strs    == Keys \cup Values \cup {Empty, Torn}   \* what replay can decode
Chunks  == {KV, RM, LenWord, Zero} \cup Keys \cup Values
Buckets == 0 .. NumBuckets - 1
Entry   == [key : Strs, value : Strs]

D    == INSTANCE Disk WITH ZeroLead <- {Zero, LenWord}
SeqX == INSTANCE SequencesExt

-----------------------------------------------------------------------------
(* The map in memory, as functions of the buckets: replay applies them to  *)
(* a map that is not yet the one of the state.                             *)

\* with_capacity, new: empty buckets
NoEntries == [b \in Buckets |-> <<>>]

Position(bs, key) ==
    SeqX!SelectInSeq(bs[BucketOf[key]], LAMBDA e : e.key = key)

\* PersistentHashMap::get
Get(bs, key) ==
    IF Position(bs, key) = 0 THEN None
    ELSE bs[BucketOf[key]][Position(bs, key)].value

\* PersistentHashMap::insert_no_log
InsertNoLog(bs, key, value) ==
    [bs EXCEPT ![BucketOf[key]] =
        IF Position(bs, key) = 0
        THEN Append(@, [key |-> key, value |-> value])
        ELSE [@ EXCEPT ![Position(bs, key)].value = value]]

\* PersistentHashMap::remove_no_log
RemoveNoLog(bs, key) ==
    [bs EXCEPT ![BucketOf[key]] =
        IF Position(bs, key) = 0 THEN @ ELSE SeqX!RemoveAt(@, Position(bs, key))]

\* what the readers of a map see
Contents(bs) == [k \in Strs |-> Get(bs, k)]

-----------------------------------------------------------------------------
(* The codec.                                                              *)

\* ToBeBytes::len and to_vec, padded: the length word and the bytes
Field(s) ==
    CASE s = Empty -> <<Zero>>
      [] s = Torn  -> <<LenWord, Zero>>
      [] OTHER     -> <<LenWord, s>>

\* the request of insert and of compact_logs for one entry
InsertRecord(key, value) == <<KV>> \o Field(key) \o Field(value)

\* the request of remove
RemoveRecord(key) == <<RM>> \o Field(key)

\* compact_logs: one insert record per entry, bucket after bucket
Snapshot(bs) ==
    SeqX!FlattenSeq([i \in 1 .. NumBuckets |->
        SeqX!FlattenSeq([j \in DOMAIN bs[i - 1] |->
            InsertRecord(bs[i - 1][j].key, bs[i - 1][j].value)])])

\* build_from_disk reading a length word and the chunks it announces from
\* the chunks s that are left: the string, what is left after it, and
\* whether the length was that of a string of more chunks than there are
\* (the bytes of a tag, a key or a value read as a u64).
ReadField(s) ==
    CASE s[1] = Zero    -> [str |-> Empty, rest |-> Tail(s), huge |-> FALSE]
      [] s[1] = LenWord ->
            [str  |-> IF Len(s) < 2 THEN Empty
                      ELSE IF s[2] \in Keys \cup Values THEN s[2] ELSE Torn,
             rest |-> SubSeq(s, 3, Len(s)),
             huge |-> FALSE]
      [] OTHER          -> [str |-> Torn, rest |-> <<>>, huge |-> TRUE]

\* build_from_disk, the loop over the chunks: the map after the records of
\* s are applied to bs.  A record that ends early is dropped where a
\* length word is missing and applied with what there is where the bytes
\* are missing; anything but a tag ends the loop.
RECURSIVE Replay(_, _)
Replay(s, bs) ==
    IF s = <<>> \/ Head(s) \notin {KV, RM} \/ Tail(s) = <<>> THEN bs
    ELSE LET key == ReadField(Tail(s)) IN
         IF Head(s) = RM
         THEN Replay(key.rest, RemoveNoLog(bs, key.str))
         ELSE IF key.rest = <<>> THEN bs
         ELSE LET value == ReadField(key.rest) IN
              Replay(value.rest, InsertNoLog(bs, key.str, value.str))

\* build_from_disk panics in the replay: Vec::with_capacity of a length
\* that is none cannot be allocated
RECURSIVE ReplayPanics(_)
ReplayPanics(s) ==
    /\ s # <<>> /\ Head(s) \in {KV, RM} /\ Tail(s) # <<>>
    /\ LET key == ReadField(Tail(s)) IN
         \/ key.huge
         \/ Head(s) = RM /\ ReplayPanics(key.rest)
         \/ /\ Head(s) = KV /\ key.rest # <<>>
            /\ LET value == ReadField(key.rest) IN
                 value.huge \/ ReplayPanics(value.rest)

-----------------------------------------------------------------------------
Init ==
    /\ buckets = NoEntries
    /\ blocks = [b \in D!Blocks |-> D!ZeroBlock]
    /\ current_block = 0
    /\ current_address_in_block = 0
    /\ work = <<>>
    /\ pc = "idle"
    /\ op = None
    /\ ret = None
    /\ crashes = 0

\* the call goes into the Disk
Logs(call) ==
    /\ Overfill \/ \A i \in DOMAIN work' : work'[i].block \in D!Blocks
    /\ pc' = "writing"
    /\ op' = call
    /\ ret' = None
    /\ UNCHANGED <<buckets, crashes>>

\* the call returns without a change of the map
Returns(call, value) ==
    /\ ret' = value
    /\ pc' = "idle"
    /\ op' = call
    /\ UNCHANGED <<buckets, crashes>>

InsertCall(key, value) == [name |-> "insert", key |-> key, value |-> value]
RemoveCall(key)        == [name |-> "remove", key |-> key, value |-> None]
CompactCall            == [name |-> "compact_logs", key |-> None, value |-> None]

\* PersistentHashMap::insert, up to the first write of append_to_disk
Insert(key, value) ==
    /\ pc = "idle"
    /\ "insert" \in Calls
    /\ \/ /\ D!AppendToDisk(InsertRecord(key, value))
          /\ Logs(InsertCall(key, value))
       \/ D!AppendReadFails /\ Returns(InsertCall(key, value), Err)

\* mutant of Remove: the key is taken out of memory and nothing is logged
RemoveWithoutLog(key) ==
    /\ pc = "idle"
    /\ "remove" \in Calls
    /\ buckets' = RemoveNoLog(buckets, key)
    /\ ret' = Ok
    /\ op' = RemoveCall(key)
    /\ UNCHANGED <<blocks, current_block, current_address_in_block, work,
                   pc, crashes>>

\* PersistentHashMap::remove, up to the first write of append_to_disk; a
\* key that is not in the map is not logged
Remove(key) ==
    /\ pc = "idle"
    /\ "remove" \in Calls
    /\ \/ /\ Position(buckets, key) = 0
          /\ Returns(RemoveCall(key), Ok)
          /\ UNCHANGED <<blocks, current_block, current_address_in_block, work>>
       \/ /\ Position(buckets, key) # 0
          /\ \/ /\ D!AppendToDisk(RemoveRecord(key))
                /\ Logs(RemoveCall(key))
             \/ D!AppendReadFails /\ Returns(RemoveCall(key), Err)

\* PersistentHashMap::compact_logs, up to the first write of over_write_disk
CompactLogs ==
    /\ pc = "idle"
    /\ "compact_logs" \in Calls
    /\ D!OverWriteDisk(Snapshot(buckets))
    /\ Logs(CompactCall)

\* the map in memory after the call op, whose record is on the Disk
Applied(bs, call) ==
    CASE call.name = "insert" -> InsertNoLog(bs, call.key, call.value)
      [] call.name = "remove" -> RemoveNoLog(bs, call.key)
      [] OTHER                -> bs

\* mutant of WriteBlock: memory is changed at the first write of the call
WriteBlockAppliesEarly ==
    /\ pc = "writing"
    /\ D!WriteDone
    /\ buckets' = Applied(buckets, op)
    /\ \/ work' # <<>> /\ UNCHANGED <<pc, ret>>
       \/ work' = <<>> /\ pc' = "idle" /\ ret' = Ok
    /\ UNCHANGED <<op, crashes>>

\* a write of the call succeeds; after the last one the Disk returns Ok,
\* the call changes the map in memory and returns
WriteBlock ==
    /\ pc = "writing"
    /\ D!WriteDone
    /\ \/ /\ work' # <<>>
          /\ UNCHANGED <<buckets, pc, ret>>
       \/ /\ work' = <<>>
          /\ buckets' = Applied(buckets, op)
          /\ pc' = "idle"
          /\ ret' = Ok
    /\ UNCHANGED <<op, crashes>>

\* a write of the call fails: `?` returns Err and memory is left as it is
WriteError ==
    /\ pc = "writing"
    /\ D!WriteFails
    /\ Returns(op, Err)

\* the power is lost: memory is gone, the device keeps its blocks
Crash ==
    /\ pc # "down"
    /\ crashes < MaxCrashes
    /\ crashes' = crashes + 1
    /\ pc' = "down"
    /\ buckets' = NoEntries
    /\ D!New
    /\ work' = <<>>
    /\ op' = None
    /\ ret' = None
    /\ UNCHANGED blocks

\* PersistentHashMap::build_from_disk: a new Disk, the whole disk read and
\* its records applied to empty buckets
BuildFromDisk ==
    /\ pc = "down"
    /\ ~D!ReadRunsOffDevice
    /\ ~ReplayPanics(D!ReadWholeDiskLeaveBytes)
    /\ buckets' = Replay(D!ReadWholeDiskLeaveBytes, NoEntries)
    /\ D!New
    /\ pc' = "idle"
    /\ UNCHANGED <<blocks, work, op, ret, crashes>>

\* build_from_disk panics: the read of the disk fails and is unwrapped, or
\* the replay meets a length that is none
BuildPanics ==
    /\ pc = "down"
    /\ \/ IOFails
       \/ D!ReadRunsOffDevice
       \/ ~D!ReadRunsOffDevice /\ ReplayPanics(D!ReadWholeDiskLeaveBytes)
    /\ UNCHANGED vars

Next ==
    \/ \E k \in Keys : Remove(k) \/ \E v \in Values : Insert(k, v)
    \/ CompactLogs
    \/ WriteBlock
    \/ WriteError
    \/ Crash
    \/ BuildFromDisk
    \/ BuildPanics

Spec == Init /\ [][Next]_vars

-----------------------------------------------------------------------------
TypeOK ==
    /\ buckets \in [Buckets -> Seq(Entry)]
    /\ D!TypeOK
    /\ pc \in {"idle", "writing", "down"}
    /\ op \in {None} \cup [name : Calls, key : Keys \cup {None},
                           value : Values \cup {None}]
    /\ ret \in {None, Ok, Err}
    /\ crashes \in 0 .. MaxCrashes
    /\ work # <<>> <=> pc = "writing"

\* what build_from_disk would make of the device as it is
Reloaded == Contents(Replay(D!ReadWholeDiskLeaveBytes, NoEntries))

\* The log as the layout describes it: every block up to the first block
\* that is all zeros, and what its replay gives.
ZeroBlocks == {b \in D!Blocks : blocks[b] = D!ZeroBlock}
WholeLog ==
    LET last == CHOOSE b \in ZeroBlocks : \A c \in ZeroBlocks : b <= c
    IN  SeqX!FlattenSeq([i \in 1 .. last + 1 |-> blocks[i - 1]])
Logged == Contents(Replay(WholeLog, NoEntries))

\* the chunks of the device in one sequence, and where the cursor is in it
Device   == SeqX!FlattenSeq([i \in 1 .. NumBlocks |-> blocks[i - 1]])
CursorAt == current_block * BlockChunks + current_address_in_block

\* the record of a call
Record(call) ==
    IF call.name = "insert" THEN InsertRecord(call.key, call.value)
    ELSE RemoveRecord(call.key)

\* Round trip: a map that is reloaded with build_from_disk has every key
\* with the value it had.  Whenever no call is in progress, the records
\* that read_whole_disk_leave_bytes returns replay to the map in memory.
ReloadRestoresMap ==
    pc = "idle" /\ ~D!ReadRunsOffDevice
        => Reloaded = Contents(buckets)

\* The log holds the map: whenever no call is in progress, the records on
\* the device up to the block of zeros replay to the map in memory.  It is
\* what insert, remove and compact_logs owe to a later build_from_disk,
\* whichever way the blocks are read: append_to_disk has to continue the
\* log where it ends and over_write_disk has to end it where the snapshot
\* ends.
LogHoldsMap ==
    pc = "idle" /\ ZeroBlocks # {} => Logged = Contents(buckets)

\* A loss of power in the middle of a call is safe: while insert or remove
\* is writing its blocks, the device replays to the map as it was before
\* the call or as it is after it.
MidAppendReplaysSafely ==
    pc = "writing" /\ ZeroBlocks # {}
        => Logged \in {Contents(buckets), Contents(Applied(buckets, op))}

\* build_from_disk returns: whatever call the power was lost in, the next
\* start of the kernel gets a map.
RestartSucceeds ==
    pc = "down" /\ ~D!ReadRunsOffDevice
        => ~ReplayPanics(D!ReadWholeDiskLeaveBytes)

\* append_to_disk only appends: no write of insert or remove changes a
\* chunk that is before the cursor.
AppendOnly ==
    [][pc = "writing" /\ op.name # "compact_logs"
          => SubSeq(Device', 1, CursorAt) = SubSeq(Device, 1, CursorAt)]_vars

\* compact_logs leaves the snapshot at the start of the device: when it has
\* returned Ok, the first blocks hold one insert record for every entry of
\* the map and the cursor is at the end of the last one, wherever the
\* cursor was before and whatever the device held.
SnapshotAtStart ==
    pc = "idle" /\ op # None /\ op.name = "compact_logs" /\ ret = Ok
        => /\ CursorAt = Len(Snapshot(buckets))
           /\ SubSeq(Device, 1, CursorAt) = Snapshot(buckets)

\* Log before apply: when insert or remove changes the map in memory, the
\* record of the call is on the device, whole, and the cursor is at its end.
LogBeforeApply ==
    [][pc = "writing" /\ pc' # "down" /\ buckets' # buckets
          => /\ CursorAt' >= Len(Record(op))
             /\ SubSeq(Device', CursorAt' - Len(Record(op)) + 1, CursorAt')
                    = Record(op)]_vars
=============================================================================

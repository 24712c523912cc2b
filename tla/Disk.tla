-------------------------------- MODULE Disk --------------------------------
(***************************************************************************)
(* disk/disk_api.rs: Disk, the append/overwrite/read-all layer over the    *)
(* block device.  ata::read and ata::write are here what they answer, Ok   *)
(* or Err; the registers of the drive behind them are the module ATA.      *)
(*                                                                         *)
(* The unit of data is the chunk of 8 bytes: every buffer the persistent   *)
(* map hands to the Disk is a whole number of chunks.  A block of the      *)
(* device is BlockChunks chunks (64 in the code, BLOCK_SIZE = 512 bytes).  *)
(* A call writes its blocks one at a time; `work` holds the writes the     *)
(* call in progress has still to make, so that a failure of the device or  *)
(* a loss of power can fall between any two of them.                       *)
(***************************************************************************)
EXTENDS Naturals, Sequences

CONSTANTS Chunks,       \* the values of a chunk
          Zero,         \* the chunk of eight zero bytes
          ZeroLead,     \* the chunks whose first byte is zero
          BlockChunks,  \* chunks in a block
          NumBlocks,    \* blocks of the device
          IOFails       \* TRUE: a read or a write of the device can fail

ASSUME /\ Zero \in ZeroLead /\ ZeroLead \subseteq Chunks
       /\ BlockChunks \in Nat \ {0} /\ NumBlocks \in Nat \ {0}
       /\ IOFails \in BOOLEAN

VARIABLES blocks,                    \* the device: block number -> block
          current_block,             \* Disk.current_block
          current_address_in_block,  \* Disk.current_address_in_block, in chunks
          work                       \* the writes of the call in progress

LOCAL SeqX == INSTANCE SequencesExt

Blocks    == 0 .. NumBlocks - 1
ZeroBlock == [i \in 1 .. BlockChunks |-> Zero]
Cursor    == [current_block : Nat, current_address_in_block : 0 .. BlockChunks - 1]

\* One write(..)? of over_write_disk or append_to_disk still to be made:
\* the block, its data, and the values of self.current_block and
\* self.current_address_in_block when `?` returns there and when the call
\* goes on past it.
WriteItem == [block : Nat, data : [1 .. BlockChunks -> Chunks],
              failed : Cursor, done : Cursor]

TypeOK ==
    /\ blocks \in [Blocks -> [1 .. BlockChunks -> Chunks]]
    /\ [current_block |-> current_block,
        current_address_in_block |-> current_address_in_block] \in Cursor
    /\ work \in Seq(WriteItem)

\* Disk::new: the cursor starts at the first block, whatever the device holds
New ==
    /\ current_block' = 0
    /\ current_address_in_block' = 0

\* mutant of Padded: the partial block is written as it is
PaddedNot(buf) == buf

\* the last, partial block of a buffer, filled up with zeros
Padded(buf) == buf \o [i \in 1 .. BlockChunks - Len(buf) |-> Zero]

\* The writes of over_write_disk (start = 0) and append_to_disk (start =
\* current_block) for a buffer: the whole blocks, the cursor moved past
\* them, the padded rest if there is one, and the block of zeros at
\* current_block + 1.
WritePlan(start, buf) ==
    LET n      == Len(buf) \div BlockChunks
        r      == Len(buf) % BlockChunks
        before == [current_block |-> current_block,
                   current_address_in_block |-> current_address_in_block]
        past(a) == [current_block |-> start + n, current_address_in_block |-> a]
        full   == [i \in 1 .. n |->
                     [block |-> start + i - 1,
                      data |-> SubSeq(buf, (i - 1) * BlockChunks + 1, i * BlockChunks),
                      failed |-> before, done |-> before]]
        rest   == IF r = 0 THEN <<>>
                  ELSE <<[block |-> start + n,
                          data |-> Padded(SubSeq(buf, n * BlockChunks + 1, Len(buf))),
                          failed |-> past(0), done |-> past(r)]>>
        zeros  == <<[block |-> start + n + 1, data |-> ZeroBlock,
                     failed |-> past(r), done |-> past(r)]>>
    IN  full \o rest \o zeros

\* mutant of OverWriteDisk: the buffer is written from the cursor's block
OverWriteDiskAtCursor(buf) ==
    /\ work' = WritePlan(current_block, buf)
    /\ UNCHANGED <<blocks, current_block, current_address_in_block>>

\* Disk::over_write_disk, up to its first write
OverWriteDisk(buf) ==
    /\ work' = WritePlan(0, buf)
    /\ UNCHANGED <<blocks, current_block, current_address_in_block>>

\* mutant of AppendToDisk: the data of the current block is not put in front
AppendToDiskDropsPrefix(buf) ==
    /\ current_block \in Blocks
    /\ work' = WritePlan(current_block, buf)
    /\ UNCHANGED <<blocks, current_block, current_address_in_block>>

\* Disk::append_to_disk, up to its first write: the current block is read
\* and what it holds before the cursor goes in front of the buffer
AppendToDisk(buf) ==
    /\ current_block \in Blocks
    /\ work' = WritePlan(current_block,
                         SubSeq(blocks[current_block], 1, current_address_in_block)
                             \o buf)
    /\ UNCHANGED <<blocks, current_block, current_address_in_block>>

\* `read(..)?` of append_to_disk returns Err: nothing was written
AppendReadFails ==
    /\ IOFails \/ current_block \notin Blocks
    /\ UNCHANGED <<blocks, current_block, current_address_in_block, work>>

\* a `write(..)?` of the call under way is Ok: the block holds the data and
\* the call goes on to the next one
WriteDone ==
    /\ work # <<>>
    /\ Head(work).block \in Blocks
    /\ blocks' = [blocks EXCEPT ![Head(work).block] = Head(work).data]
    /\ current_block' = Head(work).done.current_block
    /\ current_address_in_block' = Head(work).done.current_address_in_block
    /\ work' = Tail(work)

\* a `write(..)?` of the call under way is Err and `?` ends the call, the
\* cursor left as the lines before have set it; the drive failed before the
\* transfer (the block keeps its data) or after it (it has the new data)
WriteFails ==
    /\ work # <<>>
    /\ IOFails \/ Head(work).block \notin Blocks
    /\ \/ UNCHANGED blocks
       \/ /\ Head(work).block \in Blocks
          /\ blocks' = [blocks EXCEPT ![Head(work).block] = Head(work).data]
    /\ current_block' = Head(work).failed.current_block
    /\ current_address_in_block' = Head(work).failed.current_address_in_block
    /\ work' = <<>>

\* The blocks a read of the whole disk stops at: those whose first byte is
\* zero (keep_reading tests one byte of the block).
StopBlocks == {b \in Blocks : blocks[b][1] \in ZeroLead}

\* read_whole_disk* returns Err: no block stops the loop before the end of
\* the device
ReadRunsOffDevice == StopBlocks = {}

\* Disk::read_whole_disk_leave_bytes: every block up to the first stop
\* block, that block included
ReadWholeDiskLeaveBytes ==
    LET last == CHOOSE b \in StopBlocks : \A c \in StopBlocks : b <= c
    IN  SeqX!FlattenSeq([i \in 1 .. last + 1 |-> blocks[i - 1]])
=============================================================================

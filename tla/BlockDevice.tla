----------------------------- MODULE BlockDevice -----------------------------
(***************************************************************************)
(* What disk/disk_api.rs takes the drive to be: blocks that hold what was  *)
(* last written to them.  A call answers Ok or Err (Result<(), ()>); a     *)
(* write that answers Ok has put its data in the block, a write that       *)
(* answers Err has put it there or left the block alone, a read that       *)
(* answers Ok gives what the block holds, and nothing but a write changes  *)
(* a block, unless the drive is Lossy and loses what it had taken.         *)
(* `reply` is the answer of the call made last.                            *)
(***************************************************************************)
CONSTANTS Blocks,   \* the block numbers of the drive
          Data,     \* what a block can hold
          Junk,     \* what the buffer of a failed read holds
          Opened,   \* the answers of Drive::open
          Lossy     \* TRUE: the drive can fail to keep a sector it has taken

VARIABLES store,    \* block -> data
          reply     \* the last answer

vars == <<store, reply>>

Replies == [op : {"read", "write"}, block : Blocks, data : Data \cup {Junk},
            res : {"Ok", "Err"}]
               \cup [op : {"open"}, res : Opened]

Init ==
    /\ store \in [Blocks -> Data]
    /\ reply \in [op : {"open"}, res : Opened]

Write(b, d) ==
    \/ /\ store' = [store EXCEPT ![b] = d]
       /\ reply' \in [op : {"write"}, block : {b}, data : {d}, res : {"Ok", "Err"}]
    \/ /\ reply' = [op |-> "write", block |-> b, data |-> d, res |-> "Err"]
       /\ UNCHANGED store

Read(b) ==
    /\ \/ reply' = [op |-> "read", block |-> b, data |-> store[b], res |-> "Ok"]
       \/ reply' \in [op : {"read"}, block : {b}, data : Data \cup {Junk},
                      res : {"Err"}]
    /\ UNCHANGED store

Open ==
    /\ reply' \in [op : {"open"}, res : Opened]
    /\ UNCHANGED store

Loses(b) ==
    /\ Lossy
    /\ \E d \in Data : store' = [store EXCEPT ![b] = d]
    /\ UNCHANGED reply

Next == \/ Open
        \/ \E b \in Blocks : Read(b) \/ Loses(b) \/ \E d \in Data : Write(b, d)

Spec == Init /\ [][Next]_vars
=============================================================================

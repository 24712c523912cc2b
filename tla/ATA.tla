--------------------------------- MODULE ATA ---------------------------------
(***************************************************************************)
(* disk/ata.rs: the PIO driver of the drive, and the drive it talks to.    *)
(*                                                                         *)
(* A call (Drive::open, read, write) holds the BUSES mutex from its first  *)
(* step to its last, so one call is in progress at a time; `plan` is what  *)
(* the call has still to do, one register access or one poll per step.     *)
(* The drive is the environment: it answers a command, aborts it, or says  *)
(* nothing, whenever it likes, between any two steps of the driver.  Its   *)
(* status register is a function of the phase it is in.                    *)
(*                                                                         *)
(* Bus::poll gives up when PIT_TICKS has moved more than PollTicks (10)    *)
(* since the poll began.  PIT_TICKS is moved by the timer interrupt, which *)
(* is taken only where interrupts are enabled: the kernel's own code after *)
(* init_interrupts, not a system call (int 0x80 enters through an          *)
(* interrupt gate, interrupts/mod.rs:44).                                  *)
(***************************************************************************)
EXTENDS Naturals, Sequences

CONSTANTS Blocks,      \* the block numbers of the drive
          Data,        \* what a block can hold
          Junk,        \* what the data register gives when nothing is offered
          PollTicks,   \* ticks a poll waits for (10)
          MaxBuses,    \* bound of the model on the length of BUSES
          Signatures,  \* what lba1/lba2 can hold after IDENTIFY
          Faults       \* what the drive may do wrong:
                       \* "absent", "floating", "abort", "media"

ASSUME /\ 0 \in Blocks /\ Junk \notin Data
       /\ PollTicks \in Nat /\ MaxBuses \in Nat
       /\ Signatures \subseteq {"Ata", "Atapi", "Sata", "Other"}
       /\ Faults \subseteq {"absent", "floating", "abort", "media"}

VARIABLES buses,     \* BUSES.len()
          plan,      \* the steps the call in progress has still to take
          call,      \* the call in progress: kind, block, buffer
          reply,     \* what the last call returned
          intr,      \* the call runs with interrupts enabled
          elapsed,   \* get_ticks() - start of the poll in progress
          dev,       \* the phase of the drive
          err,       \* the drive aborted its last command
          cmd,       \* the command the drive was given last
          lba,       \* the block the parameter registers address
          incoming,  \* the sector the drive has taken and not yet written
          media,     \* the blocks of the drive
          before     \* history: the blocks as they were when the call began

driver == <<buses, plan, call, reply, intr, elapsed, before>>
drive  == <<dev, err, cmd, lba, incoming, media>>
vars   == <<driver, drive>>

\* enum Status: the bits of the status register
Bits == {"ERR", "IDX", "CORR", "DRQ", "DSC", "DF", "DRDY", "BSY"}

\* enum Command
Commands == {"Read", "Write", "Identify"}

\* enum IdentifyResponse, and the Err of identify_drive
Responses == {"Ata", "Atapi", "Sata", "None", "Err"}

\* Bus::status: the alternate status register.  No drive reads as 0, a
\* floating bus as 0xFF.
Status ==
    CASE dev = "absent"                  -> {}
      [] dev = "floating"                -> Bits
      [] dev \in {"busy", "flush"}       -> {"BSY"}
      [] dev \in {"data_in", "data_out"} -> {"DRQ", "DRDY"}
      [] OTHER -> {"DRDY"} \cup (IF err THEN {"ERR"} ELSE {})

\* mutant of is_error: the ERR bit is not looked at
is_error_never == FALSE

\* Bus::is_error
is_error == "ERR" \in Status

poll(bit, val, of) == [t |-> "poll", bit |-> bit, val |-> val, of |-> of]

\* Bus::select_drive
select_drive ==
    <<poll("BSY", FALSE, "select"), poll("DRQ", FALSE, "select"),
      [t |-> "drive"],
      poll("BSY", FALSE, "select"), poll("DRQ", FALSE, "select")>>

\* mutant of write_command_params: the address is one block off
write_command_params_next(block) == <<[t |-> "params", block |-> block + 1]>>

\* Bus::write_command_params
write_command_params(block) == <<[t |-> "params", block |-> block]>>

\* Bus::write_command
write_command(c) ==
    <<[t |-> "command", cmd |-> c], [t |-> "check"],
      poll("BSY", FALSE, "command"), poll("DRQ", TRUE, "command")>>

\* Bus::setup_pio
setup_pio(block) == select_drive \o write_command_params(block)

\* Bus::read and Bus::write, after the test of the buffer's length
transfer(c, block) ==
    setup_pio(block) \o write_command(c) \o <<[t |-> "data"], [t |-> "is_error"]>>

\* Bus::identify_drive
identify_drive ==
    <<[t |-> "float"]>> \o select_drive \o write_command_params(0)
        \o write_command("Identify") \o <<[t |-> "signature"]>>

Steps == [t : {"poll"}, bit : Bits, val : BOOLEAN, of : {"select", "command"}]
            \cup [t : {"drive", "check", "data", "is_error", "float", "signature"}]
            \cup [t : {"params"}, block : Blocks]
            \cup [t : {"command"}, cmd : Commands]

Calls == [kind : {"read", "write"}, block : Blocks, data : Data \cup {Junk}]
            \cup [kind : {"open"}]

\* The blocks as a reader will find them: a sector the drive has taken is
\* written before the drive answers anything else.
Settled == IF dev = "flush" THEN [media EXCEPT ![lba] = incoming] ELSE media

\* The driver seen as a block device: a call changes the blocks when it
\* returns.
Abstract == INSTANCE BlockDevice WITH Opened <- Responses,
                Lossy <- "media" \in Faults,
                store <- IF plan # <<>> THEN before ELSE Settled

TypeOK ==
    /\ buses \in 0 .. MaxBuses /\ plan \in Seq(Steps) /\ call \in Calls
    /\ reply \in Abstract!Replies
    /\ intr \in BOOLEAN /\ elapsed \in 0 .. PollTicks + 1
    /\ dev \in {"idle", "busy", "data_in", "data_out", "flush", "absent", "floating"}
    /\ err \in BOOLEAN /\ cmd \in Commands /\ lba \in Blocks
    /\ incoming \in Data
    /\ media \in [Blocks -> Data] /\ before \in [Blocks -> Data]

Init ==
    /\ buses = 0 /\ plan = <<>> /\ call = [kind |-> "open"]
    /\ reply = [op |-> "open", res |-> "None"]
    /\ intr = TRUE /\ elapsed = 0
    /\ dev \in {"idle"} \cup (Faults \cap {"absent", "floating"})
    /\ err = FALSE /\ cmd = "Identify" /\ lba = 0
    /\ media \in [Blocks -> Data] /\ before = media
    /\ incoming = media[0]

-----------------------------------------------------------------------------
\* The calls.

Begins(c, steps) ==
    /\ plan = <<>>
    /\ plan' = steps /\ call' = c
    /\ intr' \in BOOLEAN /\ elapsed' = 0 /\ before' = Settled
    /\ UNCHANGED <<buses, reply, drive>>

\* ata::init: every call pushes both buses again
init == buses + 2 <= MaxBuses /\ buses' = buses + 2

\* Drive::open, as Disk::new calls it after ata::init
DriveOpen ==
    /\ plan = <<>> /\ init
    /\ plan' = identify_drive /\ call' = [kind |-> "open"]
    /\ intr' \in BOOLEAN /\ elapsed' = 0 /\ before' = Settled
    /\ UNCHANGED <<reply, drive>>

\* ata::read or ata::write with a buffer that is not a block long
WrongLength(kind, b, d) ==
    /\ plan = <<>> /\ buses > 0
    /\ reply' = [op |-> kind, block |-> b, data |-> d, res |-> "Err"]
    /\ UNCHANGED <<buses, plan, call, intr, elapsed, before, drive>>

\* ata::read
Read(b) ==
    /\ buses > 0
    /\ \/ Begins([kind |-> "read", block |-> b, data |-> Junk],
                 transfer("Read", b))
       \/ WrongLength("read", b, Junk)

\* ata::write
Write(b, d) ==
    /\ buses > 0
    /\ \/ Begins([kind |-> "write", block |-> b, data |-> d],
                 transfer("Write", b))
       \/ WrongLength("write", b, d)

-----------------------------------------------------------------------------
\* The steps of a call.

At(t) == plan # <<>> /\ Head(plan).t = t

Goes == plan' = Tail(plan) /\ elapsed' = 0

Returns(res) ==
    /\ plan' = <<>> /\ elapsed' = 0
    /\ reply' = IF call.kind = "open" THEN [op |-> "open", res |-> res]
                ELSE [op |-> call.kind, block |-> call.block,
                      data |-> call.data, res |-> res]

\* `?` on an Err; identify_drive takes an Err of write_command from a drive
\* whose status reads 0 as "no drive"
Fails ==
    Returns(IF call.kind = "open" /\ Head(plan).t \in {"check", "poll"}
               /\ (Head(plan).t = "poll" => Head(plan).of = "command")
               /\ Status = {}
            THEN "None" ELSE "Err")

\* mutant of add_tick: the timer interrupt does not count
add_tick_not(e) == e

\* timing::add_tick, as far as a poll can tell
add_tick(e) == IF e <= PollTicks THEN e + 1 ELSE e

\* timer_interrupt_handler, taken while a poll spins with interrupts enabled
Tick ==
    /\ intr /\ At("poll")
    /\ elapsed' = add_tick(elapsed) /\ elapsed' # elapsed
    /\ UNCHANGED <<buses, plan, call, reply, intr, before, drive>>

\* Bus::poll: the bit has the value waited for
PollPasses ==
    /\ At("poll") /\ (Head(plan).bit \in Status) = Head(plan).val
    /\ Goes /\ UNCHANGED <<buses, call, reply, intr, before, drive>>

\* Bus::poll: the bit has not, and more than PollTicks ticks have passed
PollTimesOut ==
    /\ At("poll") /\ (Head(plan).bit \in Status) # Head(plan).val
    /\ elapsed > PollTicks
    /\ Fails /\ UNCHANGED <<buses, call, intr, before, drive>>

\* Bus::check_floating_bus in identify_drive
CheckFloatingBus ==
    /\ At("float")
    /\ IF Status \in {Bits, Bits \ {"BSY"}}
       THEN Returns("None")
       ELSE Goes /\ UNCHANGED reply
    /\ UNCHANGED <<buses, call, intr, before, drive>>

\* select_drive writes the drive register and waits
WriteDriveRegister ==
    /\ At("drive")
    /\ Goes /\ UNCHANGED <<buses, call, reply, intr, before, drive>>

\* write_command_params writes the count and the address
WriteParams ==
    /\ At("params")
    /\ lba' = Head(plan).block
    /\ Goes
    /\ UNCHANGED <<buses, call, reply, intr, before, dev, err, cmd,
                   incoming, media>>

\* write_command writes the command register and waits: a drive that is
\* there and not busy takes the command
WriteCommand ==
    /\ At("command")
    /\ IF dev \in {"idle", "data_in", "data_out"}
       THEN dev' = "busy" /\ err' = FALSE /\ cmd' = Head(plan).cmd
       ELSE UNCHANGED <<dev, err, cmd>>
    /\ Goes
    /\ UNCHANGED <<buses, call, reply, intr, before, lba, incoming, media>>

\* write_command reads the status: 0 is no drive, ERR an aborted command
CheckStatus ==
    /\ At("check")
    /\ IF Status = {} \/ is_error
       THEN Fails
       ELSE Goes /\ UNCHANGED reply
    /\ UNCHANGED <<buses, call, intr, before, drive>>

\* The 128 reads or writes of the data register.  A drive that does not
\* offer data gives Junk, one that does not ask for data ignores it.
Transfer ==
    /\ At("data")
    /\ IF call.kind = "read"
       THEN /\ call' = [call EXCEPT !.data = IF dev = "data_in" THEN media[lba]
                                              ELSE Junk]
            /\ dev' = IF dev = "data_in" THEN "idle" ELSE dev
            /\ UNCHANGED incoming
       ELSE /\ IF dev = "data_out"
               THEN dev' = "flush" /\ incoming' = call.data
               ELSE UNCHANGED <<dev, incoming>>
            /\ UNCHANGED call
    /\ Goes
    /\ UNCHANGED <<buses, reply, intr, before, err, cmd, lba, media>>

\* is_error at the end of Bus::read and Bus::write
IsError ==
    /\ At("is_error")
    /\ Returns(IF is_error THEN "Err" ELSE "Ok")
    /\ UNCHANGED <<buses, call, intr, before, drive>>

\* identify_drive matches what lba1 and lba2 read as; only for an ATA drive
\* is the sector of IDENTIFY read
Signature ==
    /\ At("signature")
    /\ \E sig \in Signatures :
          /\ Returns(IF sig = "Other" THEN "Err" ELSE sig)
          /\ dev' = IF sig = "Ata" /\ dev = "data_in" THEN "idle" ELSE dev
    /\ UNCHANGED <<buses, call, intr, before, err, cmd, lba, incoming, media>>

Step == \/ PollPasses \/ PollTimesOut \/ CheckFloatingBus
        \/ WriteDriveRegister \/ WriteParams \/ WriteCommand \/ CheckStatus
        \/ Transfer \/ IsError \/ Signature

-----------------------------------------------------------------------------
\* The drive.

\* the drive has the data of a read or of IDENTIFY, or asks for the data
\* of a write
DriveAnswers ==
    /\ dev = "busy"
    /\ dev' = IF cmd = "Write" THEN "data_out" ELSE "data_in"
    /\ UNCHANGED <<driver, err, cmd, lba, incoming, media>>

\* the drive aborts the command
DriveAborts ==
    /\ dev = "busy" /\ "abort" \in Faults
    /\ dev' = "idle" /\ err' = TRUE
    /\ UNCHANGED <<driver, cmd, lba, incoming, media>>

\* the drive writes the sector it has taken
DriveWrites ==
    /\ dev = "flush"
    /\ dev' = "idle" /\ media' = [media EXCEPT ![lba] = incoming]
    /\ UNCHANGED <<driver, err, cmd, lba, incoming>>

\* the drive cannot write the sector it has taken: the block is what it was,
\* also for the call in progress
DriveWriteFails ==
    /\ dev = "flush" /\ "media" \in Faults
    /\ dev' = "idle" /\ err' = TRUE
    /\ before' = [before EXCEPT ![lba] = media[lba]]
    /\ UNCHANGED <<buses, plan, call, reply, intr, elapsed>>
    /\ UNCHANGED <<cmd, lba, incoming, media>>

Next ==
    \/ DriveOpen
    \/ \E b \in Blocks : Read(b)
    \/ \E b \in Blocks, d \in Data : Write(b, d)
    \/ Tick
    \/ PollPasses
    \/ PollTimesOut
    \/ CheckFloatingBus
    \/ WriteDriveRegister
    \/ WriteParams
    \/ WriteCommand
    \/ CheckStatus
    \/ Transfer
    \/ IsError
    \/ Signature
    \/ DriveAnswers
    \/ DriveAborts
    \/ DriveWrites
    \/ DriveWriteFails

\* The processor runs the call, and the timer ticks where interrupts are
\* enabled; nothing makes the drive answer.
Spec == Init /\ [][Next]_vars /\ WF_vars(Step) /\ WF_vars(Tick)

-----------------------------------------------------------------------------
\* The driver is a block device: read and write of disk/ata.rs answer as
\* disk/disk_api.rs takes them to.  A write that returns Ok has put its
\* buffer in the block, also when the drive answered late, after a poll of
\* an earlier call had given up; a read that returns Ok gives the block;
\* and a call that gives up in select_drive or write_command leaves every
\* block as it was.
ImplementsBlockDevice == Abstract!Spec

\* A call made with interrupts enabled returns, whatever the drive does:
\* every loop of Bus::poll ends, by the bit or by the timer interrupt
\* moving PIT_TICKS past the poll's limit.
CallReturns == (plan # <<>> /\ intr) ~> (plan = <<>>)

\* Every call returns.  Bus::poll prints "ATA hanged while polling" and
\* returns Err when the drive does not answer.
EveryCallReturns == (plan # <<>>) ~> (plan = <<>>)
=============================================================================

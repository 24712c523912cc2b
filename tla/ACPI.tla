-------------------------------- MODULE ACPI --------------------------------
(***************************************************************************)
(* acpi/mod.rs: what the kernel reads from the tables of the firmware.     *)
(*                                                                         *)
(*   lib.rs init -> acpi::init -> RSDT::checksum_valid, num_tables, table  *)
(*       -> MADT::checksum_valid, num_entries, ith_entry_type,             *)
(*          get_lapic_at_index, get_ioapic_at_index -> CPUData::add        *)
(*                                                                         *)
(* The code holds a table by the address of its first byte and reads it    *)
(* byte by byte: `memory` gives, for an address, the bytes from there on.  *)
(* An entry of the MADT is found by walking from the first one, each as    *)
(* long as its second byte says, and every method walks again from the     *)
(* start.  A call returns a record: res is "Ok", "Err", "panic", or "spin" *)
(* for a loop that does not end.                                           *)
(***************************************************************************)
EXTENDS Naturals, Sequences, FiniteSetsExt, SequencesExt

CONSTANT CPUS     \* CPUData: cpus is [Option<LAPICInfo>; 64]

VARIABLE memory   \* address -> the bytes from this address on

\* core::mem::size_of::<ACPISDTHeader>()
SIZE == 36

\* the signature of the MADT, "APIC"
APIC == <<65, 80, 73, 67>>

\* the offset of the first entry of the MADT
ENTRIES == 44

Ok(val) == [res |-> "Ok", val |-> val]
Err == [res |-> "Err"]
Panic == [res |-> "panic"]
Spin == [res |-> "spin"]

\* *ptr.wrapping_add(i)
byte(ptr, i) == memory[ptr][i + 1]

\* copy_nonoverlapping of 4 bytes to a u32: the first byte is the lowest
u32(ptr, i) ==
    byte(ptr, i) + 256 * byte(ptr, i + 1) + 65536 * byte(ptr, i + 2)
        + 16777216 * byte(ptr, i + 3)

\* ACPISDTHeader::load, for the fields that are read
load(ptr) ==
    [signature |-> [i \in 1 .. 4 |-> byte(ptr, i - 1)],
     length    |-> u32(ptr, 4),
     checksum  |-> byte(ptr, 9)]

\* ACPISDTHeader::signature_str expects UTF-8.  (The signatures of the
\* model are ASCII, or hold a byte of no UTF-8 text.)
signature_str(header) ==
    IF \A i \in 1 .. 4 : header.signature[i] < 128
    THEN Ok(header.signature) ELSE Panic

\* checksum.wrapping_add(byte) over bytes: their sum modulo 256, which the
\* model takes by halves
RECURSIVE wrapping_add(_)
wrapping_add(bytes) ==
    LET half == Len(bytes) \div 2
    IN  IF Len(bytes) <= 1 THEN FoldLeft(+, 0, bytes)
        ELSE (wrapping_add(SubSeq(bytes, 1, half))
                + wrapping_add(SubSeq(bytes, half + 1, Len(bytes)))) % 256

\* RSDT::checksum_valid and MADT::checksum_valid
checksum_valid(ptr) ==
    wrapping_add(SubSeq(memory[ptr], 1, load(ptr).length)) = 0

\* RSDT::num_tables: the subtraction is of usize
num_tables(ptr) ==
    IF load(ptr).length < SIZE THEN Panic
    ELSE Ok((load(ptr).length - SIZE) \div 4)

\* RSDT::table
table(ptr, i) == u32(ptr, SIZE + 4 * i)

-----------------------------------------------------------------------------
\* MADT: an entry begins with its type and its length
entry_type(ptr, at) == byte(ptr, at)

len(ptr, at) == byte(ptr, at + 1)

\* mutant of irq_source: the byte after the length
irq_source_bus(ptr, at) == byte(ptr, at + 2)

\* Interrupt Source Override: the IRQ it is about
irq_source(ptr, at) == byte(ptr, at + 3)

\* MADT::num_entries
RECURSIVE count_entries(_, _, _)
count_entries(ptr, at, count) ==
    IF at >= load(ptr).length THEN Ok(count)
    ELSE IF entry_type(ptr, at) = 2 /\ irq_source(ptr, at) = 1 THEN Panic
    ELSE IF len(ptr, at) = 0 THEN Spin
    ELSE count_entries(ptr, at + len(ptr, at), count + 1)

num_entries(ptr) == count_entries(ptr, ENTRIES, 0)

\* the loop of ith_entry_type, get_ioapic_at_index and get_lapic_at_index:
\* where entry i begins, 0 when the table ends before it
RECURSIVE seek(_, _, _)
seek(ptr, at, i) ==
    IF at >= load(ptr).length THEN 0
    ELSE IF i = 0 THEN at
    ELSE seek(ptr, at + len(ptr, at), i - 1)

\* MADT::ith_entry_type
ith_entry_type(ptr, i) ==
    LET at == seek(ptr, ENTRIES, i)
    IN  IF at = 0 THEN Panic ELSE Ok(entry_type(ptr, at))

\* MADT::get_ioapic_at_index and IOAPICInfo
get_ioapic_at_index(ptr, i) ==
    LET at == seek(ptr, ENTRIES, i)
    IN  IF at = 0 \/ entry_type(ptr, at) # 1 THEN Err
        ELSE Ok([id   |-> byte(ptr, at + 2), addr |-> u32(ptr, at + 4),
                 gsib |-> u32(ptr, at + 8)])

\* MADT::get_lapic_at_index and LAPICInfo
get_lapic_at_index(ptr, i) ==
    LET at == seek(ptr, ENTRIES, i)
    IN  IF at = 0 \/ entry_type(ptr, at) # 0 THEN Err
        ELSE Ok([proc_id |-> byte(ptr, at + 2), apic_id |-> byte(ptr, at + 3),
                 flags   |-> u32(ptr, at + 4)])

-----------------------------------------------------------------------------
\* the entries 0 .. n - 1 of the type asked for, in the order of the table
of_type(ptr, n, type) ==
    SelectSeq([i \in 1 .. n |-> i - 1],
              LAMBDA entry : ith_entry_type(ptr, entry).val = type)

\* acpi::init, for a table with the signature APIC: the processors, and the
\* first IOAPIC if there is one
madt(ptr, cpus) ==
    LET n      == num_entries(ptr)
        lapics == of_type(ptr, n.val, 0)
        found  == cpus \o [e \in DOMAIN lapics |->
                              get_lapic_at_index(ptr, lapics[e]).val]
        ioapics == of_type(ptr, n.val, 1)
    IN  IF ~checksum_valid(ptr) THEN Panic
        ELSE IF n.res # "Ok" THEN n
        ELSE IF Len(found) > CPUS THEN Panic
        ELSE IF ioapics = <<>> THEN [res |-> "Err", cpus |-> found]
        ELSE Ok([ioapic |-> get_ioapic_at_index(ptr, ioapics[1]).val,
                 cpus   |-> found])

\* acpi::init, the loop over the tables of the RSDT from table i on
RECURSIVE tables(_, _, _)
tables(rsdt, i, cpus) ==
    LET ptr    == table(rsdt, i)
        header == load(ptr)
        apic   == madt(ptr, cpus)
    IN  IF i >= num_tables(rsdt).val THEN Err
        ELSE IF signature_str(header).res # "Ok" THEN Panic
        ELSE IF header.signature # APIC THEN tables(rsdt, i + 1, cpus)
        ELSE IF apic.res = "Err" THEN tables(rsdt, i + 1, apic.cpus)
        ELSE apic

\* acpi::init
init(rsdt_addr) ==
    IF ~checksum_valid(rsdt_addr) \/ num_tables(rsdt_addr).res # "Ok"
    THEN Panic
    ELSE tables(rsdt_addr, 0, <<>>)

-----------------------------------------------------------------------------
(***************************************************************************)
(* What the tables say, for the properties: a MADT read once, from its     *)
(* first entry to its last.                                                *)
(***************************************************************************)
RECURSIVE Entries(_, _)
Entries(ptr, at) ==
    IF at >= load(ptr).length THEN <<>>
    ELSE IF len(ptr, at) = 0 THEN <<at>>
    ELSE <<at>> \o Entries(ptr, at + len(ptr, at))

OfType(ptr, type) ==
    SelectSeq(Entries(ptr, ENTRIES), LAMBDA at : entry_type(ptr, at) = type)

\* the tables the RSDT lists
Listed(rsdt) ==
    [i \in 1 .. (load(rsdt).length - SIZE) \div 4 |-> table(rsdt, i - 1)]

IsMadt(ptr) == load(ptr).signature = APIC

\* a table the code can read: text as its signature and, in a MADT, the
\* bytes adding up to zero, entries that have a length, and IRQ 1 where
\* the code takes it to be
Sound(ptr) ==
    /\ \A i \in 1 .. 4 : load(ptr).signature[i] < 128
    /\ IsMadt(ptr) =>
          /\ checksum_valid(ptr)
          /\ \A at \in ToSet(Entries(ptr, ENTRIES)) :
                /\ len(ptr, at) # 0
                /\ entry_type(ptr, at) = 2 => byte(ptr, at + 3) # 1

\* the place in the RSDT of the first MADT that has an IOAPIC, 0 if none
WithIoapic(rsdt) ==
    LET has == {i \in DOMAIN Listed(rsdt) :
                  /\ IsMadt(Listed(rsdt)[i])
                  /\ OfType(Listed(rsdt)[i], 1) # <<>>}
    IN  IF has = {} THEN 0 ELSE Min(has)

\* the tables are such that the kernel can go on: there is an IOAPIC, the
\* tables up to its MADT are sound and name at most CPUS processors
Good(rsdt) ==
    LET k == WithIoapic(rsdt)
        processors(i) == IF IsMadt(Listed(rsdt)[i])
                         THEN Len(OfType(Listed(rsdt)[i], 0)) ELSE 0
    IN  /\ load(rsdt).length >= SIZE /\ checksum_valid(rsdt)
        /\ k # 0
        /\ \A i \in 1 .. k : Sound(Listed(rsdt)[i])
        /\ FoldLeft(LAMBDA sum, i : sum + processors(i), 0,
                    [i \in 1 .. k |-> i]) <= CPUS

\* where the registers of the first IOAPIC are
FirstIoapic(rsdt) ==
    LET ptr == Listed(rsdt)[WithIoapic(rsdt)]
    IN  u32(ptr, OfType(ptr, 1)[1] + 4)
=============================================================================

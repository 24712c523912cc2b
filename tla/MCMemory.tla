------------------------------ MODULE MCMemory ------------------------------
(***************************************************************************)
(* Memory with pages of 4 units and tables of 4 entries: 64 pages, of      *)
(* which the boot loader's table maps the first 32.  As on a PC there is a *)
(* low memory area that ends inside a frame, a hole with the VGA buffer,   *)
(* and an area that begins with the kernel; the user's code, stack and     *)
(* heap are pages below the kernel's.                                      *)
(***************************************************************************)
EXTENDS Memory

MCBootMapped == 0 .. 31
MCBootTables == {<<3, 0>>, <<2, 0>>, <<2, 1>>}

Low == [start |-> 0, size |-> 38]

Areas == {{Low, [start |-> 64, size |-> 128]},
          {Low, [start |-> 62, size |-> 130]},
          {Low, [start |-> 64, size |-> 56]}}

Sections == {<<[start |-> 64, end |-> 72]>>,
             <<[start |-> 64, end |-> 68], [start |-> 68, end |-> 74]>>}

Multiboots == {[start |-> 76, end |-> 82], [start |-> 81, end |-> 84],
               [start |-> 20, end |-> 26]}

Elfs == [magic : {TRUE}, parses : {TRUE},
         segments : {{[address |-> 0, size |-> 3]},
                     {[address |-> 0, size |-> 1], [address |-> 4, size |-> 4]},
                     {[address |-> 8, size |-> 4]},
                     {[address |-> 0, size |-> 14]}},
         relocations : {{}, {[kind |-> "relative", address |-> 1]}}]
        \cup [magic : BOOLEAN, parses : {FALSE}, segments : {{}},
              relocations : {{}}]
        \cup [magic : {TRUE}, parses : {TRUE},
              segments : {{[address |-> 0, size |-> 4]}},
              relocations : {{[kind |-> "other", address |-> 1]}}]

-----------------------------------------------------------------------------
\* The tables of the firmware, byte by byte.
le(n) == <<n % 256, (n \div 256) % 256, (n \div 65536) % 256, 0>>

Zeros(n) == [i \in 1 .. n |-> 0]

\* a table with its header: the length, and the checksum byte that makes
\* the bytes add up to `sum`
Table(signature, body, sum) ==
    LET length == 36 + Len(body)
        rest   == signature \o le(length) \o <<1>> \o Zeros(26) \o body
        total  == ACPI!wrapping_add(rest)
    IN  signature \o le(length) \o <<1, (256 + sum - total) % 256>>
            \o Zeros(26) \o body \o Zeros(12)

\* the entries of a MADT: a processor, an IOAPIC, an interrupt source
\* override, the NMI of the local APICs, and an entry of no length
Lapic(id) == <<0, 8, id, id, 1, 0, 0, 0>>
Ioapic(id, addr) == <<1, 12, id, 0>> \o le(addr) \o le(0)
Override(irq, gsi) == <<2, 10, 0, irq>> \o le(gsi) \o <<0, 0>>
Nmi == <<4, 6, 255, 0, 0, 1>>
Empty == <<5, 0>>

Entries == {Lapic(0), Lapic(1), Ioapic(0, 224), Ioapic(1, 228),
            Override(0, 2), Override(1, 1), Nmi, Empty}

Madt(entries, sum) ==
    Table(<<65, 80, 73, 67>>, le(240) \o le(1) \o FlattenSeq(entries), sum)

Facp == Table(<<70, 65, 67, 80>>, Zeros(8), 0)

\* the RSDT at 100 and the tables it points to, from 101 on
Rsdt(tbls, sum) ==
    100 :> Table(<<82, 83, 68, 84>>,
                 FlattenSeq([i \in DOMAIN tbls |-> le(100 + i)]), sum)
        @@ [a \in {100 + i : i \in DOMAIN tbls} |-> tbls[a - 100]]

\* an RSDT whose length is less than a header
Short ==
    100 :> (<<82, 83, 68, 84>> \o le(32) \o <<1, 162>> \o Zeros(38))

\* what QEMU hands over
Qemu == <<Lapic(0), Ioapic(0, 224), Override(0, 2), Override(5, 5), Nmi>>

Firmwares ==
    {Rsdt(<<Facp, Madt(entries, 0)>>, 0) : entries \in BoundedSeq(Entries, 3)}
        \cup {Rsdt(<<Facp, Madt(Qemu, 0)>>, 1), Rsdt(<<Facp, Madt(Qemu, 1)>>, 0),
              Rsdt(<<Facp>>, 0), Rsdt(<<>>, 0), Short,
              Rsdt(<<Madt(<<Lapic(0)>>, 0), Madt(<<Lapic(1), Ioapic(0, 224)>>, 0)>>, 0),
              Rsdt(<<Table(<<255, 65, 67, 80>>, Zeros(8), 0), Madt(Qemu, 0)>>, 0),
              Rsdt(<<Madt(<<Lapic(0), Lapic(1), Lapic(1), Ioapic(0, 224)>>, 0)>>, 0),
              Rsdt(<<Madt(<<Lapic(0), Lapic(1)>>, 0), Madt(<<Lapic(1), Ioapic(0, 224)>>, 0)>>, 0)}

Usual ==
    [areas : Areas, sections : Sections, multiboot : Multiboots,
     module : {None, [start |-> 84, end |-> 92]}, elf : Elfs,
     command_line : {"", "test"}, p4 : {16}, rsdt_addr : {100},
     memory : {Rsdt(<<Facp, Madt(Qemu, 0)>>, 0)},
     msr : {[base |-> 240, flags |-> {"EN", "BSP"}]},
     lapic : {(32 :> 0) @@ (256 :> 0)}, tsc : {3000}]

One == CHOOSE boot \in Usual :
          boot.module # None /\ boot.command_line = "" /\ boot.elf.parses

MCBoots ==
    Usual \cup {[One EXCEPT !.memory = m] : m \in Firmwares}
          \cup {[One EXCEPT !.msr.flags = f] : f \in SUBSET {"EN", "BSP"}}
          \cup {[One EXCEPT !.lapic = (32 :> 2 ^ 24) @@ (256 :> 0)]}
          \cup {[One EXCEPT !.tsc = mhz] : mhz \in {500, 700, 1000}}
=============================================================================

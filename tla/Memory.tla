------------------------------- MODULE Memory -------------------------------
(***************************************************************************)
(* Physical frames and virtual pages, from the boot loader's hand-over to  *)
(* the jump to user space.                                                 *)
(*                                                                         *)
(*   kernel_main -> init -> enable_nxe_bit, enable_write_protect_bit,      *)
(*       acpi::init, timing::init, gdt::init, init_idt,                    *)
(*       AreaFrameAllocator::new, init_pic -> LAPIC::init, IOAPIC::init    *)
(*       init_interrupts, remap_the_kernel, init_heap, init_nanosleep      *)
(*   kernel_main -> initproc -> Module::init, InitExec::setup ->           *)
(*       map_memory, change_map_memory, map_memory_expect                  *)
(*                                                                         *)
(* One processor runs this code and no interrupt handler touches a frame   *)
(* or a page, so the calls happen in the order of the source: `plan` is    *)
(* what is left of them.  From init_interrupts on the timer and the        *)
(* keyboard interrupt are taken between two calls; their handlers write to *)
(* the local APIC, count the tick init_nanosleep waits for and, for a key, *)
(* take memory of the heap.  What varies is                                *)
(* what the machine hands over: the tables of the firmware, the memory     *)
(* areas, where the kernel, the boot information and the module lie, and   *)
(* what the module holds.  An address is a number of units of              *)
(* which PAGE_SIZE make a page; a page table is the pages it maps (`entry`)*)
(* and the tables below its P4 that exist (`next`).                        *)
(***************************************************************************)
EXTENDS Integers, Sequences, FiniteSets, SequencesExt

CONSTANTS PAGE_SIZE,       \* 4096
          ENTRY_COUNT,     \* 512, the entries of a table
          MaxPage,         \* the last page of the canonical lower half
          Boots,           \* what a boot loader can hand over
          BootMapped,      \* the pages boot.asm maps, as huge pages
          BootTables,      \* the tables boot.asm has made
          VGA,             \* 0xb8000
          TMP_PAGE,        \* the page 0xdeadbeaf
          HEAP_START, HEAP_SIZE,            \* memory::allocator
          CODE_PTR, STACK_PTR, STACK_SIZE,  \* InitExec::setup
          USER_HEAP_PTR, USER_HEAP_SIZE,
          CPUS,            \* acpi::CPUData: 64 processors
          None

VARIABLES boot_info,   \* the BootInformation, the APIC and the ACPI tables
          plan,        \* the calls still to make
          allocator,   \* AreaFrameAllocator: current_area, next_free_frame
          tiny,        \* the TinyAllocator of the temporary page
          tables,      \* the boot loader's page table and the kernel's
          cr3,         \* the table the processor walks
          mapper,      \* the table P4[511] leads to: the one a Mapper edits
          p4_frame,    \* InactivePageTable: p4_frame of the kernel's table
          state,       \* "up", "user", "halt", "panic", "fault", "spin",
                       \* "double fault" or "reset"
          LOCAL_APIC,  \* interrupts::LOCAL_APIC: ptr
          IOAPIC,      \* interrupts::IOAPIC: ptr, and the registers written
          interrupts,  \* the interrupt flag of the processor
          heap,        \* ALLOCATOR has its memory
          machine,     \* EFER, CR0, the descriptor tables loaded, the PIT
          PIT_TICKS,   \* timing::PIT_TICKS less start_pit of init_nanosleep
          NANOSECONDS_PER_TICK,
          handed       \* history: the frames AreaFrameAllocator returned

vars == <<boot_info, plan, allocator, tiny, tables, cr3, mapper, p4_frame,
          state, LOCAL_APIC, IOAPIC, interrupts, heap, machine, PIT_TICKS,
          NANOSECONDS_PER_TICK, handed>>

ACPI == INSTANCE ACPI WITH memory <- boot_info.memory

\* The memory as the functions below pass it on.
Now == [allocator |-> allocator, tiny |-> tiny, tables |-> tables,
        cr3 |-> cr3, mapper |-> mapper, p4_frame |-> p4_frame,
        state |-> state, LOCAL_APIC |-> LOCAL_APIC, IOAPIC |-> IOAPIC,
        interrupts |-> interrupts, heap |-> heap, machine |-> machine,
        PIT_TICKS |-> PIT_TICKS,
        NANOSECONDS_PER_TICK |-> NANOSECONDS_PER_TICK, handed |-> handed]

stops(m, how) == [m EXCEPT !.state = how]

\* what follows a call that has panicked is not run
Then(m, Op(_)) == IF m.state = "up" THEN Op(m) ELSE m

-----------------------------------------------------------------------------
\* translation.rs: Frame and Page
containing_address(address) == address \div PAGE_SIZE

start_address(number) == number * PAGE_SIZE

range_inclusive(start, end) == [i \in 1 .. (end + 1 - start) |-> start + i - 1]

\* the frames a span of addresses lies in (its end is the first address
\* after it)
frames(span) ==
    range_inclusive(containing_address(span.start),
                    containing_address(span.end - 1))

-----------------------------------------------------------------------------
\* frameallocator.rs
last_frame(area) == containing_address(area.start + area.size - 1)

choose_next_area(next_free_frame) ==
    LET ahead == {area \in boot_info.areas : last_frame(area) >= next_free_frame}
        area  == IF ahead = {} THEN None
                 ELSE CHOOSE a \in ahead : \A b \in ahead : a.start <= b.start
    IN  [current_area |-> area,
         next_free_frame |->
            IF area # None /\ next_free_frame < containing_address(area.start)
            THEN containing_address(area.start) ELSE next_free_frame]

\* AreaFrameAllocator::new
new == choose_next_area(containing_address(0))

\* kernel_main: the kernel is its sections, from the lowest start to the
\* highest end
kernel == [start |-> Min({s.start : s \in ToSet(boot_info.sections)}),
           end   |-> Max({s.end : s \in ToSet(boot_info.sections)})]

\* mutant of reserved: `frame > kernel_start`
reserved_after_start(span) ==
    containing_address(span.start) + 1 .. containing_address(span.end)

\* the frames allocate_frame steps over for a span: kernel_start to
\* kernel_end, multiboot_start to multiboot_end
reserved(span) ==
    containing_address(span.start) .. containing_address(span.end)

RECURSIVE allocate_frame(_)
allocate_frame(a) ==
    LET frame == a.next_free_frame
        after(span) == allocate_frame(
            [a EXCEPT !.next_free_frame = containing_address(span.end) + 1])
    IN  IF a.current_area = None
        THEN [frame |-> None, allocator |-> a]
        ELSE IF frame > last_frame(a.current_area)
        THEN allocate_frame(choose_next_area(frame))
        ELSE IF frame \in reserved(kernel) THEN after(kernel)
        ELSE IF frame \in reserved(boot_info.multiboot)
        THEN after(boot_info.multiboot)
        ELSE [frame |-> frame,
              allocator |-> [a EXCEPT !.next_free_frame = frame + 1]]

\* mutant of take: the frame stays in the TinyAllocator
take_clones(m, i) == m

\* TinyAllocator::allocate_frame: frame_option.take()
take(m, i) == [m EXCEPT !.tiny[i] = None]

\* FrameAllocator::allocate_frame, of the AreaFrameAllocator ("area") or
\* of the TinyAllocator ("tiny"): the frame, and the memory after the call
allocate(m, from) ==
    LET got  == allocate_frame(m.allocator)
        some == {i \in DOMAIN m.tiny : m.tiny[i] # None}
    IN  CASE from = "area" /\ got.frame = None ->
               [frame |-> None, m |-> m]
          [] from = "area" /\ got.frame # None ->
               [frame |-> got.frame,
                m |-> [m EXCEPT !.allocator = got.allocator,
                                !.handed = Append(@, got.frame)]]
          [] from = "tiny" /\ some = {} ->
               [frame |-> None, m |-> stops(m, "panic")]
          [] from = "tiny" /\ some # {} ->
               [frame |-> m.tiny[Min(some)], m |-> take(m, Min(some))]

\* TinyAllocator::new
TinyAllocator(m) ==
    LET one   == allocate(m, "area")
        two   == allocate(one.m, "area")
        three == allocate(two.m, "area")
    IN  [three.m EXCEPT !.tiny = <<one.frame, two.frame, three.frame>>]

-----------------------------------------------------------------------------
\* mapper.rs.  A Mapper edits the table `mapper` names.
translate_page(m, page) ==
    LET entry == m.tables[m.mapper].entry
    IN  IF page \in DOMAIN entry THEN entry[page].frame ELSE None

huge(m, page) == "HUGE_PAGE" \in m.tables[m.mapper].entry[page].flags

\* the P3, the P2 and the P1 table of a page
table(level, page) == <<level, page \div (ENTRY_COUNT ^ level)>>

\* Table::next_table_create: the table, made of a fresh frame if there is
\* none
next_table_create(m, id, from) ==
    LET got == allocate(m, from)
    IN  IF id \in DOMAIN m.tables[m.mapper].next THEN m
        ELSE IF got.frame = None THEN stops(got.m, "panic")
        ELSE [got.m EXCEPT !.tables[m.mapper].next = @ @@ (id :> got.frame)]

map_to(m, page, frame, flags, from) ==
    LET create(made, level) ==
            Then(made, LAMBDA v : next_table_create(v, table(level, page), from))
        set(made) ==
            [made EXCEPT !.tables[m.mapper].entry =
                @ @@ (page :> [frame |-> frame, flags |-> flags \cup {"PRESENT"}])]
    IN  IF translate_page(m, page) # None THEN stops(m, "panic")
        ELSE Then(FoldLeft(create, m, <<3, 2, 1>>), set)

map(m, page, flags) ==
    LET got == allocate(m, "area")
    IN  IF translate_page(m, page) # None \/ got.frame = None
        THEN stops(m, "panic")
        ELSE map_to(got.m, page, got.frame, flags, "area")

identity_map(m, frame, flags) ==
    IF translate_page(m, frame) # None THEN stops(m, "panic")
    ELSE map_to(m, frame, frame, flags, "area")

try_identity_map(m, frame, flags) ==
    IF translate_page(m, frame) # None THEN m
    ELSE map_to(m, frame, frame, flags, "area")

unmap(m, page) ==
    IF translate_page(m, page) = None \/ huge(m, page) THEN stops(m, "panic")
    ELSE [m EXCEPT !.tables[m.mapper].entry =
                      [p \in DOMAIN @ \ {page} |-> @[p]]]

change_flags(m, page, flags) ==
    IF translate_page(m, page) = None \/ huge(m, page) THEN stops(m, "panic")
    ELSE [m EXCEPT !.tables[m.mapper].entry[page].flags =
                      flags \cup {"PRESENT"}]

-----------------------------------------------------------------------------
\* memory/mod.rs
pages(addr, length) ==
    range_inclusive(containing_address(addr), containing_address(addr + length))

map_pages(m, range, flags) ==
    FoldLeft(LAMBDA made, p : Then(made, LAMBDA v : map(v, p, flags)), m, range)

\* map_memory_impl and map_memory_expect_impl: the range asked for is taken
\* when it is above 0x1000 and no page of it is mapped
fits(m, addr, length) ==
    /\ addr # 0 /\ addr > PAGE_SIZE
    /\ \A p \in ToSet(pages(addr, length)) : translate_page(m, p) = None

\* map_memory_impl, the loop from 0x1000: it goes on while a page of the
\* range is not mapped.  It leaves the loop at a range that is mapped, where
\* Mapper::map panics; it leaves the lower half of the address space, where
\* Page::containing_address panics; or it stays where it is.
RECURSIVE search(_, _, _)
search(m, start_page, length) ==
    LET end_page == containing_address(start_address(start_page) + length)
        range == start_page .. end_page
        found == {p \in range : translate_page(m, p) # None}
    IN  IF end_page > MaxPage \/ found = range THEN "panic"
        ELSE IF found = {} THEN search(m, end_page + 1, length)
        ELSE IF Min(found) = start_page THEN "spin"
        ELSE search(m, Min(found), length)

map_memory(m, addr, length, flags) ==
    IF fits(m, addr, length) THEN map_pages(m, pages(addr, length), flags)
    ELSE stops(m, search(m, containing_address(PAGE_SIZE), length))

map_memory_expect(m, addr, length, flags) ==
    IF fits(m, addr, length)
    THEN [ok |-> TRUE, m |-> map_pages(m, pages(addr, length), flags)]
    ELSE [ok |-> FALSE, m |-> m]

change_map_memory(m, addr, length, flags) ==
    LET start_page == containing_address(addr) IN
    FoldLeft(LAMBDA made, p : Then(made, LAMBDA v : change_flags(v, p, flags)),
             m, pages(start_address(start_page), length))

-----------------------------------------------------------------------------
\* The calls, in the order of the source.
calls(op, args, flags) ==
    [i \in DOMAIN args |-> [op |-> op, arg |-> args[i], flags |-> flags]]

call(op) == <<[op |-> op]>>

\* interrupts::init_pic
init_pic == call("LAPIC::init") \o call("IOAPIC::init")

\* mutant of lapic_registers: the new table is left without them
lapic_registers_left_out == <<>>

\* remap_the_kernel: the page of LOCAL_APIC.get_ptr(), which LAPIC::init
\* has taken from the MSR
lapic_registers ==
    calls("identity_map", <<containing_address(boot_info.msr.base)>>,
          {"WRITABLE", "NO_CACHE"})

remap_the_kernel ==
    LET identity(span, flags) == calls("identity_map", frames(span), flags)
        section(i) == identity(boot_info.sections[i], {"WRITABLE"})
        modules == IF boot_info.module = None THEN <<>>
                   ELSE calls("try_identity_map", frames(boot_info.module),
                              {"PRESENT"})
    IN  call("TemporaryPage") \o call("InactivePageTable") \o call("with")
        \o calls("identity_map", <<containing_address(VGA)>>, {"WRITABLE"})
        \o lapic_registers
        \o identity(boot_info.multiboot, {"PRESENT"})
        \o FoldLeft(LAMBDA all, i : all \o section(i), <<>>,
                    range_inclusive(1, Len(boot_info.sections)))
        \o modules
        \o call("with ends") \o call("switch") \o call("unmap")
        \o calls("map", pages(HEAP_START, HEAP_SIZE - 1),
                 {"WRITABLE", "NO_EXECUTE"})

\* InitExec::size_of_code
size_of_code ==
    LET segments == boot_info.elf.segments IN
    IF segments = {} THEN 0
    ELSE Max({s.address + s.size : s \in segments})
            - Min({s.address : s \in segments})

\* mutant of guard: a whole page and the start of the next
guard_4096 == PAGE_SIZE

\* InitExec::setup: the 4093 bytes of a guard page
guard == PAGE_SIZE - 3

setup ==
    LET user == {"USER_ACCESSIBLE", "WRITABLE"}
        before_stack_ptr == STACK_PTR - PAGE_SIZE
    IN  <<[op |-> "map_memory", arg |-> CODE_PTR, length |-> size_of_code,
           flags |-> user],
          [op |-> "map_memory", arg |-> before_stack_ptr,
           length |-> STACK_SIZE + 2 * PAGE_SIZE,
           flags |-> user \cup {"NO_EXECUTE"}],
          [op |-> "change_map_memory", arg |-> before_stack_ptr,
           length |-> guard, flags |-> {"NO_EXECUTE"}],
          [op |-> "change_map_memory",
           arg |-> before_stack_ptr + STACK_SIZE + PAGE_SIZE,
           length |-> guard, flags |-> {"NO_EXECUTE"}],
          [op |-> "write"],
          [op |-> "map_memory_expect", arg |-> USER_HEAP_PTR,
           length |-> USER_HEAP_SIZE, flags |-> user],
          [op |-> "switch_to_userspace"]>>

\* lib.rs init
init ==
    call("enable_nxe_bit") \o call("enable_write_protect_bit")
        \o call("acpi::init") \o call("timing::init") \o call("gdt::init")
        \o call("init_idt") \o init_pic \o call("init_interrupts")
        \o remap_the_kernel \o call("init_heap") \o call("init_nanosleep")

\* userspace::initproc
initproc == call("Module") \o setup

kernel_main == init \o call("command_line") \o initproc

-----------------------------------------------------------------------------
\* boot.asm leaves the first pages mapped to themselves by huge pages, in
\* tables that lie in the kernel; lib.rs init makes the allocator.
Init ==
    /\ boot_info \in Boots
    /\ plan = kernel_main
    /\ allocator = new
    /\ tiny = <<None, None, None>>
    /\ tables = [boot |-> [entry |-> [p \in BootMapped |->
                              [frame |-> p, flags |-> {"PRESENT", "WRITABLE",
                                                       "HUGE_PAGE"}]],
                           next |-> [id \in BootTables |-> boot_info.p4]],
                 new  |-> [entry |-> <<>>, next |-> <<>>]]
    /\ cr3 = "boot" /\ mapper = "boot" /\ p4_frame = None
    /\ state = "up" /\ handed = <<>>
    /\ LOCAL_APIC = 0 /\ IOAPIC = [ptr |-> 0, reg |-> <<>>]
    /\ interrupts = FALSE /\ heap = FALSE
    /\ machine = [efer |-> {}, cr0 |-> {}, loaded |-> {}, pit |-> 0]
    /\ PIT_TICKS = 0 /\ NANOSECONDS_PER_TICK = 0

\* the call that is made next
Calls(op) == state = "up" /\ plan # <<>> /\ Head(plan).op = op

\* the memory is left as m
Becomes(m) ==
    /\ allocator' = m.allocator /\ tiny' = m.tiny /\ tables' = m.tables
    /\ cr3' = m.cr3 /\ mapper' = m.mapper /\ p4_frame' = m.p4_frame
    /\ state' = m.state /\ handed' = m.handed
    /\ LOCAL_APIC' = m.LOCAL_APIC /\ IOAPIC' = m.IOAPIC
    /\ interrupts' = m.interrupts /\ heap' = m.heap
    /\ machine' = m.machine /\ PIT_TICKS' = m.PIT_TICKS
    /\ NANOSECONDS_PER_TICK' = m.NANOSECONDS_PER_TICK
    /\ UNCHANGED boot_info

\* the call returns, or stops the kernel
Leaves(m) == Becomes(m) /\ plan' = Tail(plan)

\* a register of the processor, or of the PIT, is given flags
sets(m, register, flags) == [m EXCEPT !.machine[register] = @ \cup flags]

EnableNxeBit ==
    Calls("enable_nxe_bit") /\ Leaves(sets(Now, "efer", {"NO_EXECUTE_ENABLE"}))

EnableWriteProtectBit ==
    /\ Calls("enable_write_protect_bit")
    /\ Leaves(sets(Now, "cr0", {"WRITE_PROTECT"}))

\* timing.rs: PIT_DIVIDER, and PIT_INTERVAL = PIT_DIVIDER / PIT_FREQUENCY
\* in nanoseconds
PIT_DIVIDER  == 1193
PIT_INTERVAL == 999848

\* timing::init and set_pit_frequency: channel 0 divides by PIT_DIVIDER
TimingInit ==
    Calls("timing::init") /\ Leaves([Now EXCEPT !.machine.pit = PIT_DIVIDER])

\* gdt::init: GDT.0.load() and load_tss
GdtInit ==
    Calls("gdt::init") /\ Leaves(sets(Now, "loaded", {"GDT", "TSS"}))

\* interrupts::init_idt
InitIdt ==
    Calls("init_idt") /\ Leaves(sets(Now, "loaded", {"IDT"}))

\* gdt.rs: the indices of the stacks in TSS.interrupt_stack_table
DOUBLE_FAULT_IST_INDEX == 0
PAGE_FAULT_IST_INDEX == 1
GENERAL_PROTECTION_FAULT_IST_INDEX == 2

\* gdt.rs TSS: the stack of privilege level 0, and the entries of
\* interrupt_stack_table that are given a stack
TSS ==
    [privilege_stack_table |-> {0},
     interrupt_stack_table |->
        {DOUBLE_FAULT_IST_INDEX, PAGE_FAULT_IST_INDEX,
         GENERAL_PROTECTION_FAULT_IST_INDEX}]

\* breakpoint_handler, the handlers of the three interrupts and
\* syscall_handler return to where the vector was taken
returns == {3, 32, 33, 39, 128}

\* page_fault_handler, divide_error_handler and the handlers after it, to
\* security_exception_handler: each prints and ends in hlt_loop
hlt_loop == {14, 0, 1, 2, 4, 5, 6, 7, 10, 11, 12, 16, 13, 17, 18, 19, 20,
             21, 28, 29, 30}

\* double_fault_handler
panics == {8}

\* the table whose gates are given the stacks of `stack_index`: 0x80 is
\* open to privilege level 3, and a gate ends as its handler does
gates(stack_index) ==
    [v \in returns \cup hlt_loop \cup panics |->
        [stack_index |-> IF v \in DOMAIN stack_index THEN stack_index[v]
                         ELSE None,
         privilege_level |-> IF v = 128 THEN 3 ELSE 0,
         ends |-> CASE v \in panics -> "double fault"
                    [] v \in hlt_loop -> "fault"
                    [] OTHER -> "returns"]]

\* mutant of IDT: the page fault is given the stack after the last one
IDT_stack_past_the_last ==
    gates((8 :> DOUBLE_FAULT_IST_INDEX)
              @@ (13 :> GENERAL_PROTECTION_FAULT_IST_INDEX)
              @@ (14 :> GENERAL_PROTECTION_FAULT_IST_INDEX + 1))

\* interrupts/mod.rs IDT: set_handler_fn for every vector, and
\* set_stack_index for the double fault, the general protection fault and
\* the page fault
IDT ==
    gates((8 :> DOUBLE_FAULT_IST_INDEX)
              @@ (13 :> GENERAL_PROTECTION_FAULT_IST_INDEX)
              @@ (14 :> PAGE_FAULT_IST_INDEX))

\* the processor finds the gate of vector v and the stack to take it on:
\* the one the gate names, the stack of privilege level 0 when the vector
\* is taken in user space, or else the stack in use
reached(m, v) ==
    LET index == IDT[v].stack_index IN
    /\ "IDT" \in m.machine.loaded
    /\ index # None =>
          "TSS" \in m.machine.loaded /\ index \in TSS.interrupt_stack_table
    /\ index = None /\ m.state = "user" =>
          "TSS" \in m.machine.loaded /\ 0 \in TSS.privilege_stack_table

\* the processor takes vector v: the handler returns, or the kernel stops
\* as the handler does; a vector that cannot be taken is a double fault,
\* and a double fault that cannot be taken resets the machine
taken(m, v) ==
    CASE reached(m, v) /\ IDT[v].ends = "returns" -> m
      [] reached(m, v) /\ IDT[v].ends # "returns" -> stops(m, IDT[v].ends)
      [] ~reached(m, v) /\ reached(m, 8) -> stops(m, IDT[8].ends)
      [] OTHER -> stops(m, "reset")

\* a write of the kernel to an address goes through: the page is there and
\* writable (CR0.WP), and NO_EXECUTE is a flag of the entry (EFER.NXE)
writable(m, address) ==
    LET entry == m.tables[m.cr3].entry
        page  == containing_address(address)
    IN  /\ page \in DOMAIN entry
        /\ "WRITABLE" \in entry[page].flags
              \/ "WRITE_PROTECT" \notin m.machine.cr0
        /\ "NO_EXECUTE" \in entry[page].flags
              => "NO_EXECUTE_ENABLE" \in m.machine.efer

\* lib.rs init: acpi::init(rsdt_addr).expect("No ioapic")
AcpiInit ==
    /\ Calls("acpi::init")
    /\ LET tables_read == ACPI!init(boot_info.rsdt_addr).res
       IN  Leaves(CASE tables_read = "Ok"   -> Now
                    [] tables_read = "spin" -> stops(Now, "spin")
                    [] OTHER                -> stops(Now, "panic"))

\* the registers of an APIC are mapped to themselves, uncached
registers(m, ptr) ==
    map_to(m, containing_address(ptr), containing_address(ptr),
           {"WRITABLE", "NO_CACHE"}, "area")

\* LAPIC::init: the local APIC is where the MSR says, if it is enabled and
\* this is the processor that boots
LapicInit ==
    /\ Calls("LAPIC::init")
    /\ Leaves(IF {"EN", "BSP"} \subseteq boot_info.msr.flags
              THEN Then(registers(Now, boot_info.msr.base),
                        LAMBDA m : [m EXCEPT !.LOCAL_APIC = boot_info.msr.base])
              ELSE stops(Now, "panic"))

\* LAPIC::get_apic_id: apic is a pointer to usize, and apic.add(0x20) is
\* 0x20 words of 8 bytes from the base
get_apic_id == boot_info.lapic[32 * 8]

\* `lapic_id << 24`, of a u32
shl_24(lapic_id) == (lapic_id % 256) * 2 ^ 24

\* IOAPIC::write_reg: the register is selected and its value written
write_reg(ioapic, offset, val) ==
    [ioapic EXCEPT !.reg = (offset :> val) @@ @]

\* IOAPIC::init: the registers are where the MADT says; IRQ 1 is sent as
\* vector 33 to the local APIC of get_apic_id
IoapicInit ==
    /\ Calls("IOAPIC::init")
    /\ LET ioapic == ACPI!init(boot_info.rsdt_addr).val.ioapic
           stored == [ptr |-> ioapic.addr, reg |-> <<>>]
       IN  Leaves(Then(registers(Now, ioapic.addr),
                       LAMBDA m : [m EXCEPT !.IOAPIC =
                           write_reg(write_reg(stored, 18, 33),
                                     19, shl_24(get_apic_id))]))

\* interrupts::init_interrupts
InitInterrupts ==
    Calls("init_interrupts") /\ Leaves([Now EXCEPT !.interrupts = TRUE])

\* memory::allocator::init_heap
InitHeap ==
    Calls("init_heap") /\ Leaves([Now EXCEPT !.heap = TRUE])

\* the loop of init_nanosleep goes on: `(end_pit - start_pit) * 1e3 < 1.0`
too_early(ticks) == ticks * PIT_INTERVAL < 1000000

\* init_nanosleep reads start_pit and enters its loop: PIT_TICKS is kept
\* as what it has moved by since, which is all that is read of it
InitNanosleep ==
    /\ Calls("init_nanosleep")
    /\ Becomes(Now)
    /\ plan' = call("calibrate") \o Tail(plan)

\* init_nanosleep leaves its loop, in which the processor is halted until
\* an interrupt: the nanoseconds that have passed by the ticks, over the
\* cycles the time stamp counter has made of its boot_info.tsc in a
\* microsecond, as a u64 and at least 1
Calibrate ==
    /\ Calls("calibrate")
    /\ ~too_early(PIT_TICKS)
    /\ Leaves([Now EXCEPT !.NANOSECONDS_PER_TICK =
                             Max({1000 \div boot_info.tsc, 1})])

\* timing::nanosleep(ns): the cycles its loop waits for, which is as long
\* as `(end - start) * factor < ns`; with the factor 0 of before
\* init_nanosleep the loop does not end
nanosleep(ns) ==
    LET enough == {cycles \in 0 .. ns : cycles * NANOSECONDS_PER_TICK >= ns}
    IN  IF enough = {} THEN None ELSE Min(enough)

\* LAPIC::eoi writes the register 0xB0 of LOCAL_APIC; a write to a page
\* that is not there ends in page_fault_handler
eoi(m) == IF writable(m, m.LOCAL_APIC) THEN m ELSE taken(m, 14)

\* mutant of add_tick: the handler returns without counting
add_tick_not(ticks) == ticks

\* timing::add_tick, as far as the loop of init_nanosleep can tell
add_tick(ticks) ==
    IF Calls("calibrate") /\ too_early(ticks) THEN ticks + 1 ELSE ticks

\* an interrupt is taken between two calls of the kernel or two
\* instructions of the user, and its handler returns to where it came from
Interrupted(v, handler(_)) ==
    /\ state \in {"up", "user"} /\ interrupts
    /\ Becomes(IF taken(Now, v) = Now THEN handler(Now) ELSE taken(Now, v))
    /\ UNCHANGED plan

\* timer_interrupt_handler
Timer ==
    Interrupted(32, LAMBDA m : eoi([m EXCEPT !.PIT_TICKS = add_tick(@)]))

\* spurious_interrupt_handler
Spurious == Interrupted(39, eoi)

\* the redirection entry of IRQ 1 names the processor that runs the kernel
routed ==
    /\ 19 \in DOMAIN IOAPIC.reg
    /\ IOAPIC.reg[19] \div 2 ^ 24 = boot_info.lapic[32] \div 2 ^ 24

\* keyboard_interrupt_handler, for a key with a character: key_handle
\* pushes it to STDIN, a String that takes its memory from the heap
Keyboard ==
    /\ routed
    /\ Interrupted(33, LAMBDA m : IF heap THEN eoi(m) ELSE stops(m, "panic"))

\* TemporaryPage::new
TemporaryPage ==
    Calls("TemporaryPage") /\ Leaves(TinyAllocator(Now))

\* TemporaryPage::map_table_frame and TemporaryPage::map
map_table_frame(m, frame) ==
    IF translate_page(m, TMP_PAGE) # None THEN stops(m, "panic")
    ELSE map_to(m, TMP_PAGE, frame, {"WRITABLE"}, "tiny")

\* remap_the_kernel takes the frame of the new P4; InactivePageTable::new
\* clears it through the temporary page
InactivePageTable ==
    /\ Calls("InactivePageTable")
    /\ LET got == allocate(Now, "area")
           zeroed(m) == [m EXCEPT !.p4_frame = got.frame,
                                  !.tables.new = [entry |-> <<>>, next |-> <<>>]]
       IN  Leaves(IF got.frame = None THEN stops(Now, "panic")
                  ELSE Then(Then(map_table_frame(got.m, got.frame), zeroed),
                            LAMBDA m : unmap(m, TMP_PAGE)))

\* ActivePageTable::with, up to f: the table in use is kept at the temporary
\* page and P4[511] leads to the new table
With ==
    /\ Calls("with")
    /\ Leaves(Then(map_table_frame(Now, boot_info.p4),
                   LAMBDA m : [m EXCEPT !.mapper = "new"]))

IdentityMap ==
    /\ Calls("identity_map")
    /\ Leaves(identity_map(Now, Head(plan).arg, Head(plan).flags))

TryIdentityMap ==
    /\ Calls("try_identity_map")
    /\ Leaves(try_identity_map(Now, Head(plan).arg, Head(plan).flags))

\* ActivePageTable::with, after f
WithEnds ==
    /\ Calls("with ends")
    /\ Leaves(unmap([Now EXCEPT !.mapper = cr3], TMP_PAGE))

\* ActivePageTable::switch
Switch ==
    /\ Calls("switch")
    /\ Leaves(IF translate_page(Now, p4_frame) = None THEN stops(Now, "panic")
              ELSE [Now EXCEPT !.cr3 = "new", !.mapper = "new"])

\* remap_the_kernel: the page of the old P4 becomes a guard page
Unmap ==
    Calls("unmap") /\ Leaves(unmap(Now, boot_info.p4))

\* remap_the_kernel: the pages of the kernel's heap
Map ==
    Calls("map") /\ Leaves(map(Now, Head(plan).arg, Head(plan).flags))

\* kernel_main: the tests and the benchmarks end in hlt_loop
CommandLine ==
    /\ Calls("command_line")
    /\ Leaves(IF boot_info.command_line \in {"test", "bench"}
              THEN stops(Now, "halt") ELSE Now)

\* initproc: Module::init, Module::to_exe_object and the two expects
Module ==
    /\ Calls("Module")
    /\ Leaves(IF /\ boot_info.module # None
                 /\ boot_info.elf.magic /\ boot_info.elf.parses
              THEN Now ELSE stops(Now, "panic"))

MapMemory ==
    /\ Calls("map_memory")
    /\ Leaves(map_memory(Now, Head(plan).arg, Head(plan).length,
                         Head(plan).flags))

ChangeMapMemory ==
    /\ Calls("change_map_memory")
    /\ Leaves(change_map_memory(Now, Head(plan).arg, Head(plan).length,
                                Head(plan).flags))

\* the addresses InitExec::setup writes: the bytes of the segments, and the
\* words of the relocations
written ==
    UNION {CODE_PTR + s.address .. CODE_PTR + s.address + s.size - 1 :
             s \in boot_info.elf.segments}
       \cup {CODE_PTR + r.address : r \in boot_info.elf.relocations}

\* InitExec::setup copies the segments and applies the relocations; a write
\* to a page that is not there ends in page_fault_handler
Write ==
    /\ Calls("write")
    /\ Leaves(CASE \E address \in written : ~writable(Now, address) ->
                      taken(Now, 14)
                [] \E r \in boot_info.elf.relocations : r.kind # "relative" ->
                      stops(Now, "panic")
                [] OTHER -> Now)

MapMemoryExpect ==
    /\ Calls("map_memory_expect")
    /\ LET made == map_memory_expect(Now, Head(plan).arg, Head(plan).length,
                                     Head(plan).flags)
       IN  Leaves(IF made.ok THEN made.m ELSE stops(Now, "panic"))

\* UserCode::switch_to_userspace
SwitchToUserspace ==
    Calls("switch_to_userspace") /\ Leaves(stops(Now, "user"))

\* An instruction of the user's program faults, or the processor is sent
\* an exception while it runs: the kernel's handler prints and halts.
Exception(v) ==
    state = "user" /\ Becomes(taken(Now, v)) /\ UNCHANGED plan

\* the vector `int v` ends in at privilege level 3: a gate that is not
\* open to it is a general protection fault
int(v) == IF IDT[v].privilege_level = 3 THEN v ELSE 13

\* `int v` in the user's program: int 0x80 is the system call, from which
\* syscall_handler returns
SoftwareInterrupt(v) ==
    state = "user" /\ Becomes(taken(Now, int(v))) /\ UNCHANGED plan

User ==
    \/ \E v \in hlt_loop : Exception(v)
    \/ \E v \in DOMAIN IDT : SoftwareInterrupt(v)

\* the call that is next
Boot ==
    \/ EnableNxeBit \/ EnableWriteProtectBit \/ AcpiInit \/ TimingInit
    \/ GdtInit \/ InitIdt \/ LapicInit \/ IoapicInit \/ InitInterrupts
    \/ InitHeap \/ InitNanosleep \/ Calibrate
    \/ TemporaryPage \/ InactivePageTable \/ With \/ IdentityMap
    \/ TryIdentityMap \/ WithEnds \/ Switch \/ Unmap \/ Map \/ CommandLine
    \/ Module \/ MapMemory \/ ChangeMapMemory \/ Write \/ MapMemoryExpect
    \/ SwitchToUserspace

Next == Boot \/ Timer \/ Keyboard \/ Spurious \/ User

Spec == Init /\ [][Next]_vars

\* The processor goes on when the loop of init_nanosleep can be left, and
\* the timer of the local APIC, which LAPIC::init has set to periodic
\* mode, interrupts it again and again while interrupts are enabled.  (No
\* property asks for more of the processor than this step.)
FairSpec == Spec /\ WF_vars(Calibrate) /\ WF_vars(Timer)

-----------------------------------------------------------------------------
Handed == ToSet(handed)

\* what the boot loader has put in memory
Kernel == ToSet(frames(kernel))
Multiboot == ToSet(frames(boot_info.multiboot))
Modules == IF boot_info.module = None THEN {} ELSE ToSet(frames(boot_info.module))

\* No frame is handed out twice, none that holds the kernel or the boot
\* information, and none outside the memory areas: allocate_frame steps
\* over the kernel and the boot information wherever they lie in an area,
\* also at its first and its last frame, and goes to the next area at the
\* end of one.
FramesHandedOnce ==
    /\ Cardinality(Handed) = Len(handed)
    /\ Handed \cap (Kernel \cup Multiboot) = {}
    /\ \A f \in Handed : \E area \in boot_info.areas :
          f \in containing_address(area.start) .. last_frame(area)

\* how many uses a frame has: as a table, as the new P4, under a page that
\* is not mapped to itself, in the reserve of the TinyAllocator
uses(f) ==
    LET at(t) == {id \in DOMAIN tables[t].next : tables[t].next[id] = f}
        under(t) == {p \in DOMAIN tables[t].entry \ {TMP_PAGE} :
                        tables[t].entry[p].frame = f /\ p # f}
    IN  Cardinality(at("boot")) + Cardinality(at("new"))
        + Cardinality(under("boot")) + Cardinality(under("new"))
        + Cardinality({i \in DOMAIN tiny : tiny[i] = f})
        + Cardinality({p4_frame} \cap {f})

\* A frame has one use: the tables of the boot loader's page table and of
\* the kernel's, the new P4, the pages of the kernel heap and of the user's
\* code, stack and heap, and the frames the TinyAllocator holds back are
\* all different frames, and each was handed out by the allocator.
\* (remap_the_kernel, InactivePageTable::new and setup take frames from
\* two allocators and map through two tables.)
OneUsePerFrame ==
    \A f \in 0 .. Max(Handed \cup {0}) \ Kernel :
        uses(f) <= IF f \in Handed THEN 1 ELSE 0

\* the pages of the user's stack, and the page below and the page above
Stack ==
    containing_address(STACK_PTR)
        .. containing_address(STACK_PTR + STACK_SIZE - 1)

\* When the kernel jumps to user space, the user can write every page of
\* its stack and every byte of its code, and the pages next to the stack
\* are there and closed to it: setup maps the stack with a page on either
\* side and takes the user's access from these two with change_map_memory.
UserStackIsGuarded ==
    LET entry == tables[cr3].entry
        open(p) == p \in DOMAIN entry /\ "USER_ACCESSIBLE" \in entry[p].flags
    IN  state = "user" =>
          /\ \A p \in Stack : open(p) /\ "WRITABLE" \in entry[p].flags
          /\ \A p \in {Min(Stack) - 1, Max(Stack) + 1} :
                p \in DOMAIN entry /\ ~open(p)
          /\ \A address \in written : open(containing_address(address))

\* An interrupt finds the local APIC: from init_interrupts on, whichever
\* table the processor walks maps the registers LAPIC::eoi writes, also
\* while remap_the_kernel makes the new table, after it has switched to
\* it, and after setup has mapped the user's pages into it.  (LAPIC::init maps them in the boot loader's table, remap_the_kernel
\* in the kernel's.)
EoiIsMapped ==
    state \in {"up", "user"} /\ interrupts => writable(Now, LOCAL_APIC)

\* An interrupt or a fault finds its handler: whenever the processor takes
\* a vector, while the kernel starts or in the user's program, the IDT is
\* loaded, and the stack it is taken on is one that the TSS of gdt.rs
\* holds and that gdt::init has loaded: the stack set_stack_index names in
\* the gate, or the stack of privilege level 0.  No vector ends in
\* double_fault_handler or in a reset of the machine.  (init_idt and
\* gdt::init come before init_interrupts and before the first write to a
\* page that may not be there.)
HandlersAreReached == state \notin {"double fault", "reset"}

\* init_nanosleep returns: the loop that halts the processor until
\* PIT_TICKS has moved by a millisecond is left, because the timer
\* interrupt is enabled by then, finds its handler and the registers of
\* its eoi in the table remap_the_kernel has switched to, and counts.
CalibrationEnds == Calls("calibrate") ~> ~Calls("calibrate")

\* the call that was made last is the one before `op`
Before(op) == plan # <<>> /\ Head(plan).op = op

\* The kernel reads the tables of the firmware as they are laid out: it
\* goes on from acpi::init exactly when the tables are good (an IOAPIC, and
\* before it sound tables), and the registers IOAPIC::init takes for the
\* IOAPIC's are those of the first IOAPIC the MADT lists.  (num_entries,
\* ith_entry_type, get_lapic_at_index and get_ioapic_at_index each walk
\* the entries by their lengths and count them.)
FirmwareIsRead ==
    /\ Before("timing::init") =>
          (state = "up" <=> ACPI!Good(boot_info.rsdt_addr))
    /\ Before("init_interrupts") /\ state = "up" =>
          IOAPIC.ptr = ACPI!FirstIoapic(boot_info.rsdt_addr)

\* A key typed while the kernel starts is kept for the shell: when the
\* keyboard interrupt can be taken, key_handle has a heap to take the
\* memory of STDIN from.
HeapBeforeKeys == state = "up" /\ interrupts /\ routed => heap

\* The keyboard reaches the kernel: IOAPIC::init sends IRQ 1 to the local
\* APIC of the processor that runs the kernel.
KeysReachTheKernel == IOAPIC.ptr # 0 => routed

\* The frames of the module are kept until setup has read it: the boot
\* loader's module is the program of the user, and setup copies it from
\* where the boot loader put it.
ModulesAreKept == Handed \cap Modules = {}

\* A frame handed out is memory: the whole of it lies in a memory area.
FramesAreMemory ==
    \A f \in Handed : \E area \in boot_info.areas :
        /\ area.start <= start_address(f)
        /\ start_address(f + 1) <= area.start + area.size

\* nanosleep(ns) lasts ns nanoseconds or longer: Bus::wait asks for the 400
\* nanoseconds a drive is given after it is selected, and what
\* init_nanosleep has measured makes enough cycles of them.
NanosleepIsLongEnough ==
    state = "user" => nanosleep(400) * 1000 >= 400 * boot_info.tsc

\* map_memory returns: when the range asked for is taken, the search from
\* 0x1000 comes to an end ("never map between 0x0 and 0x1000").  (The other
\* loop that may not end is num_entries in acpi::init, of a table with an
\* entry of no length.)
MapMemoryReturns == state = "spin" => Before("timing::init")
=============================================================================

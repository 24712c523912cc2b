# kvos: TLA+ models of the kernel and its transactional key-value store

kvos is an x86-64 kernel whose core is a transactional key-value store. This
directory holds TLA+ models of the store, of the disk under it, and of the
kernel around it (memory set-up, the console and the shell, the skip map),
translated from the Rust source, and the TLC configurations that check them. Paths below are relative to
`src/kernel/src/` unless they start with `src/`.

## 1. The system

### Parts, their state and their operations

| Part | Source | State | Operations |
|---|---|---|---|
| Lock table | `common/locktable.rs` | `locks`: one `Mutex<LockValue{locked, version_number}>` per stripe | `new`, `try_lock(stripe, tid) -> Success/Wait/Die`, `unlock(stripe)`, `size` |
| Redo log | `cc/redo.rs` | `entries`: `Vec<RedoEntry{key, val}>`, one entry per key | `new`, `get`, `insert` (find-or-append), `update`, `remove` (swap_remove), `size` |
| SimpleSet | `common/set.rs` | `data`: `Vec<T>` without duplicates | `new`, `insert`, `remove` (swap_remove), `contains`, `size` |
| SimpleHashMap | `common/map.rs` | `buckets`: one `Mutex<Vec<Entry>>` per bucket | `with_capacity`/`new`, `get`, `insert` (upsert), `remove` |
| Transaction (WDTX, WDTXPersist) | `cc/mod.rs` | `GLOBAL_CLOCK`; per transaction `tid`, `locked_index`, `redo_log`, `remove_log`, `is_aborted` | `new`, `read`, `write`, `delete`, `abort`, `try_commit`, `try_commit_persist` |
| KV store (TxKVStore, TxKVStorePersist) | `kvstore/mod.rs` | the shared map and lock table | `new`, `begin`, `transact`, `transact_mut` |
| Mix13 hash | `common/hash.rs` | none | `compute_hash` |
| Persistent map and WAL | `disk/persistentmap.rs` | buckets, `Mutex<Disk>`, the log on disk | `build_from_disk`, `get`, `insert`, `insert_no_log`, `remove`, `remove_no_log`, `compact_logs` |
| Disk block layer | `disk/disk_api.rs` | `current_block`, `current_address_in_block`, the blocks | `new`, `over_write_disk`, `append_to_disk`, `read_whole_disk_leave_bytes` (`read_whole_disk`: see section 6) |
| ATA PIO driver | `disk/ata.rs`, `drivers/timing.rs` | `BUSES`, the device registers, `PIT_TICKS` | `init`, `Drive::open`, `read`, `write`; inside them `select_drive`, `write_command_params`, `write_command`, `poll`, `identify_drive` |
| System calls | `syscall/` , `src/stdlib/src/syscall.rs`, `interrupts/mod.rs` | the registers at `int 0x80` | `syscall2`, `syscall3`, `dispatcher`, `read_kv`, `write_kv`, `write_kv_persist`, `delete_kv`, `read_in`, `print` |
| Console and shell | `console.rs`, `src/stdlib/src/shell.rs`, `src/initexec/src/main.rs` | `STDIN`; the shell's `buf`, `len`, `old_len` | `key_handle` (keyboard interrupt), `read_line`, `shell::input`, `shell::shell` |
| Memory | `memory/`, `lib.rs`, `userspace/mod.rs` | the frame allocator's area and next frame, the page tables, the `TinyAllocator` | `allocate_frame`, `choose_next_area`, `Mapper::map_to`/`map`/`identity_map`/`unmap`/`change_flags`, `remap_the_kernel`, `map_memory`, `change_map_memory`, `InitExec::setup` |
| Platform | `interrupts/`, `apic/`, `acpi/`, `gdt.rs`, `drivers/`, `src/asm` | `LOCAL_APIC`, `IOAPIC`, the interrupt flag; the ACPI tables of the firmware | `acpi::init` and the methods of `RSDT` and `MADT`, `init_pic`, `LAPIC::init`, `IOAPIC::init`, `init_interrupts`, `eoi`; the timer, keyboard, page fault and system call handlers |
| Skip map | `map/mod.rs` | nodes with marked pointers | `new`, `search`, `insert`, `get`, `remove`, `mark_node_ptrs` |

### How they interact

A caller (a system call, a benchmark) passes a closure to `transact` or
`transact_mut`. The wrapper calls `begin()`, which draws a transaction id from
`GLOBAL_CLOCK` (`fetch_add`), runs the closure on the transaction and calls
`try_commit`. Inside the closure, `read`, `write` and `delete` first look at
the transaction's own `redo_log` and `remove_log`; a key whose stripe
(`hash(key) % lock_table.size()`) is not yet in `locked_index` is locked with
`try_lock`. `Success` records the stripe; `Die` (the requester is younger than
the holder) marks the transaction aborted; `Wait` (the requester is older)
enters a loop. `try_commit` of a live transaction inserts every `redo_log`
entry into the map, removes every `remove_log` key, unlocks every stripe of
`locked_index` and returns true; of an aborted one it returns false and
`transact_mut` begins again. The persistent variant writes a log record to disk
before each insert or remove and rebuilds the map from the log at start-up.

Under the persistent map, `Disk` reads and writes blocks with `ata::read` and
`ata::write`, which program the drive register by register and poll its status
against the tick counter of the timer interrupt. Above the store, the shell in
user space reads a line with the `read_in` system call, from `STDIN`, which the
keyboard interrupt fills, and calls `read_kv`, `write_kv` and `delete_kv`.
Before any of this runs, `kernel_main` builds the frame allocator from the boot
loader's memory map, maps the kernel anew (`remap_the_kernel`), and loads the
shell from the boot module into pages it maps for it (`InitExec::setup`).

### What makes it hard

The engine is written for several cores (`Arc`, spin mutexes, an atomic clock;
`begin()` is public). Each shared access is atomic, a method is not: between
the `try_lock` of one key and the next, between two `map.insert` of one commit,
between the last insert and the first unlock, any other transaction may lock,
read, commit or abort. What must hold:

* two transactions never hold the same stripe; nobody frees a stripe it does
  not hold;
* every key a commit writes was locked by that transaction from the first
  touch to the end of the commit;
* a commit leaves in the map what the transaction saw in its own reads;
* a transaction that ends, however it ends, leaves no stripe locked;
* wait-die never leaves everyone waiting: an older transaction waits only for
  younger ones, and gets the lock when they are done;
* `transact`/`transact_mut` return only after a successful commit;
* (persistence) what was committed durably is what a restart rebuilds, whatever
  the record sizes, the block boundaries and the moment of the crash.

Around the store the hard part is the environment. The drive answers when it
likes, or never, and a poll that gave up can be followed by a late answer. A
key is typed at any moment of the shell's read loop. The boot loader decides
where the memory areas, the kernel, its own information and the module lie,
and the frame allocator and the page tables must come out right for each such
layout: every frame used once, the kernel's frames never handed out, the user
stack between its guard pages. The firmware decides what the ACPI tables
hold, and the kernel walks them by the lengths they state. And `init` turns
the interrupts on half-way: from there the timer and the keyboard handlers run
between any two steps of the rest of the boot, while the page tables are
rebuilt and switched and before the heap is there.

## 2. The modules

| Module | Models | State and actions |
|---|---|---|
| `SimpleSet` | `common/set.rs` | operators on the sequence `data`: `New`, `Insert`, `Remove`, `Contains`, `Size` |
| `RedoLog` | `cc/redo.rs` | operators on the sequence `entries`: `New`, `Get`, `Insert`, `Update`, `Remove`, `Size` |
| `LockTable` | `common/locktable.rs` | variable `locks`; `Init`, `TryLock(key, transaction_id, result)`, `Unlock(key)` |
| `SimpleHashMap` | `common/map.rs` | variable `buckets`; `Init`, `Get`, `Insert`, `Remove`; `BucketOf` stands for `compute_bucket_idx` |
| `WDTX` | `cc/mod.rs`, `struct WDTX` and its `Transaction` impl | the shared `locks`, `buckets`, `GLOBAL_CLOCK`; per handle the record `tx` (the struct's fields) and `pc`, `key`, `cursor`, `ret` (the call under way and its result) |
| `KVStore` | `kvstore/mod.rs`, `TxKVStore` | extends `WDTX` with `call` (the wrapper a thread is in) and `ops` (methods the closure has called) |
| `AbstractContainers` | what `trait Set`, `trait Map` and the redo log promise | a set `members`, two functions `pending` and `store` from keys to a value or `None`; `Insert`, `Update`, `Remove` |
| `Containers` | the three containers side by side | `data` (a `SimpleSet`), `entries` (a `RedoLog`), `buckets` (a `SimpleHashMap`); every call is applied to each container that has the method |
| `Disk` | `disk/disk_api.rs`, and the driver as a read or write that returns `Ok` or `Err` | `blocks`, `current_block`, `current_address_in_block`, and `work`, the block writes of the call under way |
| `PersistentHashMap` | `disk/persistentmap.rs` | `buckets`, the `Disk`, `pc` (idle, writing, down), `op`, `ret`, `crashes` |
| `KVStorePersist` | `kvstore/mod.rs`, `TxKVStorePersist`; `cc/mod.rs`, `WDTXPersist`; the closures of `syscall/funcs.rs` | extends `KVStore` with the `Disk`, `kind` (the closure and `persist` flag of the call), and the history variables `durable` and `io_failed` |
| `BlockDevice` | what `disk_api.rs` takes the drive to be | `store` (block -> data), `reply`; `Open`, `Read`, `Write`, `Loses` |
| `ATA` | `disk/ata.rs`; `add_tick` of `drivers/timing.rs`; `timer_interrupt_handler` | `buses`, `plan` (the register steps left of the call), `call`, `reply`, `intr`, `elapsed`; the drive: `dev`, `err`, `cmd`, `lba`, `incoming`, `media` |
| `Shell` | `console.rs`, `syscall/mod.rs`, `funcs::read_in`, `src/stdlib/src/syscall.rs`, `src/stdlib/src/shell.rs`, the keyboard and system call handlers | `stdin`, `kernel`, `served`, and the shell's `pc`, `buf`, `len`, `old_len`, `line` |
| `SkipMap` | `map/mod.rs` | `heap` (address -> node), `result`, `fault` |
| `Memory` | `memory/paging/*.rs`, `memory/mod.rs`, `lib.rs`, `userspace/mod.rs`, `apic/mod.rs`, `gdt.rs`, `drivers/timing.rs`, the IDT, `init_idt`, `init_pic`, `init_interrupts` and the timer, keyboard and spurious handlers of `interrupts/mod.rs`, `init_heap` | `boot_info`, `plan` (the calls left), `allocator`, `tiny`, `tables`, `cr3`, `mapper`, `p4_frame`, `state`, `LOCAL_APIC`, `IOAPIC`, `interrupts`, `heap`, `machine` (EFER, CR0, the tables loaded, the PIT), `PIT_TICKS`, `NANOSECONDS_PER_TICK` |
| `ACPI` | `acpi/mod.rs` | operators on `memory` (address -> bytes): `load`, `checksum_valid`, `num_tables`, `table`, `num_entries`, `ith_entry_type`, `get_lapic_at_index`, `get_ioapic_at_index`, `init` |
| `MCKVStore`, `MCWDTX`, `MCContainers`, `MCPersistentHashMap`, `MCKVStorePersist`, `MCATA`, `MCShell`, `MCSkipMap`, `MCMemory` | instances for TLC | keys, stripes, buckets, `StripeOf`, `BucketOf`, symmetry; blocks and faults of the drive; the commands typed; the boot layouts |

`SimpleSet` and `RedoLog` are owned by one transaction and never shared, so
their methods are pure operators. `LockTable` and `SimpleHashMap` are shared:
each method is one action, because it runs under the slot's or the bucket's
mutex. `WDTX` instantiates the four and adds the protocol.

### Granularity of `WDTX`

One action per shared access; what a method does to its own fields between two
shared accesses belongs to the step of the access before it.

| Code | Actions |
|---|---|
| `WDTX::new` | `Begin` |
| `read`: early returns, redo hit, stripe already held | `ReadLocal` (three disjuncts) |
| `read`: `try_lock`, then `map.get` | `ReadLock` (Success / Wait / Die), `ReadGet` |
| `write` | `WriteLocal`, `WriteLock` |
| `delete` | `DeleteLocal` (four disjuncts), `DeleteLock`, `DeleteGet` |
| the `loop` with `ret == Wait` | `SpinLoop` (changes nothing: the loop tests the same `ret` again) |
| `abort` | `Abort` (a call by the user), `EntersAbort` (entry, also from Die), `AbortUnlock` (one iteration) |
| `try_commit` | `TryCommit` (entry), then one of `CommitInsert`, `CommitRemove`, `CommitUnlock` per element of `CommitWork`, the three loops in their order |

`Die` in `read` and `write` sets `is_aborted` and runs `abort()`; `Die` in
`delete` sets `is_aborted` and returns, as the code does. `Abort` changes no
field of the transaction, as the code does.

The hash is abstracted to the constants `StripeOf` and `BucketOf`: the protocol
depends only on which keys share a stripe and which share a bucket. Keys and
values are model values. `ret` keeps what the last method returned (`None`,
`Unit` for `()`, a value, or a boolean).

### `KVStore`

A handle of `WDTX` becomes a thread inside one call of a wrapper. `Transact`
enters the loop and begins the first transaction; `Body` is one method call of
the closure (any read, write or delete of the constant `Methods`, at most
`MaxOps` per attempt); `Internal` is the next shared access of the method under
way; `Commit` is `tx.try_commit()`; then `Return` (committed), `Retry`
(`transact_mut`, not committed: a new transaction) or `AssertFails`
(`transact`, not committed: `assert_eq!` panics). Leaving the wrapper drops the
transaction. Closures do not call `abort()` or `try_commit()` themselves; the
system calls' and benchmarks' closures do not.

`seen` is a history variable: `seen[c][k]` is what `map.get(k)` returned to
the attempt of thread `c` that is under way (`read` at `cc/mod.rs:116` and
`124`, `delete` at `189`). It is emptied when the attempt dies, when its
`try_commit` begins and when the wrapper begins the next one, so that it holds
the reads an attempt still relies on.

### `Containers` and `AbstractContainers`

`Containers` drives `SimpleSet`, `RedoLog` and `SimpleHashMap` with the same
sequence of calls. The refinement mapping reads the `Vec`s as what they stand
for: `members` is the set of elements of `data`, `pending[k]` is
`RedoLog::get(k)`, `store` is the content of the buckets. `ImplementsAbstract`
is `AbstractContainers!Spec` under that mapping: find-or-append, update in
place and `swap_remove` change the order of the `Vec`s and nothing else.

### `Disk`

The unit of data is the **chunk** of 8 bytes: every record of the log is a
whole number of chunks, and `build_from_disk` reads the log with
`chunks_exact(8)`. A block is `BlockChunks` chunks (64 in the code). The
models keep of a chunk what the code tests: whether it is a tag, a length
word, a string, or zero, and whether its first byte is zero (`ZeroLead`; a
length word is a big-endian `u64`, its first byte is zero for every length
below 2^56).

`OverWriteDisk(buf)` and `AppendToDisk(buf)` compute `WritePlan`, the sequence
of block writes of the call: the full blocks, the padded partial block, the
block of zeros after them; each with the cursor the call leaves if this write
fails and if it succeeds (`current_block` and `current_address_in_block` are
assigned between the loops, `disk_api.rs:130-131`, so a failure of the partial
block leaves the cursor at offset 0 of that block). `AppendToDisk` reads the
current block and puts the bytes before the cursor in front of the data.
`WriteDone` and `WriteFails` take the first write of `work`: they are the
`Ok` and the `Err` of a `write(..)?` of `disk_api.rs` (lines 37, 50, 55, 127,
140, 145), not the register protocol behind it, which is the module `ATA`. A
failing write leaves the block as it was or written (the drive did the
transfer and `poll` timed out). `Disk` has no write that is answered `Ok` and
lost afterwards: that fault of the drive is in `ATA` alone (`ATA_media.cfg`). `ReadWholeDiskLeaveBytes` returns the blocks up to and including
the first block whose first chunk is in `ZeroLead`: the code tests
`!(buf[0..1] == [0u8;1])`, the first byte.

### `PersistentHashMap`

| Code | Model |
|---|---|
| `new`, `with_capacity` | `Init`: empty buckets, cursor (0, 0), a device of zeros |
| `get`, `insert_no_log`, `remove_no_log` | the operators `Get`, `InsertNoLog`, `RemoveNoLog` on the buckets |
| the bytes of a record | `InsertRecord`, `RemoveRecord`, `Snapshot`: tag, length word, chunk of the string; `Field` is `len()` followed by the padded bytes |
| `insert`, `remove`, `compact_logs` | `Insert`, `Remove`, `CompactLogs` start the call (`pc = "writing"`, `work` is the plan); `WriteBlock` does one block write and, after the last one, the change of the bucket and the return of `Ok`; `WriteError` is a write that fails and `?` returning `Err` |
| `build_from_disk` | `BuildFromDisk` (from `pc = "down"`): `Disk::new`, `read_whole_disk_leave_bytes`, `Replay` |
| `unwrap()` and `Vec::with_capacity(length)` in `build_from_disk` | `BuildPanics`: the kernel does not come up; the state stays `down` |
| loss of power | `Crash`: memory and cursor are lost, the blocks stay; at most `MaxCrashes` times |

`Replay` follows the loop of `build_from_disk` chunk by chunk: a tag, then a
length word and `length/8` (+1) chunks, `if let Some` at every step, so a log
that ends early or holds something else where a length is expected is read the
way the code reads it. `ReplayPanics` is the case in which a chunk that is not
a length word is taken for one: `Vec::with_capacity` of that many bytes.

Keys and values are strings of one to eight bytes without a zero byte, one
chunk each; `Empty` is the empty string, which is what zero chunks replay to.
`remove` of an absent key returns `Ok(false)` and writes nothing; `Ok(true)`
and `Ok(false)` are both `Ok` in the model.

### `KVStorePersist`

`KVSTORE`, the store behind the system calls, is a `TxKVStorePersist`. Its
transaction `WDTXPersist` has `read`, `write`, `delete`, `abort` and
`try_commit` with the text of `WDTX`'s, so `KVStorePersist` extends `KVStore`
and uses its actions for them.

| Code | Model |
|---|---|
| `TxKVStorePersist::new` | `PInit`: `build_from_disk` of a device that was never written |
| `transact(f, persist)`, `transact_mut(f, persist)` | `Enter(c, wrapper, closure)`; a closure is the set of methods it may call and its `persist` flag |
| `read_kv`, `write_kv`, `write_kv_persist`, `delete_kv` | the closures of the same names; only `write_kv_persist` passes `true` |
| `f(&mut tx)` | `PBody`, `PInternal`: the actions of `WDTX`; an access of the map waits while a commit holds the bucket (`MapFree`) |
| `if persist { try_commit_persist() } else { try_commit() }` | `PCommit` |
| `try_commit_persist` | `TryCommitPersist`, then for every entry of the write set `PersistLog` (the record, `append_to_disk` up to its first write), `PersistWrite` (one block), `PersistApply` (the bucket); `PersistWriteFails` and the failing read in `PersistLog` are the `Err` that `let _ =` drops; then `PersistUnlock` for every stripe |
| end of the loop body, `assert_eq!` | `PLeaves` |

`insert` and `remove` lock the bucket, then the `Disk`, and hold both until
the last block is written; the model takes the two together, so a thread is
never seen waiting for the `Disk` with a bucket in its hand. That thread only
delays the others, and the properties here are safety properties.

`durable` is the map that the calls of `insert` and `remove` made by
persistent commits built, `io_failed` records that a read or write failed.
Neither is read by an action.

### `ATA` and `BlockDevice`

A call (`Drive::open`, `read`, `write`) holds the `BUSES` mutex from its first
step to its last. The model keeps what is left of the call as `plan`, a
sequence of steps that the operators named after the code's functions put
together: `select_drive` is a poll of BSY, a poll of DRQ, the write of the
drive register and again the two polls; `write_command_params` the LBA
registers; `write_command` the command register, the status test (0 is no
drive, ERR an aborted command) and the polls of BSY and DRQ; `transfer` is
`setup_pio`, `write_command`, the data loop and the ERR test at the end;
`identify_drive` begins with the floating-bus check and ends with the
signature. One action takes one step.

| Code | Model |
|---|---|
| `ata::init` | `init`: two more buses, up to `MaxBuses` |
| `Drive::open`, `ata::read`, `ata::write` | `DriveOpen`, `Read(b)`, `Write(b, d)`: `Begins` sets the plan; a buffer of the wrong length returns at once (`WrongLength`) |
| `Bus::poll` | `PollPasses` (the bit has the value), `PollTimesOut` (`elapsed > PollTicks`: the call returns `Err`, the rest of the plan is dropped) |
| `timer_interrupt_handler`, `add_tick` | `Tick`, enabled while `intr` holds |
| register writes and reads | `WriteDriveRegister`, `WriteParams`, `WriteCommand`, `CheckStatus`, `CheckFloatingBus`, `Transfer`, `IsError`, `Signature` |
| the drive | `DriveAnswers`, `DriveAborts`, `DriveWrites`, `DriveWriteFails`: the environment, between any two steps of the driver; `Faults` says which it may take |

The status register is a function of the drive's phase (`Status`). `intr` is
chosen when a call begins: the kernel's own calls run with interrupts on, the
calls made for `write_kv_persist` run behind the interrupt gate of `int 0x80`
with interrupts off.

`BlockDevice` is the promise: blocks that hold what was written last, calls
that answer `Ok` or `Err`. `ImplementsBlockDevice` is `BlockDevice!Spec` under
the mapping `store <- IF plan # <<>> THEN before ELSE Settled`: a call takes
effect when it returns, and a sector the drive has taken counts as written.
With the fault `"media"` the instance is `Lossy` (a drive that fails a write
after the driver has answered `Ok` loses the sector).

### `Shell`

`int 0x80` enters through an interrupt gate, so a system call is one step and
the keyboard interrupt falls between two steps of the shell. A key of the
model is the newline or the text of one command.

| Code | Model |
|---|---|
| `keyboard_interrupt_handler`, `key_handle` | `KeyPress(key)`: append to `stdin` |
| `shell::input`: prompt, fresh buffer | `Prompt` |
| `syscall::read_in`, `syscall_handler`, `dispatcher`, `funcs::read_in`, `console::read_line` | `ReadIn`: `read_line` takes the line when it ends in a newline and hands it out without taking it otherwise; the copy loop fills the buffer or runs past it (`copies`), which is a panic of the kernel |
| `shell::input`: `if len > old_len && buf[len - 1] == '\n'` | `Input` |
| `shell::shell`: the `match` | `KVCommand(c)`, `PrintCommand`, `Exit` |
| `syscall2`, `syscall3` | the sets of registers a call can arrive with: `rdx` of `syscall2` is whatever was there (`Stale`) |
| the shell as the program of user space | `ShellStep`, the next step of the shell whichever it is; `FairSpec` gives it weak fairness |

### `SkipMap`

The heap is a function from addresses to nodes; a pointer is an address and a
mark. `search(h, key)` follows the code's three nested loops (`descend` per
level, `ahead` along a level, `unmarked` over marked nodes) and returns the
heap it leaves, because search unlinks what it walks over. `Insert`, `Get`
and `Remove` are one step each: the kernel has one processor and calls the map
from one place at a time. `get_rand_level` is any level up to the maximum.
`fault` records a call that follows a null pointer or does not end.

### `Memory`

`kernel_main`, `init`, `remap_the_kernel`, `initproc` and `InitExec::setup`
are sequences of calls; `plan` is what is left of them and one action makes
the next call. The operators named after the code's functions (`allocate_frame`,
`map_to`, `map`, `identity_map`, `unmap`, `change_flags`, `map_memory`, ...)
take the record of the variables and return it changed, or stopped (`state`
is `panic` for an assert or an `expect`, `halt` for `hlt_loop`, `fault` for an
exception whose handler prints and halts, `spin` for a loop that does not
end, `double fault` for a vector that finds no gate or no stack and ends in
`double_fault_handler`, `reset` when the double fault finds none either,
`user` after the jump).

| Code | Model |
|---|---|
| the boot information, `boot.asm`'s tables | `Init`: any `boot_info` of `Boots`; the first pages mapped to themselves by huge pages |
| `AreaFrameAllocator` | `new`, `choose_next_area`, `allocate_frame` (recursive, as in the code), `reserved` |
| `TinyAllocator` | `TinyAllocator`, `take` |
| `Mapper` | `translate_page`, `map_to`, `map`, `identity_map`, `try_identity_map`, `unmap`, `change_flags` |
| `enable_nxe_bit`, `enable_write_protect_bit` | `EnableNxeBit`, `EnableWriteProtectBit` (`sets`); `writable` reads the bits |
| `acpi::init(rsdt_addr).expect("No ioapic")` | `AcpiInit`, by `init` of `ACPI` |
| `timing::init`, `gdt::init`, `init_idt` | `TimingInit`, `GdtInit` (`TSS`), `InitIdt` (`IDT`, `gates`) |
| `breakpoint_handler`, `double_fault_handler`, `page_fault_handler`, `divide_error_handler` ... `security_exception_handler` | the vectors whose handler `returns`, `panics`, or ends in `hlt_loop`: the `ends` of a gate |
| `init_pic`: `LAPIC::init`, `IOAPIC::init` | `LapicInit`, `IoapicInit` (`registers`, `get_apic_id`, `write_reg`) |
| `init_interrupts`, `init_heap` | `InitInterrupts`, `InitHeap` |
| `init_nanosleep`, `nanosleep` | `InitNanosleep` (up to the loop), `Calibrate` (the loop is left and the factor stored), `too_early`, `nanosleep` |
| `timer_interrupt_handler`, `keyboard_interrupt_handler`, `spurious_interrupt_handler`, `add_tick`, `LAPIC::eoi` | `Timer`, `Keyboard`, `Spurious`, `add_tick`, `eoi` |
| the processor taking a vector | `reached`, `taken` |
| a fault of the user's program, `int n` in it | `Exception(v)`, `SoftwareInterrupt(v)` (`int`) |
| `remap_the_kernel` | `TemporaryPage`, `InactivePageTable`, `With`, `IdentityMap`, `TryIdentityMap`, `WithEnds`, `Switch`, `Unmap`, `Map` |
| `kernel_main`: the command line | `CommandLine` |
| `initproc`, `Module::init` | `Module` |
| `InitExec::setup` | `MapMemory`, `ChangeMapMemory`, `Write`, `MapMemoryExpect` |
| `switch_to_userspace` | `SwitchToUserspace` |

An address is a number of units of which `PAGE_SIZE` make a page; a table has
`ENTRY_COUNT` entries. `handed` is a history variable: the frames the area
allocator has returned, in order.

`Timer`, `Keyboard` and `Spurious` are enabled from `init_interrupts` on and
are taken between two calls of the plan, which they leave as it is, and
between two instructions of the user's program (`switch_to_userspace` pushes
`rflags` with the interrupt flag set). The processor enters a handler through
the gate of its vector (`reached`): the IDT must be loaded, a gate with a
stack index needs the TSS loaded and a stack at that index, and a gate
without one that is entered from user space needs `privilege_stack_table[0]`
of the TSS. A vector that cannot be delivered is a double fault, delivered in
the same way, and a double fault that cannot be delivered resets the machine
(`taken`). In user space the program can fault (`Exception(v)` for every
vector whose handler halts) and execute `int v` (`SoftwareInterrupt(v)`):
only the gate of `0x80` is open to privilege level 3, every other `int` is a
general protection fault. What `int 0x80` does is in `Shell`; here it
returns. The three interrupt handlers end with
`LAPIC::eoi`, a write to the page of `LOCAL_APIC` under the page table that
`cr3` names at that moment: a page that is not mapped writable there is a page
fault. The keyboard interrupt arrives only if the redirection entry that
`IOAPIC::init` wrote names the processor the kernel runs on (`routed`), and
`key_handle` pushes to a `String`: before `init_heap` the allocator has no
memory and the push ends the kernel. (The allocator, `fixed_size_block.rs`, is
not among the sources; what the model takes from it is that it hands out
nothing before `init`.) `boot_info.msr` is the APIC base MSR,
`boot_info.lapic` the registers of the local APIC by their offset, and
`boot_info.tsc` the cycles the processor counts per microsecond.

`PIT_TICKS` is kept relative to `start_pit` of `init_nanosleep`: `add_tick`
counts while the loop at `timing.rs:74` waits, and only until the loop can be
left (the value of the counter matters to nothing else in the boot; `ATA`
keeps its own `elapsed` in the same way). `PIT_INTERVAL` is in nanoseconds, so
that the loop is left after the second tick, and `Calibrate` stores
`max(1000 / boot_info.tsc, 1)`, the integer the `as u64` of line 82 yields.

### `ACPI`

`boot_info.memory` gives, for the address of a table, its bytes. `ACPI` reads
them as the code does: a header by its offsets, a `u32` from four bytes with
the lowest first, the checksum as the sum of `length` bytes modulo 256, an
entry of the MADT by walking from offset `0x2c`, each entry as long as its
second byte says. Every method of `MADT` walks again from the start
(`count_entries`, `seek`), and `init` calls them in the order of the code:
the checksum of the RSDT, then for every table the signature, and for a MADT
its checksum, the number of entries, the processors, the first IOAPIC. A call
returns `Ok` with a value, `Err`, `panic` (an `assert!`, an `expect`, the
subtraction of `num_tables` below zero) or `spin` (the loop of `num_entries`
over an entry of length 0). `Entries`, `Sound`, `Good` and `FirstIoapic` read
the same bytes once, front to back, and say what the tables mean; the
properties compare the two.

## 3. The runs

| Run | Module / cfg | Expect | Properties |
|---|---|---|---|
| `kv_safety` | `MCKVStore` / `KVStore_safety.cfg` | pass | `KVTypeOK`, `OwnedStripesAreLocked`, `WriteSetIsLocked`, `ReadsAreCurrent`, `WritesUnderLock` |
| `kv_liveness` | `MCKVStore` / `KVStore_liveness.cfg` | pass | `NoOrphanLocks`, `CommitReleases` |
| `kv_lost_write` | `MCKVStore` / `KVStore_lost_write.cfg` | violation | `CommitInstallsWrites` |
| `kv_wait` | `MCKVStore` / `KVStore_wait.cfg` | violation | `WaitIsRetried` |
| `containers` | `MCContainers` / `Containers.cfg` | pass | `NoDuplicates`, `ImplementsAbstract` |
| `kv_persist` | `MCKVStorePersist` / `KVStorePersist.cfg` | pass | `LogHoldsDurable`, `ReadsAreCurrent`, `LogsUnderLock`, `AppendOnly` |
| `pmap_faults` | `MCPersistentHashMap` / `PersistentHashMap_faults.cfg` | pass | `TypeOK`, `SnapshotAtStart`, `LogBeforeApply` |
| `pmap_restart` | `MCPersistentHashMap` / `PersistentHashMap_restart.cfg` | violation | `LogHoldsMap` |
| `ata` | `MCATA` / `ATA.cfg` | pass | `TypeOK`, `ImplementsBlockDevice`, `CallReturns` |
| `shell` | `MCShell` / `Shell.cfg` | pass | `TypeOK`, `InputsAreTyped`, `EndedLineIsAnswered` |
| `skipmap` | `MCSkipMap` / `SkipMap.cfg` | pass | `LevelsAreSorted`, `HoldsWhatWasPut`, `AnswersAsAMap` |
| `memory` | `MCMemory` / `Memory.cfg` | pass | `FramesHandedOnce`, `OneUsePerFrame`, `UserStackIsGuarded`, `EoiIsMapped`, `FirmwareIsRead`, `HandlersAreReached`, `CalibrationEnds` |

PROJECT.json records these twelve: the passing run of every model, and the
three disagreements that touch what the store promises its callers. The other
configurations of this directory are kept beside them and are run the same way
(`tlc -config X.cfg M`). Each of them checks one property that TLC finds
violated; the table under "What does not hold" names them in brackets.

### What holds

* **`OwnedStripesAreLocked`**: every stripe in the `locked_index` of a live
  transaction is locked under its id, in every interleaving of two threads.
  With unique ids this is mutual exclusion, and it shows that no unlock loop
  frees a stripe of another transaction.
* **`WriteSetIsLocked`**: every key buffered in `redo_log` or `remove_log` of a
  live transaction has its stripe locked under the transaction's id.
* **`WritesUnderLock`** (action property): a step changes the map's value of a
  key only as part of the commit of the transaction that holds the key's
  stripe.
* **`ReadsAreCurrent`**: as long as an attempt is alive and has not begun its
  commit, every value `map.get` has returned to it is the value the map still
  holds, whatever the other thread has read, written, committed or given up
  since. Together with `WritesUnderLock` this makes the reads and the writes
  of a committed transaction those of one moment. It holds because `read` and
  `delete` take the stripe before `map.get` and only the unlock loops of
  `try_commit` and `abort` release it; neither `OwnedStripesAreLocked` nor
  `WritesUnderLock` notices a read that gives its stripe back early. In
  `kv_persist` it holds as well, where the commit of the other thread is
  `try_commit_persist`, which changes the bucket once per record with block
  writes in between.
* **`NoOrphanLocks`**: as long as closures only write, a locked slot always
  belongs to a transaction that is alive and will unlock it; a transaction
  that dies holding two stripes releases both.
* **`CommitReleases`** (liveness): a commit that has started returns, with all
  stripes of `locked_index` released.
* **`NoDuplicates`**, **`ImplementsAbstract`**: no `Vec` of a container ever
  holds a key twice, a bucket holds only keys that hash to it, and the three
  containers behave as a set and two maps.
* **`LogHoldsDurable`**: as long as no read or write of the device has failed,
  whenever no append is under way the log replays to the map that the
  persistent commits made, whichever way the commits of two threads on keys of
  one bucket reached the `Disk`, and whatever `try_commit` of `read_kv` and
  `delete_kv` did to the same bucket in between. The device of the run holds
  three insert records, so the logs compared have the records of both
  threads.
* **`LogsUnderLock`** (action property): a block of the device changes only in
  a step of a commit whose transaction holds the stripe of the record's key.
* **`AppendOnly`** (action property): no step changes a chunk before the
  cursor, also after an append ran off the end of the device. The cursor is
  the one the `Disk` has: whether it is the end of the log is the matter of
  `LogHoldsMap` (`pmap_restart`).
* **`SnapshotAtStart`**: whenever `compact_logs` has returned `Ok`, the device
  starts with exactly the snapshot and the cursor is at its end, also after
  failed calls and after a restart. It says nothing of the blocks after the
  snapshot (`PersistentHashMap_compact.cfg` below).
* **`LogBeforeApply`** (action property): a step of `insert` or `remove`
  changes a bucket only when the whole record of the call lies on the device
  right before the cursor, whatever writes failed before.
* **`ImplementsBlockDevice`** (refinement): whatever the drive does between two
  register accesses, a read that returns `Ok` gives the block, a write that
  returns `Ok` has put its data in the block (or, with the `media` fault, the
  drive has lost it afterwards), and a call that returns `Err` from
  `select_drive` or `write_command` has changed no block. This includes the
  answer that comes after a poll has given up and the next call that finds the
  drive in the middle of the last one.
* **`CallReturns`** (liveness): a call made with interrupts on returns, also
  from a drive that never answers.
* **`InputsAreTyped`**: the lines `shell::input` has returned, the line it is
  about to return and what `STDIN` holds are, in this order, the keys typed,
  wherever in the read loop the keys arrived.
* **`EndedLineIsAnswered`** (liveness): when the last key typed is a newline
  and stays the last, `shell::input` returns everything that was typed,
  unless the shell has left its loop at `exit` or the kernel has panicked on
  a line longer than the buffer. `input` may have read the line in pieces
  before, or nothing at all for any number of calls: `old_len`, reset at
  every prompt, is never so large that the newline goes unnoticed. The
  property does not say that a line is answered when the user types on
  after the newline: it is not, until the next newline (`LineOriented`
  below).
* **`TypeOK`** of `Shell`: while the kernel is up, `len` is within the buffer.
* **`LevelsAreSorted`**, **`HoldsWhatWasPut`**, **`AnswersAsAMap`**: for keys
  other than `K::default()`, after every sequence of calls each level of the
  skip list is sorted, holds no marked node and is drawn from the level below;
  the lowest level holds one node per key of the map with the value put last;
  and every `get`, `insert` and `remove` answers as a map would.
* **`FramesHandedOnce`**: for every layout of `MCBoots`, the area allocator
  never returns a frame twice, never a frame of the kernel or of the boot
  information, and only frames of a memory area.
* **`OneUsePerFrame`**: a frame that was handed out is a page table, or a
  mapped page, or a slot of the `TinyAllocator`, or the P4 of the new table:
  never two of them, and no frame that was not handed out is any of them.
* **`UserStackIsGuarded`**: at the jump to user space the pages of the stack
  are user accessible and writable, the page below and the page above are
  mapped and not user accessible, and every address the loader wrote is a user
  page.
* **`EoiIsMapped`**: from `init_interrupts` on, in every state in which a
  handler can run, the registers of the local APIC are mapped writable under
  the current page table: before, during and after `remap_the_kernel`, which
  builds a table of its own and switches to it, and in user space, after
  `setup` has mapped the code, the stack and the heap of the user. It holds because
  `remap_the_kernel` maps the page of `LOCAL_APIC.get_ptr()` again
  (`paging/mod.rs:142`); the registers of the IOAPIC are not mapped in the
  new table, and nothing writes them after `IOAPIC::init`.
* **`HandlersAreReached`**: no interrupt, exception or fault, of the boot or
  of the user's program, ends in `double_fault_handler` or resets the
  processor. `init` loads the GDT, the TSS and the IDT before
  `init_interrupts` and before the first write that can fault, the stack
  indices of the double fault, page fault and general protection fault gates
  (`interrupts/mod.rs:33-43`) are the three entries of
  `interrupt_stack_table` that `gdt.rs:42-57` fills, and the vectors taken
  from user space without a stack index find `privilege_stack_table[0]`
  (`gdt.rs:35-38`).
* **`CalibrationEnds`** (liveness): the `hlt` loop of `init_nanosleep` is
  left. By then interrupts are enabled, the timer's gate is loaded, the
  handler counts the tick, and its `eoi` finds the registers mapped in the
  table `remap_the_kernel` has switched to.
* **`FirmwareIsRead`**: the kernel gets past `acpi::init` exactly for the
  tables that are `Good`, read off in the state `acpi::init` returns to, so
  that good tables that stop the kernel are as much a violation as bad ones
  that let it go on (an RSDT of at least 36 bytes with a valid checksum; a
  MADT with an IOAPIC; up to and including it, signatures that are text, MADTs
  with a valid checksum, no entry of length 0 and no override of IRQ 1, and at
  most `CPUS` processors between them), and the IOAPIC it programs is the
  first one of the first MADT that has one. For every other set of tables the
  kernel panics or, for an entry of length 0, never leaves `num_entries`.

### What does not hold

| Run | What TLC shows | Source |
|---|---|---|
| `kv_wait` | `try_lock` is called once, before the `loop`; on `Wait` the loop has nothing to do and never ends. The older of two transactions that meet on a stripe hangs, also after the younger has committed and unlocked. | `cc/mod.rs:120-131`, `145-157`, `176-187` |
| (`KVStore_delete_die.cfg`) | `delete` on `Die` sets `is_aborted` and returns without `abort()`; `try_commit` then returns false without unlocking. The stripes the transaction held stay locked for ever. | `cc/mod.rs:183-184` |
| `kv_lost_write` | `write` does not take the key out of `remove_log`; commit inserts, then removes. After `delete(k); write(k, v)` the transaction reads `v` and its commit leaves `k` absent. | `cc/mod.rs:159`, `208-213` |
| (`PersistentHashMap_reload.cfg`) | The reader stops at the first block whose first *byte* is zero. A block that begins with a length word is such a block, so the records after it are never replayed: insert, insert, remove on two keys is enough. `test_persistent_map_compaction` pins the effect: after 6440 bytes of records it expects `read_whole_disk()` to return 1020 (two blocks less the trailing zeros). | `disk/disk_api.rs:75`, `105` |
| `pmap_restart` | `build_from_disk` creates its `Disk` with the cursor at block 0 and reading does not move it. The first `insert` or `remove` after a start overwrites the log from block 0. | `disk/persistentmap.rs:103` |
| (`KVStorePersist_fail.cfg`) | `try_commit_persist` drops the `Result` of `map.insert` and `map.remove`. When the append of a record fails, the record is not written and the bucket is not changed; the commit unlocks and returns `true`, and `write_kv_persist` returns 0 for a write that is nowhere. | `cc/mod.rs:390`, `393` |
| (`PersistentHashMap_compact.cfg`) | `over_write_disk` puts the block of zeros at `current_block + 1` also when the data ends at a block boundary; block `current_block` keeps its old content. Compacting an empty map leaves the first block of the old log in place, and removed keys come back at the next start. | `disk/disk_api.rs:55` |
| (`PersistentHashMap_boot.cfg`) | `compact_logs` rewrites the log in place. After a loss of power between two of its block writes, a record of the snapshot continues in a block of the old log, a tag is read as a length, and `Vec::with_capacity` panics at every start. | `disk/persistentmap.rs:119`, `143` |
| (`KVStore_panic.cfg`) | `transact` asserts `committed == true` inside the loop; a transaction that died on a conflict panics instead of being run again. | `kvstore/mod.rs:50` |
| (`WDTX_abort.cfg`) | `abort()` leaves `is_aborted` false and `locked_index` full. Used through the trait, a transaction that aborted and then commits writes the map with no lock and unlocks the stripes again. | `cc/mod.rs:197-201` |
| (`PersistentHashMap_torn.cfg`) | A record cut short by a loss of power is not dropped by the replay: the zeros of the next block are taken for the missing value, and the key is inserted with an empty value. | `disk/persistentmap.rs:136-161` |
| (`ATA_syscall.cfg`, `EveryCallReturns`) | Inside a system call interrupts are off and `PIT_TICKS` stands still: `Bus::poll` of a drive that does not answer never reaches "ATA hanged while polling", and `write_kv_persist` never returns. | `disk/ata.rs:151`, `interrupts/mod.rs:44` |
| (`ATA_media.cfg`, `KeepsWhatItAnswered`) | `Bus::write` tests ERR right after the last word, without waiting for BSY to clear: it returns `Ok` for a sector the drive then fails to write. | `disk/ata.rs:253` |
| (`Shell_LineOriented.cfg`) | `read_line` returns all of `STDIN` when its last byte is a newline: two lines typed while the shell was busy arrive as one, and the shell matches neither command. | `console.rs:37` |
| (`Shell_KernelSurvivesTyping.cfg`) | The copy loop of `funcs::read_in` tests `i > len`: a line of more than `len` bytes is written to `s[len]` and the kernel panics on the index. | `syscall/funcs.rs:66` |
| (`Shell_TakesTheKeysPassed.cfg`) | `delete_kv` passes its length as the second argument of `syscall2`; the dispatcher reads the third, `rdx`, which holds what the code before left there. | `src/stdlib/src/syscall.rs:50` |
| (`SkipMap_default.cfg`, `NoCallStops`) | Head and tail hold `K::default()`. `insert` of that key on a fresh map takes the tail for a node with the key, marks the tail's pointers and searches again, and the search follows the tail's null pointer; `get` of it answers `Some(V::default())`. | `map/mod.rs:130`, `196` |
| (`Memory_modules.cfg`, `ModulesAreKept`) | The allocator skips the kernel and the boot information, not the boot module: a frame of the ELF file is handed out for a page table before `initproc` reads the file. | `memory/paging/frameallocator.rs:82-89` |
| (`Memory_frames.cfg`, `FramesAreMemory`) | The last frame of an area is the frame of its last byte: an area that ends inside a page gives out a frame that is partly not memory. | `memory/paging/frameallocator.rs:76` |
| (`Memory_keys.cfg`, `HeapBeforeKeys`) | `init` calls `init_interrupts` before `remap_the_kernel` and `init_heap`. A key typed in between reaches `key_handle`, which pushes to `STDIN` while the allocator has no memory. | `lib.rs:145`, `159`; `console.rs:11-15` |
| (`Memory_apic.cfg`, `KeysReachTheKernel`) | `get_apic_id` reads `apic.add(0x20)` of a `*const usize`, which is byte `0x100` (the in-service register), not the id register at `0x20`. `IOAPIC::init` writes 0 as the destination of IRQ 1: on a boot processor whose APIC id is not 0 no key arrives. | `apic/mod.rs:92-95`, `66` |
| (`Memory_nanosleep.cfg`, `NanosleepIsLongEnough`) | `NANOSECONDS_PER_TICK` is `max((ns / cycles) as u64, 1)`: 1 on every processor faster than 1 GHz. `nanosleep(400)`, the wait of `Bus::wait` between two registers of the drive, then lasts 400 cycles, 133 ns at 3 GHz. | `drivers/timing.rs:82`, `58`; `disk/ata.rs:117` |
| (`Memory_search.cfg`, `MapMemoryReturns`) | When the requested range is taken, the search of `map_memory_impl` accepts a range only if all of it is mapped, and walks on otherwise: it panics in `Mapper::map` or never ends. | `memory/mod.rs:51-82` |

## 4. Bounds

| Constant | Value | Why it is enough |
|---|---|---|
| `Txns` | 2 handles | every property is about a pair: a holder and a contender |
| `Keys`, `StripeOf` (`MCKVStore`) | `k1, k3 -> 0`, `k2 -> 1` | a stripe shared by two keys (a lock that covers a key never touched) and two stripes (hold one, conflict on the other) |
| `Keys`, `WideStripeOf` (`kv_liveness`) | a stripe per key, 3 stripes | a transaction holds two stripes and meets a conflict on the third: `abort()` and the unlock loop iterate more than once |
| `BucketOf` | `k1, k2 -> 0`, `k3 -> 1` | a bucket with two entries, so that position and order in the `Vec` matter |
| `Values` | 1 or 2 | present/absent is what the properties read; two values where overwriting matters |
| `MaxTid` | 2 or 3 | ids 0..2: both orders of age between the threads, and one retry or one later transaction that finds what an earlier one left |
| `MaxOps` | 2 (3 in `kv_liveness`) | lock one stripe and conflict on another; delete then write of one key |
| `Wrappers`, `Methods` | per run | the wrappers and the methods the closures of that run use; `kv_persist` has `transact_mut` alone, the wrapper of the four system calls (`transact` differs in `AssertFails`, which `kv_liveness` reaches) |
| `Keys`, `Values` (`MCContainers`) | 3 keys, 2 values, `k1, k2` in one bucket | `swap_remove` of the first of three moves the last; a bucket with two entries |
| `BlockChunks` | 4 (64 in the code) | a record is 5 or 3 chunks: the first insert already crosses a block boundary, and the log reaches every offset of a block within a few calls |
| `NumBlocks` | 4 to 7 | the device is smaller than the logs the run can write where filling it up is part of the run (`Overfill = TRUE`), and larger (`Overfill = FALSE`: a call that would run off the device is not made) where the property is about the log itself |
| `Keys` (`MCPersistentHashMap`) | `k1, k2` in two buckets; `k1` alone in `pmap_faults` | two keys make a snapshot of up to ten chunks; with failing writes and a loss of power the states differ in what is on the device, and one key with two values tears, overwrites and replays a record in every way |
| `Keys`, `BucketOf` (`MCKVStorePersist`) | `k1, k2`, a stripe each, one bucket | two transactions hold their stripes at once and meet at the bucket and at the `Disk` |
| `Closures` | `read_kv`, `delete_kv`, `write_kv_persist`, and writes and deletes with `persist` | the system calls that read and change the map without a record beside commits that log; a persistent commit with a remove, which `transact_mut` accepts and no system call makes, so that `remove` of a present and of an absent key are reached |
| `NumBlocks` (`MCKVStorePersist`) | 5 | the records of three inserts fit (15 chunks and the block of zeros after them), so that `LogHoldsDurable` is checked of a log that holds the commits of both threads in either order; a fourth record runs off the device, so that the failing read and write at its end are reached with `IOFails = FALSE` |
| `IOFails` | per run | whether a read or write of the device may return `Err` |
| `MaxCrashes` | 0 or 1 | one loss of power and one `build_from_disk` after it |
| `Calls` | per run | the methods of the map the run uses |
| `Blocks`, `Data` (`MCATA`) | 2 blocks, 2 values | a call on one block while the drive still holds a sector of the other; two values tell an old block from a new one |
| `PollTicks` | 1 (10 in the code) | a poll gives up after the second tick; what matters is that the drive can answer before, between and after |
| `MaxBuses` | 4 | `ata::init` runs twice |
| `Faults` | all four | a drive that is absent, floating, aborts, or fails a write |
| `BufLen`, `MaxTyped` (`MCShell`) | 3, 5 (256 in the code) | a line that fills the buffer, one that is one byte longer, and two lines typed before the shell reads; for `EndedLineIsAnswered`, a line read in two pieces and a second line after a first one that was read in pieces |
| `Commands`, `Stale` | the five commands; 0..2 | each arm of the shell's `match`; `rdx` equal to and different from the number of keys |
| `Keys`, `MaxLevel`, `MaxNodes` (`MCSkipMap`) | 3 keys, 2 levels (32 in the code), 3 nodes ever boxed | a node on both levels between two others; insert over a key that is there; remove of the middle one |
| `PAGE_SIZE`, `ENTRY_COUNT`, `MaxPage` (`Memory.cfg`) | 4, 4, 63 (4096, 512, 2^35 - 1) | a page has a first, an inner and a last address; a table fills up, so that tables of all three levels are made; the search of `map_memory` reaches the last page |
| `Boots` (`MCBoots`) | 1393 boots: 792 layouts with the tables QEMU passes, and one layout with each of the firmwares, MSR flags, APIC ids and processor speeds below | memory areas that end on and inside a page, the kernel in one or two sections, the boot information above the kernel, in the low area and across the end of an area, with and without a module, an ELF file of one or two segments at and above address 0, with and without relocations, and files that do not parse |
| `Firmwares` (`MCMemory`) | every MADT of up to three entries out of eight (two processors, two IOAPICs, an override of IRQ 0 and one of IRQ 1, an NMI entry, an entry of length 0), and nine more sets of tables | each early return and each assertion of `acpi::init` is reached, alone and after an entry that is fine: a bad checksum of the RSDT and of the MADT, no MADT, no table, an RSDT of 32 bytes, a signature that is not text, two MADTs of which the second has the IOAPIC, and three processors in one MADT and over two |
| `CPUS` | 2 (64 in the code) | `CPUData::add` asserts at the third processor; the tables stay short (TLC evaluates the walk of a table recursively) |
| `msr.flags`, `lapic` | the four subsets of EN and BSP; APIC id 0 and 1 | both assertions of `LAPIC::init`; a boot processor whose id is and is not what `get_apic_id` returns |
| `boot_info.tsc` | 500, 700, 1000 and 3000 cycles per microsecond | a factor of 2, of 1 by truncation, of exactly 1, and of 1 by the `max` |
| `CODE_PTR`, `STACK_PTR`, `STACK_SIZE`, `USER_HEAP_PTR` | pages 2, 6, 1 page, page 12 | the code below the stack and the heap above it, as in the code (0x40000, 0x80000, 0x10000000): a long segment reaches the page below the stack |

`GLOBAL_CLOCK` is a `u64` and cannot overflow in practice; `Begin` is guarded
by `GLOBAL_CLOCK < MaxTid`. When the ids are used up and every call has
returned, or every remaining thread sits in the `Wait` loop of `SpinLoop`, the
model stops; the configurations therefore set `CHECK_DEADLOCK FALSE`. The
persistent map stops when the device is full and when `build_from_disk`
panics, and its configurations do the same. `ATA` stops when `BUSES` has
reached `MaxBuses` and the drive is stuck; `Shell` stops at `exit`, at a panic
and when `MaxTyped` keys are typed; `Memory` ends in `hlt_loop` or in a panic, and goes on for ever in user
space (what the timer and the keyboard handler do for the store and the
shell after the jump is `Tick` of `ATA` and `KeyPress` of `Shell`). `SkipMap` never stops (`get` is always possible) and is checked
for deadlock.

Symmetry is used in `kv_safety` (`Txns` and `Values`), in `kv_persist`
(`Txns`) and in `pmap_faults` (`Values`); none of these runs checks a
liveness property.

## 5. Fairness

`KVFairSpec` assumes weak fairness of `Runs(c)` for each thread: a thread that
is inside a wrapper and can take a step eventually takes one. Each thread runs
on its own core, `try_lock` never blocks, and the slot and bucket mutexes are
held for one access only, so no step of a thread depends on another thread
being scheduled. Calling a wrapper (`Transact`) is the user's choice and is not
fair. `SpinLoop` is a stuttering step: fairness cannot make a thread leave it.
The persistence models have safety properties only and assume no fairness.

`ATA` assumes weak fairness of `Step`, the next register access or poll of the
call in progress, and of `Tick`: the processor runs the driver's loop, and the
timer interrupts it as long as interrupts are enabled (`Tick` is enabled only
while `intr` holds). Nothing is assumed of the drive: `CallReturns` holds of a
drive that never answers. `SkipMap` has safety properties only.

`FairSpec` of `Shell` assumes weak fairness of `ShellStep`, the next step of
the shell. The shell is the only program of user space and the kernel has one
processor and no scheduler: between two interrupts, each of which returns, the
processor runs the shell, and every system call of the shell returns in one
step. Nothing is assumed of `KeyPress`: the user types when they like, or
never.

`FairSpec` of `Memory` assumes weak fairness of `Calibrate` and of `Timer`.
`Calibrate` is the processor going on after `hlt` once the loop condition of
`init_nanosleep` is false. `Timer` is the timer of the local APIC, which
`LAPIC::init` sets to periodic mode on vector 32 (`apic/mod.rs:198-202`): it
interrupts again and again while interrupts are enabled, and `Timer` is
enabled only then. Nothing is assumed of the keyboard or of the other steps of
the boot; `CalibrationEnds` needs no more.

## 6. Not modelled, and why

* **Mix13 hash**: 64-bit multiplications, outside TLC's integers; only the
  induced partition of the keys matters to the protocol.
* **Non-UTF-8 chunks**: `String::from_utf8(chunk).unwrap()` panics on a chunk
  that is not UTF-8. Strings in the model are chunks without zero bytes and
  length words are UTF-8 (seven zero bytes and an ASCII byte), so the case
  needs strings of more than 127 bytes and is left out.
* **A loss of power during `try_commit_persist`** and a store built from a
  device that already holds a log: `KVStorePersist` starts from a fresh device
  and never restarts; the restart is in `PersistentHashMap`.
* **The segment selectors, the LVT** (`gdt.rs:62-75`, the registers
  `LAPIC::init` writes besides the timer's): written once, with no decision
  that depends on an earlier step. `LAPIC::init_cpu` is never called.
* **Sections that are not allocated or not aligned** (`paging/mod.rs:154-157`,
  `169`): the boots of `MCMemory` have sections and modules that start on a
  page, all allocated and writable, so the `continue` and the two alignment
  assertions of `remap_the_kernel` are never taken.
* **The echo of the shell** (`shell.rs:21`, `25`): the `print` system calls
  by which `input` shows the keys change the screen alone and are not steps
  of `Shell`.
* **What the user's program does between two faults**: `Memory` takes any
  exception and any `int` in user space at any moment; which instruction of
  `initexec` raises it is not modelled, and the pages of the user are checked
  at the jump (`UserStackIsGuarded`), not access by access.
* **`interrupts/apic/mod.rs`**: an earlier copy of `apic/mod.rs`, without the
  IOAPIC. It is compiled and nothing uses it: `interrupts/mod.rs:14` takes
  `LAPIC` and `IOAPIC` from `crate::apic`.
* **The rate of the ticks**: `init_pic` masks the PIC, so the PIT that
  `timing::init` programs interrupts nobody; the ticks `add_tick` counts are
  those of the local APIC's timer, whose period depends on the bus clock,
  while `sleep`, `init_nanosleep` and `Bus::poll` convert them with
  `PIT_INTERVAL`. The model counts ticks and says nothing of their length.
* **`src/asm`**: `rdtsc`, `inb`, `outb` and the like, one instruction each.
* **`stdlib/src/rand.rs`** and `Random` of `kernel/src/benchmark.rs`:
  rejection sampling over an `XorShiftRng` of another crate, in 64-bit
  arithmetic; no state of the kernel depends on it, and `run_bench` is called
  nowhere (`lib.rs:256` and `initexec/src/main.rs:34` are comments).
* **`rsdp_v1_tag` and its checksum** (`lib.rs:123-126`): methods of the
  multiboot2 crate; a boot has an RSDT address.
* **Serial port, buzzer, `sleep`**: port I/O, and a wait on the tick counter
  that the buzzer alone calls.
* **Heap allocators** (`memory/allocator/`): `init_heap` is a step of
  `Memory`; the allocator it initialises, `fixed_size_block.rs`, is not in
  `src/`, and `linked_list.rs` is not used by the build.
* **`common/hashset.rs`**: not a module of the crate (`lib.rs` declares
  `hash`, `set`, `map` and `locktable` of `common`), so it is not compiled.
* **Two calls of the skip map at once**: the kernel has one processor and no
  interrupt handler calls the map, so `SkipMap` takes a call as one step and
  every `compare_exchange` succeeds or fails as the loads before it say. The
  arms of `insert` and `remove` that search again after a failed
  `compare_exchange` are therefore never taken, and the component is recorded
  as partly modelled.
* **`Disk::read_whole_disk`**: called by the in-kernel tests only. It pops
  single zero bytes from the end of what was read, which cuts into the last
  chunk (a length word ends in its low byte); the models have no bytes within
  a chunk, and `build_from_disk` reads with `read_whole_disk_leave_bytes`.
* **`syscall/numbers.rs`, `memory/paging/table.rs` and `entry.rs`,
  `boot.asm`**: referred to by the code and not in `src/`. The system call
  numbers are taken from `stdlib/src/syscall.rs`, `next_table_create` from
  what `mapper.rs` does with its result, and the page tables at entry from the
  frames `remap_the_kernel` expects to be mapped; PROJECT.json marks the
  definitions.
* **Benchmarks, `kstd`, the tests and the build tooling**: sequential callers
  of the store and the harness.

## 7. Plan

Done: the in-memory engine (`SimpleSet`, `RedoLog`, `LockTable`,
`SimpleHashMap`, `WDTX`, `KVStore`); the containers against their abstractions
(`Containers`, `AbstractContainers`); the disk and the persistent map (`Disk`,
`PersistentHashMap`); the persistent store and the key-value system calls
(`KVStorePersist`); the ATA driver against `BlockDevice` (`ATA`); the console
and the shell (`Shell`); the skip map (`SkipMap`); the frame allocator, paging
and the loader (`Memory`); the ACPI tables, the APICs and the interrupts
during the boot (`ACPI`, `Memory`); the descriptor tables, the control bits
and the calibration of `nanosleep` (`Memory`); isolation of the reads of a
transaction (`KVStore`); the exception handlers, and the interrupts,
exceptions and `int` instructions of user space (`Memory`); the shell's
progress under fairness (`Shell`).

Next, in this order:

1. **Atomicity of a persistent commit across a loss of power**: `Crash` and
   `BuildFromDisk` of `PersistentHashMap` composed with `KVStorePersist`,
   one log record per key and no commit record (`cc/mod.rs:389`).
2. **The log after a failed append**: the cursor a failed write leaves
   (`disk_api.rs:140`) and what the next append overwrites.
3. **Serializability of `KVStore` as a refinement**: `ReadsAreCurrent` and
   `WritesUnderLock` say that a transaction reads and writes at one moment; an
   abstract specification in which it takes effect atomically, and the
   refinement from `KVStore` for closures that do not delete and rewrite a
   key, would say it in one property.
4. **`Disk` over `ATA`**: the block writes of `append_to_disk` as calls of the
   driver, so that a poll that gives up in the middle of an append is a
   failing write of `Disk` with the drive's late answer after it.
5. **The kernel after the jump to user space as one model**: `Memory` takes
   the interrupts and the exceptions of user space; composed with `Tick` of
   `ATA`, `KeyPress` and `ReadIn` of `Shell`, a system call of the shell
   would run against the page table and the heap the boot has left.

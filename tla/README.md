# RISC-V OS: verification project

TLA+ models of the operating system and its SBI firmware, the TLC
configurations that check them, and TLAPS proofs about them. Paths are relative
to the repository, whose own sources are below `src/` (`src/src` is the kernel,
`src/sbi/src` the firmware, `src/user` the user programs), so `src/src/cpage.c`
below is the kernel's page allocator.

To repeat the checks, inside this directory:

    tlc -workers 2 -config MCMemory.cfg MCMemory        (one of the runs below)
    tlapm SchedulerProofs.tla                           (and the other modules ...Proofs)

`PROJECT.json` lists the runs, the source lines behind every definition, the
hazards with the property that watches each, and for every checked property a
mutant: a plausible bug, as another operator in the same module, that breaks it.

## 1. The system

The machine is a QEMU `virt` board with up to eight harts. The firmware boots
every hart, keeps hart 0 for the operating system, parks the others, and serves
SBI calls and machine interrupts. The kernel runs in supervisor mode on hart 0,
and on the harts it asks the firmware to start. Kernel and firmware are built
with `-O0`, which the models use: a load or store in the source is one in the
code, and none is moved.

| Part | Sources | State | Operations | Who uses it |
|---|---|---|---|---|
| Harts | `sbi/src/main.c`, `hart.c`, `svccall.c`, `clint.c` | `sbi_hart_data[]`, a lock per hart, the CLINT's software interrupts | boot, `hart_start`, `hart_stop`, `hart_handle_msip`, status calls | kernel console, `p_spawn_on_hart`, the scheduler |
| Console | `sbi/src/uart.c`, `ring_buff.c`, `plic.c`, `ctrap.c`; `src/main.c` | UART FIFO, character ring with its lock, line buffer | interrupt, `ring_put`, `ring_get`, read loop | the user; any hart that calls `sbi_getchar` |
| Contiguous pages | `src/cpage.c` | two bits per page, in one byte each | `cpage_init`, `cpage_znalloc`, `cpage_free` | page tables, trees, stacks, ELF images, device rings |
| Linked pages | `src/ncpage.c` | a list through the free pages, a lock | `ncpage_init`, `ncpage_zalloc`, `ncpage_free` | (tests) |
| Locks | `src/lock.c`, `sbi/src/lock.c` | mutex, semaphore, barrier with a list of processes | lock and unlock, down and up, add, wait, wall | all of the above |
| Page tables | `src/mmu.c` | three-level tables, `kernel_mmu_lock` | `mmu_map`, `mmu_map_multiple`, `mmu_translate`, `mmu_free` | kernel start, heap, processes |
| Byte allocator | `src/kmalloc.c` | free list in address order, a lock | `kmalloc`, `kzalloc`, `kfree`, coalescing | containers, drivers, processes |
| Containers | `src/rbtree.c`, `src/map.c`, `src/list.c` | trees and lists | insert, delete, find | scheduler, device tables |
| Processes | `src/process.c`, `elf.c` | process records, page tables, stacks, images | `p_init`, `p_new`, `p_free`, `p_spawn_on_hart`, `elf_load` | scheduler, console |
| Scheduler | `src/p_scheduling.c` | one tree for all harts, whose keys are virtual runtimes, `scheduling_mutex` | add, remove, find next, `schedule_hart*` | timer traps, system calls |
| Traps, system calls | `src/trap.c`, `syscall.c`, `uaccess.c`, `asm/` | trap frames | `c_trap_handler`, `syscall_handle`, copies from and to user space | user programs |
| PCI and devices | `src/pci.c`, `virtio*.c`, `ringbuff.c`, `paint.c` | address registers, virtqueues, event ring | enumeration, device start, interrupt, requests, `paint` | console start |
| Screen | `src/virtio_gpu.c`, `paint.c` | a picture in memory, the GPU's resource, the display | `gpu_init`, `fill_rect`, `gpu_redraw` | `paint` |
| Block devices, random numbers | `src/virtioblk.c`, `virtio.c` | descriptors, request headers, counters of both sides | read, write, random bytes | `main`, file systems |
| File systems | `src/minix3.c`, `ext4.c`, `vfs.c` | buffers read from the disk, a path | walks over inodes and directories, path helpers | (commented out in `main`) |
| Command lines | `src/main.c`, `user/console.c`, `user/consolev.c` | an array with the line, the keys of an event batch | edit, run a command | the user |
| Text | `printf.c` (three copies), `strhelp.c`, `memhelp.c`, `user/libc/string.c` | a call's buffers | conversions, comparisons, copies | everybody |

How they interact. The kernel calls the firmware through `ecall`; the firmware
calls nobody but is entered by interrupts at any time a hart is outside it. The
harts share the hart table (a lock for each row), the character ring (one lock),
the kernel's page table (one lock), the lists of the two allocators and the
scheduler's tree. Devices share virtqueues with the drivers, and the drivers
share their counters with the interrupt handler, without a lock: only hart 0
receives the PLIC's interrupts. `main` starts the GPU and then `paint`, an
endless loop; the console's read loop is reached when the start of the GPU
fails. The scheduler is not started at this commit (`main.c:148-173` is
commented out), and neither are the file systems; their code is modelled as those
lines would start it.

What is hard in it:

* **Unlocked accesses next to locked ones**: the boot of a hart stores into the
  hart table without the lock (`sbi/src/main.c:51-53`); `mmu_translate` walks
  without it; `ncpage_zalloc` tests for an empty list before it takes it;
  `barrier_add_process` has none.
* **Interrupts inside a read-modify-write**: `ring_pop` against the handler's
  `ring_push`; `virtio_gpu_wait` against the handler that moves its index;
  `sbi_getchar` and the `WFI` behind it.
* **Atomic steps that are taken back**: the failed `semaphore_trydown`.
* **Books kept apart from what they describe**: the page bits of `cpage`, the
  colours of the tree, the status of a hart against where it is.
* **Indices with two meanings**: `at_idx` of the virtio drivers counts descriptors
  in one place and answers in another.
* **Exhaustion**: allocators return NULL, and few callers test for it.
* **Handing over a process**: a process is back in the tree before the hart that
  ran it has saved all of it.
* **Ends and lengths**: `mmu_map_multiple`, the disk reads of the file systems, and
  the copies from user space are given one where they expect the other.
* **Buffers filled from both ends**: `printf`'s conversion buffer, command lines with
  erased characters, rectangles of a picture that are sent row by row.

What makes each part correct is stated with its module below, and for the parts
without a module in section 7.

## 2. Modules

| Module | Models | Kind |
|---|---|---|
| `Cpage` | `cpage.c` | component |
| `AddressSpaces` | what a set of page tables promises | abstract specification |
| `Mmu`, `MmuProofs` | `mmu.c` | component, proofs |
| `Kmalloc` | `kmalloc.c` | component |
| `ProcessMemory` | `process.c`, `elf.c`, `uaccess.c` | component of three files |
| `Memory`, `MemoryProofs` | the three memory managers, and processes, with what is claimed of all of them | composition, proofs of `Cpage` and `ProcessMemory` |
| `MCMemory` | `Memory` | instance |
| `HartLifecycle` | what the firmware promises about a hart | abstract specification |
| `SbiHart`, `MCSbiHart`, `SbiHartProofs` | boot, start and stop of harts | component, instance, proofs |
| `Scheduler`, `MCScheduler`, `SchedulerProofs` | `p_scheduling.c` with traps, calls, timers and context switches | component, instance, proofs |
| `BoundedFifo` | what a ring promises | abstract specification |
| `SbiConsole`, `MCSbiConsole`, `SbiConsoleProofs` | from the UART to the line buffer | component, instance, proofs |
| `Semaphore`, `Barrier`, `NcPage` | `lock.c`, `ncpage.c` | components |
| `Library`, `LibraryProofs` | the three together, with `MapList`, `StringCalls` and `Shells` | composition, proofs |
| `Dictionary` | what a container promises | abstract specification |
| `RBTree`, `MapList` | `rbtree.c`, `map.c` | components |
| `Strings`, `StringCalls` | string and memory helpers, path helpers | operators, and every call of them |
| `Printf` | `printf.c` | component, with C's rules as reference |
| `Shells` | the three command lines | component of three files |
| `MCLibrary` | `Library`, the tree, `Printf` | instance |
| `PciEnum` | enumeration in `pci.c` | component |
| `PciDevices` | interrupt, event ring, GPU wait, `paint` | component of four files |
| `GpuScreen` | the picture and the display | component of two files |
| `VirtioBlk`, `VirtioBlkProofs`, `BlockDevices` | one block device, and all three with their caller | component, proofs, composition |
| `VirtioRng` | `rng_fill` of `virtio.c` | component |
| `MinixFs`, `Ext4Fs` | the walks over two file systems | components |
| `Devices`, `DevicesProofs` | `PciDevices`, the block devices, the random numbers, the console, the display, the enumeration and the file systems together | composition, proofs |
| `MCDevices` | `Devices` | instance |

Components that share no state share an instance: a variable `which` says in the
first state which of them is at work, and the others rest. Interleaving them
would multiply the states and show nothing new.

Conventions. An action is one step of one hart, handler or device, up to the
next point where somebody else can see or disturb it; code that nobody can
disturb is one action. `pc` (or `at`) says where a hart is. An operator marked
"mutant" is not part of the specification. History variables are marked as such
and never read by a guard.

### Cpage

`taken` and `last` are the sets of pages whose bookkeeping byte has the
respective bit (`BM_GET_BIT`, `BM_SET_BIT` and their kin; `2 * (i % 4)` places
the two bits somewhere in the page's own byte and nowhere else). `held` is the
callers' side: one pointer variable each. `Znalloc` is the whole of
`cpage_znalloc`, including a search loop whose inner loop increments the outer
index; `StartAt` gives the closed form of where that index ends. `Free` is the
whole of `cpage_free`, including its early return. The allocator takes no lock.
At this commit only hart 0 calls it (what would put another hart to work in the
kernel is commented out in `main`), so a call is a step; two harts in the allocator
at once are not modelled. `Mmu`, which has several harts, states this as an
assumption of its own.

Correct means: blocks never overlap; the bits describe the live blocks, so that
freeing one block stops where it ends; nothing leaks.

### SbiHart

One action per program point of `main()` (firmware), `hart_start`, `hart_stop`,
`hart_handle_msip`. The table's fields are `status`, `target`, `scratch`;
`lock[h]` records the holder, where the code has a word. The environment is the
supervisor: a hart at `"os"` may make any call. `promise` is history: the
arguments of the latest `hart_start` that returned true. `hart_start` is refused
at once when the lock is taken (`mutex_trylock`), the handler spins.

Each hart that is woken enters its target in machine mode, because `main.c:53`
stores `HPM_MACHINE` for all of them; the firmware's trap code knows no call from
machine mode. A target that drops to supervisor mode itself (`LeavesM`) goes on
as part of the OS; any other is stopped for good by its first trap (`"hung"`).

Correct means: mutual exclusion per hart and no lost lock; a start that was
accepted wakes the hart and delivers the arguments of that start; the table
agrees with where the harts are; each hart goes through the states of
`HartLifecycle`.

### SbiConsole

The interrupt handler of hart 0 (`plic_handle_irq`, `uart_handle_irq`,
`ring_put`), `sbi_getchar` (`ring_get`) by hart 0 and by others, and the read
loop of the kernel's `main`. A character is the number of its arrival, which
makes order and loss visible; `typed` maps it to the byte, which only matters
for `0xff`, enter and backspace. The two stores of `ring_put` and of `ring_get`
are separate actions. The firmware runs with interrupts off, so the handler only
starts at `InOS`.

Correct means: the ring is a bounded FIFO (`BoundedFifo`, with `Contents` as the
refinement mapping: between the two stores of `ring_get` its first element is
gone already); each character is on its way, delivered, dropped by a full ring,
or was `0xff`; the UART is always emptied. The component is checked in `MCDevices`;
`MCSbiConsole` is the instance of the one run that ends in a violation.

### Semaphore, Barrier, NcPage

`Semaphore` keeps the subtraction and the taking back of `semaphore_trydown` as
two steps. `Barrier` keeps the four accesses of `barrier_add_process`, the atomic
subtraction of `barrier_wall` and its loop over the list, one node a step. No
kernel code calls the barrier: its callers follow the comments at
`lock.c:67-70`, and one registrar adds all the processes (with two the counter
loses an update, see section 6). `NcPage` keeps the list in the pages, and the
test of `ncpage_zalloc` in front of the lock.

Correct means: never more units out than there were, and the counter accounts
for units and attempts; nobody passes the barrier before all are there, one
process opens it, it is empty for the next round, and everybody passes; each page
is free or has one owner.

### Scheduler

A step of a hart ends where it waits for `scheduling_mutex`, lets go of it, or
touches the frame of a process that another hart may already have. From the trap
(`TimerUser`, `TimerIdle`, `Exit`, `Sleep`, `Yield`) a hart goes through
`schedule_add` (`Add`), the store of `sepc` into the frame (`Save`),
`schedule_find_next` (`Find`, or `Fault` on an empty tree) and `p_spawn_on_hart`
(`Spawn`), back to the process. The tree is the `Dictionary` that `RBTree`
implements: a process put under a runtime that is there replaces the other
(`displaced`, history). The idle process of hart h is called h; it is neither
charged nor added.

`handle` says what `rb_insert` and `rb_delete` are given: `"address"`, the address of
the pointer, as the code stands, where no entry is ever visible to
`schedule_find_next`; or `"tree"`, the pointer, as their declarations ask. Both are
first states. What a process would lose is kept as flags: whether its `frame` holds
its latest registers and its latest `sepc`, and which harts have yet to store a
`sepc` that is older than the process (`overtaken`).

Correct means: a process that was added is in one place, and no two harts run it;
it goes on with the registers it had, on whatever hart; nobody starves; a hart
hangs on an empty tree only when there are fewer processes than harts.

### Mmu

Tables are pages with one entry per index; `free` is what the page allocator
can still give out, a zeroed page each time. The walk of `mmu_map` is split at
every entry it loads (`MapDescend`, `MapMissing`) and stores (`MapMake`,
`MapLeaf`); `mmu_translate` at every entry it loads. An exhausted allocator puts
NULL into the entry, as the code does, and the walk faults there.

The harts of the model go beyond this commit, in which hart 0 makes all the calls:
what is checked is the lock of `mmu_map` and the walks without it. The page allocator
below has no lock. `mmu_map` calls it with `kernel_mmu_lock` held, which keeps those
calls apart; the calls of `p_init` and `p_free` are kept apart from them by an
assumption, `AllocatorIdle`, a guard of `NewSpace` and `Discard`: no hart is in
`mmu_map`'s allocation. `Discard` is `mmu_free` for a space nobody works on, as its
only call has it: `main` frees a process whose image was refused, and which never ran
(`main.c:127`). `mmu_free` beside a walk in the same table is not modelled, and
nothing in `mmu.c` would prevent it.

Correct means: every table hangs in exactly one place and none is lost; a walk
without the lock never leaves the path to its address; the tables implement
`AddressSpaces`, in which a mapping changes the translation of its own page, in
one step, and growing a tree changes none.

### ProcessMemory

Addresses are bytes. A process is the record of what `p_init` and `p_new` took for
it (`PNew`, for user and kernel processes; `MakeIdle` for `add_idle_procs`), its page
table a function from virtual pages. `MapMultiple` is what `mmu_map_multiple` does
with what these callers pass: the end of a range, a physical address and the bits,
where a physical address, a length and the bits are expected; so each call maps many
more pages than were meant, and later calls map over earlier ones. `ElfLoad` is
`elf_load` with its own arithmetic for the image; `PFree` gives back what `p_free`
gives back. A copy (`CopyStart`, `CopyTurn`, `CopyReturn`, `CopyDone`) is
`copy_from` or `copy_to`, a chunk a step. `claims` counts for each page whether
the allocator has it, so that a page given back twice shows.

Correct means: each page is with the allocator or one process, and returned once;
a hart can switch to a process and back, because code and frame are still mapped to
themselves after all these calls, as long as each part of the spawn code lies in one
page; an image of several segments stays inside the pages taken for it; a copy that
returns has moved the bytes up to the first one that is not mapped, and no other.

### Kmalloc

Memory is counted in units of 16 bytes, to which the code rounds, and `mem` holds
the three words of every unit where a node of the free list or the header of a
block may start. `Search` has the loop's condition as the code has it: it stops at
a node that is *too small*. When it comes round to the head, pages are added
(`AddPages`), the list is coalesced (`Coalesce`), and the block is cut from the
end of the node at `Temp`, the address of the first new page from before the
coalescing (`Take`, with the subtraction modulo `Word`). `NoMorePages` is the
return of NULL in the middle of the loop: pages added so far stay in the list.
`Kfree` looks for the place from the end of the list, appends and coalesces. The
lock is held from beginning to end, so a call is one step.

Two regimes: with `Careful` callers never ask for more than any free node has
(`Spared`), which is how the search is kept from stopping; without, any request.

Correct means: live blocks, the memory that is mapped, and the words of free
nodes do not meet; the list is a ring in address order.

### PciEnum

The machine is the one that `src/Makefile` starts: three root ports with the
devices behind them, sizes of the registers left open. `ConfigPort` is
`pci_config_t1`, `RegisterDriver` the registration of each id for the first
device that has it in the order of bus and slot (`FirstNew`, after the ports in theirs,
`FirstPort`), `RegisterHost` that of the host bridge in slot 0 of bus 0, which comes
before all devices and takes a share of the window although it has no registers,
`AllocateBar` one register, `NextShare` the start of the next device's
share of the window. The fixed part of `pci_init` (`Setup`) then fills
the driver structures: `AllocateHere` for the second device of an id, and
`CapePtrCheck`, which chooses the structure by id and slot.

Correct means: no two registers are given addresses in common, all lie behind the
bridges; every driver's structure points to its own device, at its final address.
`MachineFits` and `WindowsFit` say for which machines: `pci_init` takes bus and slot
numbers for granted, so each entry of `Setup` has its device there, the first of its id
where the registration has to find it; a register is no larger than the padding, and the
registers of a device fit into its share, and all shares, one of them the host bridge's,
into the window behind the bridges.

### VirtioBlk, BlockDevices, VirtioRng

`VirtioBlk` is one of the three copies of the block driver: `virtio_disk_rw` split
at every access to `at_idx` and every descriptor, the device (`Serve`), and the
handler (`Isr`), which counts `at_idx` to the number of answers. `BlockDevices` has
three of them, with one caller; only the handler of the first is ever called.
`VirtioRng` is `rng_fill`, which moves `at_idx` in the call itself.

Correct means: the descriptors of a request are its own until it is answered; a
read returns when its data is there.

### PciDevices

The queue of the tablet, the queue of the GPU, `isr` flags whose reading clears
them, the handler's loops (`PciDriver_claim_irq`), the event ring, and the loop
of `paint` with `ring_pop` access by access and `virtio_gpu_wait`. A device acts
at any moment, also during the handler. Events are numbered in order of arrival.

Correct means: the device owns exactly the buffers that have been read; each
event is given to the ring once, in order; `virtio_gpu_wait` returns with its own
answer; no interrupt is lost.

### GpuScreen

The picture in memory (`pixels`), the GPU's resource and what is shown. `gpu_init`
is one action for each command and its answer; `fill_rect` comes with the step that
calls it, and `gpu_redraw` is a transfer, a flush and a transfer, from the offset into
the backing that the code computes. `Palette` draws the strips of colours, `Turn` is
a turn of the loop of `paint()`: an event moves the pen, presses or releases the
button, or chooses a colour; and the pen draws. The GPU refuses a rectangle
that leaves the resource, and may refuse any command for reasons of its own. The pen
is `Pen` units wide; the history variable `cut` says that it was drawn across an edge of
the screen, where the code draws a part of it and the GPU refuses the redraw.

Correct means: what was drawn is what is shown, whenever the loop comes round, on a
display that is large enough, while no command is refused and no pen lies across an edge.

### MinixFs, Ext4Fs

The walks over a disk. The third argument of `minix_disk_rw` and `ext4_disk_rw` is
the end of the read, and the callers pass a length: `"end"` is the code as it
stands, `"length"` what the callers mean. `MinixFs` keeps the recursion of
`minix_print` as a stack of calls, with the one path buffer that all calls share, for
`minix_test` (walker `"print"`) and `vfs_cache_inodes` (`"cache"`). `Ext4Fs` goes from
the superblock to the directory entries of the root, and lists the pages it gives
back.

Correct means, where reads get their length: the Minix walk prints every entry once,
under its own path, and gives its pages back, when directories have one zone (`OneZone`);
the ext4 walk lists the root in order, for 1 KB blocks, 256-byte inodes and one extent.
`WellFormed` is what both take for granted of a disk: for Minix that directories form no
cycle, that names in one directory differ, and that the entries behind `.` and `..` have
inodes; for ext4 that one entry begins where the one before it ends, up to the tail.
The code reads inode 0, which no disk has, from the end of the bitmap in front of the
inodes: a file without content in the run.

### RBTree, MapList

The C functions return the new root of a subtree, so they are operators on trees
(records with `left` and `right`), recursive where the code is. `ToggleRed` of
NULL stands for the store through NULL of `flip_color`. `Next` is any client;
`Schedule` is what the scheduler does: insert any key, delete the least.
`MapList` keeps the circular list as a sequence. Both have one caller at a time
in the kernel.

Correct means: what is found after an operation is what a `Dictionary` would
find; the tree stays ordered, left-leaning, and balanced (finding 5 is where it
does not).

### Strings, StringCalls

`Strings` has the helpers as functions of the sequences of bytes, with the loops and
steps of the code (a word or four bytes at a time, then byte by byte); there is
nothing behind a NUL, so that TLC stops where a helper reads further. `StringCalls`
calls each of them once with every argument of small sets.

Correct means: what each returns, or leaves in memory, is what its name says, next to
a definition that has no loop.

### Printf

A step is a round of the loop of `_vsnprintf`: a character to copy, or a conversion
with flags, width, precision and length, into the console or into a buffer of a given
size. `Put`, `PutZeros` and `Hashed` fill the conversion buffer from its end, as
`_ntoa_format` does, each as long as there is room.
`Expected` is C's rule for the same pieces, from padding and digits, and `AsInC` names
the forms in which the code agrees with it (the others are in section 6).

Correct means: text, length, terminator, and nothing outside of the buffer.

### Shells

The line editors of the kernel's console, `console.c` and `consolev.c`, and their
commands. `command` and `at` are the array and the index; `screen` is what the user
sees behind the prompt, `plain` whether that is the line at all (an echoed control
character moves the cursor). The events of `consolev.c` come in batches (`GetEvents`),
with the shift key as a level. The kernel's commands act on the status of the harts.

Correct means: the line on the screen is the one in the array, with room for its
terminator; the command that runs is the one that was shown; each press of a key
gives its character once, under the shift key as it was then.

## 3. Runs

| Run | Module, configuration | States | Shows |
|---|---|---|---|
| `memory` | `MCMemory`, `MCMemory.cfg` | 100 503 | `TypesOK`; `BlocksDisjoint`, `BlocksMarked` and one half of `PagesAccounted` of the page allocator; `TablesSound`, `MmuIsMap` of the page tables; `HeapSound` of the byte allocator; the other half of `PagesAccounted`, `SwitchSafe`, `ImageSound` of processes |
| `cpage_overlap` | `MCMemory`, `MCMemoryOverlap.cfg` | violation | `BlocksDisjoint` fails for four pages |
| `kmalloc_search` | `MCMemory`, `MCMemorySearch.cfg` | violation | `HeapBlocksApart` fails for any requests |
| `sbi_hart` | `MCSbiHart`, `MCSbiHart.cfg` | 56 304 | `TypeOK`, `LocksHeldInside`, `WakeupExact`, `TableTellsTruth`, the refinement `LifecycleSpec`, and the liveness properties `StartingLeadsToStarted`, `EveryHartBoots` |
| `sbi_hart_target` | `MCSbiHart`, `MCSbiHartTarget.cfg` | violation | `TargetDelivered` fails |
| `kernel` | `MCScheduler`, `MCScheduler.cfg` | 258 679 | `TypeOK`, `EachProcessOnce`, `HangsOnlyWhenFew`, `RegistersKept`, and `NobodyStarves` |
| `devices` | `MCDevices`, `MCDevices.cfg` | 167 997 | `TypesOK`; `Configured` of the enumeration; `ChainsWhole` of the block and random number devices; `EventsInOrder`, `AnswerIsOurs` of interrupts; `CharactersKept`, `RingIsFifo` of the console; `InputDrained` of both; `FilesListed` of the file systems; `ShownIsDrawn` of the screen |
| `pci_devices_pop` | `MCDevices`, `MCDevicesPop.cfg` | violation | `PopsAreEvents` fails |
| `virtio_read` | `MCDevices`, `MCDevicesRead.cfg` | violation | `ReadsComplete` fails |
| `sbi_console_enter` | `MCSbiConsole`, `MCSbiConsoleEnter.cfg` | violation | `EnterIsSeen` fails |
| `library` | `MCLibrary`, `MCLibrary.cfg` | 135 380 | `TypesOK`; `SynchronisationKept`, `EverybodyPasses`, `EachPageOnce` of the locks and the linked pages; `Dictionaries` of the containers; `HelpersRight`, `FormattedRight` of text; `ShownIsRun`, `KeysOnce` of the command lines |
| `rbtree_balance` | `MCLibrary`, `MCLibraryRedBlack.cfg` | violation | `IsRedBlackTree` fails |

A property of an instance with a name of its own (`TablesSound`, `Dictionaries`, ...)
is the conjunction of the properties of the components that its definition names.

The state count of `memory` is of the quotient by its symmetry set. All runs say
`CHECK_DEADLOCK FALSE`, for one of two reasons: the bounds on calls, characters,
events and rounds end the behaviours, and some states are real ends of the
system (a hart that hangs with a lock held, a full heap without a caller that
frees, a tree operation that faulted, a call that has returned).

### Bounds and why they are enough

* `memory`, page allocator: eleven pages, of which `cpage_free` ignores the last
  three (`BkPages = 4`), and five callers: the heap fills (five pairs), fragments in
  every order, has an odd page left, and loses the pair in the tail for good.
  `Sizes = {1, 2}` are the sizes the code gets right; `cpage_overlap` has `{1, 4}`
  and twelve pages.
* `memory`, page tables: two harts, two spaces, four pages, and three virtual pages
  of which two share the lowest table, two share the middle one: both trees cannot
  be complete at once, so the allocator runs dry. Two indices per table and one
  leaf: entries do not interact otherwise.
* `memory`, byte allocator: three pointers, pages of four units, requests of two and
  three units, up to eight pages: new pages merge with each other and with the heap
  in front of them, freed blocks with what is on either side, and the page allocator
  fails at the first page of a request or at a later one. `Careful = TRUE` is the
  regime in which the search works; nothing in the code keeps callers inside it, and
  `kmalloc_search` drops it. `Word = 256` lies above every address. Requests of a page
  or more leave the regime even so, section 6 says how.
* `memory`, processes: one process and five pages of four bytes, so that each of its
  allocations may be the one that fails; the page allocator may also fail earlier, as
  it does when no two neighbours are free. Seven files: not an executable, nothing to
  load, one segment that ends or starts with its page or does not, two in order with
  and without a page in common, two in descending order. Copies that start in a page
  or at its end, shorter and longer than the rest of it, into pages that are mapped or
  not. The spawn code lies in two pages, below the process' own, and the stack above
  all. A second process would only compete for pages, which the failing allocator
  stands for.
* Symmetry of `memory`: `Frames` and `Harts` only occur in `Mmu`, which compares
  them with each other and with nothing else, and no property names one of them
  (`MmuIsMap` is a safety property of the translations).
* `sbi_hart`: three harts, so that two of them can contend for the third, and
  four calls, so that a hart is started, stops itself and is started again while
  another hart asks. One target drops to supervisor mode, one does not. The two
  harts besides hart 0 play the same part; the run uses no symmetry set, as it
  has liveness properties.
* `kernel`: two harts and three processes, so that a hart may find the tree empty,
  both may run a process while a third waits, and a process may change harts in the
  middle of being saved. Slices of one and runtimes up to two: processes meet at
  equal runtimes and overtake each other. `Rebase` of `MCScheduler` subtracts what all
  runtimes have in common, so that behaviours are infinite and `NobodyStarves` is about
  cycles; the code only compares runtimes, and a process charged beyond the bound waits
  for `Rebase`. Both handles are first states.
* `devices`, interrupts: a queue of six is the smallest that holds two requests of
  three descriptors; a ring of two overflows with three events; three requests of
  two or three descriptors go round the descriptor table. The counters of the code
  are 16 bits wide and are read modulo the queue size, which divides `2^16`; the
  bounds stay below the wrap.
* `devices`, block devices: eight descriptors, so that a third request reuses those
  of the first; a counter of 16 values, one request to the disk (`main.c:116` makes
  one) and three to each file system's disk. `InFlight` is the assumption that the
  device answers before the driver has come round the table, which has room for 42
  requests.
* `devices`, random numbers: as many calls as descriptors. `Patient` says that callers
  wait for their bytes; section 6 says what happens otherwise.
* `devices`, enumeration: sizes of 1, 4 and 16 pages for every kind of device in
  every combination, up to the padding behind each window; larger ones are in
  section 6.
* `devices`, console: a ring of two, a line of two and three characters: the ring
  wraps and overflows, the line fills, and the fourth class of byte, `0xff`, is
  among them. A second reader contends for the lock. The run `sbi_console_enter` has one
  reader and two characters.
* `devices`, file systems: a Minix disk with a root, a file, a directory, and a
  directory with a file in that; directories whose size ends behind, at or before their
  last entry, whose zone is the first, a later one or the indirect one, and with a
  second zone; disks with fewer inodes than the directories name, and without the magic
  number. An ext4 disk with two sizes of blocks and of inodes, with and without extents,
  and with one extent more level in the root, in front of it or behind it. Both
  meanings of the third argument, and both walkers.
* `devices`, screen: a unit is 40 pixels, so that the picture of 640 by 480 is 16 by 12.
  The pen is two units wide, so that it can lie across an edge, which one of a whole
  unit never does. There is a display of the size of the picture, a wider one and one a
  little higher, where the pen lies across the edge, one high enough for the pen below
  the picture, and a smaller one; 350 pages are 224 squares, the size of the largest.
  `Full = 3` stands for 32767, since only the quotient of a coordinate and `Full` is used.
  Three events and one refused command: the pen is pressed, moved, and another colour taken.
* `library`, locks: five users of two units (the counter goes three below zero),
  three processes that meet twice, three harts with three pages, so that the list
  gets empty with a hart between test and lock.
* `library`, containers: five keys build every shape of tree up to height three, and
  deletions reach the unbalanced ones; two values tell replacement from addition.
  `rbtree_balance` needs six keys with deletions of keys that are there.
* `library`, helpers: an int of nine bits, a word of four bytes, memory of ten bytes with
  every source, target and length that fits, overlapping ones included; paths and numbers
  of up to three characters, among them numbers that no int holds; strings of seven bytes
  that differ at the fifth or the last, compared up to 0, 3, 5 and 9 bytes: on either
  side of a step of four.
* `library`, `printf`: the types have 3, 5, 8 and 12 bits, an address two bytes, and the
  conversion buffer ten characters, which a binary number of twelve digits overfills as
  one of 64 digits does the code's 32. Every flag that matters, widths below, at and above
  that buffer, precisions given, empty and as an argument; destinations of 0 to 5 bytes
  in front of a guarded rest.
* `library`, command lines: an array of 12 bytes, filled beforehand with commands and with
  words that nearly are, or nothing, or all but its terminator; three keys or events
  behind that, among them an escape sequence and both shifts; two harts.

### Fairness

* `SbiHart!FairSpec`: weak fairness of each hart's own steps. Harts are
  processors; a parked hart takes a pending software interrupt, which it has
  enabled. No fairness for calls: the OS need not make any. The spin of the
  handler on the lock is a step that is enabled while the lock is free, and weak
  fairness suffices because the number of calls, so the number of times it is
  taken away, is bounded.
* `Scheduler!FairSpec`: weak fairness of the end of `main`, of each hart's way through
  the scheduler and of its timer: harts execute, and clocks go on. No fairness for the
  calls of processes: a process need not yield, exit or sleep. The mutex is free
  between steps, because each of its sections is one step. `MCScheduler` adds weak
  fairness of `Rebase`, which is a bound and not a step of the system.
* `SbiConsole!FairSpec`: weak fairness of each hart, and strong fairness of a
  hart's winning the ring's lock and of taking the interrupt when the OS part of
  the loop, where it is enabled, comes up again and again. The first is the
  eventual success of an atomic swap in a loop, which hardware arbitrates.
  `MCDevices` takes the part of it that `UartDrained` needs: the interrupt, its
  lock, and the harts' `sbi_getchar`, which holds the lock meanwhile.
* `Barrier!FairSpec`: weak fairness of the registrar and of each process: the
  scheduler gets to each process that is running. No fairness for starting a new
  round.
* `PciDevices!FairSpec`: weak fairness of the interrupt only. The kernel never
  masks interrupts for good. No fairness of devices, events or `paint`.

The instances take these conditions over for the component that is at work.

## 4. Findings

Seven runs end in a violation. Each one disagrees with a line of the repository,
quoted in `PROJECT.json`.

1. **Blocks of more than two pages overlap others** (`cpage.c:54`). The inner
   search loop increments `i` and not `j`, so that a request of four pages looks at
   two of them and gets the pages from two further on. Two such requests are enough:
   the first gets the pages 2 to 5, the second finds 0 and 1 free as before and
   gets 2 to 5 again.
2. **A start during boot is wiped** (`sbi/src/main.c:52`). `status = HS_STOPPED`
   and `target_address = 0` are stored without the lock; `hart_start` in between
   returns true and the hart starts at address 0.
3. **Enter without effect** (`main.c:176`). Between the `getchar` that found
   nothing and the `WFI`, the interrupt moves the character into the ring; the
   hart sleeps until the next key.
4. **Pops of what was never pushed** (`ringbuff.c:59`). `ring_pop` has advanced `at`
   and not yet taken the element off the count when the handler pushes: the new
   element is put at `at + num_elements`, one slot too far (in a ring of two, into the
   slot that was just popped). It is counted, and the next pop returns the slot in
   between, which nobody has written.
5. **Deletion unbalances the tree** (`rbtree.c:231`). `remove_it` recurses through
   the function that paints the root black, so each subtree on the way gets a
   black root. Six insertions and the deletion of the least entry do it. Later
   deletions in such a tree flip the colour of a missing child, which is a store
   through NULL, or drop other entries; deleting an absent key needs three keys.
6. **The byte allocator gives memory it does not have** (`kmalloc.c:55`). The search
   leaves its loop at `temp->size < bytes`, under a comment that says the space is
   big enough. Free a small block, ask for a larger one: the difference wraps, and
   the block lies in front of the node, over whatever is there.
7. **A read returns before its data** (`virtioblk.c:151`). The poll compares the
   number of answers with `at_idx`, which counts descriptors and was just advanced by
   three: the first read of `main.c:116` does not wait at all.

## 5. Proofs

Eight modules hold theorems: `MemoryProofs`, `MmuProofs`, `SbiHartProofs`,
`SchedulerProofs`, `SbiConsoleProofs`, `LibraryProofs`, `VirtioBlkProofs` and
`DevicesProofs`. TLAPS checks every leaf, with Z3, Zenon and LS4. `PROJECT.json` lists
the theorems with the properties they name.

A composition (`Memory`, `Devices`, `Library`) extends one component and has instances
of the others, on variables of their own. Its theorems are about the conjunction of
the components' specifications. A behaviour of the instance that TLC checks satisfies
it: each step there is a step of one component and leaves the others alone.

**Page allocator** (`MemoryProofs`). For every heap size, number of bookkeeping pages and
set of callers, under `CpageAssumption` and `Sizes \subseteq {1, 2}` (finding 1 is what
happens without it): `BlocksDisjointThm` is `Spec => []BlocksDisjoint`, and `BooksThm` is
`Spec => [](TypeOK /\ BlocksMarked /\ Accounted)`. `Accounted` is the allocator's half
of `PagesAccounted`.

`BlocksDisjoint` is not inductive: it speaks of the pages a caller asked for,
while one page is granted as two, and `cpage_free` follows the bits and not the
caller. `PairInv` strengthens it to what is granted: types, each live block is a
pair inside the heap (`PairsInBounds`), both its pages are taken and exactly the
second is last (`PairsMarked`), and pairs do not meet (`PairsApart`); `Accounted`
is added to prove the second theorem. An allocation keeps it because `FreePair`
saw both pages of the new pair free, while those of live pairs are taken. A
deallocation keeps it because of `SweptPair`: from a page that is not last whose
successor is, the loop clears these two and nothing else.

**Processes** (`MemoryProofs`). `MemoryAssumption` says of the constants what the linker
script and the headers say: heap pages lie above the pages of the trap entry, and the
stack's virtual pages above the heap (`lds/riscv.lds`, `process.h:52`). There may be any
number of processes, files and copies, and pages of any size.

* `PagesAlwaysAccounted` joins the allocator's books with those of the processes.
  `ProcessesInv` says that the pages of one process are apart and those of two
  processes as well, which processes have an image, and that the allocator has exactly
  the pages that no process has.
* `SwitchAlwaysSafe`: spawn code and frame stay mapped to themselves in the table of every
  process that is not from a file, and an idle process starts in its image. What
  `mmu_map_multiple` maps depends on its start and on an end that may be a length, and
  the lemmas about `Over` say what a table has after each of the mappings that
  `p_new` and `main` make, one on top of the other. `TablesInv` strengthens the property by
  what a table has below the stack.
* `ImagesAlwaysSound` is about two loops. `CopyInv` is the invariant of a copy between
  two turns: what was moved is a beginning of the request and all of it mapped.
  For images, the loop of `elf_load` over the segments is a recursive function, and
  `RangeOfAscending` shows by a least counterexample what it has after each segment of an
  ascending file; `FileFits` follows. The property excepts files of one segment (section 6)
  and those whose segments do not ascend.

**Byte allocator** (`MemoryProofs`). `HeapAlwaysSound`: `HeapSound` and the types, for pages and
heaps of any size and any number of pointers, in the regime that the run has: callers spare
the search, and ask for less than a page. Both are hypotheses on constants, and each is
needed (section 6, 6 and the notes on `kmalloc.c`).

`HeapInv` says that there is a set of nodes which next and prev connect to a `Ring` in the
order of addresses, that each ends where the heap does or below (`Sized`), and that every
block is `Whole`: behind its size, in memory that is mapped, over no node's size or links.
Three arguments carry it.

* What a walk along the links finds. `WalkComes` says that a walk whose addresses rise comes
  to every node and back to the head, and `StopsFirst` where a search along it stops. They
  are proved for links that rise by some measure, so they serve the search from the front and
  `kfree`'s from the end. `Iterates` turns the recursive functions of the model into sequences,
  by a least counterexample.
* That coalescing ends. `MergeFirst` keeps the ring (`RingShrinks`), and the first place where
  nodes touch rises with every merge (`Touching`), so after as many turns as there are
  addresses no node touches the next (`CoalesceKeeps`).
* That the block `kmalloc` cuts is new memory, although `temp` may point into the middle of a
  node by then. While the list is coalesced, `Fresh` keeps what the new pages are: without
  gaps, and the first page's own size stays readable after it was merged. So a node that
  is left at `temp` reaches to the end of the heap, and the end of what begins at
  `temp` is in front of the next node (`RoomBehind`).

`MemoryTypes` are the types of the three managers.

**Page tables** (`MmuProofs`). For any number of harts, address spaces, pages and addresses,
under `MmuConstants`: `TablesAlwaysSound` (`EveryTableOnce`, `WalksOnPath`) and the
refinement `TablesAreMap` (`Spec => MmuIsMap`). `MmuInv` consists of the types, of
`ThreeLevels` (the pages in use have levels, a root the highest, and whatever is not a root
hangs in exactly one entry, of a page one level up), of `CallsInOrder` (the arguments of
each call, and that the hart in `mmu_map` holds the lock) and of `OnPath` (the table that a
walk is at is the one its address leads to). The heart is that a table which is linked is
empty and belongs to nobody, so that linking it changes no translation (`PathSteps` and the
lemmas after it); then only the last store of `mmu_map` is a step of `AddressSpaces`, and
the others stutter.

**SbiHart.** For any number of harts, targets, frames and calls, under
`SbiHartAssumption`: `LocksThm` (mutual exclusion, no lock left behind),
`WakeupThm` (`WakeupExact`: no lost and no spurious wake-up), `TableThm` (the table
agrees with the program counters, and `NoStaleTarget`, which no run has: no stale target
is entered), and `LifecycleThm` (`Spec => LifecycleSpec`, the refinement of the abstract
life cycle).

The inductive invariant `HartInv` consists of the types, of `ArgsInside` (a hart
has arguments exactly inside `hart_start`), of `LocksHeldInside`, of
`PcMatchesStatus` (which statuses, and which state of the interrupt flag, are
possible at each program point) and of `EntryMatchesPromise` (for a hart that is
starting or running, what the table holds is the latest promise or was wiped by
the boot). The listed properties are read off it. It is proved with one lemma per
action and one step per conjunct. The heart is `PcMatchesStatus`: `StartBody` of
one hart changes the status of another, which it may do because `STOPPED` is
possible only at `boot_target`, `parked` or `stop_unlock` and in the handler.
`LifecycleThm` uses the invariant to show that the hart that makes a start is
itself `STARTED` and is not the one it starts.

**Scheduler.** For any finite sets of harts and processes, any slices and any bound,
under `SchedulerAssumption`: `OnceThm` (`EachProcessOnce`), `RegistersThm`
(`RegistersKept`) and `FewThm` (`HangsOnlyWhenFew`).

`SchedulerInv` adds to the parts of `EachProcessOnce` that a process which has not been
added is nowhere (`UnaddedNowhere`), what a hart's `current` can be at each program
point (`PcMatchesCurrent`), and that only a process which runs has registers ahead of
its frame (`FrameBehindOnlyRunning`). The heart is `ScheduleAddMoves`: an insertion
moves the process into the tree, displaces the one under the same runtime and changes
no other's place, which needs `EntriesTrue`: an entry's key is its process' own
runtime, so that the process is in the tree under no second key.

`HangsOnlyWhenFew` is not about one step but about the rest of the run: a hart that
hung keeps the mutex, so no tree changes any more (`CalmSteps`), and what has to be
shown is that at the fault the processes left were few. With the tree empty, each of
them is held by a hart other than the one that faulted (`EmptyTreeMeansFew`): an
injection from the processes into the harts in service without one, and cardinalities.

`SchedulerTypes` and, for `SbiHart`, `HartTypes` are the type invariants.

**Locks and linked pages** (`LibraryProofs`). Under `LibraryAssumption`, for any finite sets
of processes and any number of units, rounds, pages and harts:

* `SynchronisationAlwaysKept`. For the semaphore the counter is what is left of the
  units after those that are out and the attempts not yet taken back, and `CountAt`
  says how a set of processes at one point grows or shrinks by one. For the barrier
  `BarrierInv` says that the counter is the number of processes still to come, how
  far the one that registers has got (`AddingInv`), and that one process at most
  opens the wall (`OpeningInv`). It is assumed that one hart registers all processes; see
  section 6 for two.
* `PagesAlwaysOnce`: no page has two owners, the page which `ncpage_zalloc` has in its hand
  is nobody's, and every other page is on the list. The invariant says where the
  links of pages that nobody has lead (`ChainInside`), and that a sequence which repeats
  no page runs along the links through all of them. That a walk from the first page,
  as the property has it, finds what the sequence has is shown by a least
  counterexample (`WalkFindsChain`).

**Text and command lines** (`LibraryProofs`). For strings, memories and arrays of any length,
an int and a long of any width, and any number of harts:

* `HelpersAlwaysRight`: `HelpersRight` for every string without a NUL inside, every count, and
  every source and destination in a memory of any size. A loop of the code is a recursive
  function of its counter; that such a function exists is shown by giving one, and
  what it computes by a least counterexample. `SearchStops` says so once for loops that
  look upwards until they stop (`strcmp`, `strncmp`, `strlen`, `strchr`, `strfindchr`,
  `memcmp`), and `Agree` for loops that go on from what they have (`memset`, `memcpy`, whole
  words first in the user library). For `atoi`, which adds digits from the last to the first,
  the invariant is that the digits not yet added, times the next power, and the sum are the
  number, whole turns of the int apart (`SumsUpTo`): products that overflow on the way do no
  harm when the number fits. `LastFound` is about the loop of `vfs_parse_last`, which
  jumps from slash to slash.
* `ShownAlwaysRun`: the line on the screen is the one in the array, and what runs is what was
  shown. `ShellInv` keeps the line as it was seen at enter until the answer is given, and
  says of a hart that is about to be started that the line named it (`Answered`).
  `TextIs` says that the terminator which `Enter` stores ends the string where the screen
  does, whatever older lines have left behind it. That the commands do not exclude each
  other is `WordsApart`, and what they read is taken from the lemmas about the helpers.
* `KeysAlwaysOnce`: `KeysInv` says that the events of the last call end all that were given,
  that `shift` is the shift key after those that were handled, and that the character of each
  press stands at its rank among the presses, whatever the events are.

**Association list and types** (`LibraryProofs`). `MapAlwaysDictionary`: for any keys and
values, `MapList` implements `Dictionary`, with the pairs of the elements as the mapping.
The invariant is that no key is on the list twice; then the element that `FindElem` stops at
is the only one with its key, so that replacing or taking it out does to the mapping what the
name of the call says. `LibraryTypes` are the types of page list, semaphore, barrier
and association list. Those of the barrier need an invariant of their own (`ListInv`): the
list has at most one node for each process that has been added, and one more between the two
stores of `barrier_add_process`.

**Console** (`SbiConsoleProofs`, and with the other devices in `DevicesProofs`). For any number
of reading harts and any size of ring and line: `CharactersAlwaysKept` (`InOrder`,
`NothingVanishes`) and the refinement `RingAlwaysFifo`. `ConsoleInv` adds to the types who
can be where and holds what (`Places`), that the identities of characters ascend from
the line back to the UART (`Ordered`), and where each of them is (`Kept`). The remainders of
the ring's two indices are dealt with once, in `ModApart` and its companions.

**Tablet and GPU** (`DevicesProofs`). For any size of queue and ring, under
`PciDevicesAssumption`: `EventsAlwaysInOrder` and `AnswerAlwaysOurs`. `PciInv` relates the
device's counters, the driver's and the ring's. `PopCounts` says what `ring_pop` has read
when the handler comes in between. `GpuBooks` says from which round of the used ring an
answer is; the assumption on the interrupt (`IrqInTime`, section 6) is part of the model.

**Disks and random numbers** (`VirtioBlkProofs`, `DevicesProofs`). `ChainsAlwaysWhole`, for any
size of the queues, up to the number of requests at which `at_idx` wraps (`3 * MaxReads < Word`
in `DevicesAssumption`). The disk whose handler is called makes one request, as `main.c:116`
does. `DevInv` says which descriptors an open request has and that two requests have none
in common, since `at_idx` goes on by three. `RngInv` says that the one open request is in
the descriptor at `at_idx` until it is published and in the last published one after that.

`DevicesTypes` are the types of these four groups, assignment by assignment.

**Screen** (`DevicesProofs`). `ShownAlwaysDrawn`: `ShownIsDrawn` for displays of any size, any
pen, any coordinates and any number of events, under `ScreenAssumption`, which only says
that lengths and coordinates are natural numbers and a unit is a pixel at least.
`ScreenInv` says, as long as nothing was refused and no pen was cut (`Fits`), how far the GPU
has been prepared (`Prepared`) and which part of the way the picture has gone (`Drawn`):
before a transfer, display and picture differ in the rectangle only; before a flush, the
GPU's picture agrees with the one in memory there. It is needed that `fill_rect`, which
clips, touches nothing outside of its rectangle (`FillStays`), that the offset
into the backing is that of the rectangle's first square, so that a transfer puts each
square in its own place (`TransferCopies`, with the division lemmas `RowAndColumn` and
`CellPlace`), and that the strips of colours lie in any picture that is large enough
(`StripsInside`). The theorem does not use the number of pages (`Area`); what is drawn
beyond them is in section 6.

**Enumeration** (`DevicesProofs`). `ConfiguredAlways`: `Configured` (`WindowsApart`,
`OwnRegisters`, types) for any machine and any sizes within `EnumerationAssumption`, which
is `MachineFits` and `WindowsFit`. `Enumerated` is its inductive invariant, `BusInv`. That
the windows stay apart comes from two facts: what was given out lies in an earlier share or
ends a padding below `free` (`BelowFree`), so that rounding `free` down to a multiple of the
size does not reach it; and the start of a share is a multiple of every size (`Stride % n =
0`), so that the rounding does not fall back into the share before. Each share is another
node's or the host bridge's (`SharesCounted`), so all of them fit into the bridges' window. That structures point
to their own devices is about the order of the walk: ports get their bus numbers by rank
(`PortsRanked`), behind each the devices with a new id are registered in the order of their
slots, so the first of each id has its registers when the fixed part of `pci_init` begins
(`FirstsTaken`, `NodesWhole`, `WalkOver`), and no later step moves a register that a
structure already points to (`Pointed`).

**File systems** (`DevicesProofs`). `FilesAlwaysListed`: `FilesListed` for any disk within
`DisksAssumption`, which says that disks are `WellFormed`: any number of inodes, entries and
levels. Its two invariants are theorems of their own.

* `Walked`: `WalkInv` of the recursive walk. The frames on the stack are the directories on
  a path from the root, and the first `2 * (k - 1)` elements of the one shared buffer are
  the path of the k-th (`FrameGood`, `Passed`): a call writes behind the path of its caller
  only, so what a caller finds in the buffer on return is its own path again (`FrameKept`).
  What has been printed is all that is on the disk except what a frame has still to come to
  (`Pending`), each once. Entering an entry takes its path from the caller and gives what is
  below it to the new frame, and a frame that returns waits for nothing. Two frames never
  wait for the same path, because names in a directory differ, and a path leads to one inode
  (`PathsLead`). `PathsAre` gives what the recursive function `PathsOfLength` has at each
  length.
* `RootWalked`: `ExtInv` says that the entries listed are those before the byte at which
  the loop is (`ExtListing`); an entry moves it to the next one, since none begins in between.

Model-checked only:

* liveness (`StartingLeadsToStarted`, `EveryHartBoots`, `InputDrained`,
  `NobodyStarves`, `EverybodyPasses`): the prover has no rules for fairness or
  `ENABLED`;
* everything about `RBTree`, so that half of `Dictionaries` and of the `TypesOK` of
  `MCLibrary`: its definitions are recursive operators over trees, which a module with a
  theorem cannot use. The other half is `MapAlwaysDictionary` and `LibraryTypes`;
* what the conversions of `Printf` compute (`FormattedRight`): the code's loops over
  digits, flags and padding against C's rules for the same, recursive functions on
  both sides with a case for every form of a conversion.

The library's induction theorems take an operator as a parameter and cannot be used here.
What the proofs have of induction is `WFMin`: a set of counterexamples that is not empty
has a least one. That is enough for recursive functions on numbers (`WalkFindsChain`,
`RangeOfAscending`, `SearchStops`, `Agree`, `PathsAre`).

## 6. Seen while modelling, without a run of their own

These are states of the models or readings of the code, with no statement in the
repository that they contradict, or none that the models cover.

* `cpage.c:76`: the bits are counted for the whole heap although they take part
  of it, so the last pages lie behind the heap; `cpage_free` ignores them
  (`Accounted` makes the exception).
* `cpage.c:63`: one free page is not enough for a request of one page; two free
  neighbours are looked for, and both taken.
* `hart.c:77`: the started hart finds its own number in `sscratch` and not the
  scratch value of `hart_start`. `sbi/src/main.c:53`: started harts run in machine mode.
* `lock.c:31`: while a failed attempt has not taken its subtraction back, another
  attempt may fail although a unit is free. Nothing is lost by it.
* `lock.c:64`: two registrars that add to one barrier at a time lose a node or a
  count; the barrier then opens early or waits for ever.
* `lock.c:85`: the process that opens a barrier ends with `head = NULL`. A node that was
  added for the next round before that is dropped, with its process counted and never
  released. In `Barrier` a round begins when all have passed (`NextRound`, `AddNode`),
  so no property says anything of earlier ones.
* `ringbuff.c:60`: a push between the load and the store of the decrement is not counted,
  and its element is lost. No property fails by it: `PopsAreEvents` is about what is popped.
* `ncpage.c:37`: two harts may pass the test with one page left; the second reads
  through NULL and hangs with the lock held. `NcPage` contains it (`"hung"`); the
  kernel uses this allocator on one hart.
* `cpage.c:29`: no lock. Two harts that allocate at once may get the same page; `mmu_map`
  of one hart beside `p_init` of another would do, which `AllocatorIdle` excludes.
* `mmu.c:39`: with an empty allocator `mmu_map` faults with `kernel_mmu_lock` held.
* `virtio_gpu.c:105`: if the interrupt of a request is handled before
  `virtio_gpu_wait` reads the index, its answer is behind that index and the wait
  ends only if another answer with the same head comes. `PciDevices` contains it:
  `AnswerIsOurs` says that a wait that ends ends rightly, and no liveness of the
  wait is claimed.
* `IrqInTime` of `PciDevices` is an assumption on the machine, not a guard of
  the code: the interrupt is not delayed by a whole round of the descriptor
  table. Without it a stale answer with the same head could be taken for a new
  one.
* `kmalloc.c:53`: as the search stops at small nodes only, a request never takes a
  node that is big enough: freed memory is not used again, and every request that
  meets no small node adds pages.
* `kmalloc.c:98`: `temp` is the first new page from before the coalescing. If a node
  ends where that page begins, the page is merged into it, and the block is then cut
  out of the middle of a node that does not know of it. That memory is not handed
  out twice only because no request takes a node that is big enough: with a search
  that does (`SearchFirstFit`, the mutant), `HeapBlocksApart` fails.
* `kmalloc.c:101`: requests of a page or more break the list even when callers spare the
  search. One of exactly a page may leave nothing of a page that was merged already: its
  `node_remove` follows links from before, and nodes come back that are gone (four units to
  the page, requests `{2, 4}`). A longer one begins in front of the new page, whose size it
  counts down from, over a block that is in use (requests `{5, 13}`). TLC finds both with
  `MCMemorySearch.cfg`, `Careful = TRUE`, four pointers and eleven pages; `HeapAlwaysSound`
  leaves them out.
* `virtioblk.c:151`: a read whose interrupt is handled before the poll finds both
  indices equal and waits for ever: no property claims that a read returns. Without
  a handler the two meet after 32768 reads.
* `virtioblk.c:158`: the handler brings `at_idx` back from descriptors to answers. With
  two requests to the same disk in flight, the next one reuses descriptors of an
  unanswered request; `main` makes one request to that disk, and the handlers of
  the other two are never called, `pci.c:71-72` being the only calls.
* `virtio.c:101`: `rng_fill` brings `at_idx` back to the number of answers. A caller
  that does not wait reuses the descriptor of an unanswered request (`VirtioRng` with
  `Patient = FALSE`), and after `queue_size` answered calls `at_idx` leaves the table.
* `pci.c:622`: an address register of more than 64 KB might overlap the one before it;
  the run has sizes up to that.
* `p_scheduling.c:102`: the address of the pointer to the tree is passed for the tree.
  `rb_insert` takes the page of `rb_new` for a node with the key 0, and
  `schedule_find_next` takes that key for the address of the root: the first hart that
  looks for a process hangs (handle `"address"`).
* `p_scheduling.c:79`: on an empty tree the hart faults with `scheduling_mutex` held, and
  does not spawn its idle process as the comment at 40-41 says (`FindsOrIdles` of
  `Scheduler`, which TLC refutes with two harts and one process).
* `p_scheduling.c:63`: `sepc` is stored into the frame when the process is in the tree
  again. Another hart may have taken it by then: it goes on from where it was stopped
  the time before, and the late store replaces the newer position (`PositionKept`,
  which TLC refutes with two harts and one process). The registers are safe.
* `p_scheduling.c:101`: a process that exited or went to sleep is made runnable when it is
  added, so it goes on; a process whose runtime another has takes its entry, and the
  other is never seen again.
* `rbtree.c:205`: `kfree` is given a node that came from `cpage_znalloc`.
* `sbi/src/svccall.c`: the case of `ACK_TIMER` has no `break` and goes on into the one that
  reads the clock, whose answer replaces `a0`. `trap.c`: the case of the timer interrupt
  goes on into that of the external one.
* `process.c:46`: what is mapped for a process runs over the mappings of others in its
  table, section 2 says what is left of them. After `elf_load` the code of the trap entry is
  no longer mapped to itself, and stack and image are not mapped to the pages taken for
  them.
* `elf.c:34`: an image of one segment gets no pages. `elf.c` reads the file into a buffer of
  one page.
* `uaccess.c:12`: at the first byte of a page the distance to the next page is 0: the copy
  makes no progress and does not return. A copy that returns says how far its chunks
  reached, which may be more than was asked.
* `minix3.c:133`, `ext4.c`: the third argument of the reads is an end, and the callers give
  a length: the superblock at 1024 is a read of no bytes, so neither file system can be
  read at this commit.
* `minix3.c:53`: the inner loop counts with the counter of the outer one, so that of a
  directory with several zones only the first is sure to be read; the copy through `addr`
  uses a variable that was never set; the page of a request is never given back.
* `ext4.c:108-109`: a page is given back twice. The offset of a block is right for blocks
  of 1 KB only, and `inodes + 2` is inode 2 (index 1) only when inodes on the disk are twice
  the size of the structure.
* `main.c`, commands: "start" behind a word without a number means hart 0, `atoi` wraps for
  numbers that no int holds, and the bytes of an escape sequence other than those known
  go into the line. `consolev.c`: the repetition of a key (value 2) is ignored, and
  releasing one shift key releases both. The kernel has no system call 5, which that
  program asks for events.
* `paint.c`: the position is divided before it is multiplied, so that the pen is only at
  the corners; x has no value before the first event. A pen across an edge, on a display
  up to nine pixels wider or higher than the corner it is at, is drawn in part, but the GPU
  refuses to redraw it (`cut` of `GpuScreen`). `virtio_gpu.c`: displays of more than
  350 pages are drawn beyond the memory of their picture; the answer to a flush is
  not looked at.
* `printf.c`, where `AsInC` makes an exception: with `-` the precision of a number is
  ignored; a negative precision in an argument counts as 0; the buffer of 32 characters
  limits digits and zeros, and its end drops prefix or sign; `%hhd` is not
  sign-extended; `#` with zeros takes the place of real digits when the field is exactly
  full, and `%#.No` writes one zero too many; a lone `%` at the end reads behind the NUL.

## 7. Not modelled, and the plan

Not modelled:

* Floating-point conversions of `printf` and `fctprintf`: nobody calls them, and the
  kernel saves no floating-point registers. The copies of `printf.c` for firmware and
  users differ from the kernel's in the function that puts a character.
* Headers of constants and formats (`elf.h`, `input-event-codes.h`, `event.h`): their
  values stand in the definitions that use them.
* `stroke_rect`, which nobody calls; the register writes that start the queues of a
  device; the enable and priority bits of the PLIC, the clocks of the CLINT and the
  RTC: single accesses to device registers, without a state of the program behind them.
* The assembly entries of firmware and kernel. Their effect, one trap frame per hart
  and interrupts off inside a handler, is an assumption of the models; the switch
  between processes is in `Scheduler`.
* `slide.c`, a stub, and `test.c`, tests that print what the modelled calls return.
* The contents of sectors, images and files, of which only the place is modelled.

Planned, in this order:

1. **Byte allocator against a heap**: an abstract `Heap` of disjoint blocks, which
   `Kmalloc` implements in its careful regime.
2. **Proofs**: the step from `Kmalloc` to the abstract heap; the conversions of `Printf`
   one by one, from lemmas about `_ntoa_format` and its buffer.
3. **Processes on page tables**: `ProcessMemory` with `AddressSpaces` in place of its
   function, and with two processes that the scheduler runs.

Components that do not interact keep sharing an instance, which keeps the number of
runs at one for each question.


# A verification of the MOS RISC-V64 kernel

TLA+ models of MOS for RISC-V64, a teaching operating system: an exokernel-style
kernel for one hart with user-level drivers, a user-level file server and
libraries that talk to them by message passing.  Line references are to the
repository's `src/`.

## 1. The system

| Component | State | Operations | Talks to |
|---|---|---|---|
| Environments and scheduler (`kern/env.c`, `kern/sched.c`) | `envs[]`, `env_free_list`, `env_sched_list` (a tail queue), `asid_bitmap`, `curenv`, the static counters of `mkenvid` and `schedule` | `env_create`, `sys_exofork`, `sys_env_destroy`, `sys_yield`, `sys_sleep`, `sys_set_env_status`, clock | everything: every handler ends in `schedule`, `env_run` or a return |
| Tail queues (`include/queue.h`) | `tqh_first`, `tqh_last`, `tqe_next`, `tqe_prev` | insert head or tail, remove, first | scheduler, IPC and interrupts insert and remove without looking whether an element is linked |
| IPC (`kern/syscall_all.c`) | `env_ipc_recving`, `env_ipc_recv_from`, the page at `env_ipc_dstva` | `sys_ipc_recv`, `sys_ipc_try_send` | blocks and wakes environments, maps a page |
| User-space interrupts (`kern/env_interrupt.c`, `kern/plic.c`) | `interrupt_code_to_envid`, PLIC priorities and claims, frames on exception stacks, `env_in_syscall` | register, deliver, return | wakes blocked environments, ends their calls with `-E_INTR` |
| Memory (`kern/pmap.c`, `kern/tlbex.c`, `kern/tlb_asm.S`, `kern/fork.c`, `kern/traps.c`) | `pp_ref`, `page_free_list`, three levels of page tables, the TLB | `page_insert/lookup/remove`, `sys_mem_alloc/map/unmap`, page fault, copy-on-write fork, `env_free` | environments own address spaces; IPC and fork share pages |
| Kernel half of the address spaces (`kern/kmalloc.c`, `kern/kmmap.c`, `kmap`) | heap block list, bitmap of the device window, first-level entries copied into every environment | allocate, free, map, unmap, fault in a heap page | boot code, device table, process list |
| Access to user memory (`kern/userspace.c`) | the table `satp` selects, the page-table window at `UVPT` | copy to and from an environment, map and unmap the window | system calls, interrupt delivery |
| Device tree and devices (`kern/device_tree.c`, `device.c`, `plic.c`, `virtio.c`, `serial.c`) | the parsed tree, the device table, PLIC registers | parse, search, decode, register; find, read, write, enable by system call | drivers |
| Pipes and descriptors (`user/lib/pipe.c`, `fd.c`) | ring buffer and two shared pages whose reference counts tell whether the peer is there | read, write, close, dup, fork | preempted between any two instructions |
| Block driver (`driver/virtio`) and its client (`user/lib/virtio.c`) | descriptor, available and used rings, the request in progress | probe, serve a request, interrupt handler, retry | device, IPC clients |
| Serial driver (`driver/serial`) and its client (`user/lib/serial.c`) | two character queues, the interrupt-enable register | main loop, interrupt handler | device, IPC clients |
| File server (`fs/serv.c`, `fs/fs.c`) and its clients (`user/lib/file.c`, `fsipc.c`) | open-file table by page reference counts; bitmap, block cache, files, the disk | open, map, set size, close, dirty, remove, sync; allocate, free, flush | block driver, IPC clients |
| Output, strings, loader (`lib/print.c`, `lib/string.c`, `lib/elfloader.c` and their users) | buffers on their way to the console; pages of a new program | format and write; copy, fill, compare; load a segment | everything |

`PROJECT.json` lists every component with its status.

What is hard here:

* Interleavings. The kernel itself is sequential: one hart, interrupts off,
  every trap runs to its end.  But a handler leaves an environment in the middle
  of a call, and what another trap does to that environment in the meantime
  (send, interrupt, change of status, destruction) meets fields that the
  first call left behind.  User programs and drivers are preempted anywhere, and
  a driver's interrupt handler runs between any two instructions of its main loop.
* Lists without membership checks. `TAILQ_REMOVE` of an element that is not
  linked writes through stale pointers; inserting a linked element cuts the list.
* State that is kept twice: page tables, reference counts and TLB; the block
  cache and the disk; the kernel half of every address space; two reference
  counts that together say whether a pipe is open.
* A stop of the machine between two writes of the file server.
* Exhaustion: environment slots, ASIDs, pages, open files, queue places.  Failure
  paths come after some steps are done.
* Progress: round robin, and devices that interrupt it; requests that wait for
  an interrupt.

Correctness, component by component: the scheduling list holds exactly the
runnable environments (the invariant of `env.c:19`); slots, ids and ASIDs are
neither lost nor shared; a receive ends once, with the message or with
`-E_INTR`, and says which; a program diverted to a handler finds its registers
as it left them; a code is masked exactly while its handler runs; reference
counts count the references, no page in use is free, and after a fork neither
side sees what the other writes; every runnable environment runs.  Of the user
level: a disk request takes effect once, on the right page; a block of the disk
belongs to one file; a closed file survives a stop; a pipe is a queue of bytes;
what the serial driver accepts goes out.  Of the rest: heap blocks tile the heap,
a kernel pointer means the same in every address space, a device is what the tree
says, and a formatted, copied or loaded byte is the right one.

## 2. Modules

| Module | Models | State and steps |
|---|---|---|
| `Tailq` | the macros of `include/queue.h` that the scheduler uses | a queue is a record of the head's two pointers and every element's two links; a pointer to a pointer is the element whose `next` it is, or `HEAD`. `Represents(q, s)` says that the links form the sequence `s` |
| `Env` | environments, scheduler, life-cycle calls | one action per trap. `env_run` and `schedule` are operators that a handler's action ends in, applied to the table and the queue as the handler left them |
| `Ipc` | extends `Env` by the two IPC calls, and states fairness | |
| `EnvInterrupt` | extends `Ipc` by interrupt registration, delivery (no owner, to the running environment, to another one) and return | `xstack` is the stack of frames on an environment's exception stack; `outcome` is a history variable that records how each receive really ended |
| `Pmap` | pages, tables, TLB, memory calls, faults, fork, teardown | the memory is a record `m`; each function of `pmap.c` is an operator from records to records, each call or fault an action; `dup_userspace` and `env_free` are loops and take one step per page |
| `AtomicDisk` | what the block driver promises | a call, one instant at which it takes effect, its return |
| `Virtio` | `driver/virtio` and `user/lib/virtio.c` | the driver's `pc`, the queue with its rings, the device, the request pages; one action per step of the main loop that the handler can come between, one per step of the handler and of the device |
| `Fs` | `fs/fs.c`, `fs/serv.c`, `user/lib/file.c`, `fsipc.c`, and the image of `tools/fsformat.c` | memory (`mem`) and `disk` side by side; a request changes memory in one step, as the server is sequential, and then its block writes reach the disk one per step, in the order in which the code does them. `scarce` is what the kernel refuses the request under way: the page of an open file, or those of some blocks. `Crash` forgets the memory and the clients and starts the server again |
| `BoundedFifo` | what a pipe promises | |
| `Pipe` | `user/lib/pipe.c`, `fd.c` | per process a `pc` and a descriptor table; every mapping, unmapping and access to `rpos` or `wpos` is a step |
| `Serial` | `driver/serial`, `user/lib/serial.c`, the UART | `count++` and `count--` of the main loop are a load and a store, and so is each change of `IER`; the handler runs between any two steps and to its end |
| `DeviceTree`, `Devices` | `kern/device_tree.c`; `device.c`, `plic.c`, `virtio.c`, `serial.c`, the device system calls | one step per token of the blob, one per stage of the boot, then one per system call or interrupt |
| `Kmalloc` | `kern/kmalloc.c` | the block list with addresses and sizes in bytes; one step per `kmalloc` or `kfree` |
| `KernelSpace` | `kern/kmmap.c`, `kmap`, `kunmap`, `kernel_passive_alloc`, `env_setup_vm` | a first-level table per address space, the lower tables they share |
| `UserCopy` | `copy_user_space`, `copy_user_space_to_env`, their callers, the process list | per environment a table from pages to frames; a copy tests one table and writes through another |
| `Vpt` | `map_user_vpt`, `unmap_user_vpt`, `env_free` | tables of tables with their reference counts |
| `Text` | `lib/print.c`, `kern/printk.c`, `user/lib/debugf.c`, `fprintf.c`, `console.c` | per environment the call under way and what it has still to hand over; the console |
| `CString`, `Loader` | `lib/string.c`; `load_icode`, `elf_load_seg`, `load_icode_mapper` | one step per call, against reference definitions |
| `MC...` | instances for TLC: sets, symmetry, a view, inputs | `MCKernelLib` puts the seven sequential modules into one run: a behaviour exercises one of them, which its variable `part` names |
| `EnvProofs`, `IrqProofs`, `PmapProofs`, `PipeProofs`, `VirtioProofs`, `SerialProofs`, `KernelLibProofs`, `FsProofs` | theorems | section 5 |

Of a trap frame only `regs[10]` is kept, by what a program can tell from it: a
call's number, 0, `-E_INTR`, or a value of the program.  An environment id is
the pair of `mkenvid`'s counter and the slot.  The kernel's free list of
environments is a sequence because its order decides which slot is reused; that
of pages is a set, because page numbers are interchangeable.

The user-level modules keep of the kernel what `Ipc` and `EnvInterrupt` establish:
a send succeeds when the other side is blocked in its receive, an interrupt ends
the receive of the environment it diverts with `-E_INTR`, and a handler runs to
its end before the program goes on.

`Env`'s constant `Usage` names system calls that the kernel accepts and that no
program of the repository makes: destroying a blocked child, making a waiting
receiver runnable, making another blocked caller runnable, changing one's own
status, two interrupt codes in one environment, registering for a code from an
interrupt handler, a driver that exits.  Some of them break invariants (section 4),
so the passing runs and the theorems say which they exclude.  Three more things are
assumed of programs.  No program forks in an interrupt handler (`IrqNext`), because
a child that begins in the middle of its parent's handler would need a copy of its
exception stack.  The two ends of a pipe are used by one process at a time each
(`Pipe`'s constant `OneUser`): nothing in `fd.c` or `pipe.c` sees to that, and without
it a pipe is not a queue (section 4).  A descriptor of the file server belongs to one
client: a descriptor page that `fork` or `dup` shares would be one entry of the open
table held twice.

`Pmap`'s constant `Sfence` tells two harts apart: one that removes from the TLB
exactly what `sfence.vma` names, the least the architecture requires, and one
that empties it, as the emulator the system is run on does.  Other constants switch
a fault on: `Virtio`'s `DiskFails` and `InterruptedOps`, `Serial`'s
`LateInterrupts` (the driver runs on while its interrupt is pending), `Fs`'s
`CrashInCheck` and `Scarce` (what the kernel may refuse the file server), `Text`'s
`Firmware` (whether the firmware prints a whole text, a part of it, or takes a text that
crosses a page for physically contiguous).  Widths are constants too: `Pmap`'s `RefMod`
(2^16, `pp_ref` is a `u_short`), `Virtio`'s `IdxMod`, `Pipe`'s `PosMod`.  `Virtio`'s
`QueueSizeMax` is the set of queue sizes that devices offer, each of them long enough for
one chain.


## 3. The runs

All twelve pass.  A property that joins several is named for what they say
together; its parts have names and comments of their own in the modules.

| Run | Instance | Shows |
|---|---|---|
| `ipc` | 3 environments, 2 ASIDs, 4 allocations, every call but destroying a blocked child and waking a receiver | `SchedListIffRunnable`, `AsidsExact`, `ReceiverBlocked`, `TablesConsistent` (types, free list, `env_run`'s assertion) |
| `ipc_live` | 3 environments, time slices of 1 and 2 ticks | `RunnableEventuallyRuns` |
| `irq` | 2 environments, 2 interrupt codes of which an environment registers for one, 2 allocations | `SchedulerIntact`: the scheduler's invariants under interrupts; `RecvOutcomeTruthful`, `PreemptedKeepsRegisters`; `MaskingExact`: no handler is entered twice, and a code is masked only while it is handled |
| `irq_restart` | 2 environments, 1 code, 3 allocations, drivers may exit | `DivertedOwnsCode` |
| `pmap` | 2 address spaces, 8 pages, 2 virtual pages, counts of 16 bits, a TLB emptied by `sfence.vma` | `PagesExact` (counts exact, no used page free, tables private), `TlbCoherent`, `CowIsolation` |
| `pmap_scarce` | 3 environments, 2 ASIDs, 7 pages, an exact `sfence.vma` | every failure path, still `PagesSafe`. The counts are not exact here, because a page directory is lost when no ASID is left (section 4) |
| `virtio` | 2 clients, 2 sectors, a driver with room for 4 descriptors and a device that offers 3 or 8, 3 calls, also of bad requests, whose clients may be interrupted out of their receive | `ImplementsAtomicDisk`, `DmaIntoRequester`, `RequestEnds`, `DriverSound` (no panic, rings and status clean between requests) |
| `fs` | 2 clients, 3 names and 2 directory entries, 3 data blocks of which one is in a file, 2 open-file entries, 4 calls, each of which may be refused the page of its open file or those of its blocks, 1 stop of the machine | `BlocksOwnedOnce` in memory, `DiskPointersUsed` on the disk, `ClosedIsDurable`, `OpenSlotPrivate`, `ServerSound` |
| `pipe` | 2 processes, each end used by one at a time, 3 descriptors, a buffer of 2 bytes, positions modulo 4, 4 bytes, 1 dup | `ImplementsFifo`, `PipeSound`: a peer reported as gone is gone |
| `serial` | 1 client, queues of 2 bytes, a UART that holds 1, writes and reads of 3, and longer ones, which are refused | `QueuesIntact`, `WrittenIsSent`, `CallsEnd` |
| `devices` | trees of the machine's shape, and ones that lack a part, are cut short, nest deeper than the parser's stack, close a node too many, lack the magic number, or have devices that do not begin at a page or a PLIC the kernel cannot use; accesses of every length around the ends of the devices, sources below and above 32 | `TreeFaithful`, `DiscoveryFaithful`, `AccessReachesDevice`, `BootSound` |
| `kernel_lib` | a heap with room for four blocks, three of them allocated at a time; two environments and the boot table; seven output calls of two environments; every alignment of `memcpy` and `memset` to 20 bytes; every segment of up to three pages, with and without the memory for it | `HeapCorrect`, `KernelHalfAgrees`, `KernelSeesCaller`, `CopiesArePrivate`, `WindowShowsTables`, `TextFaithful`, `StringsExact`, `LoadedExact` |

Why the bounds are enough.

* Kernel. Three environments are the least with somebody on both sides of the one
  that leaves the queue; with two ASIDs for them allocation also fails.  Four
  allocations for three slots reuse a slot, so that ids go stale.  Two codes let the
  interrupts of two drivers meet, each delivered while the other's handler runs.  Nested
  handlers of one environment need two codes there, which `Usage = {}` excludes; they
  have too many states for a run, and `RecvOutcomeCorrect` (section 5) is what
  covers them.  The two virtual pages 16 and 18 share a second-level
  table and have third-level tables of their own with `PTES = 2`; page number 16
  does not fit the 4 bits that a 16-bit address leaves of a page number, and with
  `USTACKTOP = 17` fork copies one and not the other.  Eight pages suffice for two
  address spaces with a path of tables and a page of their own each, so a child can
  have its copy of a page; both virtual pages in both spaces need more, so exhaustion
  happens in `pmap` as well.  With seven pages it is the rule.  The counts stay far
  below 2^16; `RefMod = 3` shows the wrap (section 4).
* Drivers and pipes. A request of the block driver uses three descriptors and the
  driver has one request at a time: a queue of 3, which the device limits, has no
  descriptor to spare, and one of 4, which the driver limits, has.  Three calls by two clients have one waiting
  while another is served, and follow a read with a write of the same sector.
  Four bytes through a pipe's buffer of two fill it, and wrap its write position modulo
  4; the read position does not follow, because a reader that meets a wrapped write
  position waits for ever (`ReadTakes`, section 4).  Three bytes through the queues of
  the serial driver fill and wrap them; a write of three finds the queue full.
  Indices of the block driver's rings do not wrap in its run; section 4 has what
  happens when they do.
* File server. With three blocks two files compete, and a file that shrinks gives a
  block that another takes.  With three names and two entries the directory fills up.
  Each page that a request asks for may be refused, so that every path with `-E_NO_MEM`
  is taken, also the one that gives a block back after it was allocated (`fs.c:518-521`).  Its files fit into their direct blocks
  (`MaxSize = NDIRECT = 2`); with indirect
  ones three of the properties fail (section 4), and what holds of the direct ones
  would no longer be told apart.  Four calls are the longest way to the interesting
  cases: open, write, truncate or remove, close, with the other client between.
* Devices. A page of 16 bytes holds a device and leaves room for the next page's, so
  accesses cross the end of a device inside its page and across it.
* Services. The heap's sizes make a split whose rest is too small for a header, one
  that is not, and releases with free neighbours on each side.  A first-level slot
  spans two pages, and the window begins in the slot after the heap's.

`MaxGen`, `MaxCalls`, `MaxBytes`, `MaxDup`, `MaxWrite`, `MaxArrive`, `MaxStatus`,
`MaxCrashes`, `MaxLive` and `MaxMapped` bound what only grows or repeats; at the bound
the call is no longer enabled.  Every system here may really stop (no runnable
environment, a panic, no caller), so deadlock is not checked; that waiting ends is
stated as liveness.

Symmetry: environments, and the file server's clients, are interchangeable, and the
initial free list takes every order; the liveness runs use none.  `MCPmap`'s view
identifies states that differ only in page numbers: it tells a page by who refers
to it, its count, its history and its cached translations, and counts the pages
nobody refers to.  `page_alloc` takes the lowest page, which under this view is no
restriction.

Refinement.  `Virtio` implements `AtomicDisk`: the disk is the device's, a call is
"called" until the device has done it and "done" until the client returns from it
with its result.  `Pipe` implements `BoundedFifo`: the queue is the bytes between
the positions.

Fairness.

* `ipc_live`: `env_pop_tf` arms the timer whenever it resumes an environment
  (`kern/env_asm.S:27-53`), so a running environment is sooner or later interrupted
  unless it gives up the hart first: weak fairness of the steps that call `schedule`
  or change `curenv`, and of the end of the boot code.  Nothing is assumed of what
  programs do.  It leaves fork out: a child goes to the head of the list
  (`syscall_all.c:541`), so a program that forks again and again, with children that
  exit, does postpone the others, and under the bound on allocations a run with
  fork would hide that.
* `virtio`, `serial`: the scheduler gives drivers and clients their turn
  (`RunnableEventuallyRuns`), so weak fairness of their steps; the device works on
  what it was told of and its interrupt arrives.  The block driver's main loop gets
  strong fairness, because an interrupt handler returns to the program it
  interrupted, so that program gets on however often it is interrupted.  No client
  need ever make a call.

## 4. What the code does and its documents deny

Where the code does not keep what a document, a comment or an obvious expectation
says, a property states the expectation and TLC finds the behaviour.  These
configurations are kept:

| Configuration | Property violated | Cause |
|---|---|---|
| `MCIpcDestroyBlocked.cfg` | `SchedListIffRunnable` | `env_free` removes from the list unconditionally (`env.c:760`, against 661 "如果存在", if it is there, and 19) |
| `MCIpcWakeReceiver.cfg` | `SchedListIffRunnable` | `sys_set_env_status` leaves `env_ipc_recving` set; a later send inserts the receiver again (`syscall_all.c:604-613`, against 557 and 563) |
| `MCIrqDeaf.cfg` | `LiveOwnerNotDeaf` | a claim without a live owner is never completed (`env_interrupt.c:45-50`, against `README.md:335`) |
| `MCIrqStarve.cfg` | `RunnableEventuallyRuns` | an interrupt inserts at the head and `env_run` restarts the timer (`env_interrupt.c:97`, against `sched.c:67-69`) |
| `MCVirtioReply.cfg` | `EveryCallReturns` | the answer is one `try_send` to a client that is not yet in its receive or was interrupted out of it (`driver/virtio/virtio.c:328`, against `README.md:390`) |
| `MCFsBootCrash.cfg` | `NoServerPanic` | a stop while `check_write_block` has the superblock overwritten (`fs.c:671`); the copy that 655 says avoids loss is in memory only |
| `MCPipeSpin.cfg` | `CheckEnds` | `_pipe_is_closed` reads `env_runs` once, outside its loop (`pipe.c:117`, against 113) |

A smaller disagreement is stated inside `RequestEnds`: the driver refuses a bad
request with `ipc_send`, which repeats until the client receives
(`driver/virtio/virtio.c:289, 301`).  When that client was interrupted out of its
receive and calls again, driver and client wait for each other
(`RefusedClientLeft`); the property holds in every other case.

Run any with `tlc -config <configuration> <module>`; the module is the one whose
name the configuration begins with (`MCEnvInterrupt` for `MCIrq...`).  The others
differ from a run's configuration in the values given:

| Start from | Change | Property violated | Cause |
|---|---|---|---|
| `MCIpc.cfg` | `NASID = 3`, `Pri = {1}`, `MaxGen = 3`, `Usage = {"wake_caller"}`, no symmetry | `SleepReturnsZero` | the result goes into `env_tf`, which `env_run` overwrites (`syscall_all.c:1131`, against 1129) |
| `MCIpc.cfg` | the same with `Usage = {"status_self"}` | `SetStatusReturnsZero` | a caller that sets its own status never reaches the end of `do_syscall` (`syscall_all.c:616-617`, against 561) |
| `MCEnvInterrupt.cfg` | `Usage = {"status_self"}` or `{"wake_caller"}`, `Irq = {1}`, no symmetry | `PreemptedKeepsRegisters` | for the same reason, and when another makes a blocked caller runnable, `env_in_syscall` stays set, and an interrupt overwrites a register of the program (`env_interrupt.c:86-92`, against `README.md:162`) |
| `MCEnvInterrupt.cfg` | `Usage = {"two_codes"}`, no symmetry | `MaskedOnlyWhileHandled` | `ret_env_interrupt` unmasks the environment's first code (`env_interrupt.c:149-158`, against `README.md:347`) |
| `MCEnvInterrupt.cfg` | `Usage = {"in_handler"}`, no symmetry | `MaskingExact` | `plic_enable_interrupt` gives the code priority 1 again while its handler runs (`syscall_all.c:1153`) |
| `MCEnvInterrupt.cfg` | `Irq = {1}`, no symmetry | `IdleKernelWaits` | `schedule` panics when all environments wait for devices (`sched.c:64`, against `README.md:190`) |
| `MCPmap.cfg` | `Perms = {{"W"}}`, `Sfence = "exact"` | `TlbCoherent` | `tlb_invalidate` takes a 16-bit address (`mmu.h:309`, against 305 and `pmap.c:519`) |
| `MCPmap.cfg` | `Perms = {{"W"}}`, `Sfence = "exact"` | `CowNotWritable` | `duppage` changes the parent's entry without invalidating it (`fork.c:57-58`, against 15-16) |
| `MCPmap.cfg` | `Perms = {{"W"}}` | `UnmapTakesNoPage` | `pgdir_walk` makes a third-level table although `create` is 0 (`pmap.c:372-388`, against 659) |
| `MCPmap.cfg` | `NASID = 1`, `Perms = {{"W"}}` | `PagesAccounted` | `env_alloc` loses the page directory when no ASID is left (`env.c:412-416`, against 373) |
| `MCPmap.cfg` | `RefMod = 3` | `PagesExact` | `pp_ref` is a `u_short` (`include/pmap.h:25`), and nothing keeps a page from being mapped 2^16 times |
| `MCVirtio.cfg` | one client, `Ops = InterruptedOps = {"read", "write"}`, `VirtioSpec` | `ReadReturnsSector` | a client interrupted in its receive sends again, and takes the first answer for the second (`user/lib/virtio.c:43`) |
| `MCVirtio.cfg` | one client, `Ops = {"read", "write"}`, `InterruptedOps = {}`, `DiskFails = TRUE`, `VirtioSpec` | `ImplementsAtomicDisk` | a bad status is logged and answered as success (`block.c:355`) |
| `MCVirtio.cfg` | one client, `NVirtio = 2`, `MaxBlk = 2`, `Ops = {"read", "write"}`, `InterruptedOps = {}`, `MaxCalls = 1` | `RequestEnds` | one handler is registered for both disks, and looks at one |
| `MCVirtio.cfg` | one client, `IdxMod = 6`, `Ops = {"read", "write"}`, `InterruptedOps = {}`, `MaxCalls = 7`, `VirtioSpec` | `IdleIsClean` | when the used index has wrapped the handler looks at the entries from 0, not at the one before, and three descriptors stay occupied (`block.c:279`). By then stores past the ring (248) have run over what follows the areas of all disks, which the model leaves out |
| `MCFs.cfg` | `NDIRECT = 1` | `NoServerPanic` | a file that was made larger and has no indirect block yet is truncated: `file_clear_block` answers `-E_NOT_FOUND`, which `file_truncate` panics on (`fs.c:1389`) |
| `MCFs.cfg` | `NDIRECT = 1`, `MaxCalls = 6` | `BlocksOwnedOnce` | a fresh indirect block is not cleared (`fs.c:778-788`) |
| `MCFs.cfg` | `NDIRECT = 1` | `ClosedIsDurable` | `file_flush` passes over the indirect block itself (`fs.c:1558`, against 1543) |
| `MCPipe.cfg` | `OneUser = FALSE`, `MaxBytes = 2` | `ImplementsFifo` | two processes at one end both make the test before either of them accesses the buffer (`pipe.c:171, 240`) |
| `MCPipe.cfg` | `MaxDup = 0` | `ReadZeroMeansDrained` | a writer writes and closes between the reader's test for an empty pipe and that for a closed one (against `pipe.c:136-138`) |
| `MCPipe.cfg` | `MaxDup = 0`, `PipeFairSpec` | `ReadTakes` | positions that wrap are compared with `<` (`pipe.c:171`) |
| `MCSerial.cfg` | `Spec` | `SentIsPrefix` | an interrupt between the load and the store of `count++` (`char_queue.c:17`) |
| `MCSerial.cfg` | `LateInterrupts = TRUE` | `WrittenIsSent` | an interrupt that is pending while the driver runs on is taken back by a read of `IIR` (`serial.c:186`) |
| `MCDevices.cfg` | none | `WholeRangeChecked`, `EveryHandlerIsReachable`, `EveryLengthWritten` | only the first byte of an access is tested (`syscall_all.c:900`, which says the range is); the number of an enable register is added as bytes, which loses the sources from 32 on (`plic.c:221-225`); `sys_write_dev` panics on eight bytes (`syscall_all.c:1034`), a length that its check accepts (988) |
| `MCDevices.cfg` | `Blobs <- StrangeBlobs`, `CrowdedBlobs`, `NarrowBlobs` | `OnlyRecognised`, `SearchComplete`, `DiscoveryFaithful` | a device that is not compatible is registered with zeros; the search drops nodes when its queue is full (`device_tree.c:175`); cell counts are taken from the root, not from the nearest ancestor that has them (473-482) |
| `MCDevices.cfg` | none | `SieBitSet`, `HandleFound`, `RegCountRight` | the code itself is used as the mask (`interrupt.c:24`); the record of the property is read as if it were its value (`device_tree.c:249`); the length in bytes is divided by a number of cells (542) |
| `MCKernelLib.cfg` | `Part = {"space"}` with `MaxMapped = 6`; with `HEAP = 3`, `Frame = {1, 2, 3}`; as it is | `NoOverrun`; `HeapShared`; `NoTableLost` | `kmmap_alloc` reads past its bitmap (`kmmap.c:22`); a heap that grows into a slot made after the environments (`kmalloc.c:26`); `env_free` keeps the tables `kmap` made for the environment |
| `MCKernelLib.cfg` | `Part = {"copy"}` | `NoCopyPanic`, `ListFits`, `PhysicalAddressStays` | only the first page of a buffer is tested (`userspace.c:36`); the process list is written for every live environment, whatever `max_len` says (`syscall_all.c:1231-1243`); a physical address is stale once the page is remapped |
| `MCKernelLib.cfg` | `Part = {"text"}`, `Calls <- HighCalls` | `UnsignedReadsBack` | `%u` converts the argument to an `int` (`print.c:135`) |
| `MCKernelLib.cfg` | `Part = {"text"}`, `Firmware = {"whole", "partial"}` or `{"whole", "beyond"}` | `TextFaithful` | `outputk` ignores how much the firmware wrote, and gives it the physical address of the first byte only (`printk.c:11`) |
| `MCKernelLib.cfg` | `Part = {"load"}`, `Images <- SharedPage` | `LoadedExact` | the second segment on a page replaces the first one's (`env.c:488`) |
| `MCKernelLib.cfg` | `Part = {"vpt"}` | `NoTableLeft`, `UnmapSafe` | tables shown in the window keep references (`userspace.c:81`); unmapping a window that was not mapped walks page 0 (140) |

One disagreement is too long for a run.  `fs.c:1543` says that `file_flush` writes the
file, and `file.c:101-102` marks its pages for that one by one.  A second client that has
the file open can shrink and grow it between two of these requests, so that the file
loses a block before its DIRTY request and has it again when it is closed: that block is
not dirty and is not written, though the close answers 0.  That takes 13 calls and a
second file.  `ClosedIsDurable` therefore promises the blocks that the close's DIRTY
requests met (`Promise`), and no more.

## 5. Proofs

The runs check small instances; the theorems hold for every value of the constants
that satisfies the module's `ASSUME` (how many environments, pages, processes,
clients, how long the rings and the buffers, what bounds on calls) and, where the
table says so, one more condition.  The invariants are inductive: each holds
initially, every step preserves it, and it implies the property.

| Theorem | Property | Condition besides the `ASSUME`s |
|---|---|---|
| `SchedListCorrect`, `EnvTablesCorrect` (`EnvProofs`) | `SchedListIffRunnable`; `TablesConsistent`, `AsidsExact`, `ReceiverBlocked` | `WellBehaved` |
| `IrqTablesCorrect` (`IrqProofs`) | `SchedulerIntact` | `WellBehaved` |
| `RecvOutcomeCorrect` | `RecvOutcomeTruthful` | `WellBehaved` |
| `MaskingCorrect` | `MaskingExact` | `WellBehaved`, `"two_codes"` and `"in_handler"` not in `Usage` |
| `DivertedOwnsCodeCorrect` | `DivertedOwnsCode` | `WellBehaved` |
| `PreemptedKeepsRegistersCorrect` | `PreemptedKeepsRegisters` | `WellBehaved`, `"status_self"` and `"wake_caller"` not in `Usage` |
| `PagesSafeCorrect` (`PmapProofs`) | `PagesSafe` | `RefsFit` |
| `PagesExactCorrect` | `PagesExact` | `RefsFit`, `Cardinality(Env) <= NASID` |
| `TlbCoherentCorrect`, `CowIsolationCorrect` | `TlbCoherent`, `CowIsolation` | `RefsFit`, `Sfence = "all"` |
| `PipeIsFifo` (`PipeProofs`) | `ImplementsFifo` | `OneUser` |
| `PipeSoundCorrect` | `PipeSound` | none |
| `DriverCorrect` (`VirtioProofs`) | `DriverSound`, `DmaIntoRequester` | `WithinLimits` |
| `DriverIsAtomicDisk` | `ImplementsAtomicDisk` | `WithinLimits`, `~DiskFails` |
| `QueuesIntactCorrect` (`SerialProofs`) | `QueuesIntact` | none |
| `HeapIsCorrect` (`KernelLibProofs`) | `HeapCorrect` | none |
| `KernelSeesCallerCorrect`, `CopiesArePrivateCorrect` | `KernelSeesCaller`, `CopiesArePrivate` | none |
| `WindowShowsTablesCorrect` | `WindowShowsTables` | none |
| `WindowExactCorrect` | `WindowExact`, a conjunct of `KernelHalfAgrees` | `WindowCopied` |
| `KernelHalfAgreesCorrect` | `KernelHalfAgrees` | `WindowCopied`, `HEAP <= SPAN` |
| `StringsExactCorrect` | `StringsExact` | none |
| `LoadedExactCorrect` | `LoadedExact` | `ImagesOk` |
| `OpenSlotPrivateCorrect` (`FsProofs`) | `OpenSlotPrivate` | none |
| `ServerSoundCorrect`, `BlocksOwnedOnceCorrect`, `DiskPointersUsedCorrect` | `ServerSound`, `BlocksOwnedOnce`, `DiskPointersUsed` | `DirectFiles`, `~CrashInCheck` |
| `ClosedIsDurableCorrect` | `ClosedIsDurable` | `DirectFiles`, `~CrashInCheck` |

Section 4 has, for each condition, a configuration that breaks it and shows what goes
wrong then.  `WellBehaved` says that programs neither destroy
a blocked child nor make a waiting receiver runnable (`MCIpcDestroyBlocked.cfg`,
`MCIpcWakeReceiver.cfg`); two codes in one environment, registering in a handler, a caller
that sets its own status, one that wakes a caller, two processes at one end of a pipe, too few ASIDs, an exact `sfence.vma` and a failing disk are rows of the second
table.  `WithinLimits` is one disk, no client interrupted in a disk request, and
fewer calls than the ring indexes count (`MaxCalls < IdxMod`; 2^16 in the code); of
each there is a row too.  `RefsFit` says that there are fewer places in page tables that
can refer to a page than `pp_ref` can count, so that it never wraps; the row with
`RefMod = 3` has more.  It also bounds the calls by `AvailEntries` (3596 in the code):
`block_cmd` indexes the available ring by the running index (`block.c:248`), so after
512 requests it stores into the areas of disks that are not there, which is harmless,
and after `AvailEntries` into whatever follows, which the model leaves out.  `ImagesOk` says that a segment has no more bytes
in the file than in memory and that two loadable segments share no page; the row with
`SharedPage` has two that do.  `DirectFiles` says that no file grows past its direct
pointers (`MaxSize <= NDIRECT`), and `~CrashInCheck` that the machine does not stop while
`check_write_block` has the superblock overwritten; the rows with `NDIRECT = 1` and
`MCFsBootCrash.cfg` show what happens beyond.  `WindowCopied` says that the window of device
mappings lies under the first-level entries that `env_setup_vm` copies, which it does: 30
are copied from the heap's on, and the window ends two later.  `HEAP <= SPAN` says that the
heap in use stays under its first entry, the first 512 MB of it; the row `HEAP = 3` goes
beyond.  Of the `ASSUME`s three are less than
obvious: the size of a pipe divides the range of its positions (32 and 2^32), a ring
index counts further than the ring is long (2^16 and 512 entries), and the image that
`fsformat` writes fits its disk (`ImageFits`).

### Queues, environments and messages (`EnvProofs`)

The first part shows that the `TAILQ` macros do what their names say, for queues of
any length: if the links represent a sequence, then after an insertion or a removal
they represent that sequence with the element added or left out
(`InsertHeadRepresents`, `InsertTailRepresents`, `RemoveRepresents`), whatever the
links of an unlinked element held.

`SchedListIffRunnable` is not inductive: that a message can be queued for a
receiver without looking at its status needs `ReceiverBlocked`; that a new
environment is not linked yet needs the free list to hold only free slots; that a
freed ASID is nobody else's needs the bitmap to be exact; and that the running
environment can be rotated needs it to be runnable.  `IInv` is the conjunction
(`IpcInvariant`: `IpcSpec => []IInv`; `IrqInvariant`: under interrupts too).
Since a handler changes the table and the queue first and then calls `schedule`,
the invariant is also stated of that intermediate state (`Good`); there is one
lemma per way of changing it (`BlockKeeps`, `WakeKeeps`, `CreateKeeps`,
`FreeKeeps`), two that lead from it to the next state (`ScheduleKeeps`,
`ReturnKeeps`), and one per action on top of those.

### Interrupts (`IrqProofs`)

What a receive reports is followed through the frames that handlers push on top of
it.  `RecvInv` says of each environment (`Truth`) that its receive is waiting exactly
while `env_ipc_recving` is set, that the frame at the depth of the call then holds 0,
and that once the receive ended, that frame (or, on top, the register itself) holds
what really ended it.  First there is one lemma per action on what it does to the
fields concerned (`...Effect`), then one that this keeps the truth (`...Truth`).

`MaskInv` ties each code's priority to the frames: an environment owns one code, has at
most one frame, and the code of a live owner is masked if and only if the owner has a
frame, which is then of that code.  It needs that identifiers are drawn once
(`IdsIssued`), so that a code's dead owner stays dead.
`MarkedInCall` says that an environment marked as being in a call is blocked in it;
it is what fails when a caller sets its own status.

### Memory (`PmapProofs`)

`PmapInv` says, of the memory and of every intermediate state of `page_insert`,
`page_remove` and `env_free` (`Good`), that a page's count is the number of slots
that refer to it (directories, entries of the three levels, one set of `Slots` for
all), plus what a directory that `env_alloc` lost for want of an ASID keeps; that free
pages have count 0; that a page holding a table has one reference; and that below an
entry that is empty there is nothing.  The counts are numbers modulo `RefMod`; under
`RefsFit` a count plus one never reaches it, so what the code compares with 0 is the number.  `TaskInv` adds what a task of several
steps (`dup_userspace`, `env_free`) relies on.  Where
there are as many ASIDs as environments no directory is lost and the counts are
exact.  Every action is then one of the moves that the two other invariants allow
(`Stepped`): `TlbInv`, that the TLB agrees with the tables of all environments, dead
ones included, and `Apart`, that a writable private page has one slot.

### Pipes (`PipeProofs`)

`ProcInv` orders descriptors and data pages: a descriptor is mapped only with its data
page, and, under `OneUser`, at most one process is inside a call on each end.  `PipeSound`
needs no more than its other parts; that the pipe is a queue rests on this one.  `QueueInv`
says where each byte is: position `k` of the buffer, modulo its size, holds the
byte sent as the `k`-th while it is not taken, and the wrapped counters have the
distance of the real ones; a process between its test and its access still has what it
tested (the reader its byte, the writer its room).  From these every step is a `Put`,
a `Get` or a stutter of `BoundedFifo`.  `CountInv` says that reference counts that were
read, with no preemption since, are those of the present.

### Block driver (`VirtioProofs`)

`VirtioInv` describes the queue by the phase of the one request that can be in flight:
empty (`Quiesced`), chained and published (`Submitted`), used and not yet collected
(`Served`); and the client by whether its page and result are untouched or final.  That
both rings hold nothing but 0 is part of it: a chain is made when the queue is empty,
so it begins at descriptor 0, whatever size of queue the device offers.  This is what makes the driver right after 512 requests
although it then stores past the ring, which the device reads modulo the size: the entry
that it finds there is an old one, and is 0 too.  Likewise the handler, which takes the entries from the last one seen up to the used index, finds
one entry or none until the index wraps; `MaxCalls < IdxMod` is the condition for that.
The mapping to `AtomicDisk` takes the device's service of a chain for the atomic step.

### Serial driver (`SerialProofs`)

`TransmitInv` says that what was accepted is what was sent and what the ring holds
from its front on, `ReceiveInv` the same of the other direction with the bytes that
were lost, each until its race; both also say how the count that the main loop has
loaded and not yet stored relates to the ring.  The two races are recorded by
history variables at the moment when the handler changes a count that is loaded.

### Kernel heap, copies, strings and the loader (`KernelLibProofs`)

`HeapInv`: the blocks tile the heap from 0 to its end, each with its header, no two
neighbours are free, and what callers hold are exactly the blocks in use.
With coalesced neighbours a refused request fits no run of free blocks.  `CopyInv`:
a page that can be written and is not a `PTE_LIBRARY` page is the only one of its frame,
and a library page shares its frame with library pages only (`fork.c:36-43`); `satp`,
`cur_pgdir` and `curenv` agree between two calls.

The copy loops keep that what was stored so far is the interval from 0 on, cut into
pieces without overlap that are each aligned to their own size; which loop may run depends on the
residues of the two addresses, so the arithmetic is about remainders modulo the word.
The loader's `LoadInv` says that the segments passed so far are in place.  A step needs
that the pages of one segment's calls are pairwise different (the first call's page,
then consecutive ones, which is where the older version of the function went wrong),
that they cover the segment, and that the next segment, on other pages, leaves them alone.

The invariant of the page-table window says that a place shows nothing or the table whose
place it is, that no page is two tables, and that a table's count is one plus the number
of places that show it.  The places are pairwise different, because the window's slot is above the
user slots: an insertion therefore replaces nothing but an older view of the same table.

`HalfInv` is about the kernel half of all spaces.  A lower table hangs under one
first-level number only, whatever the space, and a table that is not in use is empty
(`TablesSound`); so a mapping changes its own pages and no others, and a table made on the
way shows nothing else.  The bitmap says how far each page is from the end of the mapping that holds it
(`BitmapExact`), so that `kmmap_free`, which reads a length there, unmaps what was mapped.
Two runs that leave the bitmap both hold its last page, so at most one such mapping exists.
Every environment has the heap's first entry from the boot table (`HeapTable`), which
`kmalloc_init` makes before the first of them.

### Open files and blocks (`FsProofs`)

`SlotInv`: an entry that `open_alloc` may take is held by nobody; the entry of an answer
under way is nobody's yet; the page of an entry that is held exists.  The server
restarts between any two of its writes.

`BlockInv` relates the disk, the server's memory and the writes still to do, because
`DiskPointersUsed` is not inductive: the directory and the bitmap on the disk lag
behind memory in different ways.  `Follows` says how far: a pointer of the disk's
directory is the one in memory, or it was given up, its entry is about to be written
and no bitmap is; and unless a bitmap is about to be written, the disk's has no free
block that memory has taken.  A bitmap is the first write of its request
(`WritesOK`), so it never frees a block that an entry on the disk still points to.
Every operation on the server's memory (`read_block`, `alloc_block`, `file_map_block`,
`file_truncate`, `file_flush`, ...) has a lemma with the same `Contract(m, x, grows)`:
from a memory in which each block is owned once it leaves such a memory and such
writes, does not panic even when pages are refused it, and gives blocks to the files of `grows` only (`Keeps`).  A
request is a chain of these operations, so its lemma only puts contracts together.  A stop of the machine keeps
the disk and drops the rest; reading it again gives a memory as good as the disk was.

`DurableInv` follows a promise from the close that makes it to the disk that keeps it.
While the client marks the blocks of its file one by one, all it has passed are dirty
(`ClosingInv`), so `file_close` writes each of them.  While the answer is under way,
what is not yet on the disk is still to be written, and a page that is written has the
contents promised (`PromiseInv`).  Afterwards disk and memory both have them
(`SafeInv`): memory, because every write of another request is taken from there.  What
is promised is what the close's `dirty` requests met; a block that the file gets from
another client between two of them is left out, as section 4 explains.

The theorems about blocks speak of the time until the directory takes a second block: the
model ends there (`"grown"`), at the 17th file, because the entries of that block are whatever
it was last used for.

### Only model-checked

* Liveness (`RunnableEventuallyRuns`, `RequestEnds`, `WrittenIsSent`, `CallsEnd`): out of
  the prover's reach.
* `DeviceTree`, `Devices` and `Text` have recursive operators, which the prover cannot
  reason about: `TreeFaithful`, `DiscoveryFaithful`, `AccessReachesDevice`, `BootSound`,
  `TextFaithful`.

Induction over numbers is used where it cannot be avoided (a remainder exists, a block
lies before the next one): as the minimum of the set of counterexamples, since the
induction theorems of the library take an operator as parameter.

## 6. What is not modelled, and the plan

Not modelled: the assembly that saves and restores trap frames, and the rest of a
trap frame than the result register; the allocator and the detection of memory that
run before any page table exists; dumps and backtraces of panics (a panic is a state
that nothing leaves); `stat`, `seek` and `readn` of descriptors; paths with several
components; `mkenvid`'s wrap after 2^21 allocations; the constants of `elf.h`, which
are data; the test programs and the build tools other than `fsformat`, which are not
part of the running system.  The models of the user level take the kernel's message
passing and interrupts as section 2 says and are not composed with its modules: their
product is out of TLC's reach.

Limits of what is modelled:

* `Pmap`: the counts have the width of `pp_ref`, but the theorems assume that they fit
  (`RefsFit`), and the runs do not come near 2^16.
* `EnvInterrupt`: no fork in an interrupt handler.
* `Fs`: the pages that the server asks for at its start (superblock, bitmap, directory) are
  taken as given; those of requests may be refused.  `file_truncate` panics when it cannot
  get the page of a file's index block; the model ends there (`"out_of_memory"`), and
  `NoServerPanic` allows that panic and no other.  The model also ends when the directory
  takes a second block (`"grown"`).  Files with index blocks are in the model and not in the
  theorems.  A descriptor page shared by `fork` or `dup` is not modelled, so `OpenSlotPrivate`
  is about clients that each opened the file themselves.
* `Virtio`: a device's queue is long enough for one chain of three descriptors; on a
  shorter one `allocate_desc` would hand out descriptors that the device does not have.
  The only error of a receive is `-E_INTR`: the other one, `-E_INVAL`, is for an illegal address, and `REQVA` is legal.
* `Pipe`: `OneUser`, for the refinement; `PipeSound` does without.
* `Devices`: the blob itself is readable and begins at a page; nothing is said of a
  parse that runs past the end of it.
* `Text`: the firmware is taken to print what it is given (`Firmware = {"whole"}`) wherever
  the text lies; section 4 has the other cases.
* `Loader`: pages of page tables count against the memory, and a program that does not
  fit or is not ELF ends in the panic of `load_icode`.

Next: `Fs` with directories, and the composition of `Fs` with `AtomicDisk`, whose calls
are its block writes.

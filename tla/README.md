# A verification project for the xv6 kernel with a system log

The repository is the xv6 teaching kernel extended by a kernel log: per-CPU ring
buffers that the kernel writes with `klog_printf` and that user programs read
with the `getklog` system call or from `/dev/klog`. This directory holds TLA+
modules translated from the C code in `src/xv6-public`, the TLC configurations
that check them on small instances, and proofs that TLAPS checks for every value
of the constants. `PROJECT.json` maps every definition to its source lines.

## The system

| Part | Module | What is hard |
|---|---|---|
| kernel log, `klog.c` | `Klog`, `Format` | two locks per entry, a reader that locks rings one at a time in two passes, unsigned loop bounds, a fixed message buffer |
| `getklog` and `/dev/klog`, `sysproc.c`, `klogdev.c` | `KlogDev` | a page on every path, sizes of kernel, page and caller |
| file system log, `log.c` | `FsLog`, `AtomicDisk` | crashes at any block write, group commit, reservation |
| processes and sleep-locks, `proc.c`, `sleeplock.c` | `Proc` | a lock handed over by `swtch`, lost wakeups, orphans |
| spinlocks, `spinlock.c`, `trap.c`, `sched` | `SpinLock` | interrupts, nesting, `intena` that follows a thread |
| memory, `kalloc.c`, `vm.c`, `exec.c`, `proc.c` | `Memory` | every `kalloc` may be the one that fails |
| pipes, `pipe.c`, `file.c` | `Blocking`, `Pipe` | kill racing sleep, close racing both |
| console, `console.c` | `Blocking`, `Console` | free-running indices, a reader that gives up the inode |
| clock, `trap.c`, `sysproc.c` | `Blocking`, `Clock` | `ticks` wraps |
| buffer cache and disk, `bio.c`, `ide.c`, `memide.c` | `Bio` | recycling, buffers pinned by the log, an interrupt-driven queue |
| inodes, directories, files, `fs.c`, `sysfile.c`, `file.c` | `Inode` | reference and link counts under several locks, undo on failure |
| file contents, `fs.c`, `file.c` | `Content` | chunks, shared offsets, indirect blocks |
| system call arguments, `syscall.c` | `Args` | address arithmetic that wraps |
| user allocator, shell, grep, printf | `Umalloc`, `Shell`, `Grep`, `Format` | coalescing; a grammar; backtracking; the least int |
| boot, trap dispatch, tools | | not modelled, see below |

They interact as follows. Every part takes spinlocks and sleeps through
`proc.c`. File system calls run between `begin_op` and `end_op` and change
blocks through the buffer cache and `log_write`. `fork`, `exit` and others call
`klog_printf`; it takes only its ring's lock and `seq_lock`, and a snapshot holds
one ring's lock at a time. A module takes from the others what they are shown to
do: `Blocking`, `Bio` and `Inode` use sleep, wakeup and sleep-locks as `Proc` has
them; `Bio` has `log.c` as a caller that pins blocks and commits; `KlogDev` has
`klog_snapshot` as a function.

## Modules

* `Klog` models `klog.c`. Each CPU is a writer (`wpc`: the critical sections
  of `klog_printf_internal` and `next_seq`), each reader runs `klog_snapshot`
  (`rpc`: first pass, second pass entry by entry, exchange sort comparison by
  comparison). Counters are modulo `WORD`. A message is a value; the history
  variable `logged` lists the entries in the order of their numbers.
  `KlogInv` is its inductive invariant.
* `FsLog` models `log.c`: memory (`lh`, `outstanding`, `committing`,
  the cached blocks) and disk (`dh`, `logblk`, `disk`); one block write per step,
  `Crash` at any moment. `AtomicDisk` is what it promises: operations in
  groups, a commit makes a group stable at once, a crash goes back to the
  last commit. `FsLog!AtomicSpec` maps `stable` to what recovery would produce.
  `FsLogInv` is the inductive invariant.
* `Proc` models `proc.c` and one sleep-lock of `sleeplock.c`. A CPU executes on
  the stack of its scheduler or of a process (`ctx`); `lock` is `ptable.lock`,
  held across `swtch`; `next` is the scheduler's position in its loop. Changing
  the state of a process and switching away are separate steps.
* `SpinLock`: per CPU the interrupt flag, `ncli` and `intena`; per thread where it
  is in `acquire` or `release` (`lpc`). The test and the store of a lock word are
  separate steps, a handler may run wherever interrupts are on, `sched` passes
  `ptable.lock` on.
* `Memory`: the free pages are counted, an address space (`vm`) is its page
  directory, tables and mapped pages. A call (`call`) is a place in `fork`, `sbrk`
  or `exec`, and every `kalloc` is a step, since others may take the last page.
* `Blocking` is what blocking calls share: `sleep`, `wakeup`, `kill`, and the test
  of `killed` on the way back to user space. `Pipe`, `Console` and `Clock` extend
  it. What happens under the lock is one step, except that a caller of `sleep`
  keeps the lock while `kill` may come in.
* `Bio`: buffers, their LRU order (`mru`), the buffers each process has locked (`held`),
  the queue of `ide.c` and the request that the disk works on; `driver` chooses
  `memide.c` instead. `Nested` says which blocks a call reads while it holds another.
* `Inode`: an inode on disk and in the cache, open files, current directories.
  `at` and `me` are a system call's place and variables, `todo` the inodes it still
  has to put back. `iput` is two steps, as its test and its `ref--` are in the code.
* `Content`: the free map, direct and indirect blocks, offsets of shared struct
  files. A byte is the number of the process that wrote it, `expected` the
  history of what a file should hold.
* `KlogDev`, `Umalloc`: one step per call, or per place where the call can fail.
* `Args`, `Format`, `Shell`, `Grep`: pure algorithms as (recursive) functions. Their
  only variable is the input, which grows by one item per step, so that a run
  goes through all inputs up to a bound; the properties compare the algorithm
  with a reference definition (a grammar, the language of a pattern, the number
  that digits denote).
* `MCDevices`, `MCKernel` and `MCFiles` put components together for TLC: the
  variable `part`, fixed in the initial state, says which of them moves.
  `MCKlog`, `MCFsLog` and `MCProc` are instances of one component.
* The proofs: `KlogProofs` (types, locks, rings, the sequence order) and
  `KlogSnapshotProofs`, which extends it (the two passes, the sort); `FsLogProofs`;
  `ProcProofs`; `SpinLockProofs`; `DeviceProofs` (pipe, console and clock);
  `BioCacheProofs` (the cache's invariant, kept by the calls of `bio.c` and by the processes
  in `iderw`) and `BioProofs`, which extends it (the drivers, the contents, the room).

In the component modules, operators marked as a slip (`LogWriteTwice`,
`PutFreeEager`, ...) are faulty versions of the definition after them. Each
property is violated when such a version takes the definition's place;
`PROJECT.json` lists which.

## Runs

| Run | Shows |
|---|---|
| `klog_snapshot` | the inductive invariant; numbers in order past the wrap-around; rings hold the last entries; a snapshot is whole, ordered and without holes, and is the most recent entries as long as nothing was overwritten |
| `klog_live` | writers and snapshots return |
| `klog_last` | violation: after an overwrite a snapshot is not the last entries |
| `fslog_atomic` | the log implements `AtomicDisk`; nobody sleeps without a waker; idle means durable |
| `fslog_room` | `begin_op`'s reservation is enough when an operation leaves one block unused, and nobody sleeps in `begin_op` for ever |
| `proc_table` | one CPU per stack, no freed stack in use, `sched` never panics, unique pids, live parents, no missed wakeup, sleep-lock exclusion |
| `proc_live` | `wait` returns once a child exited or the caller is killed |
| `devices` | pipes keep bytes in order and are freed last; lines reach readers in order; `sleep(n)` is long enough; nobody sleeps past what it waits for; a pipeline ends |
| `kernel` | no page is lost or shared on any error path, `exec` is all or nothing; locks exclude and interrupts are restored across `swtch`; `getklog` stays in its page and in its caller; the heap is partitioned; argument checks, formatting, parser and matcher agree with their definitions |
| `files` | references and links are counted, nothing reachable is freed, puts are in transactions; a block has one owner; reads return what was written; the cache is coherent, pinned buffers stay, requests are served |
| `files_deadlock` | violation: `create` and `unlink` of one name wait for each other |
| `files_leak` | violation: two last `iput`s of an unlinked file both leave it allocated |

### Bounds

`klog_*`: 2 CPUs, rings of 1 or 2 slots, up to 5 entries with a 5-valued word, so
every ring wraps and overwrites and the counter wraps; `MaxLog` caps the entries.
`fslog_*`: 3 processes, so that one can commit while one runs and one
waits; logs that take two operations at once; `fslog_room` has 3 blocks so that
the log can fill. `proc_*`: `MAXPID` caps the processes created; 3 slots with 3
pids give a process whose parent is not init and may exit first. `Victims` are the
arguments of `kill`.

`devices`: pipe and input rings of 2 with words of 4 wrap twice; 3 processes share
a pipe's ends (`MAXBYTES` caps what is written), 2 use console and clock; `TICKWORD` of 3 wraps
during a sleep. `kernel`: 18 pages for 3 processes of up to 4 pages run out at
every `kalloc`; 2 CPUs, 2 processes and 2 locks nest, are interrupted, and move
between CPUs; a heap of `HEAPMAX` units has room for 4 blocks; 12 addresses, formats of `MAXFMT` items
in a buffer of 6, lines of `MAXTOKENS` tokens, patterns of `MAXRE` and texts of
`MAXTEXT` characters are enumerated completely. `files`: 2 processes, 3 inodes and
the calls of `MCFiles!Programs`: a file with two names, a directory that comes and goes
under `chdir` and `link`, one name that may be either; files of 2 blocks,
one of them indirect, in 6; 3 buffers for 2 processes of which one may commit one pinned block.

Deadlock checking is off where the system may stop: caps on entries and bytes
are reached, or all processes have exited; `files` has it off because of the
deadlock that `files_deadlock` shows.

### Fairness

A step that needs no lock, or whose lock the actor holds, is weakly fair: the
CPU goes on. Acquiring a spinlock is strongly fair: `xchg` in a loop does not
promise this, hardware that arbitrates the bus does in practice, and without it
no kernel path terminates. In `Proc` this is strong fairness of everything a CPU
does unasked, and the timer interrupts user code (`trap`). In `FsLog` an
operation that has begun ends, since no file system call loops for ever. In `Pipe`
a process inside a call that is not asleep goes on; nobody has to write, read or close.

## Proofs

A theorem holds for every value of the constants that the named `ASSUME` of its module
allows: sizes are positive, a word is a multiple of the ring it indexes and larger,
and the value that stands for "nobody" is not a process. Each rests on an
inductive invariant, which TLC checked on the instance of the run before it was proved.

* `KlogProofs!TypeCorrect`, `TotalOrder`: no assumption on
  the constants beyond `Klog`'s.
* `KlogSnapshotProofs!KlogInvariant`, `SnapshotCorrect`, `SortSafe`: until `WORD`
  entries are logged. `SnapshotSound` is not inductive: it needs who holds which
  lock, what the settled slots of a ring contain, and the loop invariant of the
  sort. `SortInBounds` needs in addition what the first pass has `seen`, since the
  sort is safe only if the second pass copies at least one entry.
* `FsLogProofs!LogInvariant`, `LogNeverFull`, `CommitsAlone`,
  `SleeperHasWaker`, `QuietIsDurable` and `LogIsAtomic` (the refinement), all under
  `Enough`: an operation leaves one of its `MAXOPBLOCKS` unused. The room argument
  counts the pairs of an operation and a block it may still write against the
  free part of the header.
* `ProcProofs!ProcInvariance`, `TableIsSound`, `NobodyIsOrphaned`, `NoWakeupIsLost`,
  `SleepLocksExclude`. `ProcInv` derives who holds `ptable.lock` from what each CPU
  executes: a scheduler inside its loop, a process that is no longer `RUNNING` but has not
  switched, or one inside a critical section. That is what makes a lock that one context takes
  and another releases exclude. It also says in which states a process can be at which
  place, and what `fork` may rely on between its unlocked stores.
* `SpinLockProofs!SpinInvariance`, `SpinLocksExclude`, `SpinInterruptsSound`. Locks are
  taken in the order of their numbers. Exclusion itself is nearly inductive; that no
  check of `acquire`, `release`, `popcli` and `sched` panics needs `OwnInv` (`lk->cpu`, which
  is written and read without protection, is right about the CPU that reads it) and the count
  `ncli`; that interrupts come back needs where `intena` is while a thread is in `sched`.
* `DeviceProofs!DeviceInvariance`, `PipesAreSound`, `ConsoleIsSound`, `SleepsAreLongEnough`,
  `NobodyIsForgotten`. The rings are described with unbounded counts: `nread` is the
  number of bytes taken modulo the word, and slot `(k - 1) % PIPESIZE` has byte `k`, which
  is right because the ring's size divides the word. For the sleeps, the invariant keeps
  what was tested true until the sleep, since the lock is held.
* `BioProofs!BioInvariance` (for a disk that fails as well), `CacheIsSound` (a disk without
  errors), `BuffersAreSound` (in addition `RoomForAll`: `MAXPIN` buffers and two for each
  process). `BioInv` relates locks, callers, flags and queue: a dirty buffer is in the log or
  in `iderw`, a locked one is valid unless its holder is in `iderw`, and each sleeper is queued
  once. `DataInv` adds where the latest contents of a block are, on disk or in a dirty
  buffer, and what an unfinished request carries. `RoomInv` counts: a buffer that `bget` cannot
  recycle belongs to a process or is one of the log's. `BioAssumption` says that no
  call reads a block that it already holds, with which the code would wait for itself.

Only model-checked:

* all liveness properties, which are outside of the prover;
* `RingHoldsLast`, `SnapshotNoHoles` and `SnapshotReturnsLastUnlessOverwritten` of `Klog`: the
  last entries of a CPU are a filtered sequence (`SelectSeq`), and what a recursive
  operator computes for every input cannot be proved without induction over data;
* for the same reason `Format`, `Shell` and `Grep`;
* `Memory`, `KlogDev`, `Umalloc`, `Args`, `Inode` and `Content`, for which no proof is written.

## Disagreements with the repository's own words

Three, in `findings` of `PROJECT.json`: the snapshot that is not the last entries,
the deadlock of `create` and `unlink`, and the inode that two `iput`s forget.

Met while modelling, and without a run of their own:

* `begin_op` counts `LOGSIZE` blocks, but `log_write` panics at `log.size - 1`: operations
  that used all of their `MAXOPBLOCKS` could fill the log. None in the repository does.
* `dropped` of a ring is never incremented, so `klog_get_dropped` would always return 0.
* `klog_clear` between the two passes of a snapshot would leave the second one
  nothing to copy, and `count - 1` would wrap. Nothing calls either function.
* An unknown conversion in a format takes two places of `buf[64]` after one test, so at the
  end of a full buffer the final 0 would be stored behind it. `FormatInBounds` is about known conversions.
* `kill` also compares the pids left in free slots, and `allocproc` does not clear
  `killed`: a kill can reach the next process of a slot whose `fork` failed.
* `klogdev_read` starts over with each read (`last_seq` is unused), and its array of 64
  entries is larger than the kernel stack.
* `sbrk` by exactly `-sz` frees the pages and reports an error; the process faults next.
* A disk read that fails leaves the buffer marked valid: `CacheCoherent` holds without
  disk errors (`DiskErrors = FALSE`) only.
* `NBUF` equals `LOGSIZE`: `BuffersSound` is checked for a cache with room for the pinned blocks
  and what its processes hold, and proved for one with two more per process, which the code's
  constants do not give to a full log.

## Not modelled

* `klog_clear` and `klog_get_dropped`, which nothing calls.
* Boot and interrupt-controller set-up (`main.c`, `mp.c`, `lapic.c`, `ioapic.c`, `picirq.c`,
  `uart.c`, `kbd.c`, `bootmain.c`): register-level code, executed before the initial states.
* The dispatch of traps and system calls: tables. What a trap does to processes, ticks and
  locks is in `Proc`, `Clock` and `SpinLock`.
* `mkfs.c`, which runs on the host; its result is the initial state of `Inode`.
* User programs without shared state (`ulog_tool.c`, `klog_test.c`, `usertests.c`, ...), `runcmd` of the
  shell, the buffering of `grep`, `string.c` and `ulib.c`.
* Bytes of messages and memory, names longer than one component, stack depth.

# Verification of the C-OS kernel (K439)

C-OS is a teaching kernel for one 32-bit x86 CPU. It boots in QEMU, schedules
processes with a timer interrupt, offers some twenty system calls to user programs
(a shell, `login`, `su`, `cp`, ...) and keeps files on an IDE disk in a format of
its own, Fat439, whose images the host program `mkfs` makes. This directory holds
TLA+ models of it, TLC configurations that check them, and proofs.

All paths below are relative to the root of the repository.

## 1. Inventory

### Components

| Component | Source | State | Operations | Correct when |
|---|---|---|---|---|
| Processes and scheduling | `kernel/process.cc`, `process.h`, `idle.cc`, `child.cc`, `init.cc` | `current`, `readyQueue`, `reaperQueue`, per process `state`, `disableCount`, `iDepth`, `isKilled` | `disable`/`enable`, `yield`, `dispatch`, `start`, `exit`, `kill`, `checkReaper`, `checkKilled` | a process is in exactly the queue its state names; interrupts are on exactly when the running process allows it; nobody ready starves; the dead are deleted, once |
| Semaphores | `semaphore.cc`, `semaphore.h` | `count`, `waiting` | `down`, `up`; `Mutex`, `Event` | no unit is lost or doubled; mutual exclusion; FIFO |
| Sleeping | `process.cc` (Timer), `pit.cc` | `jiffies`, the list `timers` | `sleepUntil`, `sleepFor`, `tick` | nobody wakes early, late or never |
| Interrupt entry | `pic.cc`, `machine.S` | the interrupt flag | `pic_irq`, `contextSwitch` | an interrupt leaves the interrupted process as it was |
| Resources and tables | `resource.h`, `table.cc` | reference counts, slots | `ref`, `unref`, `open`, `close`, `closeAll`, `get`, `forkMe` | an object is deleted with its last reference, not before |
| System calls | `syscall.cc` | uid and gid of the process | the calls themselves; `setuid`, `setgid` | what they return is so; a user has the rights of the account whose password was given |
| Open files, permissions | `fs.cc`, `fs.h` | `openFiles`, `OpenFile::count`, `writerMutex` | `openFile`, `closeFile`, `setPermissions`, `chmod`, `checkPermissions` | an `OpenFile` lives while it is used; writers exclude each other; whoever waits goes on |
| Fat439 blocks | `fs.cc`, `fat439/mkfs.c` | `fat[]`, `super.avail`, metadata, the directory | `read`, `write`, `newFile`, `lookup` | every block has one owner; chains are as long as lengths say; a file reads back what was written to it |
| Block devices | `block.cc`, `ide.cc` | sectors, the drive's command, `IDE::mutex` | `read`, `write`, `readFully`, `writeFully`, `readBlock`, `writeBlock` | bytes are where they were written, also across sectors; a transfer belongs to its command; every call returns |
| Kernel heap, user heap | `heap.cc`, `user/heap.c` | boundary tags, free list | `malloc`, `free`, `realloc` | blocks do not overlap, nothing is lost, neighbours are merged |
| Virtual memory | `vmm.cc`, `mmu.cc` | free frames, page tables, the CPU's translations | `alloc`, `free`, `pmap`, `punmap`, `fork`, `exec`, `activate`, page fault | a frame has one owner and comes back; no translation outlives its page; each process has a memory of its own |
| Console | `u8250.cc` | the UART's receive register, `getMutex` | `put`, `get` | every character goes to one reader, once and in order |
| User library | `user/libc.c` | the line being edited | `gets`, `strtok`, `readFully`, ... | the line that was typed, cut into its words, within the buffer |
| User programs | `user/login.c`, `su.c`, `shell.c`, tools | the loop each is in, descriptors | what they call, and what they do when it fails | one reader of the console; the right credentials |
| Keyboard | `kbd.cc`, `bb.h` | the bounded buffer | `handler`, `get` | (never runs: `pic_irq` drops interrupt 1) |
| Boot, descriptor tables, debug output | `mbr.S`, `start.S`, `kernel.cc`, `gdt.cc`, `tss.cc`, `idt.cc`, `debug.cc` | set once | | |
| From elsewhere | `snprintf.cc`, `elf.h`, `user/sha1.c` | | | |

### Interaction

A user program enters the kernel with a trap; the system call runs on the kernel
stack of the process and can be preempted wherever interrupts are on. It calls
resources (`Process::current->resources`), which call `File` objects, `OpenFile`
objects, the block device, and in the end the IDE driver, which polls and yields.
All of them wait with `Semaphore`, which calls `Process::yield(queue)`; that is the
only way to block. The timer interrupt calls `Pit::handler`, `Process::tick` (which
wakes sleepers) and then `Process::yield`, so any process can lose the CPU between
any two instructions outside `disable()` ... `enable()`. Every `yield` on its way
back runs `checkReaper` and `checkKilled`: the process that gets the CPU deletes
others, and may turn to `exit` itself. A page fault on page zero kills.

### What is hard

* One CPU, but three ways to lose it (interrupt, blocking, polling), each with its
  own debt of `enable()` calls and of `iDepth`.
* Hand-over in `up()`, the window between `exit` and the reaper, several joiners.
* Code that looks at shared state after it has released the lock (`closeFile`), or
  takes none (`fat[]`, `super.avail`), or two in a row (`open` with `O_CREATE`).
* Locks whose release depends on a count that another operation changes.
* A restart, after which half of the file system is as it was at boot.
* A full table, a full disk, a 32-bit counter that overflows, a heap with one word left.
* A command to the drive and its transfer, with other processes in between.
* Credentials that change in three calls and are inherited, along every path through
  programs that fork, fail and go on.
* Translations that the CPU has kept, of pages whose frames have a new owner.

`PROJECT.json` lists each hazard with its line and the properties that cover it.

## 2. Modules

| Module | Models |
|---|---|
| `Process` | scheduling, interrupts, semaphores, the life of a process |
| `FifoLock` | what a mutex promises (abstract) |
| `ProcessLock` | `Process` seen as a `FifoLock`: the refinement mapping |
| `MCProcess` | instances for TLC |
| `ProcessProofs` | theorems about `Process`: types, interrupts, who may panic, queues, reference counts, mutexes, `join`, and that it implements `FifoLock` |
| `AlarmClock` | what sleeping promises (abstract) |
| `Timer` | the timer list and the tick counter, refining `AlarmClock` |
| `TimerProofs` | theorems about `Timer`, and that it implements `AlarmClock` |
| `OpenFiles`, `MCOpenFiles` | `OpenFile` and `File` objects and the writer mutex |
| `OpenFilesProofs` | theorems about `OpenFiles` |
| `Fat`, `MCFat` | chains of blocks, from mkfs to restart |
| `FatProofs` | theorems about `Fat` |
| `Allocator` | what a heap promises (abstract) |
| `Heap` | boundary tags and the free list, in the kernel and in programs, refining `Allocator` |
| `HeapProofs` | theorems about `Heap`, and that it implements `Allocator` |
| `PrivateMemory` | what address spaces promise (abstract) |
| `VMM`, `MCVMM` | frames, page tables, translations, refining `PrivateMemory` |
| `VMMProofs` | theorems about `VMM`, and that it implements `PrivateMemory` |
| `AccessControl` | what accounts and permissions promise (abstract) |
| `Sessions`, `MCSessions` | login, su, the shell and the tools on the system calls, refining `AccessControl` |
| `SessionsProofs` | theorems about `Sessions`, and that it implements `AccessControl` |
| `Sectors` | what a block device promises (abstract) |
| `Disk` | `BlockDevice` and `IDE`, refining `Sectors` |
| `Console` | `U8250::get`, `gets()`, and how the shell cuts a line |
| `MCDevices` | `Disk` and `Console`, side by side |
| `DeviceProofs` | theorems about `MCDevices`: `Disk`, that it implements `Sectors`, and `Console` |

An operator whose name ends in `Mutant` is a deliberately wrong version of the one
below it. The specifications do not use it. `PROJECT.json` pairs each with the
property that TLC finds violated when it replaces the original, as evidence that the
property can fail.

### Process

With interrupts off nothing can interfere, so an action is the code between two
points where an interrupt can arrive. An action that gives the CPU away ends with
the context switch (`SwitchFrom`, the end of `dispatch` and `contextSwitch`); what is
left of `yield()` is the separate action `Resume` of the process that has the CPU back.
`frame[p]` says which call holds `p` in the kernel: an interrupt (`pic_irq`), a
voluntary `yield()`, or a blocking `yield(q)`. `at[p]` is the place in the code where
`p` goes on. `iflag` is the flag of the CPU; only `Interrupt` tests it.

| Actions | Code |
|---|---|
| `Boot` | `kernelMain`, its first `yield` |
| `Interrupt`, `Resume` | `pic_irq`, `startIrq`, `yield`, `checkReaper`, `checkKilled`, `endIrq` |
| `Yield` | poll loops in `IDE::waitForDrive`, `U8250::get` |
| `UserDown`, `UserUp`, `Lock`, `Unlock` | `Semaphore::down`, `up` |
| `Fork`, `ForkOpen`, `ForkInsert`, `ForkStart` | `fork` system call, `Table::open`, `start` |
| `Join`, `JoinUp`, `CloseHandle`, `CloseSlot`, `EmptySlot` | `join`, `close`, `Table::close` |
| `Exit`, `CloseAll`, `Signal`, `Terminate` | `Process::exit`, `Table::closeAll`, `Event::signal` |
| `TakeVictim`, `ReleaseVictim`, `Begin` | `entry`, the idle loop, `checkReaper` |
| `Kill` | `handlePageFault`, `Process::kill` |

Abstractions: a table holds only handles of processes, at most one per process, and
is a set; memory allocation always succeeds; the exit code is not carried.

### Timer

`sleepUntil` runs with interrupts disabled until it blocks and is one action; `sleepFor`
reads the clock before that and is two. The list is a sequence of targets with
queues. Arithmetic is modulo `Width` as that of `uint32_t`. The `idleJiffies`
statistics are left out, and how sleepers block and become ready is in `Process`.

### OpenFiles

Each part of `open`, `close`, `closeFile`, `chmod` and `execv` between two places where
another process can change what it looks at is an action; `openFile` and the locked
half of `closeFile` are atomic. The three reads that `closeFile` makes after
its unlock, and the hand-over, are four actions (`Look`, `Check`, `IsBlocked`, `Wake`). A process whose pointer
`after` leads to a deleted `OpenFile` is in `stale`; if it follows the pointer the
behaviour is undefined (`UseDeleted`, after which the model stops). Who may open what
is the constant `Granted`; only the bit 02 of the permissions is data, because
`setPermissions` decides about the mutex by it. File objects are counted, per process,
file and mode; those that nothing refers to any more are counted in `lost`.

### Fat

`Init` is the image that `mkfs` makes: its `getBlock` hands out blocks from the last
down. A write is `Write` (the call), `Walk` (one step along the chain), `Take` and `Link`
(allocation: `super.avail` is read in one, changed in the other), `WriteData` (one
sector) and `WriteMeta` (length and truncation). `newFile` is `Lookup`, `NewFile`, `NewPop`
and then a write to the directory, under the directory's mutex. `Restart` loads `fat[]`
and `avail` from the disk, where nobody has written them. The content of a block is
the file that wrote it last. Metadata other than the length is left out, the loop that
frees a chain is one step, and programs do not write to the directory itself.

### Heap

The array of words is as in the code, with tags, links and footers in it; a call is
one action, because the kernel has interrupts disabled and a program one thread.
`kernel`, chosen at first, says which of the two files it is: they share everything but
what a full heap does, and `realloc`. `live` is what the callers know: the pointers they
hold and the sizes they asked for. `FirstFit` follows the list for at most `len` steps, which
is to its end, since no block is in it twice. The refinement forgets tags and list; a block may
have up to three words more than was asked for, and `Allocator` allows a refusal only
if no gap is large enough, which is what merging is for.

### VMM

`Alloc`, `Free`, `pmap` and `punmap` are indivisible. `fork` copies a page per action,
`exec` unmaps one per action; in between other processes run and take frames. The
translations the CPU holds (`tlb`) may be read at any time from the page tables of the
running process, and go only with `invlpg` or another directory. `content` tells apart
zeros, what programs write and the link that `PhysMem::free` leaves in a frame, so
that a frame that is handed out uncleared is seen in `PrivateMemory`.

### Sessions

One system call is one action; what can happen inside is the subject of the other
modules. A process is at a place of a program (`prog`, `at`): login asks, forks, the
child calls `setuid`, `setgid`, `execv`; the shell opens, forks, waits; the tools open, read,
write, chmod. Each has what the code does when the call fails, including children that
come back to the main loop of their parent's program. The user for whom a process runs
(`owner`), who wrote a file last (`author`) and who has read what (`readers`) are history:
the refinement to `AccessControl` sees only them and the metadata, no uid of any process.

### Disk and Console

`readFully` and `writeFully` go piece by piece, a piece is at most a sector, `write` reads the
sector, changes it and writes it back, each half is a command to the drive and a
transfer under the mutex, and the drive is busy after both until it is done. `Begin` keeps
two writers of one sector apart, as the mutexes of files and of the directory do.
`Console` goes from the receive register over `gets()` (a `Del` takes a character back, the
buffer grows) to `strtok` and `makeArgs`, which work on the string in place.

## 3. Runs

| Run | Question | Result |
|---|---|---|
| `process_safe` | do all interleavings of interrupts, locks, forks, joins, exits and kills keep scheduler, semaphores and reference counts consistent? | holds |
| `process_live` | do ready processes run, joins return, the dead go; is the mutex a FIFO lock? | holds |
| `process_kill_panic` | does a killed process block inside an interrupt? | violated |
| `timer_safe` | is sleeping an alarm clock, also when the tick counter overflows? | holds |
| `heap_safe` | do blocks tile the heap, is the list exact, and is the heap an allocator? | holds |
| `vmm_safe` | does every frame have one owner, are translations current, is memory private? | holds |
| `openfiles_counts` | do `OpenFile` counts follow the File objects; is no waiter lost on the mutex? | holds |
| `openfiles_writers` | do writers exclude each other? | violated |
| `fat_safe` | are blocks conserved and files intact for one process that writes in last blocks? | holds |
| `fat_overwrite` | also when it writes before the end? | violated |
| `sessions_safe` | do users get the rights of their accounts, and no more; does one process read the console? | holds |
| `devices` | is the disk a store of sectors whose calls return; does each character, and each word, arrive once? | holds |

Each violated run states what a comment of the code says, and is a finding in
`PROJECT.json`:

* **`process_kill_panic`**: `checkKilled` ends every `yield`, so a killed process that
  is interrupted in `exit`, with the mutex of its table locked, begins `exit` again
  inside the interrupt and blocks on that mutex: the assertion in `yield(q)` fails.
* **`openfiles_writers`**: `setPermissions` takes the writer mutex if *the file* has bit
  02, not if the caller wants to write. A file of mode 0644 has it not.
* **`fat_overwrite`**: a truncating write frees the blocks behind, but does not end the
  chain: the file runs on into the free chain. A second truncation bends the free
  chain into a ring and a third walks it for ever.

In `process_safe`, which has kills as well, `OnlyTheKilledBlock` says that nothing else
can end in that panic.

### Observations without a run

The first three can be seen with TLC by changing constants:

* `MCOpenFiles` with `FairSpec`, three processes and `WritableByAll = {f}` violates
  `WaiterGoesOn`: `closeFile` unlocks the writer mutex when one reference is left. With two
  processes waiting, two are left, and both wait for ever (fs.cc:387).
* `MCFat` with two processes and `Seeks = "end"` violates `OwnData`: allocation has no lock,
  and two processes link the same block (fs.cc:121).
* `MCFat` with `Restarts = "any time"` violates `OwnData`: `fat[]` and `super.avail` are never
  written back, so a file that grew has lost its new blocks after a restart (fs.cc:122).

Others follow from the same code:

* A second *reader* of a file of mode 0666 blocks, since the mutex is taken for reading
  too; an `open` that is denied can unlock the mutex of the process that has the file
  open, since `closeFile` only looks whether it is taken.
* `sleepFor(1)` may return after one tick, since `Pit::seconds()` rounds down.
* The shell never closes the descriptor that `getFileType` opens (shell.c:97). After as many
  commands as its table has slots, nothing it starts is found; if the table becomes full
  in between, `fork` has no descriptor for the child, and the shell asks for the next
  command while its child runs. `OneReader` therefore speaks of tables that were never full.
* A line that ends with a blank and has more blanks than words gives a program one
  empty argument more (libc.c:112); `ArgsAreWords` says exactly when.
* `chmod` writes at byte `start` of the disk, where all else uses `start * 512` (fs.cc:218). The
  permissions change in memory only, and the super block on the disk is damaged.
* Two processes that create one name at once create two entries (syscall.cc:79): lookup and
  creation lock the directory separately.
* `execv` restores uid and gid when the program cannot be loaded (syscall.cc:176), but
  `Process::execv` fails only if the name is gone, and names are never removed.
* `Table::get` reads the type of an empty slot (table.cc:71): a call on a closed descriptor is
  a fault on page zero, and kills the caller.

### Bounds, and why they are enough

* `process_safe`: four process objects (idle, init and two that are forked, die, are
  reused), one shared mutex, one user semaphore, one slot per table, and kills. With three
  objects besides idle, a queue has a head, a middle and a tail; two joiners wait for
  one process; an object is freed and allocated again; a table is full. `MaxCount` keeps
  the user semaphore at 1; `MaxHandles = 1` makes a second fork find a full table.
* `process_live`, `process_kill_panic`: three objects, because liveness multiplies the
  states, and a victim, a process that preempts it and idle are enough for the panic.
* `timer_safe`: three sleepers, two ticks per second, a counter that overflows after
  eight; seconds 1 and 2 are two timers, 5 overflows to the tick of second 1.
* `openfiles_counts`: two processes on one file, two slots each, one of them without the
  right to write, execute or chmod; `MaxLost = 2` File objects lost: count and mutex
  are per file, so one file is enough. A third party comes through fork and exit.
* `fat_safe`: seven data blocks, blocks of three units, metadata of one, entries of
  two: ends fall on block boundaries, entries straddle them, and the disk fills up in
  a write and in a creation. `MaxLength` bounds the offsets, `Seeks = "last block"` keeps
  to writes that free nothing (a freed block is the subject of `fat_overwrite`), and
  restarts come before the first allocation (later ones lose blocks, see above).
* `heap_safe`: 24 words hold five blocks of the least size, so three available blocks
  can be in the list, one between two others; requests of 0, 8 and 16 bytes split a
  block with and without a rest, and the heap fills up.
* `vmm_safe`: three processes, one at first, two pages, eight frames: frames go round
  between processes, through the free list, and run out in `fork` and in a fault.
* `sessions_safe`: three accounts (root, a user, one without a group in common), a file
  of each kind `mkfs` writes, six processes (login, shell, su or a second login, its
  shell, two commands), tables of three slots, so that a shell fills its table.
* `devices`: two processes, two sectors of two bytes: a read of everything, writes in a
  sector, across two, and of the last byte; lines of four characters of a letter,
  blanks and `Del`, typed to two readers, and a buffer that grows by two.

Deadlock is checked where the system never stops: in `process_live` and `timer_safe`. It
is not in `OpenFiles`, where all processes may exit or wait; where a panic stops
the machine (`Process` with kills, `Fat` when the disk, `Heap` when the heap and `VMM` when
the memory is full); in `Sessions`, where login may die; and in `MCDevices`, where
nobody types any more.

### Fairness

`Process!Fairness`: the CPU goes on (`WF` of `Boot` and `Resume`); the PIC latches an
interrupt that arrives while interrupts are off, so the timer gets through if they
are on again and again (`SF` of `Interrupt`); a time slice is long enough for some
progress and poll loops end, so a process that is in the middle of a kernel
operation goes on if it gets the CPU again and again (`SF` of `Step`). No fairness is
assumed for what programs choose to do: they may compute for ever, keep a handle,
never exit. `Timer`: the PIT ticks. `OpenFiles` and `Fat`: a system call that has begun
goes on when it is ready, which is what `ReadyRuns` of `Process` gives; `NewFile` has `SF`
because the kernel mutex is FIFO, which is what `MutexIsFifoLock` gives. `Disk`: the drive
answers, and a process that polls or has the mutex goes on (`WF`), again by `ReadyRuns`.

## 4. Proofs

A run of TLC shows a property on an instance; a theorem shows it for all values of the
constants that satisfy the assumptions of the module: any number of processes, files,
sectors or frames, tables and counters of any size. `PROJECT.json` lists the theorems. Each
has the same shape: an inductive invariant (called `IInv` unless stated), a lemma that
`Init` implies it, a lemma for each action, or for actions that share their effect, and a
theorem that draws the property from it. The parts of the invariants that no run
checks were checked by TLC, on the instances of the runs, before they were proved.

### `ProcessProofs`

For any finite set of processes, any mutexes, user semaphores, initial counts and bounds,
and with kills:

* `TypeCorrect`, `InterruptsDisciplined`: no disable count, interrupt depth or semaphore is
  ever negative; the panics in `enable`, `startIrq` and `endIrq` cannot happen, and
  interrupts are on exactly when the disable count of the running process is zero.
* `PanicOnlyOfTheKilled`: only a killed process can block inside an interrupt.
* `NoProcessLost`: a process is in exactly the queue its state names, once.
* `DeletedWithLastReference`: reference counts are exact.
* `MutexNeverLost`, `JoinNotBeforeExit`: of the semaphores.
* `MutexPassesInOrder`: the safety part of `MutexIsFifoLock`.

The first two are not inductive. `Resume` subtracts what `frame[p]` says from
`disableCount[p]`; that the result is a natural number is `InterruptDiscipline`. It in turn
needs `LocationInv`: what a process works on fits the place where it is, and a killed
process is on its way out; and `DepthInv`: a process whose count is 0 is inside no
interrupt and no `yield`.

The queues need five conditions at once, `LInv`. `QueueInv` says where a process is by its
state; that `up()` readies somebody who is nowhere else needs `WaitInv`, which says for
which semaphore a process can wait at each place of the code; that an object is not
used after it was deleted needs `LifeInv` (where a process is in each state of its
object, and that those who fork or close a handle have it) and `RefInv` (the count is the
number of owners); and that a process is reaped once needs `ReaperInv`: whoever is in the
middle of `checkReaper` has taken its victim off the queue, and only a process that begins
for the first time can be interrupted there, so every other finds the queue empty.

The semaphores need `KInv`: `LocksInv` says of each mutex that it is free with nobody
inside, or taken with exactly one process inside, and `EventInv` that `done` of a process is
set at most once, when it ends. Killed processes are the difficulty: `exit` begins again
for a process that is killed inside it, with its table locked. So both speak of the
tables and ends of those that are not killed; what a killed process leaves is weaker, and
`Marked` says that it is not interrupted once it was sent back from the end of `exit`.

### `TimerProofs`

For any processes, any frequency, any width of the counter and any arguments:

* `TypeCorrect`, `ListAhead`: the list ascends and nothing in it is due or overdue, so
  `tick` may look at its head alone and compare with `=`, and the overflow of the counter
  changes nothing about that.
* `NobodyOversleeps`: the safety part of `IsAlarmClock`.

`TypeOK` and `TimersAhead` together are inductive. `PlaceSplits` says that in an ascending list
`Place`, a count, is where the smaller targets end; `Inserted` says what `InsertAt` does to a
list, and `WakeAhead` is the step of `tick`: all that was ahead of the old time and is not
ahead of the new one is the head. The refinement needs `SleepersInv` besides: a process is in
one queue of the list, once, and not while it computes a target in `sleepFor`.

### `HeapProofs`

For a heap of any length from eight words, any requests and stamps, kernel or program:

* `TypeCorrect`.
* `BlocksFillTheHeap`, `ListHasTheAvailable`: the properties of the run.
* `DoesWhatAllocatorPromises`: `Heap` implements `Allocator`.

`Blocks` is a recursion over the headers, of which nothing can be proved by induction over
steps. So `HeapInv` does not mention it: there is a set `B` of blocks, of which those in
`A` are available. `Good` says what these are between calls; inside a call blocks have
left a gap, from which `Inter` takes `B` through `remove`, `makeTaken` and `makeAvail` (`UnlinkStep`,
`TakenStep`, `AvailStep`). `Inter` has two parts. `Shape`: the blocks tile the heap but for the
gap. `List`: the links of `A` agree, and its members can be numbered downward along `next`, so
there is no ring in it; `Reached` and `FirstFitIs` follow from the numbers, the latter by
counting: among more steps than there are words one comes back. `BlocksAre` shows at the end
that the recursion finds `B`. The refinement needs `NoGap` besides: if no available block is large
enough, no gap is, because available blocks have no available neighbours.

### `VMMProofs`

For any memory, pages and processes:

* `TypeCorrect`; `FramesOwnedOnce`: no frame is lost or has two owners.
* `BufferCoherent`: translations are never stale.
* `MemoryIsPrivate`: `VMM` implements `PrivateMemory`.

`FramesInv` is `FramesConserved` in the form in which frames can be moved: those in use are
the union of what the processes have, pairwise apart. Actions are sequences of `Alloc`, `Free`
and `pmap`, so the lemmas are about these (`AllocLemma`, `FreeLemma`, `MapLemma`, `PagesLemma`),
and `ExchangeLemma` says when an address space may be replaced by another. `ProcInv` and
`ForkInv` tie the child that `fork` is making to its only parent: so far it is a copy.

### `SessionsProofs`

For any accounts, disk image, commands and sizes of tables:

* `TypeCorrect`; `ActsForItsUser`: the uid and gid of a process are those of the account.
* `OneReaderAtATime`: one process reads the console, as long as no table was full.
* `AccessControlled`: `Sessions` implements `AccessControl`.

`OwnInv` says for each place of each program what the process knows: which command, whose
credentials it has or is about to have, and that what it has open exists. `MarksInv`: only the
programs of the image are marked. `FamilyInv` is why there is one reader: every live process
but the first has a parent of its own that waits for it in `join`, until a table was full.

### `OpenFilesProofs`

For any finite processes and files, any permissions and tables of any size:

* `TypeCorrect`; `CountsItsObjects`: an `OpenFile` counts the File objects on it.
* `WaitsBehindLock`: nobody waits for a writer mutex that is not locked.

The first is why `closeFile` never takes a count below zero, and the invariant needs one
thing more, `AbsentInv`: a process that `fork` can create has an empty table. `FileObjects` is a
cardinality; `OneMoreUnit`, `OneLessUnit` and `CounterSet` say how it changes with a counter.

### `DeviceProofs`

For any drive, sectors of any size, any processes and requests:

* `TypeCorrect`.
* `DoesWhatSectorsPromises`: `Disk` implements `Sectors`.
* `DevicesTyped`, `ConsoleDeliversOnce`, `ProgramsGetTheWords`: for disk and console side by
  side, any letters, typed by any hand, and any number of readers; the last of them for
  lines of any length.

`MutexInv` makes the head of the queue the only one who works with the drive, so `DriveInv`, that
the transfer is of the sector of the call, survives the others. `DataInv` says what is in the
buffer between the two halves of a write: the sector as it is on the disk, with the piece
changed. It is true because `ApartInv` keeps writers of one sector apart for as long as
any part of their calls is to come. Arithmetic is in `AddressIs`, `PieceIs` and `PartIs`: the
piece that the loops of `readFully` and `writeFully` cut off is what `Sectors` calls a part.

In the console the head of the queue of `getMutex` is the only one who polls (`LineInv`).
`ReadInv` is what `U8250::get` rests on when it gives up the CPU between the two reads: who has
seen the bit in the status register still finds the character. `Queued`, with `Joined` and `Left`,
says what the queue of a mutex is for those in it.

That a program gets the words of its line takes inductions on the keys, on the characters of
the line, on the calls of `trimWord` and on the arguments. `EditInv` keeps the buffer of
`gets()` equal to the line that is seen (`SeenIs`: what one key does to it). `Packed` says
where the words of the first `m` characters begin and end, `a` and `e`, and at which place `b`
each goes when those before it are packed with one character between them; `WordsExist` finds
all that for every line, character by character, with the number of blanks that are left over,
and `WordsAre` leads back to the definition of a word that `ArgsAreWords` uses, by counting.
`TrimStep` is a call of `trimWord`: the next word is in place, a Nul behind it, and the rest
of the line as before but for blanks where the word was (`Trimmed`). `CutIs` takes the calls
of `strtok` together, up to one on blanks alone, which there is exactly when some are left
over (`LeftOver`); `ArgsAre` follows `makeArgs` from one Nul to the next.

### `FatProofs`

* `TypeCorrect`: for any processes, seeks and restarts, a disk and an image of any size.
* `NoBlockLost`, `ReadsEndInTheFile`, `FilesHoldTheirOwn`: for a disk and an image of any size and
  any names, but one process, which writes in the last block of its files, and restarts only
  before it allocates. That is `OneWriter`, a hypothesis of the three and no assumption of
  the module: without each of its three parts the properties are false, as `fat_overwrite`
  and the observations show, not just unproved.

The properties follow chains, by recursion. The invariant does not: `Accounted` says that there
are an owner `own[b]` of each block that is no longer free and a position `pos[b]` in its
file. `ChainsInv`: `fat[]` leads from a block to the one with the same owner and the next
position, no two blocks share both, and the last one ends the chain. `FreeInv`: the free
chain goes down by ones, since `mkfs` made it so and nothing is freed in this use. `LengthInv`
and `ContentInv` tie length and contents to positions. `JobInv` says where a write under way has
got to: how many steps are left to the block it wants. From it follows that
the truncation at its end finds nothing to free (`WriteMetaStep`).

`FileChain` and `FreeChain` lead back to the recursion: `Upward` is induction up to a number, from the
well-foundedness of `<`, and `Repeated` turns a step of the walk into all of it. `TakenIs` does the same
for the loop of `mkfs`, and `ImageIs` says what the image is: files in intervals, from the
last block down, each linked downward. `StartChains` numbers those.

### Only model-checked

* Liveness under fairness, which the proof system cannot express: `SleepersWake`, `ReadyRuns`,
  `JoinReturns`, `EventuallyDeleted`, `CallsReturn`, and the fairness in `MutexIsFifoLock` and
  `IsAlarmClock`.
* The properties that three runs find violated.

## 5. Plan

The models of the plan are written, and each safety property that a run finds to
hold is proved. What is left is `OwnData` for several processes where nothing is
allocated: each overwrites in place, and does not shorten, files of its own.

## 6. Not modelled

* `snprintf.cc`, `elf.h` and `sha1.c` come from elsewhere and are used as libraries.
* The boot sector, descriptor tables (`gdt.cc`, `tss.cc`, `idt.cc`), the programming of PIC
  and PIT and the saving of registers run once or are invisible at this level.
* The bit fields of `mmu.cc`, the string functions of `libk.cc` and what is left of
  `libc.c` are pure functions of a line or two each; nothing interleaves in them.
* Debug output, the layout of `ls`, prompts and messages are wording. The text of `passwd`
  and `group` and the hash of a password are reduced to whether a person is known.
* The keyboard driver and the bounded buffer never run: `pic_irq` drops the interrupt.
* The offset of a `File` (`seek`) and `stat` concern one process and nothing it shares.
* That `chmod` damages the super block on the disk is not in `Fat`: no property would hold
  after it and a restart (see the observations).
* Compiler and hardware reordering: there is one CPU, and shared data is accessed
  between calls that the compiler cannot see through.

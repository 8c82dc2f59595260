# A TLA+ model of the docqos kernel

docqos is a small 64-bit kernel in C for one x86 CPU: preemptive tasks, a
virtual file system with a device file system and ISO 9660, a terminal, disk
drivers, signals, and a handful of user programs.  Its sources have no document
beside their comments, so this project takes the code as its reference.  Paths
are those of the repository: kernel sources under `src/src/`, headers under
`src/include/`, programs under `src/user/`.

Contents: the system (1), the plan (2), modules and code (3), runs (4), bounds
and fairness (5), proofs (6), what the models show to be wrong (7), what is left
out (8).

## 1. The system

### How the parts work together

Everything runs on one CPU.  Three kinds of code interleave:

* **tasks** in the kernel, which give the CPU away in `schedule()` or are
  preempted by the tick when they hold no spin lock (`preemption == 0`), their
  state is `TaskRunning` and interrupts are open (`task.h:123`);
* **device interrupts**, which may come wherever interrupts are open, the
  inside of a task's blocking call included, and which only wake tasks or put
  characters into buffers (`interrupt.c:21`);
* the **tick** of the local APIC, which marks `needSchedule`
  (`localtime.c:14`) and makes `doIRQ()` call `preemptionSchedule()`.

A spin lock is therefore a preemption count and, where the caller asks for it,
closed interrupts.  Code between two places where a task may be preempted is one
step.  A task that has put its state to something else than `TaskRunning` is not
preempted until it calls `schedule()`, but interrupts still come.

### Components

| Component (sources) | State | Operations | Works with |
|---|---|---|---|
| Scheduler (`task/task.c`, `task.h`, `localtime.c`) | `runnableTasks`, `Task.state`, `needSchedule`, `preemption` | `schedule`, `wakeUpTask`, `preemptionSchedule`, tick | everybody |
| Fork, wait, exit (`task/task.c`) | `parent`, `children`, `waiting`, `exitCode`, the pid counter | `doFork`, `doWaitPID`, `doExit`, `doExecve` | scheduler, memory, files, signals |
| Semaphores, wait queues (`task/semaphore.c`, `waitqueue.h`) | `count`, `sleepers`, queue | `downSemaphore`, `downSemaphoreInterruptible`, `upSemaphore` | scheduler, signals |
| Ring buffers (`cpu/ringbuffer.c`) | buffer, `reader`, `writer`, queue | `outRingBuffer`, `inRingBuffer` | keyboard interrupt, terminal |
| Terminal, keyboard (`video/tty.c`, `input/keyboard.c`) | two ring buffers, key state, screen | `ttyKeyboardPress`, `ttyKeyboardTask`, `ttyRead`, `ttyWrite` | ring buffers, signals (Ctrl+C) |
| RCU (`cpu/rcu.c`) | `count`, stored callbacks | read lock and unlock, `addRCUCallback` | dentry cache |
| Hash lists (`core/hlist.h`), dentry cache (`filesystem/virtual.c`) | chains, reference counts | hash, unhash, look up | RCU, VFS, semaphores |
| Signals (`task/signal.c`) | `pending`, `blocked`, actions | `doKill`, `handleSignal`, `doSignalReturn` | scheduler, every interruptible wait |
| Timers (`time/time.c` and the clock chips) | sorted list of timers, `ticks` | `addTimer`, `removeTimer`, the interrupt, `scheduleTimeout` | scheduler, drivers |
| Radix tree, page cache (`cpu/radixtree.c`, `block/pagecache.c`) | tree, counts of its nodes | insert, remove, get | block layer, file systems |
| Block layer (`block/block.c`), AHCI and IDE (`driver/ahci.c`, `ide.c`) | devices, the command under way | `submitBlockIO`, the drivers' requests and interrupts | scheduler, page cache |
| Buddy system (`memory/buddy.c`) | free lists per order, page flags and counts | `allocPages`, `freePages` | slab, paging |
| Slab, kmalloc (`memory/slab.c`) | slabs, local cache of objects | `allocByCache`, `freeByCache` | buddy system |
| Paging, user access (`memory/paging.c`, `user.c`) | page tables, areas, page counts, the memory each task runs on | `doMMap`, `doMUNMap`, fork, execve, exit, page fault, `schedule()` | buddy system, tasks, files |
| VFS, devfs, iso9660 (`filesystem/`) | dentries, inodes, files, mounts | path walk, open, read, close, dup, mount | dentry cache, semaphores, page cache |
| Driver model, PCI (`driver/driver.c`, `pci.c`) | lists of drivers and devices | register, deregister | drivers |
| Interrupts, exceptions (`interrupt/`) | IRQ table, `preemption`, IDT | `doIRQ`, `handleException` | all handlers |
| System calls, ELF, ACPI, console, frame buffer, boot, strings, user programs | mostly none, or set up once | | |

### What is hard in it, and what makes each part correct

* **Scheduler.** `schedule()` has windows with interrupts open around the part
  where it has them closed; an interrupt may wake the very task that is on its
  way to sleep; a tick may come in the last window.  Correct: the list holds
  each runnable task that does not run, once; no wake-up and no tick is lost;
  no switch happens inside a spin lock; a task that waits keeps its turn, so that
  only tasks that were asleep get ahead of it.
* **Semaphores.** `count` moves outside the lock.  Correct: one holder; a free
  semaphore with waiters always has somebody under way; signals and spurious
  wake-ups leave the queue (entries on the waiters' stacks) intact.
* **Ring buffers, terminal.** Writers are interrupts and the keyboard task.
  Correct: first in, first out; dropping only the oldest; no sleep on data; an
  edited line stays within the program's buffer; the keyboard task, which waits for
  answers of the keyboard, comes back.
* **RCU and the dentry cache.** The count of readers is read without the lock, and
  references are taken with a compare-and-exchange while somebody destroys the
  entry.  Correct: nothing is freed under a reader, twice, or never; a count is the
  number of those who refer to the entry; a name has one entry.
* **Fork, wait, exit.** An exit races a wait, and hands its children on.
  Correct: parents and lists agree; every zombie is reaped once; an exit is final;
  a wait with something to reap returns.
* **Signals.** A signal meets a task that is just going to sleep, to stop, to
  return, or to exit.  Correct: no sleep outlasts a signal; handlers nest; what
  kills does kill.
* **Memory.** Counters and flags next to a list change outside the list's lock; a
  page fault is preempted between its parts; a memory is used by tasks that only
  borrowed it; error paths return half way.  Correct: every page is in one place;
  counts are exact; what a program has in its memory no other task changes.
* **Files.** One path takes references in every directory on its way, across mount
  points; descriptors share files through `dup`, fork, execve and exit; a directory
  whose cursors live in the list they walk.  Correct: counts are exact, a file is
  open as long as somebody has it, a scan returns everything once.
* **Disks.** Any return of `schedule()` is taken for the device's interrupt; results
  are read after the lock was given back.  Correct: a drive works for the task that
  has its channel; success means that the sector is there; the channel comes free.

`PROJECT.json` lists these hazards at their lines with the properties that would
show them go wrong.

## 2. Plan

The most widely used parts come first; later modules build on their promises.

1. `Scheduler` and `RunQueue`, `Semaphore` and `Mutex`, `RingBuffer` and `Fifo`,
   `RCU`, `TaskFamily`: done, with proofs.
2. `Signals`: done, with proofs.
3. `Buddy` with `PageAllocator`, `Slab` with `ObjectPool`: done, with proofs.
   `AddressSpace`: done, with proofs.
4. `Dentries`, composed with `RCU`, and `Files` with `Descriptors`: done, with proofs.  devfs
   and the order of ISO 9660 directories, in `Files`: done.
5. `Disk` on top of `RunQueue`: drivers, block layer, page cache, `iso9660`: done,
   with proofs.
   The timers were in the plan and are not modelled: nothing in the kernel calls
   `scheduleTimeout()`, and nothing else calls `addTimer()`.  For the same reason
   `deregisterDriver()` is left out.
6. `Terminal`, composed with `RingBuffer`: done, with proofs.

Runs: one passing run per component, two for the semaphore, with bounds as small as
the hazards allow (two or three actors).  Theorems: for each module the inductive
invariant behind its safety properties, for any number of tasks, and the
implementation of the abstract module where it has one.

## 3. Modules and the code they model

### Scheduler, RunQueue (`task.c` 148-262, 566-587, `task.h`, `localtime.c`, `interrupt.c`)

`Scheduler` has for each task the place in `schedule()` it was switched out at
(`at`), what it is about to do (`intent`: run, call `schedule()` because it set
its state, exit), `next` (the local variable of `schedule()`), `needSchedule`,
`state`, `pending`; and once `runnable` (head first), `current` and `critical`
(preemption held off by a lock).  Actions: `Lock`, `Unlock`, `UnlockSchedules`
(`enablePreemption()` with a tick outstanding), `Sleep`, `Exit`, then inside
`schedule()` `Interrupted` (a signal is pending), `CallSchedule` (up to the
switch), `Done`, `Repeat` (`goto repeat`, `next` keeps its value), `Return`;
`TaskWakes` and `IrqWakes` for `wakeUpTask()`; `Fork`, `Reap`, `PostSignal`,
`TakeSignal`; `TickMarks` and `TickPreempts`.

`RunQueue` is what the others rely on: block, wake (head of the list), preempt
(tail), each in one step.  `ImplementsRunQueue` is the refinement; the mapping is
the identity on `state`, `runnable`, `current`.  It states no more than the code
keeps: with an empty list `SwitchToOther` may run any other task, because
`schedule()` may come round with its old `next` (section 7).  A waiter can
therefore run although nobody woke it, and the other modules have a
`SpuriousWake` action or an equivalent.

### Semaphore, Mutex (`semaphore.c`, `waitqueue.h`)

The places are those where a call can be interrupted: before the atomic
decrement, between it and the lock (`"slow"`), asleep in the queue, between the
atomic increment of `upSemaphore()` and its lock (`"up"`).  The wait queue is a
sequence; a woken waiter stays in it until it runs.  `Interruptible` names the
tasks that use `downSemaphoreInterruptible()`.  `Mutex` is the abstract promise:
tasks want, take, release, and a wanted free semaphore is taken.  Releasing is
done by the holder, as every pair of calls in the kernel does.

### RingBuffer, Fifo, Terminal (`ringbuffer.c`, `tty.c` 231-388, `keyboard.c` 92-211)

`RingBuffer` is `ttyReadBuffer`.  A call is one step up to where it sleeps (all of
it is under `wait.lock` with interrupts closed).  Positions count unsigned ints.
`Overruns` chooses whether the buffer may get full while the oldest character is in
the last slot: `reader` then leaves the buffer (section 7), and the promises hold
only without that.  All other ways of filling the buffer are in.  `Fifo` is the
abstract queue, with the unread part of the buffer as its content.

`Terminal` extends `RingBuffer` with those who write and read it.  `Press` is the
interrupt of the keyboard, which puts a scan code into a second buffer, of which only
what `Fifo` promises is kept (`typed`).  `ttyKeyboardTask()` hears one code at a time:
`HearModifier`, `HearInterrupt` (Ctrl+C goes to the task of `TIOCSPGRP`, here any
task that can have signals, or none), `HearCharacter` (into `ttyReadBuffer`), and
`SetLED`, which sends two bytes and waits for an answer to each; `Answers` is the
interrupt that brings it.  While the keyboard works on the command it sends no codes.
`ttyRead()` is `Read`, then `NextCharacter` with the steps `In` or `Woken` of
`RingBuffer` and the editing of `Edit`, `ReadInterrupted` and `ReadReturns`.  `size`,
`data` and `count` are its argument and two local variables; what the characters do
to the screen is left out.

### RCU, Dentries (`rcu.c`, `virtual.c` 71-155, 202-232, 394-436)

`RCU`'s readers lock, find hashed entries, unlock, and flush if they brought
`count` to 0; removers take an entry off the hash list, test `count` without the
lock, and store the callback or free the entry.  A freed entry's memory may come
back as a new one (`Hash`).

`Dentries` extends `RCU` with one directory of the cache.  Every task both looks up
and destroys; a look-up enters the chain (`Enter` keeps the entries of the name that
are hashed now: later ones come in at the head), meets entries (`Meet`), takes a
reference with the compare-and-exchange (`Grab`) or passes an entry that is being
destroyed (`Discard`), and leaves (`Leave`).  After a miss it takes the semaphore of
the directory, looks again and creates (`Down`, `Create`, `CreateFails`, `Up`).
`Drop` lowers a count, `Mark` turns 0 into -1, `TakeOut` unhashes, `Dispose` is a
step of `addRCUCallback()`.  The chain is the set of hashed entries; its pointers
are not modelled (section 7 says what is wrong with them).  A task holds at most one
entry.

### TaskFamily (`task.c` 286-444)

`children` is a set per task (which zombie is found first is left open), `who` the
child that is waited for or reaped, `pc` the place.  Up to `schedule()` the calls
`doWaitPID()` and `doExit()` are one step each: the task's state is not
`TaskRunning`, so nobody else runs in between; `destoryTask()` is a step of its
own after the unlock, and so is the store of the exit code to user memory that may
fail (`ReapFaults`, for tasks of `Careless`).  `Signalled` tasks get signals,
`DevReader` tasks have a devfs directory open, whose close takes a semaphore
inside `doExit()` (`devfs.c:97`).  `DriverSleeps` stands for the drivers that set
`TaskUninterruptible` and call `schedule()` (`ahci.c:207`, `ide.c`).  Freed tasks
may be forked again.

### Signals (`signal.c`, `signal.h`, `systemcall.c` 180-198, `interrupt.c` 53-66)

A task is a record: its place (`pc`), `state`, `pending`, `blocked`, the `actions`
its program chose, and the `frames` that `handleSignal()` has put on the user stack.
Of the registers only `rip` is kept, as the handler that runs.  `Return` is the end of
`doSystemCall()`, `Interrupt` that of `doIRQ()`; both enter the loop of
`handleSignal()`, whose rounds are `TakeFatal`, `TakeIgnored`, `TakeCaught`, `TakeStop`
(takes SIGSTOP), `Stop` (stores the state, a step later), `Continue`, and
`Delivered`.  `doKill()` has three steps, because it can be preempted between them:
`KillFinds`, `KillPosts`, `KillWakes`.  A `TaskPage` is the page of a task
structure: after `DoExit` and `DestroyTask` another task may `DoFork` into it while a `doKill()` still
holds the address; on an exited task, whose `sig` is null, `KillPosts` stops the
machine (`panic`).  Masks have the width of the C expressions (`Bit`,
`SignalPending`): `1 << 31` is sign-extended, and signals from 32 on are in no test.
A fork inside a handler is left out (the child has the parent's frames but not its
`blocked`), and so are shared signal actions, which no caller asks for.

### Buddy, PageAllocator (`buddy.c`, `memory.c` 21-47)

`list` holds the first pages of the free blocks by order, and each page has its
`count`, the flag `PageData` and `data` (the order of a free block), as in the code.
A step is what one lock covers, or what lies between two of them: `Look` takes a
block off a list (`TakeFirst`) or goes on to the next one (`NoneSuits`), `Taken` raises
its count, `Split` lists the upper half, `PutUpper` sets its flags; `AllocFails` is the
return of 0; `FreePages` drops a reference, `Merge` is one round of the loop,
`FreeReturns` the rest.  The three allocation functions differ only in which listed
blocks they take (`Suits`; free blocks are always aligned, so that
`allocAlignedPages()` takes the first one, as `allocPages()` does).  A call
ends before another task begins one: the code does not keep what follows otherwise
(section 7).  `PageAllocator` is the
promise: a block is handed out from wholly free pages, and refused only when no
suitable block is free, which needs the merging to be complete.  The number of pages
is a multiple of the largest block's (`BuddyAssumption`): memory that ends elsewhere
would have `pageIsBuddy()` read beyond the last `PhysicsPage`.

### Slab, ObjectPool (`slab.c`)

The three lists of slabs, each slab's `chain` (`nextFree` and `objDescriptor` as the
sequence they encode) and `usedCount`, `freeObjCount`, and the local cache `data`.
Calls do not interleave (preemption is held off, no interrupt handler allocates), but
their loops are steps, so that the invariants are seen between two rounds.  A round
of `refillCache()` is `RefillFrom`; it counts `left` as the code counts
`batchCount`, which ends the batch within a slab or goes on to the next one.
`RefillGrows` and `RefillRefused` are the two answers of the buddy system.
`flushLocalCache()` goes object by object (`FlushOne`): the slab changes lists or is
given back.  `ObjectPool` is the promise, with growth and shrinking by whole slabs.

### AddressSpace (`paging.c`, `user.c`, `task.c` 196-264 and 501-541)

A memory (`mem`) is a `TaskMemory`: its areas in their order, its page table entries
(a frame, and whether it may be written to), and the count of each page table.  A
frame has its count and stands for its contents: zero, what is in the file, or
written.  `mm`, `active` and `cr3` are the two fields of a task and the register.
Programs write (`Write`), and so does the kernel for them (`CopyOut`, which does not
heed write protection).  A page fault is one step where the code cannot be preempted
and several where it can: `FillZero`; `GetPage`, then `MapPage` or `CopyPage`;
`TakeBack`; `AllocCopy`, `MapCopy`, `DropOld`.  `Fork`, `ForkFails`, `ExecBegin`
with `ExecSucceeds` or `ExecFails`, `ExitMemory` and `ExitDone` are the calls;
`Switch` is the part of `schedule()` and `finishScheduling()` that lends a memory to a
task without one and gives it back.  `Walked` says which pages of an area the loops
of fork and unmapping visit: in a second table they begin at the index of the area's
first page.  Four variables are history: `meant` is what the program has put into its
memory, `blurred` the pages the code is known to get wrong (not walked by a fork, or
written to by the kernel across copy on write), `leaked` the references that error
paths lose, `halted` says that a freed memory was used.

### Files, Descriptors (`virtual.c`, `devfs.c` 53-167, `iso9660.c` 302-422)

The tree is constant (`Up`, `Point`, `Directory`): what `Dentries` shows of look-ups
and removals is one step here.  A reference to an entry is counted in all entries
above it, across mount points, but not in the roots of mounted file systems: `Place`
says where it counts first, and `Counted` is what is reached from there by going up.  A path is walked one component at a time (`Begin`, `Ascend`, `Descend`,
`LookUpFails`), and ends in `Open`, `OpenFails`, `OpenStrays`, `Chdir`, `Exec` or
`ExecFails`.  `Close`, `Dup`, `Dup2`, `Fork` and `Exit` move references to files
about; `drop` says how many each file loses in a call.  `devList` is
`devfsRoot.children`: devices, and between them the cursors of open directories,
which `DevfsReadDir` moves and a close deletes.  `stray` (references that
`openFile()` loses) and `listed` (what a scan has returned) are history.
`Descriptors` is the promise without any counts: a file is open exactly as long as a
descriptor or a memory refers to it.

### Disk (`ahci.c`, `ide.c`, `driver.c`, `block.c`, `pagecache.c`, `radixtree.c`, `iso9660.c`)

`Disk` extends `RunQueue`: a task acts when it is current and runs, `Tick` preempts
it, and `Schedule` is its call of `schedule()`, after which it may come back for
several reasons.  The first task boots (`Enable`, `AhciIdentified`, `IdeIdentified`,
`Probed`, `Sync`, `Mount`, `Spawn`); all of them then read (`Ask`, `TakeInode`,
`GetPage`, `UsePage`, `GiveInode`).  A command is `TakeChannel`, `Setup`, `Ready`,
`Arm`, `Issue`, `Clear`, without DMA `DataReady`, `ArmAgain`, `ReadData` and
`LeaveStale`, then `GiveChannel` and `Check`.  The drive answers (`Complete`,
`Present`) and interrupts (`AhciIRQ`, `IdeIRQ`) at any moment; the line is an edge.
`early` is the task whose wait ended before its interrupt, `doubtful` the reads that
the code decides on something else than their own command; what is promised is
promised up to there.  `over` ends the model where the code would use a stack that is
gone.  The radix tree of a page cache is modelled with what it keeps: its root is
never created, so that the cache stays empty and every page is read anew.

`KernelList` holds what the community modules lack of lists: deletion of one element or
of several (`Without`, as a function, which the prover can reason about), and `Precedes`,
which of two elements comes first.

## 4. Runs

| Run | Question | States |
|---|---|---|
| `scheduler` | Is the runnable list right under all interleavings, and does `schedule()` implement `RunQueue`? | 2.8 million, 3 tasks up to symmetry |
| `semaphore` | Does it exclude, account, and implement `Mutex` with its liveness? | 306, 3 tasks |
| `semaphore_interruptible` | Do signals and spurious wake-ups lose a wake-up? | 23 thousand, 4 tasks, 2 of them interruptible |
| `dentries` | Are references to cached entries sound, and is every entry freed once, never forgotten, and not made twice? | 124 thousand, 2 tasks, 3 entries, 2 names, room for 1 callback |
| `family` | Do families, zombies, exits and waits agree under signals, faults and sleeping closes? | 39 thousand, 3 tasks |
| `signals` | Does a signal get through sleeps, stops, handlers and other signals, and do handlers nest? | 266 thousand, 1 task structure, 2 senders, 5 signals |
| `buddy` | Are blocks disjoint, complete and merged, and is `PageAllocator` implemented, for calls that do not overlap? | 316 thousand, 8 pages, orders 0 to 2 |
| `slab` | Do lists, counts and chains agree through refills and flushes, and is `ObjectPool` implemented? | 78 thousand up to symmetry, 5 slabs of 2 objects, batch 2, limit 3 |
| `terminal` | Is a line read in order and within its buffer, does nobody sleep on data, and does the keyboard task go on? | 527 thousand, 2 readers, one with signals, 4 characters, 2 slots |
| `paging` | Do memories stay private, and are frames, tables and memories counted exactly through faults, fork, execve and exit? | 521 thousand up to symmetry, 2 user tasks and 1 kernel task, 3 memories, 3 frames, 3 pages |
| `disk` | Does a drive work for the task that has it, does success mean data, and does the channel come free? | 217 thousand, 2 tasks, 1 drive of either kind, 1 file |
| `files` | Are counts exact along paths, mounts and descriptors, scans complete, and is `Descriptors` implemented? | 290 thousand up to symmetry, 2 tasks, 2 descriptors, 2 files, 8 entries |

Each property of a passing run has a mutant: an operator just before the modelled
one that makes a plausible slip (a wake-up at the tail, a missing reset, a test
left out), which the property must catch.  The type invariants are in no run: those of
`Scheduler`, `RCU`, `TaskFamily` and `Signals` are proved, the others are there for
the reader.

## 5. Bounds and fairness

* Three tasks are the least with which the list has a head, a tail and a running
  task at once, an exiting task has both a parent and a child, and a released
  semaphore has a waiter and a newcomer; `semaphore_interruptible` takes four.  Nothing
  in these modules counts further than the number of tasks.
* `dentries`: two tasks and one stored callback of three entries overflow the array
  (in the code 20).  With three tasks the flush of section 7 breaks `ReferencesSound`.
* `terminal`: two slots make `Unread` wrap and overflow with the second character,
  so does the keyboard's buffer with one; the four characters are one that is stored, and
  those that end, erase and close.  A length of 4 lets a line be filled, erased and
  filled again.  A length of 2 is excluded (section 7).
* `paging`: three pages with two to a page table give areas across the end of a table;
  three frames run out, and three memories are two tasks' and one that is being
  loaded.  `LeakLimit = 1`: no further fault or fork fails once a reference is lost.
* `disk`: two tasks contend for the channel and the inode.  A directory takes two
  pages, so that an error can come after the first; the volume has two descriptors.
  One mistaken wake-up of `RunQueue` is allowed, and nothing is asked for after it;
  the model ends when an interrupt follows stale data, or an inode stays taken.
* `files`: one task at a time walks a path (`WalkLimit`), between whose components the
  other one makes all its calls; one lost reference (`StrayLimit`); two devices, so
  that two cursors can stand before, between and behind them; one entry to a buffer.
* The five signals of `signals` are one of each kind: SIGKILL, SIGSTOP, SIGCONT
  (harmless by default, wakes stopped tasks), SIGSYS = 31 (the sign bit), and 40
  (beyond the width of an int).  Two of them can be caught, so that two handlers can be
  stacked either way round.  One sender sends SIGKILL, the other one the rest: two
  calls of `doKill()` overlap.
* With 8 pages and orders up to 2 there are two largest blocks, which must not be merged,
  blocks that are split twice, and one page that is never free; `MaxCount = 2` is the
  least bound that has a shared page.
* Five slabs of 2 objects exceed `FreeLimit` = 2 + 2 * 2, so that slabs are given back;
  a batch of 2 ends within a slab, at its end and between two slabs, as the used
  counts differ.  In the code `Count`, `Batch` and `Limit` are 256, 16 and 80.
* Deadlock is checked except where the system may stop: in `Scheduler` (an exited
  task that schedule() comes back to halts the machine; all tasks may exit), in
  `TaskFamily` (the last task may exit) and in `Signals` (a signal to an exited task
  halts the machine).
* Fairness of `RunQueue` (`Disk` assumes it): the tick is periodic and not synchronised
  with the programs, so that a running task is preempted again and again, also outside
  the short span of a blocking call in which an interrupt has already listed it
  (`~OnList(current)`); and a blocking call reaches `schedule()`.
* Fairness of `Semaphore` and `TaskFamily`: a task that may run does, and devices
  answer.  Holders release, as `Step` of each task is weakly fair.  No fairness is
  assumed of users that may ask for something, nor of signals.
* Fairness of `Dentries`: inside its calls a task goes on (weak fairness of `Step`,
  which is no look-up and no drop).  Of `Terminal`: the keyboard answers what it is
  sent, and the keyboard task, which nothing can end, gets the CPU.  Of `Disk`: that of
  `RunQueue`; a task that gets the CPU again and again gets on (strong fairness,
  because every tick disables its step); a drive ends its command and interrupts.
* Fairness comes from the tick and the list only up to a point: a woken task goes
  to the head of the list, so that tasks that are woken all the time can starve the
  tail.  `KeepsItsTurn` says what the list itself keeps: nobody who was running gets
  ahead of a task that waits.
* Fairness of `Signals`: a task that may run does, ticks come in user mode (so that a
  pending signal is looked for there), a device answers an uninterruptible sleep, and a
  system call returns if it is let run again and again (strong fairness: it may block
  several times).  A `doKill()` that has begun ends.  Nothing is assumed of the
  programs, of interruptible sleeps (only the signal ends them) and of SIGCONT.

## 6. Proofs

Unless the list says otherwise theorems hold for any set of tasks and need only the
named assumptions of the modules (`idleTask` is not among the tasks, sets of special
tasks are subsets, sets of readers, entries, blocks and memories finite, limits naturals).  Each rests on an inductive invariant
`I` (`IndInv`; `BuddyInv`, `SlabInv`, `FilesInv`, ... where a module proves more than
one) with the steps `Init => I`, `I /\ [Next]_vars => I'`, `I => property`.  TLC finds
each of them an invariant of the instances of section 4 (in `Acyclic` of
`TaskProofs`, with ranks up to the number of tasks for `Nat`).

* `SchedulerProofs`: type correctness, `RunnableListSound`, `NoTaskLost`,
  `NoTickLost`, `NoSwitchInsideLock`, `KeepsItsTurn` (`TurnsAreKept`, from lemmas
  about who is ahead in a list), and the refinement `ImplementsRunQueue`.  The
  listed properties are not inductive: the invariant adds how `intent`, `at` and
  `state` of a task go together (a task out of the CPU is inside `schedule()` or
  was preempted there), and that `needSchedule` is only ever set for the current
  task.
* `SemaphoreProofs`: with interruptible waits `QueueSound` and `NoLostWakeUp`;
  without them `CountAccounts`, `MutualExclusion` and the safety part of `Mutex`.
  The accounting equation (`count` is 1 minus the holder, the tasks on their way
  to the queue, and `sleepers`) is the strengthening.
* `RCUProofs`: `TypeOK`, `FreedOnce`, `CallbacksRemembered`,
  `RemoversSpareReaders`, and `NoFreeWhileRead` for a single reader.  The
  invariant says that `count` is the number of readers, that removers have
  different victims, and that what a remover is about to free no reader has.
  A second part is about `Dentries`, whose invariant takes that of `RCU` over and
  adds how tasks and entries are linked (`Linked`), that a count is the number of
  holders and only a marked entry is taken out (`Counted`), and that a task that is
  about to create a name has met every entry of it (`SearchComplete`).  From it
  `OneEntryPerName`, `CountsSound` and the promises of the lock follow for any number
  of tasks.  `ReferencesSound` is proved for at most two tasks (`AtMostTwo`): with a
  third one it is false, because the flush of section 7 frees what it looks at.
* `FileProofs`, first part: of `RingBuffer` `QueueSound`, `NoSleepOnData` and the refinement
  `DropsOldest`; that the steps of `Terminal` are steps of `RingBuffer`, so that the
  terminal inherits the three; and `ReadFits`.  The refinement needs that the cursors
  are in the buffer and that `Unread` is their distance, with the arithmetic of the
  wrapping cursors in lemmas of their own.  It assumes `~Overruns` (section 7), and
  `NoSleepOnData` that there is a reader at all: without one a character stays unread
  and nobody is there to run.
* `FileProofs`, second part: of `Files` `CountsExact` and the refinement
  `ImplementsDescriptors`, for any tasks, descriptors, look-ups and limits and any tree
  with two mounts that satisfies `TreeAssumption` (the root file system is mounted on
  `Base`, devfs somewhere in it, and no entry is above itself).  What a walk does to
  counts, one entry at a time, is compared with what its end takes back at once in
  `Loads`: a reference counts at its place and wherever one to what is above counts.
  `FilesInv` adds to the counts that a task which does not exist has nothing
  (`FilesSound`), that a walk is somewhere, and for `open()` has a descriptor left, and
  that exactly the open files have an entry.  Each step then changes one row of the
  table of descriptors and the program of one task (`Refers`), so that what it drops is
  what the task has less than before (`Gives`).  From the exact counts follows that a
  file is open if and only if it is in use (`OpenIsUsed`), which is the refinement.
  `MinIn` (the least free descriptor is free) is proved from the well-foundedness of the
  numbers, as there is no induction.
* `FileProofs`, third part: of `Files` `ScansExact`, for any devices, files and orders on
  the disk.  `ScansSound` adds that the list of devfs holds the devices and the cursors of
  the open scans, each once, and that a file which is no scan has returned nothing.  A
  call moves the cursor past exactly the devices that it stores (`CursorMoves`) and leaves
  the devices and the other cursors in their order among each other, so that no other scan
  notices; nor does it when a scan begins or its cursor goes away (`Shrinks`).  It is
  assumed that programs are no directories and that a directory on the disk has each entry
  once (`FilesAssumption`).
* `MemoryProofs`, first part: `SlabsSound`, and that a cache implements `ObjectPool`, with blocks,
  objects of a slab, batch and limit arbitrary.  The invariant adds to `SlabsSound`
  how far a transfer has come (`CallSound`: what is left of a batch and the length of
  the local cache go together), which shows that a flush never runs out of objects and
  that a refill ends empty-handed only when all slabs are full; and each slab's chain
  is counted against `usedCount`, so that a slab that is given back has all its
  objects.  `freeObjCount` is stated as the number of objects in the chains.  For the
  refinement the pool is what is in the slabs and not handed out.
* `MemoryProofs`, second part: of `AddressSpace` `MemoryPrivate`, `FramesAccounted` and
  `MemoryOwned`, for any tasks, memories and frames, any size of an address space and of
  a page table, and any programs.  Three invariants lie over one another.
  `MemoryShape` says that no two tasks have one memory (nor the one `execve()` has put
  aside), and what a task has in each stage of a fault, of `execve()` and of exit
  (`StageSound`): the entry a fault fills is still missing when it comes back, the one
  it copies is still there.  `FramesInv` adds that what was read or allocated for a
  fault has no entry and no other holder yet (`FrameHeld`, from the exact counts), so
  that a frame which is mapped cannot be one that is filled; its steps are counting
  arguments, `MapCounts` for one entry, `ForkFrames` and `UnmapFrames` for all those
  that a walk reaches and those that it leaves out.  `PrivateInv` adds that the page a
  fault holds is the file's (`PageRead`), and rests on `FramesInv` twice: an entry that
  may be written to has its frame alone, and a frame that is put back while an entry
  maps it keeps what is in it.  `OwnedInv` is about the processor: `ref` counts the tasks
  that have a memory or have put it aside and one borrower at most (`Lent`), the task
  that runs; a task without a memory that does not run borrows none (`IdleClean`), and
  the loaded tables are those of `activeMM` (`TablesLoaded`).
* `StorageProofs`, first part: of `Buddy` `PagesPartitioned`, and that the buddy system implements
  `PageAllocator`, for any number of pages and orders, any usable pages and any tasks.
  What is known of the sizes is that each is twice the one before (`SizeDoubles`): that
  such a function exists is not taken from the recursive definition, which the prover
  cannot unfold, but shown by taking the least order without one.  From it follows
  that two aligned blocks with a page in common lie one in the other (`Nested`), and that
  a block which lies in a larger one lies there together with its buddy (`BuddyInside`).
  `BuddyInv` adds to `PagesPartitioned` that one call is under way at most (`OneCall`),
  what it has in hand (`CallsSound`), that exactly the usable pages that are no first page of a
  block in use have count 0 (`CountsFree`), and that each listed block but the upper half just
  listed has its flag and its order (`FreeMarked`).  The last two are what makes
  `pageIsBuddy()` right (`BuddyListed`): a page that looks like the buddy can only be the
  first one of a free block of that order.  That merging ends with no two buddies free
  needs them in the other direction.  For the refinement, free is what is in no block in
  use; the one step that takes an argument is the refusal (`NoneFits`): if the pages of
  an aligned block were all free while no listed block of its order or above suits, they
  would lie in smaller listed blocks, and the smallest of these would have its buddy
  beside it, either listed, which `Coalesced` excludes, or in pieces that are smaller
  still.
* `StorageProofs`, second part: of `Disk` `DriveServesHolder` and `ReadsExact`, for any
  tasks, drives, files and sizes, and any drives that do or do not transfer by DMA.
  `DiskInv` says that a task between `downSemaphore()` and `upSemaphore()` of a channel
  is its holder (`ChannelsHeld`), or the one task there is while the drives are probed,
  which takes no semaphore (`BootsAlone`); so a channel works for one task at a time
  (`OneInChannel`).  What an interrupt finds (`IrqDataSound`) is then that task, or
  the data that one has left behind.  `InterruptsPrompt` is where the waits come in: as long as none has
  ended early, a drive that works, is about to interrupt or has raised its bit has a task
  that waits for just that, so that no interrupt is left over for the next command.
  `BusySound`, `OffersWanted` and `MovedSound` follow the request from the drive to the
  buffer: what a busy drive will write, what it has ready and what it has written is what
  the task wants.  `ReportSound` is what is left of that when the channel is given back.
  The step of each place is proved for its own task, and once for all what it leaves
  alone of the others' (`OthersHold`).
* `TaskProofs`, first part: all the safety properties of the `family` run.  The
  invariant adds who owns whom, that a reaper is alone with its zombie, and that
  parents form no cycle (a rank function), without which an exiting task could
  give its children to one of them.
* `TaskProofs`, second part: of `Signals` `SignalsTypeOK`, `NoSignalSleptOn` and
  `HandlersNest`.  Each step changes one
  task's record, so that the invariant is one of records (`Good`).  `HandlersNest` is
  strengthened by what the saved masks block: a handler that returns brings one back,
  and it must still cover the handlers below.  The bound on the frames follows from
  their being an injection into the caught signals.
* `ListLemmas`: what deletion, appending, inserting and putting at the head do to a list
  without duplicates and to the order of its elements, stated once for the others.
  `WithoutList` says of `Without` that it keeps the rest in its order; it counts (`Ranks`)
  instead of recurring on the list.

Some theorems state what no run lists any more, because TLC would only repeat it: the
type invariants, `RunnableListSound`, `QueueSound` and `MutualExclusion` of
`Semaphore`, `ReapedOnce` and `ExitIsFinal` of `TaskFamily`, and `NoFreeWhileRead` for
one reader.

Only model-checked: the liveness properties (that of `Mutex`, `WaitReturns`,
`FatalSignalEnds`, `KeyboardServes`, `ChannelComesFree`, `UnusedEntriesGo`), which the
prover cannot treat.

## 7. Where the code does not do what it says

Shown by properties the modules state and the code does not keep (TLC refutes each in
the instance named here; the passing runs leave that case out):

* `RCU!NoFreeWhileRead` and `Dentries!ReferencesSound` with three tasks: the flush of
  `unlockRCUReadLock()` does not look whether a reader has come since `count` was 0
  (`rcu.c:14`; the comment there says "This lock is unlocked."), so that an entry is freed under a look-up, and a look-up may come back
  with an entry of another name.
* `Semaphore!MutualExclusion` with `Interruptible` not empty (three tasks suffice): an
  interrupted `downSemaphoreInterruptible()` corrects `count` but not `sleepers`; later
  two tasks hold the semaphore.  Nothing in the kernel calls this function.
* `RingBuffer!DropsOldest` with `Overruns = TRUE`: `reader` is not rolled back to the
  start when a full buffer drops its oldest character from the last slot.
* `TaskFamily!ExitIsAlwaysFinal` with a `DevReader`: a close that sleeps takes back
  `TaskZombie`; the task survives its last `schedule()` and meets `ud2`.

Met while modelling, and kept in the models as the code has it:

* `schedule()` returns to its label `repeat` with the old `next`; with an empty
  list it switches to that task, which may be asleep ("No runnable tasks, switch to
  the idle task" says otherwise).  This is why `RunQueue!SwitchToOther` allows any
  task.
* Two readers of one ring buffer: both wake-ups of two characters can go to the
  same reader, and the other sleeps on (`NoSleepOnData` says only that not all do).
* `doWaitPID()` returns `-EINTR` with `waiting` set: a later exit of a child wakes
  the parent out of a driver's sleep (`ExitWakesWaiters` excludes parents with
  signals).
* `doWaitPID()` returns `-EFAULT` with the zombie on no list (`NoTaskLeaks`
  excludes such parents).
* `hashListHeadAdd()` does not correct `pprev` of the old first entry (`hlist.h:48`): when
  that entry is deleted later, it is the head that loses its entries.
* `allocPages()` takes a block off its list and releases the lock before the block stops
  to look free (`buddy.c:127-132`); a `freePages()` of its buddy that comes in between
  merges it, and its pages are used and free at once.
* `addRCUCallback()` refuses the callback after the array is full, and
  `destoryDentry()` does not look: the dentry is never freed.
* `doKill()` keeps the task it found after the list of tasks is unlocked: if the task
  exits, the lock it takes next is at a null pointer; if its page is a new task by then,
  that one gets the signal.
* Signals from 32 on are never delivered, and are dropped when 31 is taken (the mask that
  clears it is sign-extended).  A SIGCONT or SIGKILL that arrives between the removal of
  SIGSTOP from `pending` and the store of `TaskStopping` leaves the task stopped with
  that signal pending.
* `doSignalReturn()` restores `rax`, and `doSystemCall()` stores its result over it
  (`systemcall.c:187`); `r10` is not restored at all.
* `taskExitSignal()` frees a `TaskSignal` if `atomicAdd()` returns something else than 0,
  which it never does; and `taskForkSignal()` with `ForkShareSignal` returns 0 for a
  parent that has signals.
* `refillCache()` may leave a wholly free slab in `slabPartial` (`SlabsSound` allows it).
  `createCache()` tests `cache` twice instead of `localCache` (`slab.c:242`), and slabs of
  256 objects of 16 KB or more need order 11, which the buddy system does not have, so
  that `kmalloc()` of more than 8192 bytes always fails.
* Terminal: a `read()` of 2 bytes runs past its buffer, because `data` is 1 after the
  first character and the code waits for a 2 (`tty.c:376`).  The returns of `-EFAULT` and
  the last lines of `ttyRead()` leave the other address limit set than the one they found.
  A request of the keyboard to send a byte again is taken for an acknowledgement.
* Memory: `start.S` clears CR0.WP, so that the kernel's stores for a program go through
  copy on write into the pages of other tasks (`blurred`).  Fork and unmapping walk every
  page table from the index of the area's first page (`paging.c:345`, 585): the pages
  before it in later tables are not copied, and never given back.  `doExecve()` that
  fails leaves `activeMM` at the freed memory, and so does `doExit()` between
  `taskExitMemory()` and its end; a switch to a kernel task then counts in it (`halted`).
  Page tables are never freed.  A fork or a copy of a file page that finds no memory
  loses references (`paging.c:728`).  `memcpyUser0()` reports success when the end of a
  long copy fails (`user.c:68`).
* Files: `vfsDentryCacheLookUp()` compares hash and name, not the parent
  (`virtual.c:212`).  `openFile()` loses its reference when `O_DIRECTORY` is not met
  (`virtual.c:521`).  `doDup()` looks at no other descriptor than 0.  `devfsReadDir()`
  looks for the end at `devfsRoot.list`, but walks `devfsRoot.children` (`devfs.c:82`).
* ISO 9660: `iso9660Read()` does not advance `buf` between pages, never reads the last
  byte, limits the size before it has the semaphore, and loses the page on `-EFAULT`
  (`iso9660.c:322-337`).  `iso9660ReadDir()` moves `seek` past the entry that had no room
  (`ScansExact` says only that none comes twice), returns with the semaphore taken
  (`iso9660.c:393`), and puts back a page it has not got (`iso9660.c:419`).
* Page cache: the root of a radix tree is never created (`radixtree.c:36`), so that nothing
  is ever found again; the result of `readpage` is ignored (`pagecache.c:20`), so that a
  failed read is served as data.
* Drives: any return of `schedule()` is taken for the interrupt (`ahci.c:210`, `ide.c:331`
  and 353); an IDE transfer by DMA reports success when the handler has not run.  The AHCI
  driver reads its result after it has given the semaphore back (`ahci.c:216`), and its
  handler leaves the bit of the port, and so the line, when no task waits.  After a
  transfer without DMA the address of a variable on the stack stays behind as data of the
  interrupt (`ide.c:354`).

## 8. What is not modelled

* Code that nothing calls: the timers (`addTimer()` and `removeTimer()` have one caller,
  `scheduleTimeout()`, which has none) and the deregistration of drivers (which would take
  the driver from all devices, `driver.c:81`).
* Operations of modelled components: `doUMount()`, `doChroot()`, `doGetCwd()` and `lseek`;
  `mmap` and `munmap` by programs and memories shared by user tasks (no caller of fork
  asks for one); `ttyWrite()` and the screen; set-up and removal of slab caches; partition
  tables; allocation of pids.
* The pointers of hash lists and the inner nodes of radix trees (of which there never is
  one).
* Set-up that runs once (boot, GDT, IDT, interrupt controllers, ACPI, the scan of the PCI
  buses), drawing and formatting (console, frame buffer, fonts), layout of foreign formats
  (ELF, ISO 9660 records, PCI configuration space), string helpers and the user programs:
  they keep no state that others race for.

The CPU, the chips and the user programs appear in the models only as the events they
cause: interrupts, ticks, system calls.

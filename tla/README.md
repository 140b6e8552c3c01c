# Specifications for the Principles of Computer Systems Design code

The repository holds the assignments of an operating systems course: exercises on
processes, threads and semaphores, two CPU scheduler simulations, a file manager,
and Pintos kernels extended with an alarm clock (Lab1), a priority scheduler
(Lab2) and user programs (Lab3). This directory holds TLA+ models of that code,
the configurations TLC checks them with, and proofs about them for TLAPS.

Paths below are relative to `src/`; `Lab2:` stands for `Lab2/pintos/src/`, and so
on for the other labs.

## 1. Inventory

| Part | Source | State it keeps | What makes it hard |
|---|---|---|---|
| Scheduler | `Lab2:threads/thread.c`, `Lab2:lib/kernel/list.c` | status and priority of each thread, ready list, running thread, ticks of the slice | preemption wherever interrupts are on; one `elem` per thread shared by all lists; check-then-act on the ready list |
| Semaphores | `Lab2:threads/semaphore.c` | value, waiters | a woken thread tests the value again; `semaphore_up` yields |
| Locks | `Lab2:threads/lock.c` | semaphore, holder | the holder is written outside the atomic part |
| Condition variables | `Lab2:threads/condvar.c` | one private semaphore per waiter | release and sleep are two steps; the order of waiters is read from their semaphores |
| List of all threads | `Lab2:threads/thread.c` | `all_list` | linked into with interrupts on |
| Alarm clock | `Lab1:devices/timer.c`, `Lab1:threads` | wake-up time per thread | the tick unblocks any blocked thread whose time has come |
| Timer, interrupts | `Lab2:devices/timer.c`, `Lab2:threads/interrupt.c` | ticks, yield on return | delivered between any two instructions |
| User processes | `Lab3:userprog/process.c` | the pointer `global_sema`, a semaphore per child for its load and one for its exit | a semaphore used before it is initialised; one pointer for all children |
| System calls on files | `Lab3:userprog/syscall.c` | `file_array`, the descriptor counter | a read closes the file; a descriptor outlives what it points to; sizes are not checked |
| Buffer cache | `Lab3:filesys/cache.c` | slots with sector, bytes, dirty and access bit; the clock's hand; one lock | the lock is held over transfers; write-back at eviction and close only; a stop of the machine |
| Inodes, directories, free map | `Lab3:filesys/inode.c`, `free-map.c`, `directory.c`, `file.c`, `filesys.c` | three levels of blocks, open inodes, free sectors, entries | failures half way, removal while open, boundaries between the levels |
| Road crossing | `Assignment3/cartman.c` | five junction semaphores | circular wait |
| Manual page | `Assignment3/manpage.c` | seven semaphores in a chain | destruction while in use |
| Merge sorts | `Assignment1`, `Assignment2` | shared memory, threads | joins before merges |
| CPU schedulers | `Assignment4`, `Assignment5` | ready queues of a simulated CPU | events of a simulator in any order |
| File manager | `Assignment6/fileman.c` | files | check then create, partial reads |

Lab2_2 repeats the unmodified Pintos base and `vm/` of Lab3 is not part of its
build. Device drivers, the loader, the C library and the allocators are the
unmodified skeleton.

### How the parts interact
- Locks are semaphores with a holder; a condition variable is a list of private
  semaphores; semaphores call `thread_block`, `thread_unblock` and `thread_yield`
  of the scheduler. `thread_create` itself takes a lock (`tid_lock`).
- The timer interrupt calls the scheduler between any two instructions that have
  interrupts on; device interrupts raise semaphores.
- In Lab1 the timer interrupt also walks the list of all threads and unblocks.
- The initial thread of Lab3 runs the programs of the command line one after the
  other: it waits on one semaphore until the program is loaded and on
  `global_sema` until it has ended. System calls run in the calling thread; the
  file system goes through the buffer cache, which has one lock.
- The programs of Assignment4 and Assignment5 are callbacks of a simulator, which
  runs whatever they passed to `sim_dispatch()` last.
- The Assignment3 programs are called by a simulator that comes as a library.
  They meet it only in the calls their headers declare.

### What makes each part correct
- Scheduler: the lists and the statuses agree; a thread is on one list at a time;
  lists are sorted; the running thread has the highest priority; equals take turns.
- Semaphores: no wakeup is lost; the waiter of highest priority is woken.
- Locks and conditions: mutual exclusion, no lost signal, the Mesa monitor.
- Alarm clock: a sleeper is woken at its tick, neither before nor later, and runs
  again; nothing else is woken by the clock; the lists survive its walk.
- User processes: a program is loaded before `process_execute()` returns, and has
  ended before `process_wait()` does; every boot comes to its end.
- System calls on files: a descriptor is the file it was opened on.
- Buffer cache: reading through it returns what was written last; nothing dirty
  is dropped; a stop loses no more than what was not saved.
- Inodes, directories, free map: a file holds what was written to it; every sector
  has one owner or is free; a name stands for one file.
- CPU schedulers: a thread is in one place; the processor is not idle while one is
  ready; the order, the quantum and the preemption of each algorithm; the
  statistics are the times that passed; every thread ends.
- Merge sorts: no part is merged before both halves are sorted.
- Manual page: paragraphs in order, each once, and the program ends.
- Road crossing: no two carts at a junction; all cross. The code keeps the first and, when
  carts arrive at every junction together, not the second.

## 2. Modules

| Module | Models |
|---|---|
| `PriorityList` | `list.c` as the Lab2 scheduler uses it: ordered insertion, removal at the front, stable sort |
| `Threads` | `thread.c` as effects on the scheduler's state: block, unblock, yield, exit, tick |
| `Semaphore` | `semaphore.c` as effects on value, waiters and the scheduler |
| `Monitor` | the holder field and the waiters of condition variables |
| `Kernel` | the program counters: which call each thread is in and where the timer can interrupt it; `Init`, the actions, `Next`, `Spec`, `FairSpec` |
| `KernelSafety` | the properties of the kernel, and the refinement mapping to `MonitorSpec` |
| `MonitorSpec` | the abstract Mesa monitor: owner, waiting and notified threads |
| `IntrusiveList` | `list.c` with its pointers, for lists that may share elements |
| `Alarm` | the Lab1 kernel: `timer_sleep()`, the walk of the timer interrupt, the idle loop, semaphores, creation and exit |
| `Cartman` | `cartman.c`: arriving and departing carts, with the contracts of the simulator |
| `Manpage` | `manpage.c`: the chain of semaphores, joining and destroying |
| `Process` | `process.c` of Lab3 with the end of the boot: the initial thread, the programs, their semaphores |
| `Disk` | the abstract disk: reads and writes one at a time, saving at any time, a close that has saved all, a stop that loses what was not saved |
| `BufferCache` | `cache.c`: lookup, the clock algorithm, write-back, close, boot; shown to implement `Disk` |
| `Files` | system calls on files over file structures, open inodes, blocks, the free map and the root directory |
| `CpuScheduler` | the callbacks of Assignment5's four algorithms, Assignment4's being the first, and the simulator that calls them |
| `MCKernel`, `MCAlarm`, `MCCartman`, `MCBufferCache`, `MCFiles`, `MCCpuScheduler` | instances for TLC |
| `KernelProofs`, `AlarmProofs`, `ProcessProofs`, `CpuSchedulerProofs`, `BufferCacheProofs`, `FilesProofs`, `CartmanProofs`, `ManpageProofs` | theorems |

`Kernel` EXTENDS `Monitor`, which EXTENDS `Semaphore`, `Threads` and
`PriorityList`: each lower module is a set of effects on its own variables, and
`Kernel` alone has the specification. `KernelSafety` INSTANCEs `MonitorSpec`.
`Alarm` EXTENDS `IntrusiveList`. `BufferCache` INSTANCEs `Disk` with the contents of
its slots over the device as the refinement mapping. `Files` stands on what `Disk`
promises: its `disk` is a plain function of sectors.

Operators marked `Faulty:` are wrong versions of the definition that follows
them: a plausible slip of the code. No specification uses them. Each property
was seen to fail when one of them takes the place of the definition.

## 3. How state and actions correspond to the code

### The Lab2 kernel
One step is a stretch of code between two points where the timer interrupt makes
a visible difference. Code with interrupts off is one step: all of
`semaphore_up()`, a turn of the loop of `semaphore_down()` up to the switch, the
body of `thread_yield()`. Where interrupts are on, a step ends before every
access to shared state, and `pc` says where the thread stands: `LockTaken` writes
the holder in a step of its own, `CheckReady` and `CheckFront` are the two looks
at the ready list of `thread_create()` and `thread_set_priority()`,
`condvar_wait()` is `CondvarWait`, `InnerUp`, `EnterDown`, and the same again for
the lock. `task` and `arg` are the outer call of a thread that is inside a nested
one.

Threads are pages: `FREE` until `thread_create()` takes one, and again when the
thread after a dying one has freed its page. `current` is the running thread, and
a step of a call is a step of `current`. A thread that `schedule()` picks inside
the loop of `semaphore_down()` has interrupts off until it leaves the loop or
sleeps: `Tick` is not enabled at `pc = "down"`. Elsewhere it always is.

`condvar_less_func()` reads the first thread of each waiter's private semaphore.
If that waiter is not asleep yet the list is empty and what `list_max()` returns
is no thread: the value compared is a choice out of `Garbage`.

`panic` names the assertion that stopped the kernel. The properties about the
highest priority are stated while the kernel runs.

### The Lab1 kernel
Lists are pointers (`links`), since an element put on a second list takes part of
the first with it. `Tick` is the whole timer interrupt: ticks, the walk over
`all_list` that unblocks, and the yield on return if the slice is over. Absolute
times are not kept: `remaining` is the wake-up time less the present one, never
below 0, since the code compares with `<=` only. `timer_sleep()` is two steps,
noting the time and blocking, as a tick may come between; so is
`thread_create()`, whose thread is on `all_list` before it has a stack.
`semaphore_up()` unblocks the first element of the list whatever it is and checks
its status, as `thread_unblock()` does. `stray` notes that a tick has made a thread
ready that did not sleep, other than the idle thread: from then on a thread may be
on two lists at once.

### The Lab3 kernel
`Process`: as in the Lab2 kernel a step is what runs with interrupts off or one
access to shared memory, and a tick comes between any two. Each line of
`start_process()` from the load to `semaphore_init()` is a step (`Load`, `LoadUp`,
`Malloc`, `InitExit`), since the parent may read `global_sema` between any of them.
A semaphore that `semaphore_init()` has not made yet has the value its memory had,
which is any: the call on it sleeps for ever (`pc = "asleep"`, on a list that the
initialisation then empties), goes on, or fails an assertion. `semaphore_init()` is called on
what `global_sema` points to by then, which after an early wait may be the next program's.
`early` notes that the parent read the pointer before its child had made the semaphore.

`BufferCache`: a thread waits for the lock or for a transfer, and a step is what it
does between two such waits. `Enter` is the lookup with what follows it without
waiting: a hit is copied at once; a miss moves the hand and takes a slot, by way of
`Flush` if the slot is dirty. The slot has its new sector before it has its bytes
(`Fill`). `Stop` boots the machine with an empty cache from whatever the device
holds. The close of `buffer_cache_close()` writes one slot per step.

`Files`: a call is a step, as programs run one after the other and the kernel is not
preempted by another that uses files. The order inside a call is kept where a failure
can cut it off: `Reserve` walks the blocks in the code's order and stops at the
first for which there is no sector, leaving what it has taken; a block of pointers
is written back only when all below it succeeded. The recursion of
`inode_reserve_indirect()` is of fixed depth, so each level has its operator
(`ReserveSector`, `ReserveIndirect`, `ReserveDoubly`) and each loop a recursive function. The check that the code lacks
(whether there was a sector for a block of pointers) is lacking here too: zeros then
go to sector 0. A program passes any size: below zero, zero, more than a file can hold.
The test for the end of the file (`Extends`) looks for the last byte to write, as
`byte_to_sector()` does, so that a write of no bytes at the beginning of a file reserves
nothing and stores the length 0; `cut` notes the files this has happened to. `halted` says
why the kernel stopped: "length" and "capacity" are the assertions of `inode_create()` and
`inode_reserve()` about sizes, "filesize" that of `file_length()`, "release" that of
`free_map_release()`, "deny" those on `deny_write_cnt`, "panic" a boot that cannot read the
free map.

A struct file is one of `1 .. MaxFiles`. One that was freed may be given to the next open,
or not; the use of one that is free is `Undefined`, and ends the behaviour. `load` opens
the file of a program, denies writes to it if it is an executable, and never closes it:
its descriptor is on nobody's table, and from then on `sys_write` to that file returns
before it writes. `in_use` of entry 0 of a new directory is what the stack held: both
values are initial states. History variables hold what each file should contain, what each
descriptor was opened on, and the exceptions the properties name.

### The CPU schedulers
Each callback of `scheduler.c` is an operator of its name and is called by the action
of the simulator that calls it: `Arrive`, `Ready`, `Switch`, `Device`, `Transfer`, `Cpu`
and `Idle` in the order of a tick. `ready_list`, which the code fills at one end and
empties at the other, is a sequence read from its last node to its first.
`list_create()` sets two fields of a node and leaves the times as its memory had them:
they begin as any of `Memory`, which `memory` remembers. The
simulator is a library: its order of events was taken from `scheduler.h` and the
object file the repository carries, and what it draws at random is a choice.

### The Assignment3 programs
Each call on a semaphore and each call of the simulator is a step of the thread
that makes it. Any number of carts may be in `arrive()` at once. The libraries are external: what they check is taken from
`cartman.h`, what they choose (which thread gets which paragraph) is any choice.

## 4. What is checked

| Run | Instance | Shows |
|---|---|---|
| `semaphores` | 4 threads (main, idle, two created), a client's semaphore and one raised by an interrupt, 2 priorities, values up to 2 | `TypeOK`, `ElemInOneList`, `HighestRuns`, `NoLostWakeup`, `WakesHighest`, `RoundRobin` |
| `conditions` | 4 threads, `tid_lock`, a lock, a condition variable | `MutualExclusion`, `NoLostSignal`, `SignalsHighestAsleep`, and `MonitorRefined`: the implementation of `MonitorSpec` |
| `alarm` | main, idle and a thread created at run time, sleeps of 0 to 2 ticks, slices of 2 ticks, a lock and a semaphore anyone raises | `ReadyListIntact`, `AlarmExact`, `SleeperRuns` until a tick wakes a thread that does not sleep; `SemaphoreExcludes`, `EndsIntact` even after that |
| `process` | up to 2 programs on the command line | `TypeOK`, `LoadedFirst`; `WaitsForExit` and `BootEnds` unless the parent was early |
| `cache` | 2 threads, one that writes and closes, one that reads; 3 sectors, 2 values, 2 slots | `CacheCoherent`, `StorageRefined`: the implementation of `Disk`; `CallReturns` |
| `files` | 2 names, 2 descriptors and 2 struct files, 12 sectors of which 8 are free, inodes with one direct block and blocks of 2 pointers, 2 creations of size -1 or 2, writes of 0 or 2 sectors, loads, a reboot | `SectorsOnce`, `NoLeak`, `FileKept`, `DescriptorKept`, `OpenCount`, `BootsAgain` |
| `cpu` | 3 threads of up to 3 ticks with a transfer of up to 2, arriving at 0 or 1, quanta 1 and 2, four sets of priorities, nodes in zeroed memory or in memory that was used | `OnePlace`, `CurrentRuns`, `RightOneRuns`, `DispatchOrder`, `QuantumKept`, `StatsExact`, `EveryThreadEnds` |
| `cartman` | 6 carts on the code's 5 junctions, two of them at one junction, any number at once | `Contracts`, `Accounted`, `StopsOnlyInRing`: every cart crosses unless the ring closes |
| `manpage` | 4 paragraphs | `InOrder`, `PageShown` |
| `unblocks_blocked` | as `alarm`, one lock | `semaphore_up()` stops the kernel after the clock has made its waiter ready |
| `cpu_exit` | as `cpu` | a thread that ends in the tick in which `io_complete()` took the processor from it is dispatched again |
| `cartman_ring` | as `cartman` | five carts that arrive together each take their junction and wait for the next for ever |

The last three are disagreements between the code and its own comments, assertions or
tests; `PROJECT.json` quotes both sides under `findings`. The exceptions below name others,
with what the repository says instead.

Where a property has an exception, the exception is what the code does, and the
property says that nothing else goes wrong:
- `Alarm`: `stray`, after which the run `unblocks_blocked` sees the kernel stop. A tick also
  wakes waiters of semaphores, and a thread created but not yet given a stack;
  `panic = "no_stack"` is its dispatch.
- `Process`: `early`. `start_process()` raises its parent's semaphore before it replaces
  `global_sema`; a parent that is quick reads the old pointer, or one to memory that no
  `semaphore_init()` has seen. It may then run the next program beside this one, where the
  usage text of `init.c:368` says "Run PROG and wait for it to complete". A boot that runs
  no program exits with no semaphore.
- `CpuScheduler`: `overrun`. A thread that `io_complete()` takes off in the middle of a
  tick still has the rest of it, and may end or ask for a transfer while it is on the
  queue: the run `cpu_exit` shows it. `StatsExact` also leaves out a thread without a
  transfer whose node had something in `io_burst_start`, which `stats()` takes for the start of
  one (`scheduler.c:514`), where its comment gives one sum for all (`:493`); and of Assignment4's
  statistics, which test for zero as well, threads whose first ticks on the processor had
  something there and those for which time 0 passes for "not yet".
- `Cartman`: `RingClosed`, the circle of waits that the run `cartman_ring` shows.
- `Files`: `failed`, a creation or write that ran out of sectors, a write of no bytes that
  emptied a file, or a shutdown with a removed file open, loses sectors; `cut`, such a
  write has changed a file's length, which at its beginning means to 0 (`inode.c:336-343`),
  where `tests/userprog/write-zero.c:1` says that it "should return 0 without writing
  anything"; `full`, no sector was left for a block of pointers, overwrites the inode of the
  free map; `stale`, a descriptor used after the read or close that freed what it points to,
  may be another file.
- `Kernel`: `SignalsHighestAsleep` leaves out waiters on their way to sleep, which
  `condvar_signal()` cannot compare; a handler that calls `semaphore_up()`, whose
  comment allows it, stops at the assertion of `thread_yield()`; and a tick that empties the
  ready list between the two looks of `thread_create()` or `thread_set_priority()`
  (`thread.c:264`, `:435`) stops the kernel at the assertion of `list_front()` (`list.c:283`).
- `Manpage`: `main()` destroys the semaphores in the order of threads, not of
  paragraphs, so one may be destroyed while it is waited for.

Why the bounds are enough:
- Two priorities with main, idle and two further threads give a waiter of each
  priority with a running thread beside them, a lower one preempted inside a call,
  and ties. Ticks of slice 1 let the timer preempt at every step. A second created
  thread is what the tests of lists and of `tid_lock` need; pages are used again
  after exit.
- Semaphore values up to 2 let two units and two waiters meet. `MaxValue` bounds
  the clients' calls, never a call inside another one.
- Garbage below, between and above the priorities gives every outcome of a
  comparison.
- Sleeps of 0, 1 and 2 ticks cover times that are past, that come at the next
  tick and that come after a switch of slices.
- Two programs give a `global_sema` of one when the next is made; a third would meet
  the same two pointers.
- Two slots and three sectors make every miss evict, with a slot that was passed
  and one that was not; of two threads one holds the lock over a transfer while the
  other comes. `CacheCoherent` and the refinement are proved for any number.
- One direct block and blocks of two pointers put every boundary between the levels
  within six sectors, and eight free sectors run out at each of them: at an inode, a
  block of data, and a block of pointers of each kind. Size -1 meets the assertion of
  `inode_create()`, size 0 the test for the end of the file. `MaxFd`, `MaxFiles`,
  `MaxCreates` and `MaxBoots` bound the descriptors, struct files, creations and reboots.
  The longest file, of seven sectors, does not fit in the eight free ones with its inode
  and its blocks of pointers, so that the assertion of `inode_reserve()` about the length is
  not reached here; the proofs take any disk and any size, and have it as a step.
- Three threads are one on the processor, one on the device and one that waits, or
  two that wait. A third tick gives a thread a burst before its transfer, one after it
  and one more than the quantum. `MaxClock` is beyond what three threads need when
  no thread runs again after its end. Zeroed memory, memory with a time in one field and
  memory with a time in all give both outcomes of every test for zero.
- The ring of carts has the code's size, since the wrap at junction 4 is where it
  could go wrong. One cart at each junction can close the circle of waits, and a sixth
  makes two carts meet at a junction and lets the circle close after a cart has passed.
  `Contracts` and `Accounted` are proved for any number of carts and junctions.
- The chain of paragraphs treats all but the first and the last alike, and four
  has two of those.

`CHECK_DEADLOCK FALSE`: the kernels may sleep for ever when no thread is ready (a
program that waits for what nobody raises), a panic stops them, and the programs, the
boot and the simulation end; the ring of carts closes; the clients of the cache and of
the file system may stop calling or have used up a bound. Where a stop would be wrong,
a property says so: `CallReturns` of the cache, `BootEnds`, `EveryThreadEnds`, `PageShown` and
`StopsOnlyInRing` of the programs that end.

### Fairness
- `Kernel!FairSpec`: the hardware timer never stops, so `Tick` is strongly fair
  (it is disabled at times, while interrupts are off, and the interrupt is then
  delivered when they come on). A slice is long against the steps of a call, so a
  thread that has the processor again and again gets on with the call it is in:
  strong fairness of its `Continue`. A thread in its own code may compute for ever.
- `Alarm!FairSpec`: weak fairness of the timer, and of the two stretches of code that
  no thread can hold up: the idle loop, and the loop of `semaphore_down()` after a
  dispatch, which runs with interrupts off. Threads' own code has none: `SleeperRuns`
  rests on preemption alone.
- `Process!FairSpec`: the timer, the idle thread and the disk are weakly fair; the steps
  of a thread are strongly fair, as it loses the processor at ticks and gets it again.
  A program may compute for long but ends.
- `BufferCache!FairSpec`: the disk answers, so what runs under the lock is weakly fair. The
  waiters of the lock's semaphore are first come first served, so that a thread that
  finds the lock free again and again gets it: strong fairness of `Enter` and
  `CloseEnter`. `Stop` needs none; it may come at any step.
- `CpuScheduler!FairSpec`: weak fairness of `Next`, the simulator's loop goes on until
  every thread has ended.
- `Cartman!FairSpec` and `Manpage!FairSpec`: a thread that can take a step takes
  it, as under any preemptive scheduler; the semaphores themselves need not be fair.

## 5. What is proved

For every value of the constants the assumptions allow:
- `KernelProofs!InsertOrderedSorted`, ordered insertion keeps a list of any
  length sorted, and `HeadIsGreatest`, the front of a sorted list has the greatest
  priority. These are the facts that make "the front is the highest" true in the
  scheduler and in the wait lists.
- `KernelProofs!TypeCorrect`: every variable of the kernel keeps its type. This is
  not inductive alone: `semaphore_up()` inside `condvar_wait()` writes
  `pc` from `target`, so which call a thread is in at each point (`CallOK`) belongs
  to the invariant.
- `KernelProofs!Mutex`: mutual exclusion of locks. A lock's owners are its
  recorded holder and the threads that have decremented its semaphore and not
  recorded themselves, or have cleared the field and not incremented it. The
  invariant is `MutualExclusion`, which ties the semaphore's value to the number of
  owners, with `HolderOK`: a thread on its way in or out is not the holder.
  Uses `TypeCorrect`.
- `KernelProofs!ListsAgree`, `HighestPriorityRuns`, `NoWakeupLost`, `HighestWoken`:
  the lists and the states of threads agree, outside the two decisions of
  `thread_create()` and `thread_set_priority()` the running thread is one that no
  ready thread exceeds, every unit of a semaphore with sleepers has a woken thread
  on its way to it, and `semaphore_up()` wakes the waiter of highest priority. The
  invariant `KernelInv` ties the links of a thread to its state and to the point it
  has reached, and keeps each list sorted: from sortedness alone does the front
  become the highest. Two parts carry `thread_create()`: the new thread is blocked
  on no list and no other thread is about to unblock it (`ChildUntouched`), and it
  has the priority its creator asked for when the two are compared (`ChildPriority`).
  `DecisionOK` says what the looks at the ready list have established so far, without
  which the step after them could leave a higher thread waiting. Every action is
  first shown to be, for a semaphore, one of four: it leaves it alone, takes a unit,
  puts the running thread to sleep, or raises it (`SemaStep`); `NoLostWakeup` is then
  a count of the woken threads over these four. Uses `TypeCorrect` and the lemmas on
  sorted lists.
- `KernelProofs!NoSignalLost`, `HighestSignalled`, `MonitorImplemented`: no signal
  is lost, one that finds every waiter asleep goes to the highest, and the kernel
  implements `MonitorSpec`. A waiter is in one of three places from `condvar_wait()`
  until it has consumed its signal: on the condition's list, in the hands of one
  signaller, or raised (`WaiterOK`); every action leaves the waiters alone, or is one of
  the four that move one of them on (`SignalKinds`). Sorting the list keeps its members
  because a stable order is a permutation of the indices (`RearrangedTail`). For the
  monitor the invariant adds `MutexInv` and two facts about the lock of a condition
  (`MonitorOK`): a thread that has queued itself and not yet raised the lock's semaphore is
  on the list still, since a signaller would own the same lock, and a broadcast holds the
  lock to its end. Writing or clearing the holder then is no abstract step, the operations on
  the lock's semaphore are `Acquire`, `Return`, `Release` and `Wait`, and taking a waiter
  off the list is `Signal`.
- `AlarmProofs!ReadyList`, `WokenInTime`, `OnlyStrayStops`: for any threads, semaphores,
  sleeps and slices, until a tick unblocks a thread other than the idle one that is not
  asleep, the ready list's pointers are a list of the ready threads, a sleeper is woken
  at the tick its time comes and by nothing else, and no assertion stops the kernel.
  Pointers are tied to lists by `Chain`: the nodes of a sequence, from the head to the tail,
  point to one another both ways. A push appends and a removal at the front takes
  the first (`PushChain`, `RemoveChain`), and either leaves the other lists alone only if they
  share no thread (`PushOther`, `RemoveOther`), so the invariant (`Calm`) has sequences
  without a thread in common for all lists at once (`Holding`). Who runs is on none, nor is
  a sleeper, the idle thread or a thread half made: `Points` says where a thread can stand
  when it may be unblocked. The walk of the tick is an induction along `all_list`
  (`WalkChains`); that the walks of `IsListOf` see the sequence is another (`ForwardIs`,
  `BackwardIs`), both over a set of naturals (`NaturalsFromZero`).
- `AlarmProofs!LocksExclude` and `EndsKept` need none of this and hold whatever the walk
  does: a lock that is held has value 0 (`Locks`), which the loop of `semaphore_down()` looks at
  itself; and from a node that is no end one gets no further than to an end (`EndsOK`),
  where an element that a node points to has both its own pointers set, without which
  `list_remove()` would write through NULL.
- `CartmanProofs!CartsSafe` and `PermitsKept`: for a ring of any size from two
  junctions and any carts, all of which may arrive at once, the simulator refuses
  no call and no permit is lost, in a closed ring too. The invariant adds to `TypeOK` and `Accounted` that a junction is
  reserved exactly for the cart that is between its own calls of `reserve()` and
  `release()` for it.
- `ManpageProofs!PageInOrder`: any number of paragraphs, handed to the threads in any
  order, are shown in order. The permission to show is one token, in the hands of
  a thread between its `sem_wait()` and its `sem_post()` or in the one semaphore that is
  up, and the length of the page says whose turn it is (`Token`).
- `BufferCacheProofs!Coherent` and `CacheIsDisk`: for any number of slots, threads,
  sectors and values no sector is in two slots, a slot that is not dirty holds what
  the device holds, and every step of the cache is a step of `Disk` or none. The
  invariant adds to `TypeOK` and `CacheCoherent` that a thread inside a call has one
  and its kind (`CallInv`), that the sector a thread is fetching is in no slot but the
  one it has claimed (`MissInv`, which is why the second half of a miss may rely on
  the lookup of the first), and that a closing thread leaves no dirty slot behind it
  (`CloseInv`, which is why `Close` of `Disk` may say that everything is saved).
  `TypeCorrect` states the types alone.
- `ProcessProofs!LoadAwaited` and `ExitAwaited`: for any number of programs
  `process_execute()` returns after the load and `process_wait()` after the program, unless
  the parent was early. The initial thread is the only one that ever waits for a
  semaphore, and each thread is in one place: on the processor, on the ready list, at the
  disk, or asleep (`Placed`), so that a wakeup goes to who was meant. `Making` says which
  semaphores have been made, `Raises` how often each has been raised: a program raises the
  semaphore of its load once, after the load, and whoever exits raises an exit
  semaphore once. `Waits` is the part about `global_sema`: while the parent has a program
  to wait for and was not early, the programs before it have ended, and the semaphore it
  reads is the one this program alone will raise. `TypeCorrect` states the types alone.
- `CpuSchedulerProofs`: for any threads, quanta and priorities a thread is in one place
  (`OnePlaceEach`), the simulator runs the thread the callbacks take for current
  (`SimulatorRunsCurrent`), the right one runs (`RightOne`), the order of each
  algorithm is kept (`DispatchInOrder`) and so is the quantum (`QuantumGiven`). None of
  these is inductive. `Apart` says which places share no thread, as a thread must not be
  put on the queue it is on. `Agree` follows, through the five phases of a tick, when
  `cpu` lags behind `current_thread`. `Turns` says that among threads of one priority the
  one in front has been ready for longer, which a stable sort keeps; `SortedStably` proves of
  `queue_sort()` that it is one, whatever the queue's length: the sorting of each prefix
  exists, is a rearrangement, is in order, and keeps equals in theirs, which is an
  induction over a set of naturals (`NaturalsFromZero`, from the well-foundedness of
  subsets of a finite set). `Quanta` bounds the ticks a thread has been ready by its place in
  the queue: a quantum for each of those that run before it, less the ticks the running one
  has had.

- `CpuSchedulerProofs!StatsAreExact`: whatever the nodes' memory held, and unless a
  thread was overrun, the waiting time `stats()` computes is the time the thread waited,
  for every thread that had a transfer and for those whose node had a zero for the start
  of one. `Ledger` says that the ticks a thread has been there are those on the processor, on
  the device and on neither; `Transfers` which times a node has before, on and after the
  device, and what is left in it of the memory; `FirstCome` does the same for the sums of
  Assignment4.
- `FilesProofs!FilesSectorsOnce`, `FilesNoLeak`, `FilesFileKept`, `FilesDescriptorKept`,
  `FilesOpenCount`, `FilesBootsAgain`: for any disk, any number of direct blocks and of
  pointers in a block, any names, any sizes a program may pass, any number of descriptors,
  struct files and reboots, no sector has two owners, none is lost but by the named
  failures, files read as what was written to them unless a write of no bytes has changed
  their length, descriptors and inodes agree, nothing releases a free sector, and none
  more than the openers of a file deny writes to it. The assertions about sizes and about a
  descriptor nobody opened are steps: the state they leave behind satisfies all this too,
  and nothing is claimed of their not being met.
  None of these is inductive, and all follow of one invariant, `FilesInv`.
  - The blocks below an inode are a tree; `Place` names its positions, `Tree` says which
    sector is at each, and `Need(n)` which positions a file of n sectors needs.
    A reservation is shown to grow that tree level by level, as the code descends
    (`SectorGrows`, `IndirectGrows`, `DoublyGrows`, `ReserveGrows`): what was there stays
    where it was and as it was, new entries are sectors that were free, no two alike, and,
    unless the disk filled up, all that is needed is there (`Grows`). A walk that fails
    half way has grown the tree too, with less of it reached.
  - `FileSound` says of one file that its places hold different sectors, none free and
    none of those that formatting took, that its length has what it needs, and that
    sectors past its end hold zeros: a write that failed leaves some there, and
    the next longer write takes them for its own, which is why this has to be known. Of a file
    that a write of no bytes has cut the tree stays sound and the content is given up:
    `Held` is `Lost` for it, which no later write turns back into a promise.
    `OnDisk` says the inode on the disk has the same sectors up to its length though the one in
    memory may have more, which is why a reboot loses no content.
  - `FilesFine` says that two files own no sector in common, counting sectors past
    their ends; `FilesFrame` that a step about one file leaves the others sound if it
    leaves their sectors alone. Each call is then about one file (`FilesStep`), and takes
    or releases nothing else (`AccountStep`).
  - `HandlesOK`, `InodesOK`, `DescriptorsOK` and `DirectoryOK` tie struct files to
    inodes, inodes to directory entries, and descriptors that are still open to memory
    of their own; `OpenCount` survives a descriptor that is used too often since every
    struct file in use, whoever points to it, is counted once (`Handles`), and so is every
    one that denies writes (`Denying`), which is why `file_allow_write()` finds one to undo.
  - `FileCount` counts a file's sectors along its places.
  Induction along the walks is over the set of the numbers a fact holds for
  (`SetInduction`).

The assumptions are those the modules declare (of the Lab2 kernel `ThreadAssumption`,
`PriorityAssumption`, `MonitorAssumption`, `KernelAssumption`; Cartman's three;
`NumParagraphsAssumption`; of `BufferCache` `SizeAssumption`, `NobodyAssumption`,
`ZeroAssumption`, `NoCallAssumption`; of `Process` that the number of programs is a
natural number; of `Alarm` that threads are finitely many, the main and the idle thread
two of them that are there from the start, arguments of `timer_sleep()` not negative and
names of lists apart, and of `IntrusiveList` that NULL and the ends of lists are no
elements; of `Files` that there is at least one direct block and one pointer in a
block, that the disk has the four sectors formatting takes, that sizes are integers and
`load()` reads up to a natural number of sectors, that names are finitely many and neither
empty nor `..`;
of `CpuScheduler` that `None` is no thread, threads are finitely many,
quanta are positive, priorities natural numbers, and that a node's memory holds integers,
any); TLC evaluates them in every run.

Only model-checked: everything about time and fairness (`RoundRobin`,
`SleeperRuns`, `BootEnds`, `CallReturns`, `EveryThreadEnds`, `StopsOnlyInRing`,
`PageShown`), which the prover does not reach. Every other property of a passing run is proved.

## 6. What is not modelled

- Lab2's list of all threads, whose links are made with interrupts on: the list is
  never walked in that kernel.
- Lab3: what `load()` reads, `push_command()` and the page tables, which are byte layout:
  in `Process` a load is a wait for the disk that succeeds or fails, in `Files` it opens
  the program's file, reads up to some sector and denies writes to it, or not; `exec()` and
  `wait()`, which are stubs in `syscall.c`; subdirectories, paths and seeking, which no system
  call of this kernel reaches; offsets within a sector; writes to the console.
  Threads of this kernel have one priority unless the kernel's own tests change it.
- The merge sorts of Assignment1 and Assignment2: processes or threads that share
  nothing but the part each sorts and meet at one join each. Assignment6: one call of
  the C library after the other, with no state of its own.
- Failures of `palloc_get_page()` and `malloc()`, whose results the code mostly does not
  test.
- The boot loader, device drivers, memory allocators, C library and test harness are the
  skeleton's and are met through their interface only; so is most of the repository's
  text, of which each lab has a copy. Lab2_2 is the skeleton itself, and Lab3's `vm/`
  is not built.
- Timing in instructions is abstracted: only the order of steps and ticks is kept. Tick
  counters do not overflow (64 bits).

## 7. Plan

What the models would bear next, in this order:
1. `AllList`: the four assignments of `list_insert()` as steps, interleaved.
2. `ForkJoin`: the merge sorts of Assignments 1 and 2.

# A TLA+ model of the kernel of RTT_GPS_STUSB

The repository is a GPS/GSM vehicle unit for an STM32F4: a board support package
(`bsp/stm32f40x_car`) on top of the RT-Thread kernel (`src/`), with optional
components. The logic that everything rests on, and the only part that is
concurrent through and through, is the kernel: a preemptive, priority-based
scheduler for one processor, driven by a tick interrupt, with IPC objects, timers and
memory managers on top. This project models that kernel from its C source, and the
one place where a driver, a kernel object and a thread of the board work together,
the console. It model-checks them with TLC on small instances, and proves every safety
property that a passing run checks (of the scheduler, the IPC objects, the memory pool, the
timers, the heap and the console) with TLAPS, for any number of threads, priorities,
messages, places and timers and a heap of any size. (Paths below are
relative to the repository; in `PROJECT.json` they start with `src/`.)

## Inventory

| Part | Source | State | Operations | Status |
|---|---|---|---|---|
| Scheduler | `src/scheduler.c` | ready list per priority, ready bitmap, current thread, lock nesting, defunct list | schedule, insert, remove, enter/exit critical | modelled, proved |
| Threads | `src/thread.c` | per thread: state, priorities, `number_mask`, time slice, error, timer, list node | init/create, startup, suspend, resume, delete/detach, exit, yield, sleep, control, timeout | modelled, proved |
| Tick | `src/clock.c` | `rt_tick` | `rt_tick_increase`: time slices, then the timers | modelled; `rt_tick` itself is not |
| Idle thread | `src/idle.c` | - | unlink and free defunct threads | modelled, proved |
| Semaphore | `src/ipc.c` | value, flag, suspend list | init, take, release, reset, detach/delete | modelled, proved |
| Mutex | `src/ipc.c` | value, owner, original priority, hold, suspend list | take, release | modelled, but for a detach while held; proved |
| Event | `src/ipc.c` | set, suspend list; in each waiter what it wants and gets | init, send, receive, reset, detach/delete | modelled, proved |
| Mailbox | `src/ipc.c` | ring, count, two suspend lists | init, send, receive, reset, detach/delete | modelled, proved |
| Message queue | `src/ipc.c` | queue and free list of buffers, count, suspend list | init, send, urgent, receive, reset, detach/delete | modelled, proved |
| Memory pool | `src/mempool.c` | block list, two counters, suspend list | init, alloc, free, detach/delete | modelled, proved |
| Timers | `src/timer.c` | two ordered lists, flags, soft timer thread | start, stop, control, detach/delete, check | modelled, but for functions that delete their own timer; proved |
| Heap | `src/mem.c` | block list with headers, `lfree`, `used_mem` | init, malloc, calloc, realloc, free | modelled, but for `max_mem` and `magic`; proved |
| Serial driver | `bsp/stm32f40x_car/drivers/serial.c` | receive ring | receive interrupt, read | receive side modelled, proved |
| Shell | `components/finsh/shell.c` | `rx_sem`, line | input loop | input loop modelled, proved |
| Objects, devices, services | `src/object.c`, `src/device.c`, `src/kservice.c`, `src/irq.c` | tables, counters | registration, dispatch, formatting | not modelled |
| Slab, memheap, modules | `src/slab.c`, `src/memheap.c`, `src/module.c` | - | - | not built for this board |
| Board, application | `bsp/stm32f40x_car` | driver registers, buffers | start-up, GSM, RTC, USB | not modelled (hardware access) |
| Components | `components/` | - | shell compiler, file systems, network, GUI | not modelled (vendored, I/O or not built) |

**Interaction.** A thread calls the API; the API works in sections with interrupts
disabled and calls `rt_schedule` at the end. The tick interrupt, and interrupt
handlers that release semaphores, run between any two sections and may make
another thread current. IPC objects suspend the caller on a list of their own
(`rt_ipc_list_suspend`), the waking call or the timeout of the thread's timer
takes it off (`rt_thread_resume`, `rt_thread_timeout`), and the woken call reads
`thread->error` to learn which of the two it was.

**What is hard.** Checks made before interrupts are disabled and used after;
functions made of several sections (`rt_thread_resume`, `rt_thread_delete`,
`rt_ipc_list_resume_all`); the timeout racing with a release, a reset or a
delete; the bitmap, which summarises lists it is not stored with; priority
inheritance together with timeouts; the scheduler lock; reclaiming by a thread
that only runs when no other does; a woken waiter that is overtaken; messages copied
with interrupts enabled; tick arithmetic over the wrap; timer functions that work on
the timers being examined; a pointer (`lfree`) that summarises a list. `PROJECT.json` lists these hazards with their
lines.

**What makes each part correct.** Scheduler: lists, bitmap and states agree, and
every switch goes to the highest ready priority. Threads: a closed thread never
runs or is queued again and is eventually freed; a timer expires only on a
suspended thread. Semaphore: no permit lost or duplicated, no waiter forgotten,
waiters served in order. Mutex: at most one holder by the codes that callers see,
the holder inherits the priority of the waiters and gives it back. Event: flags go
to the receivers they satisfy, and to one only if it clears them. Mailbox, message
queue: a bounded channel, whatever the interleaving. Memory pool: each block in one
place, no waiter forgotten, and a block for every woken one. Timers: lists in order, flags true, nothing early
and, in the interrupt, nothing late. Heap: well-formed block list, nothing free
unmerged, `lfree` the lowest free block. Console: characters in order, none left
waiting that was announced.

## Modules

- **`RtKernel`**: the kernel state as one record `k`, and each interrupt-disabled
  section of `scheduler.c`, `thread.c`, `clock.c` and of the list functions of
  `ipc.c` as an operator from record to record, under the name of its function. A
  list is a sequence, the bitmap a set of priorities, a thread's `number_mask` a
  set as well, so that a mask that does not match the priority can be expressed.
  `NoThread` is what `rt_list_entry` makes of the head of an empty list. Where the code
  follows a pointer to what is not a thread or a block, what comes next depends on the memory
  behind it, and the models have both outcomes: `rt_thread_resume` refuses
  a list head that does not look like a suspended thread and the call goes on; or the
  pointer is followed, `astray` becomes TRUE, and no thread or handler takes another step.
- **`Scheduler`**: threads calling the thread API. `pc[t]` says where thread `t` is
  inside a call and which thread the call is about. A function with several
  sections is several actions, one per section (`Resume`, `ResumeUnlink`,
  `ResumeInsert`), and `Tick`, `Timeout(t)`, `TickEnd` may come between any two. Only
  `k.current` takes steps. `FREE` is added to the thread states for memory that
  holds no thread. `Create` leaves `number_mask` as it is in static storage and
  arbitrary in allocated memory, as the code does.
- **`IpcThreads`**: what all IPC objects share: the blocking part of a call, sleeping,
  the tick, `rt_ipc_list_resume_all` both with interrupts disabled (reset) and cut
  at the points where they are enabled (detach). `Places` and `Preempts` are the
  properties every object has to keep.
- **`Semaphore`**, **`Mutex`**: extend `IpcThreads` with the object's state and calls.
  `handed` and `held` are history variables that record what the callers were told.
- **`IpcObject`**: on top of `IpcThreads`, what the objects that carry data share: the
  life of the object, the arguments of waiting calls (`arg`, the locals `timeout` and
  message), waking one waiter, and `Served`, the condition for no lost wake-up when a
  woken thread can be overtaken.
- **`Event`**, **`Mailbox`**, **`MessageQueue`**, **`MemPool`**: one object each. `Event` walks
  its waiters as `rt_event_send` does, each seeing what those before it left. A
  mailbox is its ring with both offsets. A message queue is linked by `next` as in the
  code, and a send or receive is two sections with the buffer in `hold` in between. A
  pool keeps the code's own counter of waiting threads beside the list.
- **`Objects`**: one object of any of the four kinds, used by the same threads.
- **`Channel`**: what mailbox, message queue and receive ring promise: a bounded queue, a
  message in the hands of the thread that took it. Three specifications: `FifoSpec`,
  `UrgentSpec` (messages to the front), `LossySpec` (a full queue forgets its oldest).
- **`Timer`**: the tick, the two lists as sequences, the flags as sets, and three actors:
  an application thread inside `rt_timer_start` or `rt_timer_stop`, the tick interrupt,
  the timer thread. A timer function is any sequence of calls about any timers the
  rules allow. `left` is a history variable: the ticks until a timer is due, counted
  without wrap, against which the arithmetic of the code is compared.
- **`Heap`**: block headers by address, in units of `RT_ALIGN_SIZE` (8 bytes on this board:
  a header is 2 units, `MIN_SIZE_ALIGNED` 2). `heap_sem` makes a call one step; a
  moving `rt_realloc` is two, since it lets go of `heap_sem` in between.
- **`Console`**: extends `Semaphore` with the receive interrupt and ring of `serial.c` and
  the input loop of finsh, which share `rx_sem`: characters are stored, announced by
  one release per interrupt, and read until the ring is empty or a line ends.
- **`KernelLemmas`**, **`IpcProofs`**: lemmas on lists, rings and the operators of
  `RtKernel`, and on the steps of `IpcThreads`. **`SchedulerProofs`**, **`SemaphoreProofs`**,
  **`MutexProofs`**, **`TimerProofs`**, **`HeapProofs`**: the theorems about the component of
  that name, in `SemaphoreProofs` also those about the console, which uses one;
  **`ObjectProofs`**: those about the mailbox, the memory pool, the event, the message queue
  and `Objects`.
- **`MCScheduler`**, **`MCSemaphore`**, **`MCMutex`**, **`MCObjects`**, **`MCTimer`**, **`MCConsole`**:
  instances for TLC. `Heap` is run as it is.

Definitions whose comment starts with *Mutant* are wrong variants of the definition
that follows; nothing uses them. Each stands for a plausible slip in the code,
and replacing the original by it makes TLC refute the property it is listed with
in `PROJECT.json`.

### Rules of use

The kernel relies on its callers in ways it does not check. The models make each
such rule a guard that is dropped when its name is in the constant `Relaxed`:

| Rule | Module | The rule |
|---|---|---|
| `timer` | Scheduler | a thread is managed by another only while its timer is stopped |
| `shared` | Scheduler | no two calls are about the same thread; another thread is suspended only with the scheduler locked |
| `init` | Scheduler | only a thread that was started is deleted |
| `locked` | Scheduler | nobody blocks while the scheduler is locked |
| `late` | IpcObject | no detach while a call is still to look at the object |
| `restart` | Timer | a timer function does not stop and start its own timer |
| `shared` | Timer | a timer function leaves alone a timer that a thread is starting or stopping |
| `soft` | Timer | interrupts leave soft timers alone; a soft timer's function works on its own timer only |
| `nested` | Mutex | a thread holds one mutex at a time |
| `fifo` | Mutex | mutexes are created with `RT_IPC_FLAG_PRIO` |

With `Relaxed = {}` the properties of the passing runs hold. The violation runs
`thread_delete` and `mutex_nested` drop the rule where the code or its documentation
makes a promise without it; the others fail with all rules kept. A rule also
documents what an application must keep to. The rules of `IpcObject` and
`Timer` are all needed: TLC finds `BuffersAccounted` (`late`), `ListsOK` (`restart`,
`shared`) or `FiresOnTime` (`soft`) violated as soon as one of them is relaxed. The
semaphore and the memory pool have no rule of their own: a semaphore may be detached while
threads wait for it with a waiting time, and a thread may wait for a block for a number of ticks
or take one before the thread that was woken for it.

## Runs

| Run | Instance | Shows |
|---|---|---|
| `scheduler` | idle, a static main thread with a cleanup function, one dynamic thread; 3 priorities; 58 000 states | `ReadyQueueOK`, `TimeoutOnlySuspended`, `ClosedStaysOut`, `CallInv` and the action property `SwitchToHighest` over all interleavings; `RoundRobin` and `Reclaimed` under fairness |
| `semaphore` | idle, a high and a low thread and the handler; a value of 1 bit, so that releases wrap it; both flags; 7 300 states | `Places`, `NoLostWakeup`, `PermitDelivered`, `PriorityOrder`, `Preemptive`; `TimedWaitEnds` and `FifoService` under fairness |
| `mutex` | idle and three threads of three priorities, two mutexes, two recursive takes; 879 000 states | `Places`, `MutualExclusion`, `WaitOK`, `Inherited`, `InheritanceEnds` |
| `objects` | idle, a high and a low thread and the handler; event of 2 flags and 3 kinds of request, mailbox, queue and pool of 2 places; both flags; 560 000 states | `Places`, `NoLostWakeup`, `EventMatched`, `EventsKept`, `BuffersAccounted`, `BlocksAccounted`; mailbox and queue refine `Channel` |
| `timer` | 2 hard or 2 soft timers, 3-bit tick, periods of 1 and 2 ticks; 2 600 000 states | `ListsOK`, `FiresOnTime` |
| `heap` | 16 units, sizes 0, 1, 3, 6, 10; 95 000 states | `HeapOK`, `LowestFree`, `UsedCounted` |
| `console` | idle and finsh; ring of 3, up to 2 characters per interrupt; 123 000 states | `NothingLeftUnread`; the ring refines `Channel!LossySpec`; `ConsoleRead` under fairness |
| `thread_delete` | as `scheduler`, rule `timer` dropped | `ClosedStaysOut` fails: a tick inside `rt_thread_delete` |
| `mutex_nested` | as `mutex`, rule `nested` dropped | `Inherited` fails: the release of one mutex drops what was inherited through another |
| `mutex_preempt` | as `mutex` | `Preemptive` fails: a release without waiters lowers the caller's priority and does not reschedule |
| `soft_timer` | as `timer` | `SoftOnTime` fails: the timer thread sleeps for an absolute tick |
| `detach_race` | as `semaphore` | `RouseFindsThread` fails: a timeout between the test and the body of the loop in a detach |

**Bounds.** Two application threads are enough for every pair of calls to race in
`scheduler`, and `Main` and the created thread meet at equal, lower and higher
priorities; the safety part of that run is proved for any number. The semaphore
needs two waiters of different priority for both queueing orders, and the handler to release it
when both wait; more waiters are left to the proofs, so that the same instance carries the liveness
properties. A value of one bit separates empty from available, and wraps at the
second release as the 16-bit one does at the 65536th (`VALUE_WIDTH`). The mutex needs
low, middle and high for inversion, and a second mutex for nesting. A time slice of
one tick makes every tick a candidate for a switch. `MaxNest`, `MaxValue`, `MaxHold` and
`Movable` bound counters and choices that the code does not bound; the 8-bit wrap of
`mutex->hold` lies beyond them. In `objects`, two threads and a handler are the least with which a
woken waiter is overtaken and two wait at once; two places tell empty, partly full
and full apart and let rings and lists wrap; three requests cover AND, OR, clearing
and not clearing. `MaxPended` bounds `suspend_thread_count` of the pool, which each timeout leaves
one too high: with 3, one more than the two threads, the count is stale while
both wait. In `timer`, an 8-valued tick wraps every few timers and its half range
(3) still leaves room for both periods, and two timers make an order; `MaxLag = 0`
bounds how long a start may be interrupted, since beyond its own period a timer would
be linked overdue, which the code's comments exclude. In `heap`, up to four blocks with
holes of every kind fit. In `console`, a ring of 3 holds 2 characters, overflows and
wraps, and `MaxBurst = 2` makes interrupts that announce several characters with one
release.

`timer` and `soft_timer` do not check deadlock: the system really stops when the timer
thread's delay fails the assertion in `rt_timer_start` with interrupts disabled
(`SoftDelay`).

**Time.** A running timer may expire at any tick. This covers every waiting
time and every order of timeouts and needs no tick counter. It allows orders that
particular numbers would exclude; no property relies on those being absent.

**Fairness.** Ticks come and the handler returns (weak fairness; hardware), every
running timer expires eventually (strong fairness of `Timeout(t)`; the list is
examined at every tick), and a thread that gets the processor again and again gets
on with the kernel call it is in (strong fairness: kernel sections are finite and
straight-line). In `console` an interrupt ends, and the finsh thread gets on when it has
the processor: it is code of the repository, a loop that only waits for `rx_sem`.
Nothing is assumed of application code. `RoundRobin` is stated
for threads that stay at the top priority, `Reclaimed` for runs in which the idle
thread keeps getting the processor, since the code promises no more.
Elsewhere no deadlock check is switched off.

## Proofs

Everything below is proved for any set of threads and timers, any number of priorities, and
any size of ring, pool, flag set or heap, from the named assumptions on the constants in the
modules that declare them. Those that are more than types: the idle thread is alone at
the lowest priority and every thread is ready once at the start (`IpcAssumption`);
there are finitely many threads (`IpcObjectAssumption`, since waiters are counted);
there is something to send (`Mail # {}`, `Letter # {}`); and `NoData` is no request and no message.
`TimerAssumption` has what the comments in `timer.c` ask for: no `init_tick`, with the ticks
that a start may be interrupted (`MaxLag`), reaches half the range of the tick, and an
overdue timer is less than half the range behind. `HeapAssumption` has only types and that
a header and `MIN_SIZE_ALIGNED` are not empty.
`2 ^ VALUE_WIDTH \in Nat \ {0}` and `TickRange \in Nat \ {0}` are arithmetic that the provers
do not know.

| Module | Theorem | States | Needs |
|---|---|---|---|
| `SchedulerProofs` | `TypeCorrect`, `ReadyQueueSafe`, `TimeoutSafe`, `CallSafe`, `ClosedSafe`, `SwitchSafe` | `TypeOK`, `ReadyQueueOK`, `TimeoutOnlySuspended` (the assertion in `rt_thread_timeout`), `CallInv`, `ClosedStaysOut`, `SwitchToHighest` | all rules of use |
| `SemaphoreProofs` | `SemTypeCorrect`, `SemPlaces`, `SemNoLostWakeup`, `SemPermitDelivered`, `SemPriorityOrder`, `SemPreemptive` | the properties of the run `semaphore` | - |
| | `RingRefines` | the receive ring implements `Channel!LossySpec` | - |
| | `ConsoleAwake` | `NothingLeftUnread` | `Fits`: `rx_sem` does not reach its width |
| `MutexProofs` | `MutTypeCorrect`, `MutPlaces`, `MutExcludes`, `MutWaitsRight` | `TypeOK`, `Places`, `MutualExclusion`, `WaitOK` | - |
| | `MutInherited`, `MutInheritanceEnds` | `Inherited`, `InheritanceEnds` | rules `nested`, `fifo` |
| `ObjectProofs` | `MailTypeCorrect`, `MailPlaces`, `MailRefines` | `MailboxTypeOK`, `Places`, the mailbox implements `Channel!FifoSpec` | - |
| | `MailNoLostWakeup` | the mailbox part of `NoLostWakeup` | rule `late` |
| | `PoolPlaces` | `Places` | - |
| | `PoolTypeCorrect`, `PoolAccounted` | `PoolTypeOK`, `BlocksAccounted` | rule `late` |
| | `EventTypeCorrect`, `EventPlaces`, `EventMatches`, `EventKeeps` | `EventTypeOK`, `Places`, `EventMatched`, `EventsKept` | - |
| | `QueuePlaces` | `Places` | - |
| | `QueueTypeCorrect`, `QueueNoLostWakeup`, `QueueRefines`, `QueueAccounted` | `QueueTypeOK`, `LetterServed`, the queue implements `Channel!UrgentSpec`, `BuffersAccounted` | rule `late` |
| | `ObjectsPlaces` | `Places` for an object of any kind | - |
| | `ObjectsNoLostWakeup` | `NoLostWakeup` | rule `late` |
| | `ObjectsTypeCorrect` | `TypeOK` of `Objects` | rule `late` |
| `TimerProofs` | `TimerListsOK`, `TimerFiresOnTime` | `ListsOK`, `FiresOnTime` | all rules of use |
| `HeapProofs` | `HeapWellFormed`, `HeapLowestFree`, `HeapUsedCounted` | `HeapOK`, `LowestFree`, `UsedCounted` | - |

`Places` is stated up to a step that goes `astray`: `FollowsHead` in the loop of a detach and in
`rt_mp_free`, a null block in `rt_mp_alloc`. After it the lists are whatever the memory behind
the pointer made of them, and nothing is claimed of them.
The other theorems hold in that last state too.

Where a rule of use is named, the theorem is false without it, and TLC has the
counterexample: `mutex_nested` for `Inherited`, and see *Rules of use* for the others.
The semaphore's own properties need no rule and no bound on its value: a release
that wraps the value to 0 loses permits but leaves nobody waiting beside one.
`ConsoleAwake` needs `Fits` because there a lost permit is a character nobody looks for.

### The argument

The proofs come in layers. `KernelLemmas` has lemmas on lists without repetition, on
rings, and for each operator of `RtKernel` what it does to each field. `IpcProofs`
says which states the kernel is in between two sections (`Sound`: queues, bitmap and
states agree, a thread is on at most one suspend list and then suspended) and where
each suspended thread is (`Located`), shows that each operator preserves `Sound`
and each shared step preserves

    IpcInv == IpcTypeOK /\ Sound(k) /\ Located(k, pc)

from which `Places` follows. A component's module then has one lemma per action of
the component, a lemma that collects them over `Next`, and the theorems.

**Scheduler.** `ReadyQueueOK` is not inductive. The insertion at the end of
`rt_thread_resume` is right only because nobody else has queued the thread since the
unlinking; the removal of a bit is right only if `number_mask` is the bit of the thread's
priority; and `rt_schedule` finds a thread only because the idle thread never leaves.
The inductive invariant is

    Inv == TypeOK /\ Queue(k, Off) /\ TimeoutOnlySuspended /\ CallInv

where `Queue(k, Off)` is `ReadyQueueOK` in terms of membership, relative to the
set `Off` of threads that a delete has unlinked and not yet closed, and `CallInv`
says what a pending call may rely on: the thread it is about is in the state the
call left it in, no other call is about it, its timer is stopped (`Pending`), and
masks, idle thread, current thread, lock and defunct list are in order.

**Semaphore.** `SemInv` adds to the checked properties that at most one thread is
detaching and that a thread on the list has no error yet (`WaitersClear`): the error is how
a woken call learns what woke it, so a stale one would pass for a timeout.
`PreemptInv` is `Preemptive` at all points of a call but the two that are about to call
`rt_schedule`.

**Mutex.** `MutInv` adds `WaitersClear`, that who waits is not the owner
(`WaitsForOther`), and that the saved original priority is a priority. Inheritance
needs more (`InheritInv`): an owner owns one mutex and waits for none while it does,
its original priority is saved, the waiters are in priority order, and the owner is
at least as urgent as the first. The order is what lets the code compare with the
caller alone.

**Data-carrying objects.** A step is described once and for all by whom it wakes and whom
it takes out of a call (`Steps(L, R)`), so that counting woken threads, which is what
`Served` is about, is done in one place; `DetachInv` says that under the rule `late`
nobody is between waking and looking when the object goes away. On top of it:
`MailInv` and `MailServe` for the mailbox, with `BoxOK` (offsets inside the ring and the
count their distance); `PoolInv` for the pool, with `BlocksOK` (each block free
once or in use, and the count of free ones right), no more free blocks than woken threads while
anybody waits, and `suspend_thread_count` at least the length of the list, and not 0 inside the
body of a detach loop, which counts it down even where a timeout has emptied the list
(`Pended`, `RousePended`); `EventInv` for the event: nobody on the list has a request that the flags meet
(`Unmet`), and everybody past it has an answer that fits (`Answered`). The walk of
`rt_event_send` and the loop of `rt_ipc_list_resume_all` are recursive functions; what
they do is shown by unfolding one step and taking the least place where the claim
would fail. For the walk the claim says which waiters were woken, that those passed over
are unmet by what is left of the flags, and that each flag gone has one taker.

**Message queue.** The code has pointers, the properties speak of the two chains. `QueueOK`
says that two sequences without common elements follow `next` from `head` and from
`free`, and that a buffer in neither is in the hands of one thread; `QueueInv` says that there are
such sequences. `Chain`, a recursive function cut at the number of buffers, is shown to
compute them, by the least place where it would not. For the calls, `Holding` and
`Copying` say that exactly the threads between the two sections of a call have a buffer
in hand, and a sender the message that belongs into it; `NoneBetween` is what the
rule `late` gives: nobody is between the sections when the queue is detached, since a new
initialisation would put the buffer on the free list while it is in use. `Served` is about
`mq->entry`, which a send counts up only in its second section, the one that also wakes a
receiver, and a receive counts down in its first.

**Objects.** A step of `Objects` is a step of the kind the object has, and no step changes
the kind. So each behaviour is one of the event, the mailbox, the queue or the pool
(`ObjectsSplit`), and their theorems carry over.

**Console.** A console step is a step of the semaphore (`ConsoleIsSemaphore`), so `SemInv`
comes for free. What is new is `Announced`: unless characters are owed, there are
never more of them in the ring than `rx_sem` has permits, counting the release that is still
to come and the permit that finsh has not used yet.

**Timer.** What makes the lists right is that the comparison of the code, a difference of wrapped
ticks below half the range, agrees with the order of the times that it stands for. The
history variable `left` has those times, and `TimeInv` ties them to the code's numbers:
`timeout_tick` is `tick + left` modulo the range (`Near`), and `left` lies within half the
range. Then inserting before the first timer that is not earlier keeps the hard list in order
(`OrderInv`), and the head of the list decides for all of it. The rest of

    TimerInv == TypeOK /\ ListsGood /\ FlagInv /\ IsrInv /\ ThreadInv /\ AppInv
                  /\ TimeInv /\ HardInv /\ OrderInv /\ SoftInv

says who may rely on what between two sections: whose function runs is on no list,
the position that the timer thread keeps while it calls a function is still on the list,
and nobody else touches the timer a thread is starting or has unlinked; this is what the rules
of use give. `HardInv` bounds how late a hard timer can be on the list, which is
what an interrupt that ends needs for `FiresOnTime`. `SoftInv` is the one that surprises: the
timer thread compares with a tick it has read before, so a timer started since then must be
shown to be no further than half the range from that older tick, else it would be
taken for due.

**Heap.** `HeapOK` defines `next` and `prev` by the minimum and maximum of a set, which is right to
read and awkward to preserve. `Well` says the same locally: `next` of a block is a block,
leaves room for the header and passes over none, and `prev` leads back. Lemmas about a change
of one field, a split and a merge show each to keep `Well`; `PlugKnown` shows that
`plug_holes`, given a list whose only unmerged free neighbours are those of the block just
freed, merges them, leaves the allocated blocks alone, and moves `lfree` only down, to the block it
was merged into. The invariant

    HeapInv == ListInv /\ HeldInv /\ HiddenInv /\ UsedCounted

is the three properties in this form, with the types of headers and sizes that they leave out.
They are proved together: where `rt_malloc` starts to look, which blocks it may take and what it
adds to `used_mem` each rest on the order of the blocks. `used_mem` is compared with a sum over addresses (`SpaceBelow`); that
the sum changes by what one block contributes is shown by the least address at which it would not.

### Only model-checked

- Liveness (`RoundRobin`, `Reclaimed`, `TimedWaitEnds`, `FifoService`, `ConsoleRead`):
  out of the prover's reach.
- That the code violates what the five violation runs state.

## Findings

1. **`rt_thread_delete` and a running timer** (`src/thread.c:319`). The delete
   unlinks the thread, stops its timer and marks it in three sections. A tick
   after the first makes the thread READY and queues it; the delete then closes a
   queued thread and links its node into a second list.
2. **Two mutexes** (`src/ipc.c:776`). One original priority is kept per mutex, so
   releasing one mutex undoes inheritance through another.
3. **Release after a timeout** (`src/ipc.c:800`). The waiter that raised the owner
   is gone; the release lowers the caller's priority and returns without
   `rt_schedule`.
4. **Soft timers** (`src/timer.c:517`). The timer thread passes the tick at which the next
   soft timer is due to `rt_thread_delay`, which takes a number of ticks. Soft timers
   are late by the uptime, and after `RT_TICK_MAX/2` ticks the assertion in
   `rt_timer_start` stops the system.
5. **Detach and a timeout** (`src/ipc.c:158`). `rt_ipc_list_resume_all` tests the list before
   it disables interrupts and does not look again. If the last waiter times out in between, it
   takes the list head for a thread, writes an error into it and resumes it.

Others have no run of their own; the model takes these steps, or a rule of use excludes
them:

- `suspend_thread_count` of a memory pool, "numbers of thread pended on this resource"
  (`include/rtdef.h:617`), is not counted down when a waiter times out (`src/mempool.c:340`), and
  the next `rt_mp_free` takes the head of an empty list for a thread: `FreeFollowsHead`, a step
  that the run `objects` takes. What does hold, and is proved, is that it never counts
  too few (`BlocksAccounted`);
- a thread that waited for a block takes the first one without looking whether there is
  one (`src/mempool.c:362`), while another may have taken it, and follows a null pointer: the
  last disjunct of `AllocReturn`, which `objects` takes too. The comment at line 298 promises
  a block or `RT_NULL`;
- a timer function that stops and starts its own one-shot timer leaves it linked and
  marked deactivated (`ListsOK` with `restart`);
- `rt_realloc` that shrinks a block does not lower `lfree`: the part cut off may be
  invisible to `rt_malloc` (`hidden` in `Heap`); and it may leave blocks smaller than
  `MIN_SIZE_ALIGNED`, unlike what the comment at `src/mem.c:254` says;
- the loop of `rt_malloc` ends before `mem_size_aligned - size` and so misses a last
  block that fits exactly;
- several characters in one interrupt are announced once, and an end of line strands
  the ones behind it until the next interrupt (`owed` in `Console`).

## Not modelled

Stack checks, hooks, names, debug output; nested interrupts (handlers run one after
the other); `rt_thread_find`; the tables for more than 32 priorities. A context
switch requested in a handler takes effect at once in `k.current`, and no thread takes
a step before the handler ends, which is what the deferred switch amounts to.

Of modelled parts: what the kernel does once it is `astray`, and the error that a detach
loop writes behind the head of an empty list; detach of a held mutex; a change of priority of a waiting thread
by the application; timer functions that delete their own timer (the code then reads
freed memory); `max_mem`, the `magic` numbers and sizes near 2^32 in the heap (the alignment
and the product in `rt_calloc` wrap there); the contents of a finsh line. The
thread timers behind `k.timer` are not composed with `Timer`: the IPC models
let any running timer expire at any tick, which allows more than `Timer` does.

Serial transmission: by polling it is register access, by DMA it has no working
configuration on this board (`usart.c` never assigns the channel, and there is no handler
for the DMA interrupt). `mg323.c`, the GSM dialogue, does not compile. The object
container, the device layer and the kernel services hold no state that a modelled
property depends on. Slab, memheap and modules are not configured. `components/` and
the STM32 library, by far most of the lines of the repository, are third-party code,
fonts and tables, or not built for this board.

## Plan

1. Abstract specifications of a counting semaphore and of a lock with hand-over, refined
   by `Semaphore` and `Mutex`.
2. Detach of a held mutex, and a change of priority of a waiter.

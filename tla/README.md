# Verification of Multicore-RTOS

TLA+ specifications of the kernel of Multicore-RTOS (a bare-metal RTOS for the
two Cortex-M0+ cores of the RP2040), the TLC runs that check them on small
instances, and TLAPS proofs about the scheduler, the semaphores, the heap, the
sleep queue, both kinds of fifo, the UART driver, the periodic tasks and the start
of CPU1 for every value of their parameters. The paths below are relative to the
root of the repository.

## 1. The system

| Part | Source | State | Operations | Interacts with |
|---|---|---|---|---|
| Scheduler | `os/schedule.c` | a ring of threads and two counters per priority level, the list of sleepers, `RunPt`/`NextRunPt` per core | `init_scheduler`, `schedule`/`suspend`, `add_thread`, `sched_block`, `sched_unblock`, `sleep`, `unsleep`, `kill` | spinlock `SCHEDULER`, PendSV, timer alarm 0, heap |
| Context switch | `os/interrupts.c` | stacks, `SP` in the TCBs | `pendSV_handler`, `systick_handler`, `timer0_interrupt`, `timer1_interrupt`, `uart0_handler` | scheduler, periodic tasks, UART |
| Semaphores | `os/semaphore.c`, `hw/hwctrl.h` | `value`, list of blocked threads | `b_wait`, `b_signal`, `c_wait`, `c_signal` | scheduler, spinlocks 30 and 31 |
| Heap | `os/heap.c` | `heap_tree`, `heap_lock` | `malloc`, `calloc`, `free`, `heap_stats` | semaphores |
| Fifos | `os/ipc.c` | ring buffer, three semaphores | `fifo_*` (blocking and not), `fifo32_*`, `fifo8_*` | semaphores, heap, scheduler |
| Inter-core mailbox, start of CPU1 | `os/ipc.c`, `os/schedule.c:37-59`, `:409-415` | hardware FIFOs, position in `wake_seq` | `multicore_fifo_*`, `core1_entry` | boot ROM of CPU1 |
| Periodic tasks | `os/periodic.c` | ring of tasks sorted by time | `add_periodic_task`, `schedule_background` | timer alarm 1, heap, spinlock `BGSCHEDULER` |
| Timer | `hw/timer.c` | hardware counter and alarms | `arm_timer`, `get_raw_time` | sleepers, periodic tasks |
| UART | `hw/uart.c` | two fifos | `uart_out_byte`, `uart_out_string`, `uart_in_string`, transmit and receive interrupts | fifos |
| Others | `hw/gpio.c`, `hw/sys.c`, `bootloader/`, `os/interpreter.c`, `inc/rp2040.h` | none beyond registers | | |

What is hard: both cores share the schedule under one spinlock, but a blocking
call is several locked regions; `schedule()` only selects a thread, the switch
happens later in PendSV, and meanwhile the other core sees the thread as ready;
interrupt handlers signal semaphores; a signal tests for waiters under another
lock than the one that guards the list; `kill()` frees the stack it runs on; the
heap walks a tree without recursion and with one node of memory; the lock-free
fifos rely on the order of three accesses; the timer's alarms compare 32 bits for
equality, so an alarm armed too late matches 71 minutes later; the UART decides
from a fifo's length which of two fifos a byte takes while an interrupt moves
bytes from one to the other; CPU1 is started over a mailbox that may hold words
from before.

What makes each part correct:

- Scheduler: rings, counters, lists and states agree; a RUNNING thread has one
  core; selection is round-robin within the highest ready level; no sleeper is
  forgotten; no stack is executed on by two cores, or freed while in use.
- Semaphores: mutual exclusion, conservation of tokens, no lost wake-up, a waiter
  seen is still there when it is unblocked, no spinlock held across a switch.
- Heap: blocks are disjoint, `malloc` fails only if nothing fits, `free` always
  succeeds and loses nothing, walks end.
- Fifos: first in first out, nothing lost or duplicated, semaphores count the
  elements, writes stay in the block.
- Sleep and timer: an alarm is armed as long as a thread sleeps; nobody is woken
  early, or later than the number of threads due together explains.
- Periodic tasks: the queue loses no task, the first one is due first, tasks run
  at their times, the handler is always called again.
- UART: what the terminal shows is the line that `uart_in_string` holds; no byte
  is lost, stuck or overtakes another; every call returns.
- Start of CPU1: it enters the kernel with the right words, and CPU0 goes on only
  then.

## 2. Modules

| Module | What it is |
|---|---|
| `Scheduler` | `schedule.c` and PendSV, one action per region under the `SCHEDULER` lock |
| `SchedulerProps` | type invariant, safety, action and liveness properties, refinement mapping |
| `RoundRobin` | abstract specification: a queue of ready threads per level, no links and no counters |
| `Semaphores`, `SemaphoreProps` | `semaphore.c` on top of `Scheduler` (EXTENDS: its calls are conjunctions with the scheduler's actions) and its properties |
| `SchedulerInductive`, `SchedulerProofs` | the inductive invariant of the scheduler; the proofs about it, about its refinement of `RoundRobin`, and about the semaphores |
| `SleepQueue`, `SleepQueueProofs` | `sleep` and `unsleep` with their times, the timer and alarm 0; proofs |
| `Heap`, `HeapProps`, `HeapProofs` | `heap.c`, one action per iteration of a loop; properties; proofs |
| `Allocator` | abstract specification of the heap: a set of aligned, disjoint blocks |
| `RingFifo`, `RingFifoProofs` | lock-free fifos, one action per access to the other side's index; proofs about them and about `Uart` |
| `MpmcFifo`, `MpmcFifoProofs` | blocking fifo over what the semaphores promise; proofs |
| `BoundedQueue` | abstract specification of both fifos |
| `Periodic`, `PeriodicProofs` | `periodic.c` over a 32-bit timer and alarm 1; proofs |
| `Uart` | the transmit half of `uart.c` over `RingFifo` (EXTENDS), with the line editor as its caller |
| `MulticoreBoot`, `BootProofs` | the mailbox and the protocol by which CPU0 starts CPU1; proofs |
| `SharedLemmas` | lemmas that several proof modules use: lists of waiting threads, rings of indices modulo a size, arithmetic |
| `MC...` | constants for TLC, one module per run or pair of runs |

Names follow the C code (`ThreadSchedule`, `RunPt`, `heap_tree`, `walk.skip`...).
Operators that begin with "Mutant of X" in their comment are deliberately wrong
versions of X, used to show that a property notices the error; no specification
uses them. `PROJECT.json` maps each definition to its lines.

### Scheduler

The kernel is compiled with `-O0` and every access to the schedule is between
`lock(SCHEDULER)` and `unlock(SCHEDULER)` with interrupts masked, so such a
region is one atomic action. What lies between regions is interleaved: `pc` says
whether a core is in its thread (`task`), in the window of `sched_block` or
`sleep` before `schedule()` (`yield`), or in one of the two windows of `kill`.
`pendsv` is the pending switch: PendSV is taken before any other code of the core
runs as soon as interrupts are enabled, hence `Ready`. `SP` is the TCB whose stack
the core executes on; it differs from `RunPt` only at the end of `kill`.
`SysTick` stands for the timer tick and for `suspend()`, which are the same code.
A semaphore is signalled by threads and, on `BootCore`, by handlers.

Abstractions: a TCB with its stack is an element of `Threads`; it is allocated
when its state is not `FREE`. `add_thread` is called with a legal priority and
with memory (the paths without them, `schedule.c:166-179`, are listed as
hazards). The `free` in `kill` and the `malloc` in `add_thread` do not wait, and
neither of them, nor any handler, leads to a second `schedule()` before the PendSV
of the first one: `Ready` keeps everybody else from running until PendSV, a
handler makes one call, and `KillFree` leaves out the signal of `heap_lock`. The
code has such second calls (see the observations in section 3); nothing here is
checked or proved about them.
Wake-up times are abstracted to an arbitrary position in the list of sleepers,
and the alarm may match at any time; `SleepQueue` has the times. Idle statistics
are left out.

### Semaphores

`atomic_test_and_set` and `atomic_clear` are atomic under spinlock 31. `c_wait`'s
test and decrement are one region of spinlock 30 (`counting = NULL` is its
guard); `c_signal` keeps the spinlock from the increment to the end, across
`sched_unblock` and `schedule()`, so it is several actions. The test of
`bthreads_root` is an action of its own because it is not under the lock that
guards the list; that the waiter seen by `c_signal` is still there is a theorem for
any number of cores (`CountingSignalFindsWaiter`), and for `b_signal` it is not true
of two cores. A thread's place in a wait is `call`, a core's place in a signal
`signal`, since signals run with interrupts masked and waits do not. A thread
signals what it has waited for; `Nested` says which semaphores the application
waits for while it holds another one. Threads are created before the scheduler
starts, may sleep while they hold a semaphore, and do not end.

### Sleep queue

`sleepers` is the list from `SleepScheduleRoot`, `resume_tick` the wake-up times of
32 bits, `now` and `high` the timer of 64 bits (`high`: its upper half is not
zero). `Sleep` and `Unsleep` are one locked region each; what they decide from
times is `Position` (where to link in), `NewRoot` (arm the alarm) and `Rearm` with
`Soon`, the "hack" of `schedule.c:333-336` that arms the alarm `Slack` (10) ticks
ahead when the next sleeper is due at once. `Tick` is the timer: it matches the
alarm, and it does not pass `Delay` ticks without the pending interrupt being
served. `left` is a history variable: the ticks until a thread should wake up;
`firstLap` is one too: no time has wrapped around yet. Priorities, rings and
cores are those of `Scheduler`, and not repeated; that a thread sleeps for longer
than `Slack + Delay` ticks is an assumption (`sleep_time` is in milliseconds), and
so is that it sleeps for less than a lap of the timer.

### Periodic tasks

`next`, `prev` and `sched_time` are the fields of a `BGT_t`. `AddPeriodicTask` is one
region under `BGSCHEDULER`, with its three cases; `AddFails` the return without
memory, which leaves the spinlock locked (`periodic.c:52`). The handler is two
actions, because time passes while the task's function runs: `RunTask` and
`ScheduleBackground`, which computes the next time, moves the task behind those
due before it and arms the alarm. A match during the task's function stays pending
and the handler runs once more (`irq = "again"`); this takes an alarm armed for a
task that was added while the interrupt was pending and is due before the handler
ends, so with the periods and the `Delay` of the run it does not happen; the
theorems include it. Linking in is `InsertBefore` at `Position`: of
the tasks at which a loop of the code would stop (`Stops`), the one it comes to
first, having passed only tasks at which it does not (`Visited`). The
alarm matches when the counter reaches its value, so a value that has passed is
found a lap later. `ordered` is a history variable: no time has wrapped around and
no task was added that is due before the root (such a task is linked in, but
does not become the root, `periodic.c:67`). That the `malloc` of
`add_periodic_task` waits for `heap_lock`, and that a task's own function adds a
task, are not modelled.

### UART

One thread calls `uart_in_string` and echoes with `uart_out_byte`; the transmit
interrupt moves bytes from `tx_fifo` to the hardware. `tx_fifo` is the ring of
`RingFifo`, with the thread as a producer and the handler as a consumer, and its
steps are conjoined with those of the driver, so the handler comes between any two
accesses of the thread; the thread never runs while the handler does, because they
share a core. `InString` is one round of the line
editor with any of its kinds of input, `OutString` the end of an answer that the
caller prints; the other actions are the steps of `uart_out_byte` and of
`uart_tx_interrupt`. The hardware (its fifo, the status that is raised when the
level falls to `Trigger`, lost bytes when it is full) and the terminal are
external, and so is the line, which sends bytes at any time. `end` is where
`uart_in_string` has put the terminating zero (`uart.c:105`): behind the line, which
is one byte behind the caller's array when the line fills it; what lies there is
not in the model. The ring has a slot for each index, as the `tx_fifo` of the code
has (296 indices in a block with room for 472). Not modelled: the receive
interrupt, whose `fifo_put` may block a thread inside a handler, and callers on two
cores or in periodic tasks.

### Start of CPU1

CPU0 drains the mailbox, pushes `wake_seq[idx]` and pops the response, each a step
with its loop; a push never sleeps but polls. A failed test of the mailbox
(`MustWait`) and the WFE after it (`Wfe`) are two steps, between which anything may
happen. SEV sets the event register of both cores, WFE waits for it and clears it:
an event before it makes it return at once. (Without the SEV of a push TLC finds
the deadlock.) CPU1 is in
the boot ROM, which is external (it echoes, expects 0, 1 and three more words,
starts over at any other order, and may be anywhere in that order at first), and
then in `core1_entry`. A mailbox holds `Depth` words (8 in the chip, 4 in the run).
At first there may be any words in it that CPU0 has not read, which is what the
drain is for, and at most `Leftover` that the ROM has still to read, from any place
in its order (`rom` in 1 to 5, the last word it took perhaps not echoed yet) at
which they do not take it out of the ROM by themselves (`rom + Len(to1) <= 5`). The
reset of the chip empties both mailboxes, so none is the normal case; three is the
most for which the code is right, because four old words are what the ROM needs
after a zero of CPU0 to start CPU1 without it.

### Heap

A client's call is: start, (for `free`, the unlocked test of the root,) wait for
`heap_lock`, the iterations of the walk, return. `walk` holds the locals of the
client in the critical section. Sizes are in units of `HEAP_SIZE_MIN`; the heap's
own is `HEAP_SIZE`, any power of two of them. `calloc`
is `malloc` followed by a `memset` of data that no property looks at.
`owned` is what the application holds: it frees each block once, and may call
`free(NULL)`.

### Fifos

`RingFifo` stands for three copies of one algorithm: `fifo32_*`
(`ipc.c:150-185`), `fifo8_*` (`ipc.c:190-225`) and the nonblocking operations of
`FIFO_t` (`ipc.c:66-79, 98-111, 137-142`); the map names the first for the steps,
the others for `Put`, `Get`, `Size` and `Next`. They differ in the type
of the elements, of which the model knows nothing, and in the type of a size:
`fifo8_size` returns a `uint8_t` (`ipc.c:220`), which truncates what is computed in 32
bits; `Lengths` is the modulus of that type. Blocking gets
retry the test. `MpmcFifo` takes a wait on a semaphore as one step that is
enabled while the semaphore can be taken; `fifo_get_spinlock` is the same code as
`fifo_get`. The ring's modulus is what the code makes it, the number of bytes, and
the array what `malloc` makes it: `room` bytes behind the header, in which the
indices of `InBlock` lie. A write at another index is not kept, and a read there
returns anything. `FitsBlock` says that all indices lie in the block. It holds for
the fifos that the kernel makes: `fifo_init(256, 1)` has 296 indices and, in a block
of 512 bytes, room for 472; `fifo_init(4, 1)` has 44 in a block of 128, with room for
88. It does not hold for elements of several bytes: 32 of 4 bytes make 168 indices,
or 672 bytes, in a block of 256 with room for 216.

## 3. What is checked

Passing runs (TLC, exhaustive):

| Run | Instance | Shows |
|---|---|---|
| `scheduler_one_core` | CPU0; two threads of high and two of low priority; one of each sleeps, one of each kills itself, all block on one semaphore | type, rings, counters, waiting lists, callers are RUNNING, priority order of waiters, no forgotten sleeper, no stack reused while in use; refinement of `RoundRobin` |
| `scheduler_two_cores` | both cores, three threads of one level and one of a lower, that run and suspend (`threadthrash` of `main.c`), fair interrupts | one core per thread, highest level selected, refinement of `RoundRobin`, no thread of the top level starves |
| `semaphores_one_core` | two equal threads and a higher one that sleeps, a mutex and a pool of two, the mutex nested in the pool as in `fifo_put`, threads never stop asking | mutual exclusion, tokens, no switch with the spinlock held, somebody always acquires |
| `heap_two_clients` | eight units, requests of 1 and 3 units, two clients, fair | tree exact whenever the lock is free; refinement of `Allocator`; every walk ends |
| `ring_fifo_spsc` | five slots, two values, lengths returned in two bits | refinement of `BoundedQueue`; a computed length is off by one lap at most, before it is truncated |
| `mpmc_fifo` | two producers, two consumers, two elements on three indices | refinement of `BoundedQueue`, semaphores count; no deadlock, provided that the semaphores lose no wake-up (`lost_wakeup` shows that they do) |
| `periodic` | three tasks of periods 6, 12 and 18 added at any time and in any order, a timer of 30 ticks, handlers that end within a tick | ring of the tasks intact, first task at the root with the alarm armed for it, tasks whose times are apart run on time, tasks keep running |
| `sleep_queue` | three threads that sleep for 3 or 7 ticks again and again, a timer of 20 ticks, a slack and a delay of one | an alarm always has a sleeper and a sleeper an alarm; nobody late, nobody early |
| `uart_echo` | lines of up to two characters, a software fifo of two bytes, a hardware fifo of three that interrupts when one byte is left | the terminal shows the line, no byte is lost at the hardware, only one step can stop the output, every output ends unless it has stopped |
| `multicore_boot` | mailboxes of four words with any contents, of which the ROM has at most three to read, the ROM at any place in its order at first | CPU1 starts with the right words, CPU0 leaves in step, CPU1 starts at last |

Why the bounds suffice to make the interesting cases happen. Two levels give a
higher and a lower one; two threads of a level a ring whose root can be taken and
the next one free, and a ring that becomes empty; three threads on two cores one
that must wait. In the semaphore run two threads wait for the mutex while a third
one takes it first, and the higher thread, which sleeps now and then, preempts
both in every window. A heap of three levels below the root has blocks with every
kind of neighbour, splits and coalescing over two levels, and fragmentation; a
request of 3 units is rounded up to half the heap. The fifos wrap around many
times; `Wrap` (2^32 in the code) is 16, more than twice the ring, or 8 in the UART,
where the ring has three slots; `Lengths` (2^8 in `fifo8_size`) is 4, less than the
ring, as for a `fifo8` of more than 256 slots. Three sleepers, or tasks, can be due
together, and one be inserted before, between and behind the others; the timers are longer than
the longest duration or period and wrap around in every run. Both fifos of the
UART become full and empty, and two bytes can leave the line during a call, which
is what strands a byte. Symmetry is used in `mpmc_fifo` alone, which has no liveness property.

Runs that show a disagreement between code and documentation (each violates one
property; see `findings` in `PROJECT.json` for the quotations):

| Run | What TLC finds |
|---|---|
| `stack_shared` | `schedule()` publishes a thread as ready before PendSV saved its context (`schedule.c:157`): both cores run on one stack |
| `lost_wakeup` | a signal between test and `sched_block` is lost (`semaphore.c:14`) |

Other observations made while modelling, without a run of their own:

- Scheduler. The window between the unlock of `sched_block` and its `schedule()`
  lets two cores run one thread (`schedule.c:243`; with `Sems` not empty in
  `SchedulerTwoCores.cfg`, `RunningHasOneCore` fails). PendSV pushes on the stack
  that `kill()` has freed (`schedule.c:364`). `sched_unblock` compares priorities
  with `>=` where a smaller number is a higher priority (`schedule.c:268`), so a
  signal preempts for a lower thread and not for a higher one. `schedule()` may run
  twice before one PendSV: in a handler that signals twice (`fifo_put` in the
  receive interrupt, `uart.c:59`) and in `kill()`, where the `free` of line 364 signals
  `heap_lock` before `schedule()` in line 369. By reading the code, the thread that
  the first call selected stays RUNNING, but the second call has overwritten
  `NextRunPt`: no core runs it, and its level counts it as running for ever. The
  model leaves this out.
- Semaphores. Two cores that call `b_signal` for one waiter at the same time both
  pass the test, and the second `sched_unblock` dereferences NULL (`semaphore.c:26`; by
  reading, the run has one core). A pair of lost wake-ups can
  stop every thread for ever when the mutex is nested in the pool: without its
  second disjunct `SomebodyAcquires` fails in `semaphores_one_core`.
- Heap. A block of the whole heap is overwritten by the next `malloc`
  (`heap.c:50`, `:39`) and cannot be freed (`heap.c:97`).
- Fifos. `fifo_put_nonblock` with two producers loses elements (`ipc.c:70`; with
  `Producers` of two elements in `RingFifoSpsc.cfg`, `ImplementsQueue` fails). A
  length may be computed that no fifo has, a lap too long or too short
  (`ipc.c:182`; what remains true is `LengthOffByOneLap`), and that of a `fifo8` with
  256 elements is zero (`ipc.c:220`). `fifo_init` stores bytes as the modulus of the
  indices (`ipc.c:43`), so elements of several bytes are written behind the block:
  with `element_size` 2 and `room` 7 in `MpmcFifo.cfg`, `ImplementsQueue` fails, while
  `SemaphoresCount` holds.
- Sleep. `resume_tick` has 32 bits and is compared with the 64 bits of
  `get_raw_time() + 10` (`schedule.c:336`): once the timer's upper half is not zero,
  after 71.6 minutes, every further sleeper is woken 10 microseconds after the one
  before it. A thread whose time wraps around is put before all others
  (`schedule.c:294`), and one that sleeps again and again starves them. Without
  `firstLap`, `SleepsLongEnough` and `WakesInTime` fail.
- Periodic tasks. Tasks that come due within the time of a handler run late, and
  the alarm may be armed for a time that has passed, which stops all tasks for 71
  minutes (`periodic.c:40`); the tasks that `main.c:93-95` adds, of 1000, 3000 and
  4000 ms, come due together every 12 s. A task added with an earlier time than
  the root's is late, and the root early (`periodic.c:67`). Without `Apart` or
  without `ordered`, `ApartTasksOnTime` fails.
- UART. A byte put into the software fifo may get no interrupt (`uart.c:65-70`):
  after the test, the handler moves the last byte from the software fifo, and so many
  bytes leave the line that the level is at the trigger, or below it, before the
  put. Two are enough, however deep the hardware fifo (one raises the interrupt,
  one leaves after it), and at 115200 baud they take 174 microseconds, less than a
  timeslice. The output then stops for good: the next callers find the software
  fifo not empty and put their bytes behind the stranded one, until it is full and
  the caller polls at line 70 for ever. `OutputEnds` without its second disjunct
  fails in `uart_echo`; what holds is that nothing else stops the output
  (`StrandedOnlyByPut`). A caller that has masked interrupts spins for ever once the
  software fifo is full. `uart_in_string` writes its terminating zero one byte behind
  the array when the line fills it (`uart.c:105`; `interpreter.c:33-40` passes the size of
  the whole array).
- Start of CPU1. If a late echo arrives just after each drain, the loop begins
  again each time and never ends; hence the premise of `Cpu1Starts`.

The passing runs are in the configurations these do not affect: with two cores,
threads only run, suspend and create threads; heap requests are at most half the
heap; one producer for the lock-free fifo; a blocking fifo whose indices all lie in
its block; times before the first wrap-around where a property says so. Those
restrictions are the `Supported`, `HalfRequests`, `SingleUsers` and `FitsBlock`
predicates of the proofs, the premises `firstLap`, `ordered` and `Apart` of the
properties, and the constants of the `.cfg` files.

Fairness. SysTick is a periodic hardware interrupt, a pending PendSV is taken as
soon as nothing masks it, and masked code runs to its end: weak fairness of these
actions. The timer interrupt competes with SysTick on the same core and is retried
by hardware, and the `schedule()` at the end of `sched_block` and `sleep` may be
preempted again and again: strong fairness. So is that of a thread in a semaphore
call, which goes on when it has a timeslice. Nothing obliges a thread to start a
call, except in `LoopingSemSpec`, the application of `semaphores_one_core`, which
says so. A heap client in the critical section goes on (weak fairness).
`WaitAcquires` is violated under `FairSemSpec`, by a behaviour in which every
thread that can run does. In the other modules all fairness is weak: the timer
counts; an interrupt that stays pending is taken and its handler, including a
periodic task's function, ends (they run masked); the thread in `uart_out_byte`
gets timeslices, and the UART sends what it has, at whatever pace; each core executes
its next instruction, and a WFE ends when its event is set. Nothing obliges a thread to sleep,
a task to be added or a key to be pressed.

## 4. What is proved

For every value of the constants that satisfies the named assumptions of the
modules (which TLC evaluates in the runs):

| Module | Theorems (property) | Further assumption |
|---|---|---|
| `SchedulerProofs` | `TypeOK`, `OneRing`, `CountsExact`, `RunningHasOneCore`, `CallerIsRunning`, `WaitingOnce`, `WaitersByPriority`, `SleeperHasAlarm` (invariants), `SelectsHighest`, `NoLiveStackReused` (action properties) | `Supported` |
| | `ImplementsRoundRobin` (refinement of `RoundRobin`) | `Supported` |
| | `SemaphoresUseScheduler` (`SemSpec => Spec`), `BinaryMutex` | none: any number of cores |
| | `TokensConserved`, `SpinlockNotSwitched` | `Supported` |
| | `CountingFindsWaiter`: the waiter that `c_signal` has seen is there when it is unblocked | none: any number of cores |
| `HeapProofs` | `HeapTypeOK`, `TreeExact`, `NoSharing` (no unit in two blocks that clients own), `ImplementsAllocator` (refinement of `Allocator`) | `HalfRequests` |
| `SleepQueueProofs` | `AlarmHasSleeper`, `WakesInTime`, `SleepsLongEnough` | none |
| `RingFifoProofs` | `ImplementsQueue` (refinement of `BoundedQueue`), `LengthOffByOneLap` | `SingleUsers` |
| | `UartTypeOK`, `EchoMatchesLine`, `EveryByteAccepted` (invariants), `StrandedOnlyByPut` (action property), `UartSpec => Spec` (so `ImplementsQueue` for `tx_fifo`) | `SingleUsers` |
| `MpmcFifoProofs` | `SemaphoresCount` | none |
| | `ImplementsQueue` (refinement of `BoundedQueue`) | `FitsBlock` |
| `PeriodicProofs` | `RingIntact`, `FirstIsRoot` | none |
| | `ApartTasksOnTime` | `ShortTasks` |
| `BootProofs` | `StartsInKernel`, `LeavesInStep` | `FewLeftover` |

`Supported` is: CPU0 alone with every call, or at most two cores on which threads
only run, suspend and create threads (and use no semaphore, so for the semaphores
it means one core). `stack_shared` shows why the rest is not provable. At most two
cores because `schedule()` looks at no more than two threads of a ring.
`SingleUsers` is at most one producer and one consumer, which the comments of
`ipc.c` ask for; in the UART these are the thread and the handler. `FitsBlock`: every index of the
blocking fifo lies in its block, as for the fifos of the kernel (section 2).
`HalfRequests`: no request is for more than half the heap (a block
of the whole heap is taken for a free tree, see the observations above).
`ShortTasks`: every period is longer than the time a handler may take. `FewLeftover`
is `Leftover <= 3`.

Scheduler. None of the properties is inductive alone. A counter that reads
zero tells `dequeue_thread` that the ring is empty only if counters count states
(`CountsExact`); the ring operations keep a ring only if the thread removed is a
member (`CallerIsRunning`), which needs the control state of its core
(`Control`: with no switch pending, a thread in its own code is RUNNING; a pending
switch leads to a RUNNING thread); that the thread after a taken root is ready
needs that RUNNING threads have distinct cores and that there are at most two
(`RunningHasOneCore`), and for `init_scheduler`, which does not look at the state
of the root, `BootRoot`. Enqueueing keeps a ring one ring (`Connected`) only if
the thread was outside it, hence `WaitingOnce`. `AlarmsDue` strengthens
`SleeperHasAlarm`, `Stacks` is what `NoLiveStackReused` needs, `Contexts` rules out
returning into a window on two cores, `CPU0First` says the other core starts
later. `IInv` is their conjunction; the module proves `Init => IInv`, then one
lemma per conjunct and operation (enqueue, dequeue, preempt, pick), then one per
action, and the theorems from these. Connectedness is stated without recursion
(no proper subset is closed under `next_tcb`), so it can be proved by set
reasoning.

The refinement of `RoundRobin` maps a ring to the sequence that lists it once each
from the root along the links (`QueueOf`, a choice: a recursive definition could
not be reasoned about). `OrderIs` says that there is at most one such sequence, and
`AllListed`, a second invariant, that there is one for every level. Then
`enqueue_thread` puts a thread at the front of the sequence, `dequeue_thread`
turns it so that it begins behind the thread removed, and `schedule` takes the
first of it, which it moves to the end, or the second (`ListsEnter`, `ListsLeave`,
`ListsAdvance`); that these are the steps of `RoundRobin` needs `IInv`: a level
whose counter reads zero has no ready thread, and of two threads one is free.

Semaphores. `SemInv` says that nobody waits for what it holds and that value and
holders add up; it is inductive from the atomic regions of `semaphore.c` alone, so
mutual exclusion needs nothing of the scheduler. The other properties use that
every step of `SemSpec` is one of `Spec`, and so the scheduler's invariant: a
thread that calls is the one that runs (`TokensConserved` must see the decrement
of the thread that was blocked), and a core in a signal stays masked
(`InSignalMasked`), so it does not switch. `CountingFindsWaiter` needs none of that:
`c_signal` holds `COUNTING_SEMA4` from its test to the removal (`CountingLocked`), so
a removal by anybody else would be that of a second `c_signal`; it is for any number
of cores. For `b_signal` nothing of the kind is claimed.

Heap. A node stands for an interval of units, and the tree is right if what is
above a leaf or a branch is a branch and a leaf has the address of its interval
(`TreeOK`); disjointness is then geometry: intervals of two nodes overlap only if
one is above the other. `HeapInv` says what a walk knows. It has been below
`Reached` and never beyond, so each kind of walk has its own history: `malloc`
that every place of its size that it passed is taken at least in part, which is
why it fails only if nothing fits; `find_ptr` that the block is not among what it
passed, which is why it finds it; `heap_stats` that its count is what is in use
there. Every branch has a child but for the one that `free` is about to coalesce
(`WalkOK`), and the leaves are the blocks that clients own or are about to free
(`BlocksOK`). In the refinement every call takes effect in one step of the walk.

Sleep queue. The bound on lateness is not inductive by itself. `SleepInv` adds:
the list is sorted and `left` is the time to `resume_tick`; the alarm matches no
earlier than the first sleeper is due (`NotEarly`); with `Deadline`, the latest
time at which the first sleeper is woken, either the alarm was armed a moment
ago or it is armed for exactly that sleeper, and the i-th sleeper is served in
its turn, `(i - 1) * (Slack + Delay)` after that and within `Late` of its time
(`InTime`). A thread that joins the list pushes only those back that are due
later than `Slack + Delay` from now, which have enough time left because the list
is no longer than the number of threads. `AlarmSpare` (an alarm armed while the
interrupt is pending has a second sleeper) is what `AlarmHasSleeper` needs.

Fifos. `RingInv` says what a user past its test knows (a free slot, or an element)
and where the element is that it carries; the index of one side moves only in the
direction that keeps it true for the other. `MpmcInv` says that one user at a time
is between `b_wait` and `b_signal` and that elements and room are what the counting
semaphores say but for the calls in progress (`Counts`), which gives a user past
`c_wait` its slot or element; both are about indices and need no array. That the
element is what was put needs `FitsBlock`. The refinements map the ring to the sequence of its
elements (`Content`).

UART. Every step of the driver is a step of the ring or leaves it alone, so
`RingInv` holds under it. `UartInv` adds what the two sides know of each other in
the midst of their calls. A size of zero means that the fifo is empty and stays so
until the thread puts: while the thread computes the size, the handler may pass its
index but not overtake it (`ThreadOK`), though the same computation may otherwise
be wrong by a lap. So a byte is written directly only if both the software fifo and
the handler's hand are empty, and it overtakes none. Then what is `OnTheWay` to the
terminal changes at its two ends only, where the line editor adds bytes and
the line removes them; and a screen that will display the line displays it
after the bytes that the editor adds for a character, an erasure or a new line
(`DisplayChar`, `DisplayErase`, `DisplayNewLine`). `EveryByteAccepted` is part of the invariant: a thread that
is about to write directly has seen `tx_fifo` empty, so a handler that comes in
between has nothing to write, and no thread comes between test and write of the
handler. For `StrandedOnlyByPut`
each step is compared with `Stranded`: a handler stops only at an empty `tx_fifo` or a
full hardware fifo, whose level is above the trigger; the byte that takes the level
to the trigger raises the interrupt; and with a byte stranded `tx_fifo` is not
empty, so the thread writes nothing directly and nothing can raise it again.

Periodic tasks. `PeriodicInv` is inductive: without a task there is no alarm
(`IdleOK`), the tasks added are one ring that contains the root (`RingOK`, stated
like the scheduler's rings by closed subsets), and while `ordered` holds the ring is
sorted and the alarm is armed for its first task (`FirstIsRoot`). The place the
search finds is between a task due no later and one due later, or the root
(`InsertBefore` keeps the ring sorted). `Punctual` adds that the first task is not
due yet or has been due since its alarm. It is kept when a handler ends if the
next task is not due within `Delay`: another one because their times are apart,
the same one because of `ShortTasks`; with a period that is not longer than a
handler the alarm is armed for a time that has passed.

Start of CPU1. CPU0 reads every word that it has sent or that was on its way
before, because each one is echoed: `to0`, the echo and `to1` are one queue
(`Loop`). The end of it is what CPU0 has sent since it began (`AgreesOK`); words
before these are surplus and delay the answers. There are at most four, the
one that the ROM is echoing at first and three that it has still to read
(`LagOK`), and an answer that is late by one to four words differs from the word
it is compared with. So CPU0 begins again before it has sent the entry point, the
sixth word; the ROM, which needs four words after a zero, does not leave before
(`StaysOK`), and when the sixth word is sent there is no surplus left and the ROM
is where CPU0 thinks it is (`ExactOK`).

`SharedLemmas` has what more than one of these proofs uses. Where the code follows
links, the models say what the place is that it finds, or which sequence lists the
links, instead of a recursive definition. The one recursive function in a proof is
`ShowAll`, what the terminal makes of a sequence of bytes: that its values exist
and that it may be computed from either end of the sequence (`ShowFirst`,
`ShowLast`) is shown by taking a least counterexample (`LeastNat`), since the
library's induction theorems are outside the prover's reach.

Only model-checked: liveness (outside the prover's reach: `ENABLED`) and the
disagreements. No theorem covers two cores that use semaphores, sleep or kill
threads, where `stack_shared` applies.

## 5. Plan

1. The receive path of the UART over scheduler and semaphores: `fifo_put` in a
   handler, which may block the interrupted thread and may call `schedule()` twice
   before one PendSV. For that `NextRunPt` must be written while a switch is
   pending, and what is left of `RunningHasOneCore` and `TopIsNotStarved` be stated.
2. `LockOrder` and `Lifecycle`: nested locks (`add_thread` and
   `add_periodic_task` call `malloc` under a spinlock), error returns with a lock
   held, `kill` waiting for `heap_lock` when DEAD, or signalling it.
3. Proofs: the invariants of these modules, over the ones that are here.

Not modelled: GPIO, clocks, boot loader, register map and interpreter (no state or
no concurrency), idle-time statistics, the benchmark programs, and of the parts
that are modelled what their subsection above excludes.

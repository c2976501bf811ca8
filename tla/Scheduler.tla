------------------------------ MODULE Scheduler ------------------------------
(***************************************************************************)
(* The thread scheduler of os/schedule.c with the PendSV context switch of *)
(* os/interrupts.c.  Every access to the shared schedule happens between   *)
(* lock(SCHEDULER) and unlock(SCHEDULER) with interrupts masked, so one    *)
(* such region is one action; what the code does between two regions (the  *)
(* unlock of a blocking call and the schedule() that follows it, schedule()*)
(* and the PendSV that acts on it, the two halves of kill()) is            *)
(* interleaved with the other core and, where interrupts are enabled, with *)
(* the interrupt handlers of the same core.                                *)
(*                                                                         *)
(* Threads make any legal sequence of calls (Sleepers, Mortals and Sems    *)
(* say which calls the application uses).  Module Semaphores restricts     *)
(* them to the calls of os/semaphore.c.                                    *)
(*                                                                         *)
(* Data abstraction: a TCB and its stack are one element of Threads, whose *)
(* priority is the one add_thread always gives it; the NULL-terminated     *)
(* lists of sleeping and blocked threads are sequences; wake-up times are  *)
(* abstracted to the position the sleeper takes in the sleep list.         *)
(*                                                                         *)
(* Left out: a second schedule() before the PendSV of the first.  The code *)
(* has it in a handler that signals twice (fifo_put in uart_rx_interrupt)  *)
(* and in kill(), whose free() signals heap_lock before kill() schedules.  *)
(* The thread selected first would stay RUNNING without a core.            *)
(***************************************************************************)
EXTENDS Naturals, Sequences, SequencesExt, FiniteSets

CONSTANTS
  Cores,       \* the processors that run the scheduler
  BootCore,    \* CPU0: runs main(), takes the timer and UART interrupts
  Threads,     \* the TCBs add_thread can allocate
  LevelCount,  \* PRIORITY_LVL_CNT
  Priority,    \* the priority argument each thread is created with
  Sleepers,    \* the threads that call sleep()
  Mortals,     \* the threads that call kill()
  Sems,        \* the semaphores threads block on
  Idle,        \* the idle TCB of a core
  BlackHole,   \* RunPtBlackHole
  NULL

Levels == 0 .. LevelCount - 1

(* The program that runs on the kernel is well formed. *)
ASSUME ConstantsAssumption ==
  /\ BootCore \in Cores
  /\ LevelCount \in Nat \ {0}
  /\ IsFiniteSet(Threads)
  /\ Priority \in [Threads -> Levels]
  /\ Sleepers \subseteq Threads
  /\ Mortals \subseteq Threads
  /\ \A x \in {Idle, BlackHole, NULL} : x \notin Threads
  /\ Idle # BlackHole /\ Idle # NULL /\ BlackHole # NULL

VARIABLES
  state,                 \* TCB.state; "FREE" while the TCB is not allocated
  next_tcb,              \* TCB.next_tcb of the threads of a schedule ring
  prev_tcb,              \* TCB.prev_tcb
  ThreadSchedule,        \* the root of each priority's ring
  ActivePriorityCount,   \* threads of a level that wait for a core
  RunningPriorityCount,  \* threads of a level that are running
  bthreads,              \* Sema4.bthreads_root: the list of each semaphore
  SleepSchedule,         \* the list at SleepScheduleRoot
  armed,                 \* alarm 0 of the system timer is armed
  timerIrq,              \* TIMER_IRQ_0 is pending on BootCore
  RunPt,                 \* the TCB a core is running
  NextRunPt,             \* the TCB PendSV will switch the core to
  pendsv,                \* PendSV is pending on the core
  SP,                    \* the TCB whose stack the core executes on
  pc,                    \* where the code running on the core is
  ctx,                   \* the pc saved in the context of a thread
  resched                \* sched_unblock asked its caller for schedule()

ring == <<next_tcb, prev_tcb, ThreadSchedule>>
counts == <<ActivePriorityCount, RunningPriorityCount>>
timer == <<SleepSchedule, armed, timerIrq>>
switch == <<RunPt, NextRunPt, pendsv, SP>>
flow == <<pc, ctx, resched>>
vars == <<state, ring, counts, bthreads, timer, switch, flow>>

ThreadStates == {"FREE", "ACTIVE", "RUNNING", "SLEEPING", "BLOCKED", "DEAD"}

(***************************************************************************)
(* Where the code of a core is:                                            *)
(*   off, main, boot   before init_scheduler has started the core          *)
(*   task              in a thread (or the idle thread), interrupts enabled*)
(*   yield             in sched_block or sleep, after the unlock and before*)
(*                     schedule(), interrupts enabled                      *)
(*   kill, killed      in kill(), interrupts masked: the thread is dequeued*)
(*                     / its memory is freed                               *)
(***************************************************************************)
PCs == {"off", "main", "boot", "task", "yield", "kill", "killed"}

-----------------------------------------------------------------------------
(* The schedule: one circular doubly linked list per priority level.       *)

(* Mutant of EnqueueThread: the last thread of the ring is not linked to t.*)
EnqueueUnlinked(t) ==
  LET p == Priority[t]
      root == ThreadSchedule[p]
  IN  /\ IF root = NULL
         THEN /\ next_tcb' = [next_tcb EXCEPT ![t] = t]
              /\ prev_tcb' = [prev_tcb EXCEPT ![t] = t]
         ELSE /\ next_tcb' = [next_tcb EXCEPT ![t] = root]
              /\ prev_tcb' = [prev_tcb EXCEPT ![t] = prev_tcb[root], ![root] = t]
      /\ ThreadSchedule' = [ThreadSchedule EXCEPT ![p] = t]
      /\ state' = [state EXCEPT ![t] = "ACTIVE"]
      /\ ActivePriorityCount' = [ActivePriorityCount EXCEPT ![p] = @ + 1]
      /\ UNCHANGED RunningPriorityCount

(* enqueue_thread: t becomes the root of its ring and is ACTIVE. *)
EnqueueThread(t) ==
  LET p == Priority[t]
      root == ThreadSchedule[p]
  IN  /\ IF root = NULL
         THEN /\ next_tcb' = [next_tcb EXCEPT ![t] = t]
              /\ prev_tcb' = [prev_tcb EXCEPT ![t] = t]
         ELSE /\ next_tcb' = [next_tcb EXCEPT ![t] = root, ![prev_tcb[root]] = t]
              /\ prev_tcb' = [prev_tcb EXCEPT ![t] = prev_tcb[root], ![root] = t]
      /\ ThreadSchedule' = [ThreadSchedule EXCEPT ![p] = t]
      /\ state' = [state EXCEPT ![t] = "ACTIVE"]
      /\ ActivePriorityCount' = [ActivePriorityCount EXCEPT ![p] = @ + 1]
      /\ UNCHANGED RunningPriorityCount

(* dequeue_thread, and the state its caller gives the thread.  A thread    *)
(* that is not in a ring has next_tcb = NULL: the write through it reaches *)
(* no TCB.                                                                 *)
DequeueThread(t, newState) ==
  LET p == Priority[t]
      running == IF state[t] = "RUNNING" THEN RunningPriorityCount[p] - 1
                                         ELSE RunningPriorityCount[p]
      after == next_tcb[t]
      before == prev_tcb[t]
  IN  /\ RunningPriorityCount' = [RunningPriorityCount EXCEPT ![p] = running]
      /\ IF ActivePriorityCount[p] = 0 /\ running = 0
         THEN /\ ThreadSchedule' = [ThreadSchedule EXCEPT ![p] = NULL]
              /\ next_tcb' = [next_tcb EXCEPT ![t] = NULL]
              /\ UNCHANGED prev_tcb
         ELSE /\ ThreadSchedule' = [ThreadSchedule EXCEPT ![p] = after]
              /\ next_tcb' = [next_tcb EXCEPT ![before] = after, ![t] = NULL]
              /\ prev_tcb' = [prev_tcb EXCEPT ![after] = before]
      /\ state' = [state EXCEPT ![t] = newState]
      /\ UNCHANGED ActivePriorityCount

(* The first half of schedule(): a RUNNING thread goes back to ACTIVE. *)
Preempted(c) == RunPt[c] \in Threads /\ state[RunPt[c]] = "RUNNING"

StateAfterPreempt(c) ==
  IF Preempted(c) THEN [state EXCEPT ![RunPt[c]] = "ACTIVE"] ELSE state

(* Mutant of ActiveAfterPreempt: the preempted thread is not counted.      *)
ActiveUncounted(c) == ActivePriorityCount

ActiveAfterPreempt(c) ==
  IF Preempted(c)
  THEN [ActivePriorityCount EXCEPT ![Priority[RunPt[c]]] = @ + 1]
  ELSE ActivePriorityCount

(* Mutant of RunningAfterPreempt: no test of the state.                    *)
RunningUntested(c) ==
  IF RunPt[c] \in Threads
  THEN [RunningPriorityCount EXCEPT ![Priority[RunPt[c]]] = @ - 1]
  ELSE RunningPriorityCount

RunningAfterPreempt(c) ==
  IF Preempted(c)
  THEN [RunningPriorityCount EXCEPT ![Priority[RunPt[c]]] = @ - 1]
  ELSE RunningPriorityCount

(* The level schedule() selects from: the first with a nonzero count. *)
IsHighest(p, active) == active[p] # 0 /\ \A q \in Levels : q < p => active[q] = 0

(* Mutants of SchedulePick: the root does not advance; the level is chosen *)
(* before the preempted thread is put back; the root advances past a thread*)
(* another core runs.                                                      *)
PickMutant(c, p, active, newRoot) ==
  LET st == StateAfterPreempt(c)
      root == ThreadSchedule[p]
      t == IF st[root] = "RUNNING" THEN next_tcb[root] ELSE root
  IN  /\ IsHighest(p, active)
      /\ NextRunPt' = [NextRunPt EXCEPT ![c] = t]
      /\ ThreadSchedule' = [ThreadSchedule EXCEPT ![p] = newRoot]
      /\ state' = [st EXCEPT ![t] = "RUNNING"]
      /\ ActivePriorityCount' = [ActiveAfterPreempt(c) EXCEPT ![p] = @ - 1]
      /\ RunningPriorityCount' = [RunningAfterPreempt(c) EXCEPT ![p] = @ + 1]

PickRootStays(c, p) == PickMutant(c, p, ActiveAfterPreempt(c), ThreadSchedule[p])

PickBeforePreempt(c, p) ==
  PickMutant(c, p, ActivePriorityCount, next_tcb[ThreadSchedule[p]])

PickSkipsTaken(c, p) ==
  PickMutant(c, p, ActiveAfterPreempt(c), next_tcb[ThreadSchedule[p]])

(* The second half of schedule(): NextRunPt is the root of the highest     *)
(* level, or the thread after it when another core runs the root.          *)
SchedulePick(c, p) ==
  LET st == StateAfterPreempt(c)
      root == ThreadSchedule[p]
      taken == st[root] = "RUNNING"
      t == IF taken THEN next_tcb[root] ELSE root
  IN  /\ IsHighest(p, ActiveAfterPreempt(c))
      /\ NextRunPt' = [NextRunPt EXCEPT ![c] = t]
      /\ ThreadSchedule' = IF taken THEN ThreadSchedule
                           ELSE [ThreadSchedule EXCEPT ![p] = next_tcb[root]]
      /\ state' = [st EXCEPT ![t] = "RUNNING"]
      /\ ActivePriorityCount' = [ActiveAfterPreempt(c) EXCEPT ![p] = @ - 1]
      /\ RunningPriorityCount' = [RunningAfterPreempt(c) EXCEPT ![p] = @ + 1]

ScheduleIdle(c) ==
  /\ \A p \in Levels : ActiveAfterPreempt(c)[p] = 0
  /\ NextRunPt' = [NextRunPt EXCEPT ![c] = Idle]
  /\ state' = StateAfterPreempt(c)
  /\ ActivePriorityCount' = ActiveAfterPreempt(c)
  /\ RunningPriorityCount' = RunningAfterPreempt(c)
  /\ UNCHANGED ThreadSchedule

(* schedule(): select, then trigger PendSV. *)
Schedule(c) ==
  /\ ScheduleIdle(c) \/ \E p \in Levels : SchedulePick(c, p)
  /\ pendsv' = [pendsv EXCEPT ![c] = TRUE]
  /\ UNCHANGED <<next_tcb, prev_tcb, bthreads, timer, RunPt, SP, ctx>>

-----------------------------------------------------------------------------
(* Interrupts are enabled on core c and none of its code is in progress:   *)
(* PendSV is the first exception to be taken after schedule().  (A handler *)
(* makes one call here; the code's may signal, and schedule(), twice.)     *)
Ready(c) == pc[c] \in {"task", "yield"} /\ ~pendsv[c] /\ ~resched[c]

(* The thread of core c runs its own code and may call the kernel. *)
InThread(c) == Ready(c) /\ pc[c] = "task" /\ RunPt[c] \in Threads

Goto(c, l) == pc' = [pc EXCEPT ![c] = l]

(* systick_handler, and suspend() called by the thread. *)
SysTick(c) == Ready(c) /\ Schedule(c) /\ UNCHANGED <<pc, resched>>

(* Mutant of Yield: sched_block and sleep return without schedule().       *)
YieldReturns(c) ==
  /\ Ready(c) /\ pc[c] = "yield"
  /\ Goto(c, "task")
  /\ UNCHANGED <<state, ring, counts, bthreads, timer, switch, ctx, resched>>

(* The schedule() at the end of sched_block and sleep. *)
Yield(c) ==
  /\ Ready(c) /\ pc[c] = "yield"
  /\ Schedule(c)
  /\ Goto(c, "task")
  /\ UNCHANGED resched

(* The schedule() of b_signal and c_signal when sched_unblock returned true.*)
Resched(c) ==
  /\ resched[c]
  /\ Schedule(c)
  /\ resched' = [resched EXCEPT ![c] = FALSE]
  /\ UNCHANGED pc

(* pendSV_handler: save the context in *RunPt, load that of *NextRunPt. *)
PendSV(c) ==
  LET t == NextRunPt[c]
      saved == IF RunPt[c] \in Threads THEN [ctx EXCEPT ![RunPt[c]] = pc[c]] ELSE ctx
  IN  /\ pendsv[c] /\ ~resched[c] /\ pc[c] \in {"task", "yield"}
      /\ pendsv' = [pendsv EXCEPT ![c] = FALSE]
      /\ ctx' = saved
      /\ Goto(c, IF t \in Threads THEN saved[t] ELSE "task")
      /\ RunPt' = [RunPt EXCEPT ![c] = t]
      /\ SP' = [SP EXCEPT ![c] = t]
      /\ UNCHANGED <<state, ring, counts, bthreads, timer, NextRunPt, resched>>

-----------------------------------------------------------------------------
(* The kernel calls of a thread, one region of the SCHEDULER lock each.    *)

(* add_thread, by main before init_scheduler or by a thread, with a legal  *)
(* priority and memory to allocate: without memory nothing changes.        *)
AddThread(c, t) ==
  /\ pc[c] = "main" \/ InThread(c)
  /\ state[t] = "FREE"
  /\ EnqueueThread(t)
  /\ ctx' = [ctx EXCEPT ![t] = "task"]
  /\ UNCHANGED <<bthreads, timer, switch, pc, resched>>

(* Mutant of BlockSlots: first come, first served.                         *)
BlockLast(list, pri) == {Len(list)}

(* How many waiters sched_block leaves in front of a thread of priority    *)
(* pri: it is inserted before the first one of a larger priority number.   *)
BlockSlots(list, pri) ==
  {k \in 0 .. Len(list) : /\ k = Len(list) \/ pri < Priority[list[k + 1]]
                          /\ \A i \in 1 .. k : ~ (pri < Priority[list[i]])}

(* sched_block up to its unlock. *)
SchedBlock(c, s) ==
  LET t == RunPt[c]
  IN  /\ InThread(c)
      /\ DequeueThread(t, "BLOCKED")
      /\ \E k \in BlockSlots(bthreads[s], Priority[t]) :
           bthreads' = [bthreads EXCEPT ![s] = InsertAt(@, k + 1, t)]
      /\ Goto(c, "yield")
      /\ UNCHANGED <<timer, switch, ctx, resched>>

(* Mutant of SchedUnblock: the waiter stays in the list.                   *)
UnblockKeeps(c, s) ==
  /\ InThread(c) \/ (Ready(c) /\ c = BootCore)
  /\ bthreads[s] # <<>>
  /\ EnqueueThread(Head(bthreads[s]))
  /\ UNCHANGED <<bthreads, timer, switch, flow>>

(* sched_unblock, whose caller has seen a waiter: by a thread, or by an    *)
(* interrupt handler of BootCore.  The result asks the caller to schedule. *)
SchedUnblock(c, s) ==
  LET t == Head(bthreads[s])
  IN  /\ InThread(c) \/ (Ready(c) /\ c = BootCore)
      /\ bthreads[s] # <<>>
      /\ bthreads' = [bthreads EXCEPT ![s] = Tail(@)]
      /\ EnqueueThread(t)
      /\ resched' = [resched EXCEPT ![c] =
           Priority[t] >= IF RunPt[c] \in Threads THEN Priority[RunPt[c]]
                                                  ELSE LevelCount]
      /\ UNCHANGED <<timer, switch, pc, ctx>>

(* sleep up to its unlock: a thread that wakes before all others arms the  *)
(* timer.                                                                  *)
Sleep(c) ==
  LET t == RunPt[c]
  IN  /\ InThread(c)
      /\ t \in Sleepers
      /\ DequeueThread(t, "SLEEPING")
      /\ \E k \in 0 .. Len(SleepSchedule) :
           /\ SleepSchedule' = InsertAt(SleepSchedule, k + 1, t)
           /\ armed' = (armed \/ k = 0)
      /\ Goto(c, "yield")
      /\ UNCHANGED <<timerIrq, bthreads, switch, ctx, resched>>

(* The alarm of the system timer matches: it disarms and interrupts. *)
AlarmMatch ==
  /\ armed
  /\ armed' = FALSE
  /\ timerIrq' = TRUE
  /\ UNCHANGED <<state, ring, counts, bthreads, SleepSchedule, switch, flow>>

(* Mutant of Unsleep: the timer is not armed for the next sleeper.         *)
UnsleepUnarmed ==
  /\ Ready(BootCore)
  /\ timerIrq
  /\ timerIrq' = FALSE
  /\ SleepSchedule # <<>>
  /\ SleepSchedule' = Tail(SleepSchedule)
  /\ UNCHANGED armed
  /\ EnqueueThread(Head(SleepSchedule))
  /\ UNCHANGED <<bthreads, switch, flow>>

(* timer0_interrupt and unsleep: the first sleeper is enqueued and the     *)
(* timer armed for the next one.                                           *)
Unsleep ==
  /\ Ready(BootCore)
  /\ timerIrq
  /\ timerIrq' = FALSE
  /\ SleepSchedule # <<>>
  /\ SleepSchedule' = Tail(SleepSchedule)
  /\ armed' = (armed \/ Tail(SleepSchedule) # <<>>)
  /\ EnqueueThread(Head(SleepSchedule))
  /\ UNCHANGED <<bthreads, switch, flow>>

(* kill up to its unlock. *)
Kill(c) ==
  /\ InThread(c)
  /\ RunPt[c] \in Mortals
  /\ DequeueThread(RunPt[c], "DEAD")
  /\ Goto(c, "kill")
  /\ UNCHANGED <<bthreads, timer, switch, ctx, resched>>

(* Mutant of KillFree: interrupts are enabled before the switch.           *)
KillFreeUnmasked(c) ==
  /\ pc[c] = "kill"
  /\ state' = [state EXCEPT ![RunPt[c]] = "FREE"]
  /\ Goto(c, "task")
  /\ UNCHANGED <<ring, counts, bthreads, timer, switch, ctx, resched>>

(* kill: free the stack and the TCB, point RunPt at the stub.  (That free()*)
(* waits for heap_lock and signals it, and may call schedule() for that, is*)
(* left out.)                                                              *)
KillFree(c) ==
  /\ pc[c] = "kill"
  /\ state' = [state EXCEPT ![RunPt[c]] = "FREE"]
  /\ RunPt' = [RunPt EXCEPT ![c] = BlackHole]
  /\ Goto(c, "killed")
  /\ UNCHANGED <<ring, counts, bthreads, timer, NextRunPt, pendsv, SP, ctx, resched>>

(* kill: schedule(), then interrupts are enabled again. *)
KillSchedule(c) ==
  /\ pc[c] = "killed"
  /\ Schedule(c)
  /\ Goto(c, "task")
  /\ UNCHANGED resched

-----------------------------------------------------------------------------
(* Start of the cores.                                                     *)

(* main calls init_scheduler, which wakes the other core. *)
StartScheduler ==
  /\ pc[BootCore] = "main"
  /\ pc' = [c \in Cores |-> "boot"]
  /\ UNCHANGED <<state, ring, counts, bthreads, timer, switch, ctx, resched>>

(* The locked part of init_scheduler and the jump into the first thread. *)
Launch(c, t) ==
  /\ Goto(c, "task")
  /\ RunPt' = [RunPt EXCEPT ![c] = t]
  /\ SP' = [SP EXCEPT ![c] = t]
  /\ UNCHANGED <<next_tcb, prev_tcb, bthreads, timer, NextRunPt, pendsv, ctx, resched>>

(* Mutant of LaunchThread: the root does not advance.                      *)
LaunchRootStays(c, p) ==
  LET t == ThreadSchedule[p]
  IN  /\ pc[c] = "boot"
      /\ IsHighest(p, ActivePriorityCount)
      /\ state' = [state EXCEPT ![t] = "RUNNING"]
      /\ ActivePriorityCount' = [ActivePriorityCount EXCEPT ![p] = @ - 1]
      /\ RunningPriorityCount' = [RunningPriorityCount EXCEPT ![p] = @ + 1]
      /\ Launch(c, t)
      /\ UNCHANGED ThreadSchedule

LaunchThread(c, p) ==
  LET t == ThreadSchedule[p]
  IN  /\ pc[c] = "boot"
      /\ IsHighest(p, ActivePriorityCount)
      /\ ThreadSchedule' = [ThreadSchedule EXCEPT ![p] = next_tcb[t]]
      /\ state' = [state EXCEPT ![t] = "RUNNING"]
      /\ ActivePriorityCount' = [ActivePriorityCount EXCEPT ![p] = @ - 1]
      /\ RunningPriorityCount' = [RunningPriorityCount EXCEPT ![p] = @ + 1]
      /\ Launch(c, t)

LaunchIdle(c) ==
  /\ pc[c] = "boot"
  /\ \A p \in Levels : ActivePriorityCount[p] = 0
  /\ Launch(c, Idle)
  /\ UNCHANGED <<state, ThreadSchedule, counts>>

Init ==
  /\ state = [t \in Threads |-> "FREE"]
  /\ next_tcb = [t \in Threads |-> NULL]
  /\ prev_tcb = [t \in Threads |-> NULL]
  /\ ThreadSchedule = [p \in Levels |-> NULL]
  /\ ActivePriorityCount = [p \in Levels |-> 0]
  /\ RunningPriorityCount = [p \in Levels |-> 0]
  /\ bthreads = [s \in Sems |-> <<>>]
  /\ SleepSchedule = <<>>
  /\ armed = FALSE
  /\ timerIrq = FALSE
  /\ RunPt = [c \in Cores |-> NULL]
  /\ NextRunPt = [c \in Cores |-> NULL]
  /\ pendsv = [c \in Cores |-> FALSE]
  /\ SP = [c \in Cores |-> NULL]
  /\ pc = [c \in Cores |-> IF c = BootCore THEN "main" ELSE "off"]
  /\ ctx = [t \in Threads |-> "task"]
  /\ resched = [c \in Cores |-> FALSE]

CoreStep(c) ==
  \/ LaunchIdle(c) \/ \E p \in Levels : LaunchThread(c, p)
  \/ SysTick(c) \/ Yield(c) \/ Resched(c) \/ PendSV(c)
  \/ \E t \in Threads : AddThread(c, t)
  \/ \E s \in Sems : SchedBlock(c, s) \/ SchedUnblock(c, s)
  \/ Sleep(c) \/ Kill(c) \/ KillFree(c) \/ KillSchedule(c)

Next ==
  \/ StartScheduler
  \/ \E c \in Cores : CoreStep(c)
  \/ AlarmMatch
  \/ Unsleep

Spec == Init /\ [][Next]_vars

(* SysTick interrupts every timeslice, a pending exception is taken once   *)
(* nothing masks it, and masked code runs to its end.  Nothing obliges a   *)
(* thread to call anything.                                                *)
Fairness ==
  /\ WF_vars(StartScheduler)
  /\ \A c \in Cores :
       /\ WF_vars(LaunchIdle(c) \/ \E p \in Levels : LaunchThread(c, p))
       /\ WF_vars(SysTick(c))
       /\ WF_vars(Yield(c))
       /\ WF_vars(Resched(c))
       /\ WF_vars(PendSV(c))
       /\ WF_vars(KillFree(c))
       /\ WF_vars(KillSchedule(c))
  /\ WF_vars(AlarmMatch)
  /\ SF_vars(Unsleep)

FairSpec == Spec /\ Fairness
=============================================================================

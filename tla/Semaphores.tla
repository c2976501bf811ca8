------------------------------ MODULE Semaphores ------------------------------
(***************************************************************************)
(* os/semaphore.c on top of the scheduler: threads use binary semaphores   *)
(* as mutexes and counting semaphores as pools of resources.  Module       *)
(* Scheduler supplies sched_block, sched_unblock and schedule(); this one  *)
(* says when the code calls them, what it tests first, and which locks it  *)
(* holds and which interrupts it masks in between.                         *)
(***************************************************************************)
EXTENDS Scheduler

CONSTANTS
  BinarySems,    \* used with b_wait and b_signal
  InitialValue,  \* the value init_semaphore gives each semaphore
  Nested         \* <<r, s>>: a thread may wait for s while it holds r

CountingSems == Sems \ BinarySems

ASSUME SemaphoresAssumption ==
  /\ BinarySems \subseteq Sems
  /\ InitialValue \in [Sems -> Nat]
  /\ Nested \subseteq Sems \X Sems
  /\ \A s \in BinarySems : InitialValue[s] = 0
  /\ NULL \notin Cores

VARIABLES
  value,     \* Sema4.value: of a binary semaphore, 1 while it is taken
  held,      \* the semaphores a thread has waited for and not signalled
  call,      \* the wait a thread is in: <<"retry", s>>, <<"block", s>> or None
  signal,    \* the signal a core is in, interrupts masked: <<step, s>> or None
  counting   \* the core in c_signal, which owns spinlock COUNTING_SEMA4, or NULL

semVars == <<value, held, call, signal, counting>>
allVars == <<vars, semVars>>

None == <<>>

(* The thread of core c runs its own code and is in no signal. *)
Caller(c) == InThread(c) /\ signal[c] = None

(* Thread t calls wait on s, or is back in the loop of the wait. *)
Waits(t, s) ==
  \/ call[t] = None /\ s \notin held[t] /\ \A r \in held[t] : <<r, s>> \in Nested
  \/ call[t] = <<"retry", s>>

(* atomic_test_and_set when it finds 0, and atomic_clear: each is atomic,  *)
(* with interrupts masked and under spinlock 31.                           *)
TestAndSet(s) == value[s] = 0 /\ value' = [value EXCEPT ![s] = 1]
Clear(s) == value' = [value EXCEPT ![s] = 0]

Acquire(t, s) ==
  /\ held' = [held EXCEPT ![t] = @ \cup {s}]
  /\ call' = [call EXCEPT ![t] = None]

MustBlock(t, s) ==
  /\ call' = [call EXCEPT ![t] = <<"block", s>>]
  /\ UNCHANGED <<value, held>>

(* Mutant of BWait: the test does not set.                                 *)
BWaitUnset(c, s) ==
  LET t == RunPt[c]
  IN  /\ Caller(c) /\ s \in BinarySems /\ Waits(t, s)
      /\ \/ value[s] = 0 /\ UNCHANGED value /\ Acquire(t, s)
         \/ value[s] # 0 /\ MustBlock(t, s)
      /\ UNCHANGED <<vars, signal, counting>>

(* b_wait: atomic_test_and_set, under spinlock 31. *)
BWait(c, s) ==
  LET t == RunPt[c]
  IN  /\ Caller(c) /\ s \in BinarySems /\ Waits(t, s)
      /\ \/ TestAndSet(s) /\ Acquire(t, s)
         \/ /\ value[s] # 0
            /\ MustBlock(t, s)
      /\ UNCHANGED <<vars, signal, counting>>

(* c_wait: the test of value and the decrement, under COUNTING_SEMA4; it   *)
(* unlocks and enables interrupts before it blocks.                        *)
CWait(c, s) ==
  LET t == RunPt[c]
  IN  /\ Caller(c) /\ s \in CountingSems /\ Waits(t, s)
      /\ counting = NULL
      /\ \/ /\ value[s] # 0
            /\ value' = [value EXCEPT ![s] = @ - 1]
            /\ Acquire(t, s)
         \/ /\ value[s] = 0
            /\ MustBlock(t, s)
      /\ UNCHANGED <<vars, signal, counting>>

(* The sched_block of b_wait and c_wait; the thread is then in the loop of *)
(* its wait again.                                                         *)
Block(c, s) ==
  /\ Caller(c) /\ call[RunPt[c]] = <<"block", s>>
  /\ SchedBlock(c, s)
  /\ call' = [call EXCEPT ![RunPt[c]] = <<"retry", s>>]
  /\ UNCHANGED <<value, held, signal, counting>>

(* Mutant of BSignal: the semaphore is not cleared.                        *)
BSignalUncleared(c, s) ==
  LET t == RunPt[c]
  IN  /\ Caller(c) /\ call[t] = None /\ s \in held[t] \cap BinarySems
      /\ held' = [held EXCEPT ![t] = @ \ {s}]
      /\ signal' = [signal EXCEPT ![c] = <<"check", s>>]
      /\ UNCHANGED <<vars, value, call, counting>>

(* b_signal: atomic_clear. *)
BSignal(c, s) ==
  LET t == RunPt[c]
  IN  /\ Caller(c) /\ call[t] = None /\ s \in held[t] \cap BinarySems
      /\ Clear(s)
      /\ held' = [held EXCEPT ![t] = @ \ {s}]
      /\ signal' = [signal EXCEPT ![c] = <<"check", s>>]
      /\ UNCHANGED <<vars, call, counting>>

(* Mutant of CSignal: value is set, not incremented.                       *)
CSignalSets(c, s) ==
  LET t == RunPt[c]
  IN  /\ Caller(c) /\ call[t] = None /\ s \in held[t] \cap CountingSems
      /\ counting = NULL
      /\ counting' = c
      /\ value' = [value EXCEPT ![s] = 1]
      /\ held' = [held EXCEPT ![t] = @ \ {s}]
      /\ signal' = [signal EXCEPT ![c] = <<"check", s>>]
      /\ UNCHANGED <<vars, call>>

(* c_signal: lock COUNTING_SEMA4 and increment. *)
CSignal(c, s) ==
  LET t == RunPt[c]
  IN  /\ Caller(c) /\ call[t] = None /\ s \in held[t] \cap CountingSems
      /\ counting = NULL
      /\ counting' = c
      /\ value' = [value EXCEPT ![s] = @ + 1]
      /\ held' = [held EXCEPT ![t] = @ \ {s}]
      /\ signal' = [signal EXCEPT ![c] = <<"check", s>>]
      /\ UNCHANGED <<vars, call>>

(* Both signals: is there a waiter?  Read without the SCHEDULER lock. *)
Check(c, s) ==
  /\ signal[c] = <<"check", s>>
  /\ signal' = [signal EXCEPT ![c] =
       IF bthreads[s] # <<>> THEN <<"unblock", s>> ELSE <<"leave", s>>]
  /\ UNCHANGED <<vars, value, held, call, counting>>

(* Both signals: sched_unblock. *)
Unblock(c, s) ==
  /\ signal[c] = <<"unblock", s>>
  /\ SchedUnblock(c, s)
  /\ signal' = [signal EXCEPT ![c] = <<"leave", s>>]
  /\ UNCHANGED <<value, held, call, counting>>

(* The end of both signals, after the schedule() of Resched if one is due: *)
(* c_signal unlocks COUNTING_SEMA4, interrupts are enabled.                *)
LeaveSignal(c, s) ==
  /\ signal[c] = <<"leave", s>> /\ ~resched[c]
  /\ signal' = [signal EXCEPT ![c] = None]
  /\ counting' = IF s \in CountingSems THEN NULL ELSE counting
  /\ UNCHANGED <<vars, value, held, call>>

(* Mutant of Kernel: the signals do not mask interrupts.                   *)
KernelUnmasked(c) ==
  \/ LaunchIdle(c) \/ \E p \in Levels : LaunchThread(c, p)
  \/ \E t \in Threads : pc[c] = "main" /\ AddThread(c, t)
  \/ SysTick(c) \/ Yield(c) \/ PendSV(c) \/ Resched(c)
  \/ InThread(c) /\ call[RunPt[c]] = None /\ Sleep(c)
  \/ c = BootCore /\ (AlarmMatch \/ Unsleep)

(* The steps of the kernel around the calls; a thread may sleep while it    *)
(* holds a semaphore.                                                      *)
Kernel(c) ==
  \/ LaunchIdle(c) \/ \E p \in Levels : LaunchThread(c, p)
  \/ \E t \in Threads : pc[c] = "main" /\ AddThread(c, t)
  \/ signal[c] = None /\ (SysTick(c) \/ Yield(c) \/ PendSV(c))
  \/ Resched(c)
  \/ signal[c] = None /\ InThread(c) /\ call[RunPt[c]] = None /\ Sleep(c)
  \/ c = BootCore /\ (AlarmMatch \/ (signal[c] = None /\ Unsleep))

SemInit ==
  /\ Init
  /\ value = InitialValue
  /\ held = [t \in Threads |-> {}]
  /\ call = [t \in Threads |-> None]
  /\ signal = [c \in Cores |-> None]
  /\ counting = NULL

Wait(c) == \E s \in Sems : BWait(c, s) \/ CWait(c, s)

Signal(c) == \E s \in Sems : BSignal(c, s) \/ CSignal(c, s)

InSignal(c) == \E s \in Sems : Check(c, s) \/ Unblock(c, s) \/ LeaveSignal(c, s)

SemNext ==
  \/ StartScheduler /\ UNCHANGED semVars
  \/ \E c \in Cores :
       \/ Kernel(c) /\ UNCHANGED semVars
       \/ Wait(c) \/ Signal(c) \/ InSignal(c)
       \/ \E s \in Sems : Block(c, s)

SemSpec == SemInit /\ [][SemNext]_allVars

(* A thread that is in a wait or holds a semaphore goes on: its timeslice  *)
(* is long enough for a step, however often it is preempted (strong        *)
(* fairness).                                                              *)
GoesOn(t) ==
  \E c \in Cores :
    /\ RunPt[c] = t
    /\ \/ call[t] # None /\ Wait(c)
       \/ \E s \in Sems : Block(c, s)
       \/ Signal(c)

(* ... or calls a wait: its program never stops using semaphores. *)
Loops(t) == GoesOn(t) \/ \E c \in Cores : RunPt[c] = t /\ Wait(c)

KernelFairness ==
  /\ WF_allVars(StartScheduler /\ UNCHANGED semVars)
  /\ \A c \in Cores :
       /\ WF_allVars(pc[c] = "boot" /\ Kernel(c) /\ UNCHANGED semVars)
       /\ WF_allVars(signal[c] = None /\ SysTick(c) /\ UNCHANGED semVars)
       /\ SF_allVars(signal[c] = None /\ Yield(c) /\ UNCHANGED semVars)
       /\ WF_allVars(signal[c] = None /\ PendSV(c) /\ UNCHANGED semVars)
       /\ WF_allVars(Resched(c) /\ UNCHANGED semVars)
       /\ WF_allVars(InSignal(c))
  /\ WF_allVars(AlarmMatch /\ UNCHANGED semVars)
  /\ SF_allVars(signal[BootCore] = None /\ Unsleep /\ UNCHANGED semVars)

FairSemSpec == SemSpec /\ KernelFairness /\ \A t \in Threads : SF_allVars(GoesOn(t))

LoopingSemSpec == SemSpec /\ KernelFairness /\ \A t \in Threads : SF_allVars(Loops(t))
=============================================================================

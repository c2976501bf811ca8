--------------------------- MODULE SchedulerProps ---------------------------
(***************************************************************************)
(* What the scheduler of module Scheduler promises.                        *)
(***************************************************************************)
EXTENDS Scheduler, Functions

(* Every variable has its type; the counts are 16-bit unsigned in the code *)
(* and never go below zero.                                                *)
ScheduleTypeOK ==
  /\ state \in [Threads -> ThreadStates]
  /\ next_tcb \in [Threads -> Threads \cup {NULL}]
  /\ prev_tcb \in [Threads -> Threads \cup {NULL}]
  /\ ThreadSchedule \in [Levels -> Threads \cup {NULL}]
  /\ ActivePriorityCount \in [Levels -> Nat]
  /\ RunningPriorityCount \in [Levels -> Nat]

WaitTypeOK ==
  /\ bthreads \in [Sems -> Seq(Threads)]
  /\ SleepSchedule \in Seq(Threads)
  /\ armed \in BOOLEAN /\ timerIrq \in BOOLEAN

CoreTypeOK ==
  /\ RunPt \in [Cores -> Threads \cup {Idle, BlackHole, NULL}]
  /\ NextRunPt \in [Cores -> Threads \cup {Idle, NULL}]
  /\ pendsv \in [Cores -> BOOLEAN]
  /\ SP \in [Cores -> Threads \cup {Idle, NULL}]
  /\ pc \in [Cores -> PCs]
  /\ ctx \in [Threads -> {"task", "yield"}]
  /\ resched \in [Cores -> BOOLEAN]

TypeOK == ScheduleTypeOK /\ WaitTypeOK /\ CoreTypeOK

-----------------------------------------------------------------------------
InState(p, st) == {t \in Threads : Priority[t] = p /\ state[t] = st}

(* The threads that belong in the ring of level p. *)
Scheduled(p) == InState(p, "ACTIVE") \cup InState(p, "RUNNING")

(* Each priority's list is the ring the code's pointer updates assume: the *)
(* root is a member, next_tcb and prev_tcb lead from member to member and  *)
(* undo each other; an empty level has a NULL root (enqueue_thread,        *)
(* dequeue_thread, schedule).                                              *)
RingLinks ==
  \A p \in Levels :
    /\ ThreadSchedule[p] = NULL <=> Scheduled(p) = {}
    /\ ThreadSchedule[p] # NULL => ThreadSchedule[p] \in Scheduled(p)
    /\ \A t \in Scheduled(p) :
         /\ next_tcb[t] \in Scheduled(p) /\ prev_tcb[t] \in Scheduled(p)
         /\ prev_tcb[next_tcb[t]] = t /\ next_tcb[prev_tcb[t]] = t

(* A level is one ring, not several: no part of it is closed under         *)
(* next_tcb, so every ACTIVE and RUNNING thread of the level can be reached*)
(* from the root and none is ever out of sight for schedule().             *)
Connected ==
  \A p \in Levels : \A S \in SUBSET Scheduled(p) :
    S # {} /\ (\A t \in S : next_tcb[t] \in S) => S = Scheduled(p)

OneRing == RingLinks /\ Connected

(* The counts that let schedule() choose a level in constant time agree    *)
(* with the states of the threads at every unlock.                         *)
CountsExact ==
  \A p \in Levels :
    /\ ActivePriorityCount[p] = Cardinality(InState(p, "ACTIVE"))
    /\ RunningPriorityCount[p] = Cardinality(InState(p, "RUNNING"))

(* A thread that waits is in exactly one waiting list, once, and only      *)
(* waiting threads are: a wake-up never enqueues a thread that is already  *)
(* in a ring (sched_block, sched_unblock, sleep, unsleep).                 *)
WaitingOnce ==
  /\ \A t \in Threads : state[t] = "SLEEPING" <=> t \in Range(SleepSchedule)
  /\ \A t \in Threads : state[t] = "BLOCKED" <=> \E s \in Sems : t \in Range(bthreads[s])
  /\ IsInjective(SleepSchedule)
  /\ \A s \in Sems : IsInjective(bthreads[s])
  /\ \A s1, s2 \in Sems : s1 # s2 => Range(bthreads[s1]) \cap Range(bthreads[s2]) = {}

(* The TCB core c runs once a pending PendSV has been taken. *)
Assigned(c) == IF pendsv[c] THEN NextRunPt[c] ELSE RunPt[c]

(* No thread is lost as RUNNING without a core that runs it, and no two    *)
(* cores are given the same thread (schedule, init_scheduler, PendSV).     *)
RunningHasOneCore ==
  \A t \in Threads : state[t] = "RUNNING" =>
    \E c \in Cores : Assigned(c) = t /\ \A d \in Cores : Assigned(d) = t => d = c

(* A thread that may call the kernel is RUNNING: dequeue_thread, which     *)
(* follows next_tcb without a test, is only applied to a ring member.      *)
CallerIsRunning == \A c \in Cores : InThread(c) => state[RunPt[c]] = "RUNNING"

(* A waiter never stands behind one of lower priority (sched_block).       *)
WaitersByPriority ==
  \A s \in Sems : \A i, j \in DOMAIN bthreads[s] :
    i < j => Priority[bthreads[s][i]] <= Priority[bthreads[s][j]]

(* A sleeper is never forgotten: while one sleeps the alarm is armed or    *)
(* its interrupt pending; and the interrupt always finds a sleeper, the    *)
(* case unsleep's comment says should not happen.                          *)
SleeperHasAlarm ==
  /\ SleepSchedule # <<>> => armed \/ timerIrq
  /\ timerIrq => SleepSchedule # <<>>

(* A thread is executed by one core at a time: no two cores have their SP  *)
(* in the same stack.                                                      *)
OneCorePerStack ==
  \A c, d \in Cores : SP[c] = SP[d] /\ SP[c] \in Threads => c = d

-----------------------------------------------------------------------------
(* schedule() leaves no ready thread of a higher priority than the one it  *)
(* chose.                                                                  *)
PriorityOf(t) == IF t \in Threads THEN Priority[t] ELSE LevelCount

SelectsHighest ==
  [][\A c \in Cores : ~pendsv[c] /\ pendsv'[c] =>
       \A t \in Threads : state'[t] = "ACTIVE" =>
         PriorityOf(NextRunPt'[c]) <= Priority[t]]_vars

(* Memory add_thread allocates is not the stack a core still executes on   *)
(* (kill frees the stack it runs on).                                      *)
NoLiveStackReused ==
  [][\A t \in Threads : state[t] = "FREE" /\ state'[t] # "FREE" =>
       \A c \in Cores : SP[c] # t]_vars

(* Threads of the highest level in use share the cores: each one that is   *)
(* ready is eventually run.                                                *)
Top == {t \in Threads : \A u \in Threads : Priority[t] <= Priority[u]}

TopIsNotStarved == \A t \in Top : state[t] = "ACTIVE" ~> state[t] = "RUNNING"

-----------------------------------------------------------------------------
(* The linked lists, roots and counts implement one queue per level: the   *)
(* queue is what the root leads to (enqueue_thread, dequeue_thread,        *)
(* schedule, init_scheduler).                                              *)
OrderOf(nx, root, S) ==
  CHOOSE q \in [1 .. Cardinality(S) -> S] :
    \A i \in DOMAIN q : q[i] = IF i = 1 THEN root ELSE nx[q[i - 1]]

QueueOf(p) == OrderOf(next_tcb, ThreadSchedule[p], Scheduled(p))

RR == INSTANCE RoundRobin WITH
        queue <- [p \in Levels |-> QueueOf(p)],
        running <- {t \in Threads : state[t] = "RUNNING"}

ImplementsRoundRobin == RR!RRSpec
=============================================================================

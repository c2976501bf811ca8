------------------------------ MODULE Periodic ------------------------------
(***************************************************************************)
(* os/periodic.c: a ring of periodic background tasks sorted by the time   *)
(* at which each is due, and alarm 1 of the timer, armed for the first of  *)
(* them.  The alarm compares the low 32 bits of the time for equality: a   *)
(* value that has passed matches after the counter has wrapped around.     *)
(*                                                                         *)
(* Both functions hold the spinlock BGSCHEDULER with interrupts masked, so *)
(* add_periodic_task is one action; schedule_background is two, because    *)
(* the task's own code runs, and time passes, in the middle of it.         *)
(***************************************************************************)
EXTENDS Naturals

CONSTANTS
  Tasks,   \* the BGT_t that add_periodic_task may create
  period,  \* of each task, in ticks of the timer
  Wrap,    \* 2^32: times are uint32_t
  Delay,   \* bound: from a match of the alarm to the end of the handler
  Grid,    \* a number of ticks that divides every period
  NULL

Times == 0 .. Wrap - 1

ASSUME PeriodicAssumption ==
  /\ Wrap \in Nat \ {0} /\ Delay \in Nat /\ Grid \in Nat \ {0}
  /\ period \in [Tasks -> 1 .. Wrap - 1]
  /\ \A t \in Tasks : period[t] % Grid = 0
  /\ NULL \notin Tasks \cup Times

VARIABLES
  PeriodicScheduleRoot,
  next, prev,  \* the links of each task, NULL before it is added
  sched_time,
  alarm,       \* the armed value of alarm 1, or NULL
  irq,         \* its interrupt: "none", "pending", "running" (a task), or
               \* "again" if the alarm has matched while it runs
  now,         \* the low half of the timer
  waited,      \* ticks since the alarm matched
  locked,      \* add_periodic_task has returned without unlocking
  ordered      \* history: no time has wrapped around, and no task was added
               \* that is due before the root

queue == <<PeriodicScheduleRoot, next, prev, sched_time>>
vars == <<queue, alarm, irq, now, waited, locked, ordered>>

Added == {t \in Tasks : next[t] # NULL}

Due(time, t) == (time + period[t]) % Wrap

(* Mutant of arm_timer: the register is not written.                       *)
arm_timerNot(value) == alarm' = alarm

arm_timer(value) == alarm' = value

(* Mutant of InsertBefore: node->prev is forgotten.                        *)
InsertBeforeNext(t, node, nx, pv) ==
  /\ next' = [nx EXCEPT ![t] = node, ![pv[node]] = t]
  /\ prev' = [pv EXCEPT ![t] = pv[node]]

InsertBefore(t, node, nx, pv) ==
  /\ next' = [nx EXCEPT ![t] = node, ![pv[node]] = t]
  /\ prev' = [pv EXCEPT ![t] = pv[node], ![node] = t]

(* Mutant of Position: the search stops one task early.                    *)
PositionFirst(time, root, nx) == nx[root]

(* The tasks that the search visits: the one after the root, and the next  *)
(* one of each at which it does not stop.                                  *)
Stops(n, time, root) == n = root \/ time <= sched_time[n]

Visited(time, root, nx) ==
  LET Closed(X) == \A m \in X : ~Stops(m, time, root) => nx[m] \in X
  IN {n \in Tasks : \A X \in SUBSET Tasks : nx[root] \in X /\ Closed(X) => n \in X}

(* The task before which one that is due at time belongs: the first, after *)
(* the root, that is not due earlier, or else the root.                    *)
Position(time, root, nx) ==
  CHOOSE n \in Visited(time, root, nx) : Stops(n, time, root)

Running == irq \in {"running", "again"}

Free == ~locked /\ ~Running

AddPeriodicTask(t) ==
  LET due == Due(now, t)
      root == PeriodicScheduleRoot
      early == root # NULL /\ due < sched_time[root]
  IN /\ Free /\ t \notin Added
     /\ sched_time' = [sched_time EXCEPT ![t] = due]
     /\ \/ /\ root = NULL
           /\ next' = [next EXCEPT ![t] = t]
           /\ prev' = [prev EXCEPT ![t] = t]
           /\ PeriodicScheduleRoot' = t
           /\ arm_timer(due)
        \/ /\ early
           /\ InsertBefore(t, root, next, prev)
           /\ arm_timer(due)
           /\ UNCHANGED PeriodicScheduleRoot
        \/ /\ root # NULL /\ ~early
           /\ InsertBefore(t, Position(due, root, next), next, prev)
           /\ UNCHANGED <<PeriodicScheduleRoot, alarm>>
     /\ ordered' = (ordered /\ ~early /\ due > now)
     /\ UNCHANGED <<irq, now, waited, locked>>

(* malloc returns NULL: so does add_periodic_task, with the lock held.     *)
AddFails(t) ==
  /\ Free /\ t \notin Added
  /\ locked' = TRUE
  /\ UNCHANGED <<queue, alarm, irq, now, waited, ordered>>

(* timer1_interrupt acknowledges; schedule_background takes the lock and   *)
(* calls the root's function.                                              *)
RunTask ==
  /\ irq = "pending" /\ ~locked
  /\ irq' = "running"
  /\ UNCHANGED <<queue, alarm, now, waited, locked, ordered>>

(* Mutant of MustMove: the comparison is the wrong way round.              *)
MustMoveEarlier(t, sched) == sched[t] < sched[next[t]]

MustMove(t, sched) == sched[t] > sched[next[t]]

(* The function has returned. *)
ScheduleBackground ==
  LET t == PeriodicScheduleRoot
      due == Due(sched_time[t], t)
      sched == [sched_time EXCEPT ![t] = due]
      nx == [next EXCEPT ![prev[t]] = next[t]]
      pv == [prev EXCEPT ![next[t]] = prev[t]]
  IN /\ Running
     /\ sched_time' = sched
     /\ \/ /\ MustMove(t, sched)
           /\ PeriodicScheduleRoot' = next[t]
           /\ InsertBefore(t, Position(due, next[t], nx), nx, pv)
        \/ /\ ~MustMove(t, sched)
           /\ UNCHANGED <<PeriodicScheduleRoot, next, prev>>
     /\ arm_timer(sched[PeriodicScheduleRoot'])
     /\ irq' = (IF irq = "again" THEN "pending" ELSE "none") /\ waited' = 0
     /\ ordered' = (ordered /\ due > sched_time[t])
     /\ UNCHANGED <<now, locked>>

(* The alarm matches: it disarms itself, and its interrupt is pending; one *)
(* that comes while the handler runs is taken after it.                    *)
Match ==
  /\ alarm' = NULL
  /\ irq' = CASE irq = "none" -> "pending" [] irq = "running" -> "again" [] OTHER -> irq

(* The timer counts.  Interrupts are served, and tasks end, within Delay.  *)
Tick ==
  /\ irq # "none" /\ ~locked => waited < Delay
  /\ now' = (now + 1) % Wrap
  /\ \/ alarm = now' /\ Match
     \/ alarm # now' /\ UNCHANGED <<alarm, irq>>
  /\ waited' = IF irq = "none" \/ locked THEN waited ELSE waited + 1
  /\ ordered' = (ordered /\ (now' = 0 => Added = {}))
  /\ UNCHANGED <<queue, locked>>

(* A value armed while the timer still shows it may match, or is missed.   *)
MatchNow ==
  /\ alarm = now /\ Match
  /\ UNCHANGED <<queue, now, waited, locked, ordered>>

Init ==
  /\ PeriodicScheduleRoot = NULL
  /\ next = [t \in Tasks |-> NULL] /\ prev = next
  /\ sched_time = [t \in Tasks |-> 0]
  /\ alarm = NULL /\ irq = "none"
  /\ now = 0 /\ waited = 0
  /\ locked = FALSE /\ ordered = TRUE

Next ==
  \/ \E t \in Tasks : AddPeriodicTask(t) \/ AddFails(t)
  \/ RunTask
  \/ ScheduleBackground
  \/ Tick
  \/ MatchNow

(* Time passes, pending interrupts are taken and the tasks' functions end. *)
Fairness == WF_vars(Tick) /\ WF_vars(RunTask) /\ WF_vars(ScheduleBackground)

Spec == Init /\ [][Next]_vars /\ Fairness

-----------------------------------------------------------------------------
(* Every variable has its type: times are uint32_t, links lead to tasks.   *)
PeriodicTypeOK ==
  /\ PeriodicScheduleRoot \in Tasks \cup {NULL}
  /\ next \in [Tasks -> Tasks \cup {NULL}]
  /\ prev \in [Tasks -> Tasks \cup {NULL}]
  /\ sched_time \in [Tasks -> Times]
  /\ alarm \in Times \cup {NULL}
  /\ irq \in {"none", "pending", "running", "again"}
  /\ now \in Times /\ waited \in 0 .. Delay
  /\ locked \in BOOLEAN /\ ordered \in BOOLEAN

(* Whatever the order of additions, runs and wrap-arounds, the tasks added *)
(* so far are one doubly linked ring that contains the root: none is lost  *)
(* from the queue, and every search of the queue ends.                     *)
RingIntact ==
  /\ PeriodicTypeOK
  /\ Added = {} <=> PeriodicScheduleRoot = NULL
  /\ \A t \in Added : /\ next[t] \in Added /\ prev[next[t]] = t
                      /\ prev[t] \in Added /\ next[prev[t]] = t
  /\ \A S \in SUBSET Added :
       (PeriodicScheduleRoot \in S /\ \A t \in S : next[t] \in S) => S = Added

(* The ring is sorted by due time from the root on, and the alarm is armed *)
(* for the root whenever its handler is neither pending nor running.       *)
FirstIsRoot ==
  ordered =>
    /\ \A t \in Added : next[t] # PeriodicScheduleRoot
                          => sched_time[t] <= sched_time[next[t]]
    /\ irq = "none" /\ Added # {} => alarm = sched_time[PeriodicScheduleRoot]

(* The due times of no two tasks come closer than a handler may last.      *)
Apart ==
  \A t, u \in Added : t # u =>
    (sched_time[t] + Wrap * Grid - sched_time[u]) % Grid > Delay

OnTime ==
  /\ ~locked => \A t \in Added : now <= sched_time[t] + Delay
  /\ Running => sched_time[PeriodicScheduleRoot] <= now

(* "Support for scheduled, recurring tasks that execute reliably on CPU0"  *)
(* holds for tasks whose due times are apart: none runs early, and each is *)
(* run, again and again, at most Delay ticks after it is due.              *)
ApartTasksOnTime == ordered /\ Apart => OnTime

(* Once a task was added, some task runs again and again, even after an    *)
(* alarm was armed in the past (then one wrap-around later), unless        *)
(* add_periodic_task has failed.                                           *)
TasksKeepRunning == (Added # {}) ~> (irq = "running" \/ locked)
=============================================================================

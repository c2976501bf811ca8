-------------------------- MODULE SchedulerInductive --------------------------
(***************************************************************************)
(* The inductive invariant from which SchedulerProofs derives the safety   *)
(* properties of SchedulerProps, in the configurations in which they hold. *)
(***************************************************************************)
EXTENDS SchedulerProps

(* Either CPU0 runs the kernel alone (init_scheduler with multicore =      *)
(* false), or two cores do (NUM_CORES) and threads only run, suspend and   *)
(* create threads.  With two cores sleep, sched_block and kill break the   *)
(* invariant: their schedule() comes in a later critical section.          *)
Supported ==
  \/ Cores = {BootCore}
  \/ /\ \A a, b, c \in Cores : a = b \/ b = c \/ a = c
     /\ Sleepers = {} /\ Mortals = {} /\ Sems = {}

(* Before its first thread a core has no context.  A pending PendSV will   *)
(* switch to a thread that is RUNNING already; only where kernel code has  *)
(* given up the thread, in the windows of sleep, sched_block and kill, may *)
(* the thread of a core not be RUNNING.                                    *)
Control ==
  \A c \in Cores :
    /\ pc[c] \in {"off", "main", "boot"} => RunPt[c] = NULL /\ ~pendsv[c]
    /\ pendsv[c] /\ NextRunPt[c] \in Threads => state[NextRunPt[c]] = "RUNNING"
    /\ ~pendsv[c] /\ pc[c] = "task" /\ RunPt[c] \in Threads => state[RunPt[c]] = "RUNNING"
    /\ pendsv[c] \/ resched[c] => pc[c] \in {"task", "yield"}
    /\ ~ (pendsv[c] /\ resched[c])
    /\ pc[c] \in {"yield", "kill", "killed"} => Cores = {BootCore}
    /\ pc[c] = "kill" => RunPt[c] \in Threads /\ state[RunPt[c]] = "DEAD"
    /\ pc[c] = "killed" => RunPt[c] = BlackHole

Contexts == \A t \in Threads : ctx[t] = "yield" => Cores = {BootCore}

(* init_scheduler takes the root of a ring without a look at its state:    *)
(* while a core has not started, a root is RUNNING only if it is alone.    *)
BootRoot ==
  (\E c \in Cores : pc[c] \in {"off", "main", "boot"}) =>
    \A p \in Levels :
      ThreadSchedule[p] # NULL /\ state[ThreadSchedule[p]] = "RUNNING"
        => Scheduled(p) = {ThreadSchedule[p]}

(* A core executes on the stack of the TCB it runs, which is allocated;    *)
(* only at the end of kill does it execute on a stack that is not.         *)
Stacks ==
  \A c \in Cores :
    /\ RunPt[c] # BlackHole => SP[c] = RunPt[c]
    /\ RunPt[c] \in Threads => state[RunPt[c]] # "FREE"
    /\ RunPt[c] = BlackHole => Cores = {BootCore} /\ (pc[c] = "killed" \/ pendsv[c])

(* Every alarm that is armed or has fired is for a sleeper of its own.     *)
AlarmsDue ==
  /\ armed \/ timerIrq => Len(SleepSchedule) >= 1
  /\ armed /\ timerIrq => Len(SleepSchedule) >= 2

(* CPU0 starts the other core, in init_scheduler.                          *)
CPU0First == pc[BootCore] = "main" => \A c \in Cores : pc[c] \in {"off", "main"}

IInv ==
  /\ TypeOK /\ OneRing /\ CountsExact /\ RunningHasOneCore
  /\ WaitingOnce /\ WaitersByPriority /\ SleeperHasAlarm /\ AlarmsDue
  /\ Control /\ Contexts /\ BootRoot /\ Stacks
=============================================================================

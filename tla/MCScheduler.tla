----------------------------- MODULE MCScheduler -----------------------------
(* Small applications for module Scheduler.                                *)
EXTENDS SchedulerProps

CONSTANTS h1, h2, l1, l2

MCThreads == {h1, h2, l1, l2}
MCPriority == [t \in MCThreads |-> IF t \in {h1, h2} THEN 0 ELSE 1]
MCThree == [t \in MCThreads |-> IF t = l2 THEN 1 ELSE 0]
=============================================================================

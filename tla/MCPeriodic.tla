----------------------------- MODULE MCPeriodic -----------------------------
(* Three periodic tasks with periods 1 : 2 : 3.                           *)
EXTENDS Periodic

CONSTANTS t1, t2, t3

MCPeriod == [t \in {t1, t2, t3} |-> CASE t = t1 -> 6 [] t = t2 -> 12 [] t = t3 -> 18]
=============================================================================

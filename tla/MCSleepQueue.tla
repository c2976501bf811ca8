---------------------------- MODULE MCSleepQueue ----------------------------
(* Three threads that sleep for two different times.                       *)
EXTENDS SleepQueue

CONSTANTS t1, t2, t3
=============================================================================

---------------------------- MODULE MCSemaphores ----------------------------
(* Small applications for module Semaphores.                               *)
EXTENDS SemaphoreProps

CONSTANTS a, b, c, h, mutex, pool

MCPriority == [t \in Threads |-> IF t = h THEN 0 ELSE 1]
MCInitial == [s \in Sems |-> IF s = mutex THEN 0 ELSE 2]

(* The slots of a fifo, then its mutex (fifo_put). *)
MCNested == {<<pool, mutex>>}
=============================================================================

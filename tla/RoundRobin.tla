------------------------------ MODULE RoundRobin ------------------------------
(***************************************************************************)
(* What the schedule of os/schedule.c promises, without its linked lists,  *)
(* roots and counts: one queue of runnable threads per priority level; a   *)
(* core that reschedules gets the first thread of the highest nonempty     *)
(* level that no other core runs.  Module Scheduler implements it.         *)
(***************************************************************************)
EXTENDS Naturals, Sequences, Functions

CONSTANTS Threads, LevelCount, Priority

Levels == 0 .. LevelCount - 1

VARIABLES
  queue,    \* the runnable threads of each level, next to be run first
  running   \* the threads that have a core

rrVars == <<queue, running>>

(* A thread that becomes runnable is the next one of its level. *)
Enter(t) ==
  /\ t \notin Range(queue[Priority[t]])
  /\ queue' = [queue EXCEPT ![Priority[t]] = <<t>> \o @]
  /\ UNCHANGED running

(* A running thread that stops being runnable hands its turn to the thread *)
(* after it.                                                               *)
Leave(t) ==
  /\ t \in running
  /\ running' = running \ {t}
  /\ \E i \in DOMAIN queue[Priority[t]] :
       /\ queue[Priority[t]][i] = t
       /\ queue' = [queue EXCEPT ![Priority[t]] =
                      SubSeq(@, i + 1, Len(@)) \o SubSeq(@, 1, i - 1)]

(* No thread of level p waits, when those of r have a core.                *)
NoneWaits(p, r) == Range(queue[p]) \subseteq r

(* The first thread of level p that waits is its i-th one.                 *)
FirstWaits(p, r, i) ==
  /\ queue[p][i] \notin r
  /\ \A j \in 1 .. i - 1 : queue[p][j] \in r

(* A core takes the first waiting thread of the highest level, beside the  *)
(* threads of r that have one; the queue advances past a thread that is    *)
(* taken from its front.                                                   *)
Reschedule(r) ==
  \/ /\ \A p \in Levels : NoneWaits(p, r)
     /\ running' = r
     /\ UNCHANGED queue
  \/ \E p \in Levels : \E i \in DOMAIN queue[p] :
       /\ \A q \in Levels : q < p => NoneWaits(q, r)
       /\ FirstWaits(p, r, i)
       /\ running' = r \cup {queue[p][i]}
       /\ queue' = IF i = 1 THEN [queue EXCEPT ![p] = Append(Tail(@), Head(@))] ELSE queue

RRInit ==
  /\ queue = [p \in Levels |-> <<>>]
  /\ running = {}

RRNext ==
  \/ \E t \in Threads : Enter(t) \/ Leave(t)
  \/ Reschedule(running)
  \/ \E t \in running : Reschedule(running \ {t})   \* it gives t up

RRSpec == RRInit /\ [][RRNext]_rrVars
=============================================================================

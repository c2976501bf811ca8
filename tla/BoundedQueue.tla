---------------------------- MODULE BoundedQueue ----------------------------
(***************************************************************************)
(* What a fifo of os/ipc.c promises: puts and gets take effect one after   *)
(* the other on a queue, in first-in first-out order; a put is refused only*)
(* when the queue is full, a get only when it is empty.                    *)
(***************************************************************************)
EXTENDS Naturals, Sequences

CONSTANTS
  Producers, Consumers,  \* the threads and handlers that use the fifo
  Values,                \* what they pass
  Capacity,              \* the number of elements the queue can hold
  NULL

VARIABLES
  queue,
  put,   \* how each producer's last put ended: "none", "ok" or "full"
  got    \* what each consumer's last get returned, NULL if refused

vars == <<queue, put, got>>

Init ==
  /\ queue = <<>>
  /\ put = [p \in Producers |-> "none"]
  /\ got = [c \in Consumers |-> NULL]

Put(p, v) ==
  /\ Len(queue) < Capacity
  /\ queue' = Append(queue, v)
  /\ put' = [put EXCEPT ![p] = "ok"]
  /\ UNCHANGED got

PutRefused(p) ==
  /\ Len(queue) = Capacity
  /\ put' = [put EXCEPT ![p] = "full"]
  /\ UNCHANGED <<queue, got>>

Get(c) ==
  /\ queue # <<>>
  /\ got' = [got EXCEPT ![c] = Head(queue)]
  /\ queue' = Tail(queue)
  /\ UNCHANGED put

GetRefused(c) ==
  /\ queue = <<>>
  /\ got' = [got EXCEPT ![c] = NULL]
  /\ UNCHANGED <<queue, put>>

Next ==
  \/ \E p \in Producers : PutRefused(p) \/ \E v \in Values : Put(p, v)
  \/ \E c \in Consumers : GetRefused(c) \/ Get(c)

Spec == Init /\ [][Next]_vars
=============================================================================

--------------------------- MODULE SemaphoreProps ---------------------------
(***************************************************************************)
(* What the semaphores of module Semaphores promise.                       *)
(***************************************************************************)
EXTENDS Semaphores, SchedulerProps

(* Every variable has its type. *)
SemTypeOK ==
  /\ TypeOK
  /\ value \in [Sems -> Nat]
  /\ held \in [Threads -> SUBSET Sems]
  /\ call \in [Threads -> {None} \cup ({"retry", "block"} \X Sems)]
  /\ signal \in [Cores -> {None} \cup ({"check", "unblock", "leave"} \X Sems)]
  /\ counting \in Cores \cup {NULL}

Holders(s) == {t \in Threads : s \in held[t]}

(* A binary semaphore is a mutex: at most one thread is between b_wait and *)
(* b_signal, and value is 1 exactly while there is one, however waits,     *)
(* signals, wake-ups and preemptions interleave.                           *)
BinaryMutex ==
  \A s \in BinarySems :
    /\ Cardinality(Holders(s)) <= 1
    /\ value[s] = Cardinality(Holders(s))

(* A counting semaphore never hands out more than it was given, and its    *)
(* 32-bit value never goes below zero: value and holders add up.           *)
TokensConserved ==
  /\ SemTypeOK
  /\ \A s \in CountingSems :
       value[s] + Cardinality(Holders(s)) = InitialValue[s]

(* A core that owns spinlock COUNTING_SEMA4 does not switch threads: the   *)
(* other threads of the core, and the other core, spin for the lock with   *)
(* interrupts masked (c_signal calls schedule() before its unlock).        *)
SpinlockNotSwitched ==
  [][\A c \in Cores : counting = c => RunPt'[c] = RunPt[c]]_allVars

Waiting(t, s) == call[t] \in {<<"retry", s>>, <<"block", s>>}

(* "blocks until semaphore is acquired" (b_wait, c_wait): if every holder  *)
(* signals, a thread that waits for a semaphore gets it.                   *)
WaitAcquires == \A t \in Threads, s \in Sems : Waiting(t, s) ~> s \in held[t]

(* Threads that use semaphores in a loop never all get stuck although      *)
(* single wake-ups may be lost, as long as none waits while it holds       *)
(* another semaphore: unless one does for ever, or the program creates no  *)
(* thread at all, some call of b_wait or c_wait returns again and again.   *)
SomebodyAcquires ==
  \/ <>[](\A t \in Threads : state[t] = "FREE")
  \/ <>[](\E t \in Threads : call[t] # None /\ held[t] # {})
  \/ []<><<\E t \in Threads : held'[t] \ held[t] # {}>>_allVars
=============================================================================

------------------------------ MODULE MpmcFifo ------------------------------
(***************************************************************************)
(* The blocking fifo of os/ipc.c (fifo_init, fifo_put, fifo_get,           *)
(* fifo_get_spinlock, fifo_size): any number of producers and consumers,   *)
(* two counting semaphores and a mutex around a ring.                      *)
(*                                                                         *)
(* A wait on a semaphore is one action, enabled while the semaphore can be *)
(* taken: module Semaphores is about what b_wait and c_wait do.  put and   *)
(* got record a call where it takes effect, not where it returns.          *)
(*                                                                         *)
(* The indices run modulo `size`, which counts bytes, over an array of     *)
(* elements: the array has fewer of them than there are indices.  Which    *)
(* indices lie in the block that malloc returned depends on the rounding of*)
(* its size (InBlock).  Memory behind the block is not the fifo's: a write *)
(* there is not kept, and a read there returns anything.                   *)
(***************************************************************************)
EXTENDS Naturals, Sequences, FiniteSets

CONSTANTS
  Producers, Consumers,
  Values,
  fifo_size, element_size,  \* the arguments of fifo_init, the latter in bytes
  sizeof_FIFO_t,            \* the bytes in front of data[]
  room,                     \* the bytes from data[] to the end of the block
  NULL

(* fifo->size as fifo_init sets it: the bytes of the whole fifo. *)
size == sizeof_FIFO_t + fifo_size * element_size

Indices == 0 .. size - 1

(* The indices whose element lies in the block.                            *)
InBlock == {i \in Indices : (i + 1) * element_size <= room}

ASSUME MpmcAssumption ==
  /\ fifo_size \in Nat \ {0}
  /\ element_size \in {1, 2, 4, 8}
  /\ sizeof_FIFO_t \in Nat \ {0}
  /\ room \in Nat /\ room >= fifo_size * element_size
  /\ IsFiniteSet(Producers) /\ IsFiniteSet(Consumers)
  /\ Producers \cap Consumers = {}
  /\ NULL \notin Values

VARIABLES
  head, tail,
  data,        \* the elements in the block, NULL if never written
  full,        \* value of the semaphore that counts free elements
  empty,       \* value of the semaphore that counts elements
  mutex,       \* value of the binary semaphore
  pc,          \* where each producer and consumer is
  value,       \* the element each of them is moving, or NULL
  put, got     \* how the last put ended, what the last get returned

sems == <<full, empty, mutex>>
ring == <<head, tail, data>>
results == <<put, got>>
vars == <<ring, sems, pc, value, results>>

Users == Producers \cup Consumers

From(u, l, m) == pc[u] = l /\ pc' = [pc EXCEPT ![u] = m]

Succ(i) == (i + 1) % size

Option == Values \cup {NULL}

(* What a read of the element at index i can return.                       *)
Readable(i) == IF i \in InBlock THEN {data[i]} ELSE Option

-----------------------------------------------------------------------------
(* Both calls: b_wait(&fifo->mutex) and b_signal(&fifo->mutex).            *)

(* Mutant of Lock: b_wait does not wait.                                   *)
LockAnyway(u) ==
  /\ From(u, "lock", "move")
  /\ mutex' = 1
  /\ UNCHANGED <<ring, full, empty, value, results>>

Lock(u) ==
  /\ From(u, "lock", "move")
  /\ mutex = 0
  /\ mutex' = 1
  /\ UNCHANGED <<ring, full, empty, value, results>>

Unlock(u) ==
  /\ From(u, "unlock", "signal")
  /\ mutex' = 0
  /\ UNCHANGED <<ring, full, empty, value, results>>

-----------------------------------------------------------------------------
(* fifo_put.                                                               *)

(* Mutant of PutStart: c_wait(&fifo->full) takes nothing.                  *)
PutStartFree(p, v) ==
  /\ From(p, "idle", "lock")
  /\ full > 0
  /\ value' = [value EXCEPT ![p] = v]
  /\ UNCHANGED <<ring, sems, results>>

(* c_wait(&fifo->full). *)
PutStart(p, v) ==
  /\ From(p, "idle", "lock")
  /\ full > 0
  /\ full' = full - 1
  /\ value' = [value EXCEPT ![p] = v]
  /\ UNCHANGED <<ring, empty, mutex, results>>

PutWrite(p) ==
  /\ p \in Producers /\ From(p, "move", "advance")
  /\ data' = IF tail \in InBlock THEN [data EXCEPT ![tail] = value[p]] ELSE data
  /\ UNCHANGED <<head, tail, sems, value, results>>

PutAdvance(p) ==
  /\ p \in Producers /\ From(p, "advance", "unlock")
  /\ tail' = Succ(tail)
  /\ value' = [value EXCEPT ![p] = NULL]
  /\ put' = [put EXCEPT ![p] = "ok"]
  /\ UNCHANGED <<head, data, sems, got>>

(* c_signal(&fifo->empty). *)
PutSignal(p) ==
  /\ p \in Producers /\ From(p, "signal", "idle")
  /\ empty' = empty + 1
  /\ UNCHANGED <<ring, full, mutex, value, results>>

-----------------------------------------------------------------------------
(* fifo_get and fifo_get_spinlock.                                         *)

(* c_wait(&fifo->empty). *)
GetStart(c) ==
  /\ From(c, "idle", "lock")
  /\ empty > 0
  /\ empty' = empty - 1
  /\ UNCHANGED <<ring, full, mutex, value, results>>

GetRead(c) ==
  /\ c \in Consumers /\ From(c, "move", "advance")
  /\ \E v \in Readable(head) : value' = [value EXCEPT ![c] = v]
  /\ UNCHANGED <<ring, sems, results>>

GetAdvance(c) ==
  /\ c \in Consumers /\ From(c, "advance", "unlock")
  /\ head' = Succ(head)
  /\ got' = [got EXCEPT ![c] = value[c]]
  /\ value' = [value EXCEPT ![c] = NULL]
  /\ UNCHANGED <<tail, data, sems, put>>

(* c_signal(&fifo->full). *)
GetSignal(c) ==
  /\ c \in Consumers /\ From(c, "signal", "idle")
  /\ full' = full + 1
  /\ UNCHANGED <<ring, empty, mutex, value, results>>

-----------------------------------------------------------------------------
(* fifo_init. *)
Init ==
  /\ head = 0 /\ tail = 0
  /\ data = [i \in InBlock |-> NULL]
  /\ full = fifo_size /\ empty = 0 /\ mutex = 0
  /\ pc = [u \in Users |-> "idle"]
  /\ value = [u \in Users |-> NULL]
  /\ put = [p \in Producers |-> "none"]
  /\ got = [c \in Consumers |-> NULL]

(* fifo_put. *)
Put(p) ==
  \/ \E v \in Values : PutStart(p, v)
  \/ Lock(p) \/ PutWrite(p) \/ PutAdvance(p) \/ Unlock(p) \/ PutSignal(p)

(* fifo_get, and the same once more: fifo_get_spinlock. *)
Get(c) ==
  GetStart(c) \/ Lock(c) \/ GetRead(c) \/ GetAdvance(c) \/ Unlock(c) \/ GetSignal(c)

Next == (\E p \in Producers : Put(p)) \/ (\E c \in Consumers : Get(c))

Spec == Init /\ [][Next]_vars

-----------------------------------------------------------------------------
(* Every variable has its type; the semaphores stay below fifo_size.       *)
MpmcTypeOK ==
  /\ head \in Indices /\ tail \in Indices
  /\ data \in [InBlock -> Option]
  /\ full \in 0 .. fifo_size /\ empty \in 0 .. fifo_size /\ mutex \in {0, 1}
  /\ pc \in [Users -> {"idle", "lock", "move", "advance", "unlock", "signal"}]
  /\ value \in [Users -> Option]
  /\ put \in [Producers -> {"none", "ok"}]
  /\ got \in [Consumers -> Option]

(* Every index lies in the block: so it is for the fifos that the kernel   *)
(* makes, fifo_init(256, 1) and fifo_init(4, 1).                           *)
FitsBlock == InBlock = Indices

(* The elements at all the indices; those behind the block count as NULL.  *)
Cells == [i \in Indices |-> IF i \in InBlock THEN data[i] ELSE NULL]

(* The elements from head to tail. *)
Content == [k \in 1 .. (tail + size - head) % size |-> Cells[(head + k - 1) % size]]

BoundedQueue == INSTANCE BoundedQueue WITH queue <- Content, Capacity <- fifo_size

(* "blocking fifo with multicore mutex": for any interleaving of producers *)
(* and consumers the fifo is a queue of fifo_size elements, although its   *)
(* indices run modulo the number of its bytes; this needs FitsBlock.       *)
ImplementsQueue == BoundedQueue!Spec

At(S, places) == Cardinality({u \in S : pc[u] \in places})

(* fifo_size "returns the number of elements in the fifo", and full counts *)
(* the free ones: each is off only by the calls that are between their wait*)
(* and their signal.                                                       *)
SemaphoresCount ==
  /\ MpmcTypeOK
  /\ Len(Content) = empty + At(Consumers, {"lock", "move", "advance"})
                          + At(Producers, {"unlock", "signal"})
  /\ fifo_size - Len(Content) = full + At(Producers, {"lock", "move", "advance"})
                                     + At(Consumers, {"unlock", "signal"})
=============================================================================

------------------------------ MODULE RingFifo ------------------------------
(***************************************************************************)
(* The lock-free fifos of os/ipc.c: fifo32_* and fifo8_* ("suitable for    *)
(* single-producer single-consumer"), and fifo_put_nonblock,               *)
(* fifo_get_nonblocking and fifo_size_nonblocking on a FIFO_t.  The three  *)
(* copies differ in what the model has no place for, the type of the       *)
(* elements, and in the type that size returns, for which it has one:      *)
(* fifo8_size returns a uint8_t.  A producer and a consumer run on         *)
(* different cores or preempt one another between any two statements; one  *)
(* action is what a call does with one access to an index that the other   *)
(* side writes.                                                            *)
(*                                                                         *)
(* The array has a slot for each index.  So has that of fifo32_init and    *)
(* fifo8_init; the FIFO_t of uart.c, the only one that is used without     *)
(* locks, has 296 indices for 256 bytes, in a block of malloc with room    *)
(* for 472 (see module MpmcFifo).                                          *)
(*                                                                         *)
(* With more than one producer the statements that read and write tail are *)
(* still one action each: the model has fewer interleavings than the code. *)
(***************************************************************************)
EXTENDS Integers, Sequences

CONSTANTS
  Producers,  \* who calls put: one for fifo32 and fifo8
  Consumers,  \* who calls get: one for fifo32 and fifo8
  Values,
  size,       \* fifo->size, the modulus of the indices
  Wrap,       \* 2^32, the modulus of uint32_t
  Lengths,    \* the modulus of the type that size returns: 2^32, and 2^8
              \* for fifo8_size
  NULL

Indices == 0 .. size - 1

ASSUME RingAssumption ==
  /\ size \in Nat \ {0, 1}
  /\ Wrap \in Nat /\ Wrap > 2 * size
  /\ Lengths \in Nat \ {0}
  /\ Producers \cap Consumers = {}
  /\ NULL \notin Values

VARIABLES
  head, tail,  \* the indices of the fifo
  data,        \* its array, NULL where nothing was ever written
  pc,          \* where each producer and consumer is
  value,       \* the element each of them is moving, or NULL
  put, got,    \* how the last put ended, what the last get returned
  length       \* what each one's last size returned

ring == <<head, tail, data>>
results == <<put, got, length>>
vars == <<ring, pc, value, results>>

Users == Producers \cup Consumers

Succ(i) == (i + 1) % size

Goto(u, l) == pc' = [pc EXCEPT ![u] = l]

(* put: is the fifo full?                                                  *)
PutTest(p, v) ==
  /\ pc[p] = "idle"
  /\ \/ /\ Succ(tail) = head
        /\ put' = [put EXCEPT ![p] = "full"]
        /\ UNCHANGED <<pc, value>>
     \/ /\ Succ(tail) # head
        /\ Goto(p, "write")
        /\ value' = [value EXCEPT ![p] = v]
        /\ UNCHANGED put
  /\ UNCHANGED <<ring, got, length>>

PutWrite(p) ==
  /\ pc[p] = "write"
  /\ data' = [data EXCEPT ![tail] = value[p]]
  /\ Goto(p, "advance")
  /\ UNCHANGED <<head, tail, value, results>>

PutAdvance(p) ==
  /\ pc[p] = "advance" /\ p \in Producers
  /\ tail' = Succ(tail)
  /\ Goto(p, "idle")
  /\ value' = [value EXCEPT ![p] = NULL]
  /\ put' = [put EXCEPT ![p] = "ok"]
  /\ UNCHANGED <<head, data, got, length>>

(* get: is the fifo empty?  fifo_get_nonblocking returns, fifo32_get and   *)
(* fifo8_get suspend and test again.                                       *)
GetTest(c) ==
  /\ pc[c] = "idle"
  /\ \/ /\ head = tail
        /\ got' = [got EXCEPT ![c] = NULL]
        /\ UNCHANGED pc
     \/ head # tail /\ Goto(c, "read") /\ UNCHANGED got
  /\ UNCHANGED <<ring, value, put, length>>

GetRead(c) ==
  /\ pc[c] = "read"
  /\ value' = [value EXCEPT ![c] = data[head]]
  /\ Goto(c, "advance")
  /\ UNCHANGED <<ring, results>>

GetAdvance(c) ==
  /\ pc[c] = "advance" /\ c \in Consumers
  /\ head' = Succ(head)
  /\ Goto(c, "idle")
  /\ got' = [got EXCEPT ![c] = value[c]]
  /\ value' = [value EXCEPT ![c] = NULL]
  /\ UNCHANGED <<tail, data, put, length>>

(* size, called by a producer or a consumer: the test ... *)
SizeTest(u) ==
  /\ pc[u] = "idle"
  /\ Goto(u, IF tail >= head THEN "ahead" ELSE "behind")
  /\ UNCHANGED <<ring, value, results>>

(* A number as size returns it: computed in 32 bits, then converted.       *)
Returned(n) == (n % Wrap) % Lengths

(* Mutant of SizeResult: the difference of the indices in the wrong order. *)
SizeSwapped(u) ==
  /\ \/ /\ pc[u] = "ahead"
        /\ length' = [length EXCEPT ![u] = Returned(Wrap + head - tail)]
     \/ /\ pc[u] = "behind"
        /\ length' = [length EXCEPT ![u] = Returned(Wrap + size - (tail - head))]
  /\ Goto(u, "idle")
  /\ UNCHANGED <<ring, value, put, got>>

(* ... and the difference, from the indices read again. *)
SizeResult(u) ==
  /\ \/ /\ pc[u] = "ahead"
        /\ length' = [length EXCEPT ![u] = Returned(Wrap + tail - head)]
     \/ /\ pc[u] = "behind"
        /\ length' = [length EXCEPT ![u] = Returned(Wrap + size - (head - tail))]
  /\ Goto(u, "idle")
  /\ UNCHANGED <<ring, value, put, got>>

Init ==
  /\ head = 0 /\ tail = 0
  /\ data = [i \in Indices |-> NULL]
  /\ pc = [u \in Users |-> "idle"]
  /\ value = [u \in Users |-> NULL]
  /\ put = [p \in Producers |-> "none"]
  /\ got = [c \in Consumers |-> NULL]
  /\ length = [u \in Users |-> 0]

(* Mutant of Put: the index is advanced first, and the element then written*)
(* to the slot behind it.                                                  *)
PutIndexFirst(p) ==
  \/ \E v \in Values : PutTest(p, v)
  \/ /\ pc[p] = "write"
     /\ tail' = Succ(tail)
     /\ Goto(p, "advance")
     /\ UNCHANGED <<head, data, value, results>>
  \/ /\ pc[p] = "advance"
     /\ data' = [data EXCEPT ![(tail + size - 1) % size] = value[p]]
     /\ Goto(p, "idle")
     /\ value' = [value EXCEPT ![p] = NULL]
     /\ put' = [put EXCEPT ![p] = "ok"]
     /\ UNCHANGED <<head, tail, got, length>>

(* fifo32_put, and the same in fifo_put_nonblock. *)
Put(p) == (\E v \in Values : PutTest(p, v)) \/ PutWrite(p) \/ PutAdvance(p)

(* fifo32_get, and the same in fifo_get_nonblocking. *)
Get(c) == GetTest(c) \/ GetRead(c) \/ GetAdvance(c)

(* fifo32_size, and the same in fifo_size_nonblocking. *)
Size(u) == SizeTest(u) \/ SizeResult(u)

(* All of it once more: the functions of fifo8. *)
Next ==
  \/ \E p \in Producers : Put(p)
  \/ \E c \in Consumers : Get(c)
  \/ \E u \in Users : Size(u)

Spec == Init /\ [][Next]_vars

-----------------------------------------------------------------------------
Option == Values \cup {NULL}

(* Every variable has its type.                                            *)
RingTypeOK ==
  /\ head \in Indices /\ tail \in Indices
  /\ data \in [Indices -> Option]
  /\ pc \in [Users -> {"idle", "write", "read", "advance", "ahead", "behind"}]
  /\ value \in [Users -> Option]
  /\ put \in [Producers -> {"none", "ok", "full"}]
  /\ got \in [Consumers -> Option]
  /\ length \in [Users -> 0 .. Lengths - 1]

(* The elements from head to tail. *)
Content == [k \in 1 .. (tail + size - head) % size |-> data[(head + k - 1) % size]]

BoundedQueue == INSTANCE BoundedQueue WITH queue <- Content, Capacity <- size - 1

(* "lock free fifo suitable for single-producer single-consumer": without  *)
(* a lock, however producer and consumer interleave, the ring is a queue   *)
(* of size - 1 elements; nothing is lost, duplicated, reordered or read    *)
(* before it is written.                                                   *)
ImplementsQueue == BoundedQueue!Spec

(* The length that a producer or a consumer computes may be wrong, since   *)
(* the indices can move between the test and the difference, but only by   *)
(* one lap of the ring: the other side has wrapped around in between.  (As *)
(* far as the return type can tell: fifo8_size of 256 elements is zero.)   *)
LengthOffByOneLap ==
  [][\A u \in Users :
       SizeResult(u) => \E lap \in {-size, 0, size} :
                          length'[u] = Returned(Wrap + Len(Content) + lap)]_vars
=============================================================================

---------------------------- MODULE RingFifoProofs ----------------------------
(***************************************************************************)
(* Proofs about modules RingFifo and Uart: the lock-free fifos are queues, *)
(* for any number of slots, any elements and any interleaving of one       *)
(* producer and one consumer; and the driver that uses one of them echoes  *)
(* the line, loses no byte, and stops sending at one place only, for any   *)
(* sizes of the buffers.                                                   *)
(*                                                                         *)
(* The theorems about RingFifo do not use UartAssumption.  Those about Uart*)
(* take for granted that the thread alone puts and the handler alone gets. *)
(***************************************************************************)
EXTENDS Uart, SharedLemmas

(* "suitable for single-producer single-consumer".                         *)
SingleUsers ==
  /\ \A p, q \in Producers : p = q
  /\ \A c, d \in Consumers : c = d

(* A producer past its test has a free slot, and its element once written  *)
(* is where the consumer will look for it.                                 *)
ProducerState(p) ==
  /\ pc[p] # "read"
  /\ pc[p] \in {"write", "advance"} => Succ(tail) # head
  /\ pc[p] = "write" => value[p] \in Values
  /\ pc[p] = "advance" => value[p] \in Values /\ data[tail] = value[p]

(* A consumer past its test has an element.                                *)
ConsumerState(c) ==
  /\ pc[c] # "write"
  /\ pc[c] \in {"read", "advance"} => head # tail
  /\ pc[c] = "advance" => value[c] = data[head]

RingInv ==
  /\ RingTypeOK
  /\ \A p \in Producers : ProducerState(p)
  /\ \A c \in Consumers : ConsumerState(c)

-----------------------------------------------------------------------------
(* The ring of RingFifo in the terms of SharedLemmas.                      *)

LEMMA Terms ==
  /\ size \in Nat \ {0, 1}
  /\ Indices = Slots(size)
  /\ \A i : Succ(i) = After(size, i)
  /\ Content = Elements(size, head, tail, data)
BY RingAssumption DEF Indices, Slots, Succ, After, Content, Elements, Count, Place

LEMMA SuccType ==
  ASSUME NEW i \in Indices
  PROVE  Succ(i) \in Indices
BY Terms, AfterIs

-----------------------------------------------------------------------------
(* The invariant is inductive.                                             *)

LEMMA RingInvInit == Init => RingInv
<1> SUFFICES ASSUME Init PROVE RingInv
  OBVIOUS
<1>1. RingTypeOK
  BY RingAssumption DEF Init, RingTypeOK, Indices, Option, Users
<1>2. \A u \in Users : pc[u] = "idle"
  BY DEF Init
<1> QED BY <1>1, <1>2 DEF RingInv, ProducerState, ConsumerState, Users

(* What a step of one user changes for the others.                         *)
LEMMA RingInvUser ==
  ASSUME SingleUsers, RingInv, NEW u \in Users,
         RingTypeOK', \A w \in Users \ {u} : pc'[w] = pc[w] /\ value'[w] = value[w],
         u \in Producers =>
           /\ ProducerState(u)' /\ head' = head
           /\ head # tail => head' # tail' /\ data'[head] = data[head],
         u \in Consumers =>
           /\ ConsumerState(u)' /\ tail' = tail /\ data' = data
           /\ Succ(tail) # head => Succ(tail) # head'
  PROVE  RingInv'
<1>1. u \notin Producers \/ u \notin Consumers
  BY RingAssumption
<1>2. \A p \in Producers : ProducerState(p)'
  <2> SUFFICES ASSUME NEW p \in Producers PROVE ProducerState(p)'
    OBVIOUS
  <2>1. CASE u \in Producers
    BY <2>1 DEF SingleUsers
  <2>2. CASE u \in Consumers
    <3>1. p # u /\ p \in Users
      BY <1>1, <2>2 DEF Users
    <3>2. Succ(tail)' = Succ(tail)
      BY <2>2 DEF Succ
    <3> QED BY <2>2, <3>1, <3>2 DEF RingInv, ProducerState
  <2> QED BY <2>1, <2>2 DEF Users
<1>3. \A c \in Consumers : ConsumerState(c)'
  <2> SUFFICES ASSUME NEW c \in Consumers PROVE ConsumerState(c)'
    OBVIOUS
  <2>1. CASE u \in Consumers
    BY <2>1 DEF SingleUsers
  <2>2. CASE u \in Producers
    <3>1. c # u /\ c \in Users
      BY <1>1, <2>2 DEF Users
    <3> QED BY <2>2, <3>1 DEF RingInv, ConsumerState
  <2> QED BY <2>1, <2>2 DEF Users
<1> QED BY <1>2, <1>3 DEF RingInv

LEMMA RingInvPut ==
  ASSUME SingleUsers, RingInv, NEW p \in Producers, Put(p)
  PROVE  RingInv'
<1>0. RingTypeOK /\ ProducerState(p) /\ p \in Users /\ p \notin Consumers
  BY RingAssumption DEF RingInv, Users
<1>1. CASE \E v \in Values : PutTest(p, v)
  <2>1. PICK v \in Values : PutTest(p, v)
    BY <1>1
  <2>2. RingTypeOK'
    BY <1>0, <2>1 DEF PutTest, RingTypeOK, ring, Goto, Option
  <2>3. ProducerState(p)'
    BY <1>0, <2>1 DEF PutTest, ProducerState, RingTypeOK, ring, Goto, Succ
  <2>4. \A w \in Users \ {p} : pc'[w] = pc[w] /\ value'[w] = value[w]
    BY <1>0, <2>1 DEF PutTest, RingTypeOK, Goto
  <2> QED BY <1>0, <2>1, <2>2, <2>3, <2>4, RingInvUser DEF PutTest, ring
<1>2. CASE PutWrite(p)
  <2>1. RingTypeOK'
    BY <1>0, <1>2 DEF PutWrite, RingTypeOK, results, Goto
  <2>2. ProducerState(p)'
    BY <1>0, <1>2 DEF PutWrite, ProducerState, RingTypeOK, Goto, Succ
  <2>3. \A w \in Users \ {p} : pc'[w] = pc[w] /\ value'[w] = value[w]
    BY <1>0, <1>2 DEF PutWrite, RingTypeOK, Goto
  <2>4. head' = head /\ tail' = tail /\ (head # tail => data'[head] = data[head])
    BY <1>0, <1>2 DEF PutWrite, RingTypeOK
  <2> QED BY <1>0, <2>1, <2>2, <2>3, <2>4, RingInvUser
<1>3. CASE PutAdvance(p)
  <2>1. RingTypeOK'
    BY <1>0, <1>3, SuccType DEF PutAdvance, RingTypeOK, Goto, Option
  <2>2. ProducerState(p)'
    BY <1>0, <1>3 DEF PutAdvance, ProducerState, RingTypeOK, Goto
  <2>3. \A w \in Users \ {p} : pc'[w] = pc[w] /\ value'[w] = value[w]
    BY <1>0, <1>3 DEF PutAdvance, RingTypeOK, Goto
  <2>4. head' = head /\ data' = data /\ head' # tail'
    BY <1>0, <1>3 DEF PutAdvance, ProducerState
  <2> QED BY <1>0, <2>1, <2>2, <2>3, <2>4, RingInvUser
<1> QED BY <1>1, <1>2, <1>3 DEF Put

LEMMA RingInvGet ==
  ASSUME SingleUsers, RingInv, NEW c \in Consumers, Get(c)
  PROVE  RingInv'
<1>0. RingTypeOK /\ ConsumerState(c) /\ c \in Users /\ c \notin Producers
  BY RingAssumption DEF RingInv, Users
<1>1. CASE GetTest(c)
  <2>1. RingTypeOK'
    BY <1>0, <1>1 DEF GetTest, RingTypeOK, ring, Goto, Option
  <2>2. ConsumerState(c)'
    BY <1>0, <1>1 DEF GetTest, ConsumerState, RingTypeOK, ring, Goto
  <2>3. \A w \in Users \ {c} : pc'[w] = pc[w] /\ value'[w] = value[w]
    BY <1>0, <1>1 DEF GetTest, RingTypeOK, Goto
  <2> QED BY <1>0, <1>1, <2>1, <2>2, <2>3, RingInvUser DEF GetTest, ring
<1>2. CASE GetRead(c)
  <2>1. RingTypeOK'
    BY <1>0, <1>2 DEF GetRead, RingTypeOK, ring, results, Goto
  <2>2. ConsumerState(c)'
    BY <1>0, <1>2 DEF GetRead, ConsumerState, RingTypeOK, ring, Goto
  <2>3. \A w \in Users \ {c} : pc'[w] = pc[w] /\ value'[w] = value[w]
    BY <1>0, <1>2 DEF GetRead, RingTypeOK, Goto
  <2> QED BY <1>0, <1>2, <2>1, <2>2, <2>3, RingInvUser DEF GetRead, ring
<1>3. CASE GetAdvance(c)
  <2>1. RingTypeOK'
    BY <1>0, <1>3, SuccType DEF GetAdvance, RingTypeOK, Goto, Option
  <2>2. ConsumerState(c)'
    BY <1>0, <1>3 DEF GetAdvance, ConsumerState, RingTypeOK, Goto
  <2>3. \A w \in Users \ {c} : pc'[w] = pc[w] /\ value'[w] = value[w]
    BY <1>0, <1>3 DEF GetAdvance, RingTypeOK, Goto
  <2>4. tail' = tail /\ data' = data /\ Succ(tail) # head'
    <3>1. tail \in Indices /\ head \in Indices /\ head # tail
      BY <1>0, <1>3 DEF GetAdvance, ConsumerState, RingTypeOK
    <3>2. Succ(tail) # Succ(head)
      <4>1. Succ(tail) = IF tail = size - 1 THEN 0 ELSE tail + 1
        BY <3>1, Terms, AfterIs
      <4>2. Succ(head) = IF head = size - 1 THEN 0 ELSE head + 1
        BY <3>1, Terms, AfterIs
      <4> QED BY <3>1, <4>1, <4>2, RingAssumption DEF Indices
    <3> QED BY <1>3, <3>2 DEF GetAdvance
  <2> QED BY <1>0, <2>1, <2>2, <2>3, <2>4, RingInvUser
<1> QED BY <1>1, <1>2, <1>3 DEF Get

LEMMA ReturnedIs ==
  ASSUME NEW n \in Int
  PROVE  /\ Returned(n) \in 0 .. Lengths - 1
         /\ Lengths = Wrap => Returned(n) = n % Wrap
<1> DEFINE r == n % Wrap
<1>1. Wrap \in Nat \ {0} /\ Lengths \in Nat \ {0}
  BY RingAssumption
<1>2. r \in 0 .. Wrap - 1
  BY <1>1, ModuloRange
<1> HIDE DEF r
<1>3. r % Lengths \in 0 .. Lengths - 1
  BY <1>1, <1>2, ModuloRange
<1>4. r % Wrap = r
  <2>1. (0 * Wrap + r) % Wrap = r
    BY <1>1, <1>2, Remainder
  <2>2. 0 * Wrap + r = r
    BY <1>1, <1>2
  <2> QED BY <2>1, <2>2
<1> QED BY <1>3, <1>4 DEF Returned, r

LEMMA RingInvSize ==
  ASSUME SingleUsers, RingInv, NEW u \in Users, Size(u)
  PROVE  RingInv'
<1>0. RingTypeOK
  BY DEF RingInv
<1>1. UNCHANGED <<ring, value>>
  BY DEF Size, SizeTest, SizeResult
<1>2. pc'[u] \in {"ahead", "behind", "idle"} /\ \A w \in Users \ {u} : pc'[w] = pc[w]
  BY <1>0 DEF Size, SizeTest, SizeResult, Goto, RingTypeOK
<1>3. RingTypeOK'
  <2>1. CASE SizeTest(u)
    BY <1>0, <2>1 DEF SizeTest, RingTypeOK, Goto, ring, results
  <2>2. CASE SizeResult(u)
    <3> DEFINE x == Wrap + tail - head
               y == Wrap + size - (head - tail)
    <3>1. x \in Int /\ y \in Int
      BY <1>0, RingAssumption DEF RingTypeOK, Indices
    <3> HIDE DEF x, y
    <3>2. Returned(x) \in 0 .. Lengths - 1 /\ Returned(y) \in 0 .. Lengths - 1
      BY <3>1, ReturnedIs
    <3>3. length' \in [Users -> 0 .. Lengths - 1]
      BY <1>0, <2>2, <3>2 DEF SizeResult, RingTypeOK, x, y
    <3> QED BY <1>0, <2>2, <3>3 DEF SizeResult, RingTypeOK, Goto, ring
  <2> QED BY <2>1, <2>2 DEF Size
<1>4. u \in Producers => ProducerState(u)'
  BY <1>2 DEF ProducerState
<1>5. u \in Consumers => ConsumerState(u)'
  BY <1>2 DEF ConsumerState
<1> QED BY <1>1, <1>2, <1>3, <1>4, <1>5, RingInvUser DEF ring

LEMMA RingInvNext == SingleUsers /\ RingInv /\ [Next]_vars => RingInv'
<1> SUFFICES ASSUME SingleUsers, RingInv, [Next]_vars PROVE RingInv'
  OBVIOUS
<1>1. CASE UNCHANGED vars
  BY <1>1 DEF vars, ring, results, RingInv, RingTypeOK, ProducerState, ConsumerState, Succ
<1> QED BY <1>1, RingInvPut, RingInvGet, RingInvSize DEF Next

(* The inductive invariant of the lock-free fifos: a user past its test has*)
(* a slot or an element until it moves its index.                          *)
THEOREM RingInvariant ==
  ASSUME SingleUsers
  PROVE  Spec => []RingInv
BY RingInvInit, RingInvNext, PTL DEF Spec

-----------------------------------------------------------------------------
(* The contents of the ring: what a put and a get do to them.              *)

LEMMA ContentType ==
  ASSUME RingTypeOK
  PROVE  Content \in Seq(Option) /\ (Content = <<>> <=> head = tail)
<1>1. /\ size \in Nat \ {0, 1} /\ head \in Slots(size) /\ tail \in Slots(size)
      /\ data \in [Slots(size) -> Option]
  BY Terms DEF RingTypeOK
<1>2. Elements(size, head, tail, data) \in Seq(Option)
  BY <1>1, ElementsAre
<1>3. head = tail <=> Len(Elements(size, head, tail, data)) = 0
  BY <1>1, FullOrEmpty
<1>4. Content = Elements(size, head, tail, data)
  BY Terms
<1> QED BY <1>2, <1>3, <1>4

LEMMA ContentWrite ==
  ASSUME RingTypeOK, NEW p \in Producers, PutWrite(p)
  PROVE  UNCHANGED Content
<1>1. /\ size \in Nat \ {0, 1} /\ head \in Slots(size) /\ tail \in Slots(size)
      /\ data \in [Slots(size) -> Option]
  BY Terms DEF RingTypeOK
<1>2. UNCHANGED <<head, tail>> /\ data' = [data EXCEPT ![tail] = value[p]]
  BY DEF PutWrite
<1>3. Content' = Elements(size, head, tail, data')
  BY <1>2 DEF Content, Elements, Count, Place
<1>4. \A i \in Slots(size) \ {tail} : data'[i] = data[i]
  BY <1>1, <1>2
<1>5. Elements(size, head, tail, data') = Elements(size, head, tail, data)
  BY <1>1, <1>4, ElementsWrite
<1> QED BY <1>3, <1>5, Terms

LEMMA ContentPut ==
  ASSUME RingInv, NEW p \in Producers, PutAdvance(p)
  PROVE  /\ value[p] \in Values /\ Len(Content) < size - 1
         /\ Content' = Append(Content, value[p])
<1>1. /\ ProducerState(p)
      /\ size \in Nat \ {0, 1} /\ head \in Slots(size) /\ tail \in Slots(size)
      /\ data \in [Slots(size) -> Option]
  BY Terms DEF RingInv, RingTypeOK
<1>2. Succ(tail) # head /\ value[p] \in Values /\ data[tail] = value[p]
  BY <1>1 DEF PutAdvance, ProducerState
<1>3. Content' = Elements(size, head, Succ(tail), data)
  BY DEF PutAdvance, Content, Elements, Count, Place
<1>4. After(size, tail) # head
  BY <1>2, Terms
<1>5. /\ Len(Elements(size, head, tail, data)) < size - 1
      /\ Elements(size, head, After(size, tail), data)
           = Append(Elements(size, head, tail, data), data[tail])
  BY <1>1, <1>4, ElementsPut
<1>6. Content = Elements(size, head, tail, data) /\ Succ(tail) = After(size, tail)
  BY Terms
<1> QED BY <1>2, <1>3, <1>5, <1>6

LEMMA ContentGet ==
  ASSUME RingInv, NEW c \in Consumers, GetAdvance(c)
  PROVE  /\ Content # <<>> /\ Head(Content) = value[c]
         /\ Content' = Tail(Content)
<1>1. /\ ConsumerState(c)
      /\ size \in Nat \ {0, 1} /\ head \in Slots(size) /\ tail \in Slots(size)
      /\ data \in [Slots(size) -> Option]
  BY Terms DEF RingInv, RingTypeOK
<1>2. head # tail /\ value[c] = data[head]
  BY <1>1 DEF GetAdvance, ConsumerState
<1>3. Content' = Elements(size, Succ(head), tail, data)
  BY DEF GetAdvance, Content, Elements, Count, Place
<1>4. /\ Elements(size, head, tail, data) # <<>>
      /\ Head(Elements(size, head, tail, data)) = data[head]
      /\ Elements(size, After(size, head), tail, data)
           = Tail(Elements(size, head, tail, data))
  BY <1>1, <1>2, ElementsGet
<1>5. Content = Elements(size, head, tail, data) /\ Succ(head) = After(size, head)
  BY Terms
<1> QED BY <1>2, <1>3, <1>4, <1>5
-----------------------------------------------------------------------------
(* Every step of the ring is a step of the queue or none.                  *)

LEMMA PutRefines ==
  ASSUME RingInv, NEW p \in Producers, Put(p)
  PROVE  [BoundedQueue!Next]_(BoundedQueue!vars)
<1>0. /\ RingTypeOK
      /\ size \in Nat \ {0, 1}
      /\ head \in Slots(size) /\ tail \in Slots(size)
      /\ data \in [Slots(size) -> Option]
  BY Terms DEF RingInv, RingTypeOK
<1>1. CASE \E v \in Values : PutTest(p, v) /\ UNCHANGED put
  <2>1. UNCHANGED Content
    BY <1>1 DEF PutTest, ring, Content
  <2> QED BY <1>1, <2>1 DEF PutTest, BoundedQueue!vars
<1>2. CASE \E v \in Values : PutTest(p, v) /\ Succ(tail) = head
  <2>1. Len(Content) = size - 1
    BY <1>0, <1>2, Terms, FullOrEmpty
  <2>2. UNCHANGED Content /\ put' = [put EXCEPT ![p] = "full"] /\ UNCHANGED got
    BY <1>2 DEF PutTest, ring, Content
  <2> QED BY <2>1, <2>2 DEF BoundedQueue!Next, BoundedQueue!PutRefused
<1>3. CASE PutWrite(p)
  BY <1>0, <1>3, ContentWrite DEF PutWrite, results, BoundedQueue!vars
<1>4. CASE PutAdvance(p)
  <2>1. value[p] \in Values /\ BoundedQueue!Put(p, value[p])
    BY <1>4, ContentPut DEF PutAdvance, BoundedQueue!Put
  <2> QED BY <2>1 DEF BoundedQueue!Next
<1> QED BY <1>1, <1>2, <1>3, <1>4 DEF Put, PutTest

LEMMA GetRefines ==
  ASSUME RingInv, NEW c \in Consumers, Get(c)
  PROVE  [BoundedQueue!Next]_(BoundedQueue!vars)
<1>0. /\ RingTypeOK
      /\ size \in Nat \ {0, 1}
      /\ head \in Slots(size) /\ tail \in Slots(size)
      /\ data \in [Slots(size) -> Option]
  BY Terms DEF RingInv, RingTypeOK
<1>1. CASE (GetTest(c) \/ GetRead(c)) /\ UNCHANGED got
  <2>1. UNCHANGED Content
    BY <1>1 DEF GetTest, GetRead, ring, Content
  <2> QED BY <1>1, <2>1 DEF GetTest, GetRead, results, BoundedQueue!vars
<1>2. CASE GetTest(c) /\ head = tail
  <2>1. Content = <<>>
    BY <1>0, <1>2, ContentType
  <2>2. UNCHANGED Content /\ got' = [got EXCEPT ![c] = NULL] /\ UNCHANGED put
    BY <1>2 DEF GetTest, ring, Content
  <2> QED BY <2>1, <2>2 DEF BoundedQueue!Next, BoundedQueue!GetRefused
<1>3. CASE GetAdvance(c)
  <2>1. BoundedQueue!Get(c)
    BY <1>3, ContentGet DEF GetAdvance, BoundedQueue!Get
  <2> QED BY <2>1 DEF BoundedQueue!Next
<1> QED BY <1>1, <1>2, <1>3 DEF Get, GetTest, GetRead, results

LEMMA StepRefines ==
  RingInv /\ [Next]_vars => [BoundedQueue!Next]_(BoundedQueue!vars)
<1> SUFFICES ASSUME RingInv, [Next]_vars
             PROVE  [BoundedQueue!Next]_(BoundedQueue!vars)
  OBVIOUS
<1>1. CASE UNCHANGED <<ring, put, got>>
  <2>1. UNCHANGED Content
    BY <1>1 DEF ring, Content
  <2> QED BY <1>1, <2>1 DEF BoundedQueue!vars
<1>2. ASSUME NEW u \in Users, Size(u) PROVE UNCHANGED <<ring, put, got>>
  BY <1>2 DEF Size, SizeTest, SizeResult, results
<1> QED BY <1>1, <1>2, PutRefines, GetRefines DEF Next, vars, results

(* fifo32_* and fifo8_* are queues of size - 1 elements, whatever two      *)
(* users do and however they interleave: nothing is lost, duplicated,      *)
(* reordered or read before it is written.                                 *)
THEOREM RingIsQueue ==
  ASSUME SingleUsers
  PROVE  Spec => ImplementsQueue
<1>1. Init => BoundedQueue!Init
  <2> SUFFICES ASSUME Init PROVE BoundedQueue!Init
    OBVIOUS
  <2>1. head \in Indices /\ tail \in Indices /\ data \in [Indices -> Option]
    BY RingAssumption DEF Init, Indices, Option
  <2>2. Content \in Seq(Option) /\ Len(Content) = 0
    BY <2>1, Terms, ElementsAre, FullOrEmpty DEF Init
  <2>3. Content = <<>>
    BY <2>2
  <2> QED BY <2>3 DEF Init, BoundedQueue!Init
<1> QED BY <1>1, StepRefines, RingInvariant, PTL
        DEF Spec, ImplementsQueue, BoundedQueue!Spec

-----------------------------------------------------------------------------
(* The two sizes a call may compute, from indices that have moved since    *)
(* its test, differ by one lap of the ring.                                *)
LEMMA SizeStep ==
  ASSUME RingInv, NEW u \in Users, SizeResult(u)
  PROVE  \E lap \in {-size, 0, size} : length'[u] = Returned(Wrap + Len(Content) + lap)
<1>0. RingTypeOK
  BY DEF RingInv
<1>1. head \in Indices /\ tail \in Indices
  BY <1>0 DEF RingTypeOK
<1>2. Len(Content) = IF tail >= head THEN tail - head ELSE tail + size - head
  <2>1. Len(Content) = Count(size, head, tail)
    BY <1>0, Terms, ElementsAre DEF RingTypeOK
  <2> QED BY <1>1, <2>1, Terms, CountIs
<1>3. CASE pc[u] = "ahead"
  <2>1. length'[u] = Returned(Wrap + tail - head)
    BY <1>0, <1>3 DEF SizeResult, RingTypeOK
  <2>2. \E lap \in {-size, 0, size} : Wrap + tail - head = Wrap + Len(Content) + lap
    BY <1>1, <1>2, RingAssumption DEF Indices
  <2> QED BY <2>1, <2>2
<1>4. CASE pc[u] = "behind"
  <2>1. length'[u] = Returned(Wrap + size - (head - tail))
    BY <1>0, <1>4 DEF SizeResult, RingTypeOK
  <2>2. \E lap \in {-size, 0, size} : Wrap + size - (head - tail) = Wrap + Len(Content) + lap
    BY <1>1, <1>2, RingAssumption DEF Indices
  <2> QED BY <2>1, <2>2
<1> QED BY <1>3, <1>4 DEF SizeResult

(* The length that fifo32_size or fifo8_size computes is off by at most    *)
(* one lap.                                                                *)
THEOREM LengthOffByALap ==
  ASSUME SingleUsers
  PROVE  Spec => LengthOffByOneLap
<1> DEFINE OffByALap ==
      \A u \in Users : SizeResult(u) =>
        \E lap \in {-size, 0, size} : length'[u] = Returned(Wrap + Len(Content) + lap)
<1>1. RingInv => OffByALap
  BY SizeStep
<1> QED BY <1>1, RingInvariant, PTL DEF Spec, LengthOffByOneLap

-----------------------------------------------------------------------------
(* The screens that the terminal shows on the way.                         *)
Shows(f, s, bytes) ==
  f = [i \in 0 .. Len(bytes) |-> IF i = 0 THEN s ELSE Show(f[i - 1], bytes[i])]

LEMMA ShowsExist ==
  ASSUME NEW s, NEW bytes \in Seq(Values)
  PROVE  \E f : Shows(f, s, bytes)
<1> DEFINE UpTo(f, n) ==
             f = [i \in 0 .. n |-> IF i = 0 THEN s ELSE Show(f[i - 1], bytes[i])]
           bad == {n \in Nat : ~ \E f : UpTo(f, n)}
<1>1. SUFFICES bad = {}
  BY DEF Shows
<1>2. SUFFICES ASSUME bad # {} PROVE FALSE
  OBVIOUS
<1>3. PICK n \in bad : \A m \in bad : n <= m
  BY <1>2, LeastNat
<1>4. CASE n = 0
  <2>1. UpTo([i \in 0 .. 0 |-> s], 0)
    OBVIOUS
  <2> QED BY <2>1, <1>3, <1>4
<1>5. CASE n # 0
  <2>1. n - 1 \in Nat /\ n - 1 \notin bad
    <3>1. n \in Nat /\ \A m \in bad : n <= m
      BY <1>3
    <3> HIDE DEF bad
    <3> QED BY <3>1, <1>5
  <2>2. PICK f : UpTo(f, n - 1)
    BY <2>1
  <2>3. UpTo([i \in 0 .. n |-> IF i = n THEN Show(f[n - 1], bytes[n]) ELSE f[i]], n)
    <3> DEFINE g == [i \in 0 .. n |-> IF i = n THEN Show(f[n - 1], bytes[n]) ELSE f[i]]
    <3>1. \A i \in 0 .. n - 1 : f[i] = IF i = 0 THEN s ELSE Show(f[i - 1], bytes[i])
      BY <2>2
    <3>2. ASSUME NEW i \in 0 .. n
          PROVE  g[i] = IF i = 0 THEN s ELSE Show(g[i - 1], bytes[i])
      <4>1. i # 0 => g[i - 1] = f[i - 1]
        BY <1>3
      <4> QED BY <4>1, <3>1, <1>3, <1>5
    <3>3. g = [i \in 0 .. n |-> g[i]]
      OBVIOUS
    <3> HIDE DEF g
    <3>4. UpTo(g, n)
      BY <3>2, <3>3
    <3> QED BY <3>4 DEF g
  <2> QED BY <2>3, <1>3
<1> QED BY <1>4, <1>5

LEMMA ShowAllIs ==
  ASSUME NEW s, NEW bytes \in Seq(Values), NEW f, Shows(f, s, bytes)
  PROVE  ShowAll(s, bytes) = f[Len(bytes)]
<1> DEFINE g == CHOOSE h : Shows(h, s, bytes)
           bad == {i \in Nat : i <= Len(bytes) /\ f[i] # g[i]}
<1>1. Shows(g, s, bytes)
  OBVIOUS
<1>2. ShowAll(s, bytes) = g[Len(bytes)]
  BY DEF ShowAll, Shows
<1> HIDE DEF g
<1>3. ASSUME bad # {} PROVE FALSE
  <2>1. PICK n \in bad : \A m \in bad : n <= m
    BY <1>3, LeastNat
  <2>2. n # 0 => n - 1 \in Nat /\ n - 1 \notin bad
    BY <2>1
  <2>3. n \in 0 .. Len(bytes) /\ f[n] # g[n]
    BY <2>1
  <2>4. n # 0 => f[n - 1] = g[n - 1]
    BY <2>2, <2>3
  <2> QED BY <1>1, <2>3, <2>4 DEF Shows
<1>4. Len(bytes) \in Nat
  OBVIOUS
<1> QED BY <1>2, <1>3, <1>4

LEMMA ShowNothing ==
  ASSUME NEW s
  PROVE  ShowAll(s, <<>>) = s
<1>1. <<>> \in Seq(Values) /\ Len(<<>>) = 0
  OBVIOUS
<1>2. PICK f : Shows(f, s, <<>>)
  BY <1>1, ShowsExist
<1> QED BY <1>1, <1>2, ShowAllIs DEF Shows

(* The first byte is shown.                                                *)
LEMMA ShowFirst ==
  ASSUME NEW s, NEW bytes \in Seq(Values), bytes # <<>>
  PROVE  ShowAll(s, bytes) = ShowAll(Show(s, Head(bytes)), Tail(bytes))
<1> DEFINE n == Len(bytes)
           rest == Tail(bytes)
<1>1. /\ n \in Nat \ {0} /\ rest \in Seq(Values) /\ Len(rest) = n - 1
      /\ Head(bytes) = bytes[1] /\ \A i \in 1 .. n - 1 : rest[i] = bytes[i + 1]
  OBVIOUS
<1>2. PICK f : Shows(f, s, bytes)
  BY ShowsExist
<1> DEFINE g == [i \in 0 .. n - 1 |-> f[i + 1]]
<1> HIDE DEF n, rest
<1>3. \A i \in 0 .. n : f[i] = IF i = 0 THEN s ELSE Show(f[i - 1], bytes[i])
  BY <1>2 DEF Shows, n
<1>4. ASSUME NEW i \in 0 .. n - 1
      PROVE  g[i] = IF i = 0 THEN Show(s, bytes[1]) ELSE Show(g[i - 1], rest[i])
  <2>1. CASE i = 0
    <3>1. f[1] = Show(f[0], bytes[1]) /\ f[0] = s
      BY <1>1, <1>3
    <3> QED BY <2>1, <3>1, <1>1
  <2>2. CASE i # 0
    <3>1. /\ f[i + 1] = Show(f[i], bytes[i + 1]) /\ g[i] = f[i + 1]
          /\ g[i - 1] = f[i] /\ rest[i] = bytes[i + 1]
      BY <1>1, <1>3, <2>2
    <3> QED BY <2>2, <3>1
  <2> QED BY <2>1, <2>2
<1>5. Shows(g, Show(s, bytes[1]), rest)
  <2>1. g = [i \in 0 .. n - 1 |-> g[i]]
    OBVIOUS
  <2> HIDE DEF g
  <2> QED BY <2>1, <1>1, <1>4 DEF Shows
<1>6. g[n - 1] = f[n]
  BY <1>1
<1>7. ShowAll(s, bytes) = f[n]
  BY <1>2, ShowAllIs DEF n
<1>8. ShowAll(Show(s, bytes[1]), rest) = g[n - 1]
  BY <1>1, <1>5, ShowAllIs
<1> QED BY <1>1, <1>6, <1>7, <1>8 DEF rest

(* The last byte is shown.                                                 *)
LEMMA ShowLast ==
  ASSUME NEW s, NEW bytes \in Seq(Values), NEW b \in Values
  PROVE  ShowAll(s, Append(bytes, b)) = Show(ShowAll(s, bytes), b)
<1> DEFINE n == Len(bytes)
           all == Append(bytes, b)
<1>1. /\ n \in Nat /\ all \in Seq(Values) /\ Len(all) = n + 1
      /\ all[n + 1] = b /\ \A i \in 1 .. n : all[i] = bytes[i]
  OBVIOUS
<1> HIDE DEF all
<1>2. PICK f : Shows(f, s, all)
  BY <1>1, ShowsExist
<1> DEFINE g == [i \in 0 .. n |-> f[i]]
<1>3. \A i \in 0 .. n + 1 : f[i] = IF i = 0 THEN s ELSE Show(f[i - 1], all[i])
  BY <1>1, <1>2 DEF Shows
<1>4. Shows(g, s, bytes)
  <2>1. \A i \in 0 .. n : g[i] = IF i = 0 THEN s ELSE Show(g[i - 1], bytes[i])
    BY <1>1, <1>3
  <2>2. g = [i \in 0 .. n |-> g[i]]
    OBVIOUS
  <2> HIDE DEF g
  <2> QED BY <2>1, <2>2 DEF Shows
<1>5. ShowAll(s, bytes) = f[n]
  BY <1>1, <1>4, ShowAllIs
<1>6. ShowAll(s, all) = f[n + 1] /\ f[n + 1] = Show(f[n], b)
  BY <1>1, <1>2, <1>3, ShowAllIs
<1> QED BY <1>5, <1>6 DEF all

-----------------------------------------------------------------------------
(* What a byte does to a screen.                                           *)

IsScreen(s) == s \in [cells : Seq(Values), col : Nat] /\ s.col <= Len(s.cells)

(* The screen shows the line l, with the cursor at its end.                *)
Displays(s, l) ==
  /\ Len(l) = s.col /\ \A i \in 1 .. s.col : s.cells[i] = l[i]
  /\ \A i \in s.col + 1 .. Len(s.cells) : s.cells[i] = SP

LEMMA DisplaysIs ==
  ASSUME NEW s, IsScreen(s), NEW l \in Seq(Values)
  PROVE  Displays(s, l) <=> /\ SubSeq(s.cells, 1, s.col) = l
                            /\ \A i \in s.col + 1 .. Len(s.cells) : s.cells[i] = SP
<1> DEFINE start == SubSeq(s.cells, 1, s.col)
<1>1. s.cells \in Seq(Values) /\ s.col \in Nat /\ s.col <= Len(s.cells)
  BY DEF IsScreen
<1>2. start \in Seq(Values) /\ Len(start) = s.col /\ \A i \in 1 .. s.col : start[i] = s.cells[i]
  BY <1>1
<1> HIDE DEF start
<1>3. start = l <=> Len(l) = s.col /\ \A i \in 1 .. s.col : start[i] = l[i]
  BY <1>1, <1>2
<1> QED BY <1>2, <1>3 DEF Displays, start

LEMMA ShowBack ==
  ASSUME NEW s, IsScreen(s)
  PROVE  /\ IsScreen(Show(s, BS)) /\ Show(s, BS).cells = s.cells
         /\ Show(s, BS).col = IF s.col = 0 THEN 0 ELSE s.col - 1
<1>1. Show(s, BS) = [s EXCEPT !.col = IF s.col = 0 THEN 0 ELSE s.col - 1]
  BY UartAssumption DEF Show
<1> QED BY <1>1 DEF IsScreen

LEMMA ShowReturn ==
  ASSUME NEW s, IsScreen(s)
  PROVE  IsScreen(Show(s, CR)) /\ Show(s, CR).cells = s.cells /\ Show(s, CR).col = 0
<1>1. Show(s, CR) = [s EXCEPT !.col = 0]
  BY UartAssumption DEF Show
<1> QED BY <1>1 DEF IsScreen

LEMMA ShowFeed ==
  ASSUME NEW s, IsScreen(s)
  PROVE  /\ IsScreen(Show(s, LF)) /\ Show(s, LF).col = s.col
         /\ Len(Show(s, LF).cells) = s.col
         /\ \A i \in 1 .. s.col : Show(s, LF).cells[i] = SP
<1>1. Show(s, LF) = [s EXCEPT !.cells = [i \in 1 .. s.col |-> SP]]
  BY UartAssumption DEF Show
<1>2. s.col \in Nat /\ SP \in Values
  BY UartAssumption DEF IsScreen
<1> DEFINE blank == [i \in 1 .. s.col |-> SP]
<1>3. blank \in Seq(Values) /\ Len(blank) = s.col /\ \A i \in 1 .. s.col : blank[i] = SP
  BY <1>2
<1> HIDE DEF blank
<1>4. Show(s, LF).cells = blank /\ Show(s, LF).col = s.col
      /\ Show(s, LF) \in [cells : Seq(Values), col : Nat]
  BY <1>1, <1>2, <1>3 DEF IsScreen, blank
<1> QED BY <1>3, <1>4 DEF IsScreen

LEMMA ShowPrintable ==
  ASSUME NEW s, IsScreen(s), NEW b \in Values, b \notin {BS, CR, LF}
  PROVE  LET t == Show(s, b)
             n == Len(s.cells)
         IN  /\ IsScreen(t) /\ t.col = s.col + 1
             /\ Len(t.cells) = IF s.col = n THEN n + 1 ELSE n
             /\ \A i \in 1 .. Len(t.cells) :
                  t.cells[i] = IF i = s.col + 1 THEN b ELSE s.cells[i]
<1> DEFINE c == s.cells
           k == s.col
           n == Len(c)
           before == SubSeq(c, 1, k)
           after == SubSeq(c, k + 2, n)
           both == before \o <<b>>
           row == both \o after
<1>1. Show(s, b) = [cells |-> row, col |-> k + 1]
  BY DEF Show
<1>2. c \in Seq(Values) /\ k \in Nat /\ k <= n /\ n \in Nat
  BY DEF IsScreen
<1> HIDE DEF c, k
<1>3. /\ before \in Seq(Values) /\ Len(before) = k
      /\ \A i \in 1 .. k : before[i] = c[i]
  BY <1>2
<1>4. /\ after \in Seq(Values) /\ Len(after) = IF k + 2 <= n THEN n - (k + 2) + 1 ELSE 0
      /\ \A i \in 1 .. Len(after) : after[i] = c[k + 1 + i]
  BY <1>2
<1> HIDE DEF before, after
<1>5. /\ both \in Seq(Values) /\ Len(both) = k + 1
      /\ \A i \in 1 .. k + 1 : both[i] = IF i = k + 1 THEN b ELSE c[i]
  BY <1>2, <1>3
<1> HIDE DEF both
<1> DEFINE m == Len(after)
<1>6. /\ row \in Seq(Values) /\ Len(row) = k + 1 + m /\ m \in Nat
      /\ \A i \in 1 .. k + 1 : row[i] = both[i]
      /\ \A i \in 1 .. m : row[k + 1 + i] = after[i]
  <2>1. after \in Seq(Values) /\ both \in Seq(Values) /\ m = Len(after) /\ k + 1 = Len(both)
    BY <1>2, <1>4, <1>5
  <2> HIDE DEF m
  <2>2. row \in Seq(Values) /\ Len(row) = Len(both) + m /\ m \in Nat
    BY <2>1
  <2>3. \A i \in 1 .. Len(both) : row[i] = both[i]
    BY <2>1
  <2>4. \A i \in 1 .. m : row[Len(both) + i] = after[i]
    BY <2>1
  <2> QED BY <2>1, <2>2, <2>3, <2>4
<1>10. m = IF k + 2 <= n THEN n - (k + 2) + 1 ELSE 0
  BY <1>4
<1>11. \A i \in 1 .. m : after[i] = c[k + 1 + i]
  BY <1>4
<1> HIDE DEF row, m, n
<1>7. Len(row) = IF k = n THEN n + 1 ELSE n
  BY <1>2, <1>6, <1>10
<1>8. \A i \in 1 .. Len(row) : row[i] = IF i = k + 1 THEN b ELSE c[i]
  <2> SUFFICES ASSUME NEW i \in 1 .. Len(row)
               PROVE  row[i] = IF i = k + 1 THEN b ELSE c[i]
    OBVIOUS
  <2>1. CASE i <= k + 1
    BY <1>2, <1>5, <1>6, <2>1
  <2>2. CASE i > k + 1
    <3>1. PICK j \in 1 .. m : i = k + 1 + j
      <4>1. i - (k + 1) \in 1 .. m /\ i = k + 1 + (i - (k + 1))
        BY <1>2, <1>6, <2>2
      <4> QED BY <4>1
    <3>2. row[i] = after[j] /\ after[j] = c[k + 1 + j]
      BY <1>6, <1>11, <3>1
    <3> QED BY <1>2, <2>2, <3>1, <3>2
  <2> QED BY <1>2, <2>1, <2>2
<1>9. k + 1 <= Len(row) /\ k + 1 \in Nat
  BY <1>2, <1>7
<1> QED BY <1>1, <1>2, <1>6, <1>7, <1>8, <1>9 DEF IsScreen, c, k, n

LEMMA ShowType ==
  ASSUME NEW s, IsScreen(s), NEW b \in Values
  PROVE  IsScreen(Show(s, b))
BY ShowBack, ShowReturn, ShowFeed, ShowPrintable

LEMMA ShowAllType ==
  ASSUME NEW s, IsScreen(s), NEW bytes \in Seq(Values)
  PROVE  IsScreen(ShowAll(s, bytes))
<1> DEFINE bad(f) == {i \in Nat : i <= Len(bytes) /\ ~ IsScreen(f[i])}
<1>1. PICK f : Shows(f, s, bytes)
  BY ShowsExist
<1>2. ASSUME bad(f) # {} PROVE FALSE
  <2>1. PICK n \in bad(f) : \A m \in bad(f) : n <= m
    BY <1>2, LeastNat
  <2>2. n \in 0 .. Len(bytes) /\ ~ IsScreen(f[n]) /\ Len(bytes) \in Nat
    BY <2>1
  <2>3. f[n] = IF n = 0 THEN s ELSE Show(f[n - 1], bytes[n])
    BY <1>1, <2>2 DEF Shows
  <2>4. CASE n # 0
    <3>1. n - 1 \in Nat /\ n - 1 \notin bad(f)
      <4> HIDE DEF bad
      <4> QED BY <2>1, <2>2, <2>4
    <3>2. IsScreen(f[n - 1]) /\ bytes[n] \in Values
      BY <2>2, <2>4, <3>1
    <3> QED BY <2>2, <2>3, <2>4, <3>2, ShowType
  <2> QED BY <2>2, <2>3, <2>4
<1>3. IsScreen(f[Len(bytes)])
  BY <1>2
<1> QED BY <1>1, <1>3, ShowAllIs

-----------------------------------------------------------------------------
(* What the outputs of the line editor do to the screen.                   *)

LEMMA DisplayChar ==
  ASSUME NEW s, IsScreen(s), NEW l \in Seq(Values), Displays(s, l),
         NEW c \in Values, c \notin {BS, CR, LF}
  PROVE  Displays(Show(s, c), Append(l, c))
<1> DEFINE t == Show(s, c)
           n == Len(s.cells)
           r == Append(l, c)
<1>1. /\ t.col = s.col + 1 /\ Len(t.cells) = IF s.col = n THEN n + 1 ELSE n
      /\ \A i \in 1 .. Len(t.cells) : t.cells[i] = IF i = s.col + 1 THEN c ELSE s.cells[i]
  BY ShowPrintable
<1>2. s.col \in Nat /\ n \in Nat /\ s.col <= n /\ Len(l) = s.col
  BY DEF IsScreen, Displays
<1>3. /\ \A i \in 1 .. s.col : s.cells[i] = l[i]
      /\ \A i \in s.col + 1 .. n : s.cells[i] = SP
  BY DEF Displays
<1>4. Len(r) = s.col + 1 /\ r[s.col + 1] = c /\ \A i \in 1 .. s.col : r[i] = l[i]
  BY <1>2
<1> HIDE DEF t, r
<1>5. Len(r) = t.col /\ \A i \in 1 .. t.col : t.cells[i] = r[i]
  BY <1>1, <1>2, <1>3, <1>4
<1>6. \A i \in t.col + 1 .. Len(t.cells) : t.cells[i] = SP
  BY <1>1, <1>2, <1>3
<1> QED BY <1>5, <1>6 DEF Displays, t, r

LEMMA DisplayErase ==
  ASSUME NEW s, IsScreen(s), NEW l \in Seq(Values), Displays(s, l), l # <<>>
  PROVE  Displays(Show(Show(Show(s, BS), SP), BS), SubSeq(l, 1, Len(l) - 1))
<1> DEFINE t == Show(s, BS)
           u == Show(t, SP)
           v == Show(u, BS)
           n == Len(s.cells)
           r == SubSeq(l, 1, Len(l) - 1)
<1>1. /\ s.col \in Nat \ {0} /\ n \in Nat /\ s.col <= n /\ Len(l) = s.col
      /\ \A i \in 1 .. s.col : s.cells[i] = l[i]
      /\ \A i \in s.col + 1 .. n : s.cells[i] = SP
  BY DEF IsScreen, Displays
<1>2. IsScreen(t) /\ t.cells = s.cells /\ t.col = s.col - 1
  BY <1>1, ShowBack
<1>3. SP \in Values /\ SP \notin {BS, CR, LF}
  BY UartAssumption
<1> HIDE DEF t
<1>4. /\ IsScreen(u) /\ u.col = s.col /\ Len(u.cells) = n
      /\ \A i \in 1 .. n : u.cells[i] = IF i = s.col THEN SP ELSE s.cells[i]
  BY <1>1, <1>2, <1>3, ShowPrintable
<1> HIDE DEF u
<1>5. v.cells = u.cells /\ v.col = s.col - 1
  BY <1>1, <1>4, ShowBack
<1>6. Len(r) = s.col - 1 /\ \A i \in 1 .. s.col - 1 : r[i] = l[i]
  BY <1>1
<1> HIDE DEF v, r
<1>7. Len(r) = v.col /\ \A i \in 1 .. v.col : v.cells[i] = r[i]
  BY <1>1, <1>4, <1>5, <1>6
<1>8. \A i \in v.col + 1 .. Len(v.cells) : v.cells[i] = SP
  BY <1>1, <1>4, <1>5
<1> QED BY <1>7, <1>8 DEF Displays, t, u, v, r

LEMMA DisplayNewLine ==
  ASSUME NEW s, IsScreen(s)
  PROVE  Displays(Show(Show(s, CR), LF), <<>>)
<1> DEFINE t == Show(s, CR)
<1>1. IsScreen(t) /\ t.col = 0
  BY ShowReturn
<1> HIDE DEF t
<1>2. Show(t, LF).col = 0 /\ Len(Show(t, LF).cells) = 0
  BY <1>1, ShowFeed
<1> QED BY <1>2 DEF Displays, t

-----------------------------------------------------------------------------
(* The inductive invariant of the driver.                                  *)

(* What the thread knows in uart_out_byte.  While it computes the size, the*)
(* handler may pass its index but not overtake it; a size of zero means    *)
(* that the fifo is empty, and it stays so.                                *)
ThreadOK ==
  /\ call = "none" <=> out = <<>>
  /\ call \in {"none", "size", "flags", "direct"} => pc[Thread] = "idle"
  /\ call = "length" => /\ pc[Thread] \in {"ahead", "behind"}
                        /\ pc[Thread] = "ahead" => tail >= head
  /\ call = "put" => pc[Thread] \in {"idle", "write", "advance"}
  /\ pc[Thread] \in {"write", "advance"} => value[Thread] = Head(out)
  /\ call = "flags" /\ length[Thread] = 0 => head = tail
  /\ call = "direct" => head = tail /\ ~Full /\ isr # "write"

(* What the handler knows in uart_tx_interrupt.                            *)
HandlerOK ==
  /\ pc[Handler] \in {"idle", "read", "advance"}
  /\ isr # "get" => pc[Handler] = "idle"
  /\ isr \in {"get", "write"} => ~Full
  /\ isr = "write" => got[Handler] \in Values

DriverTypeOK ==
  /\ hw \in Seq(Values) /\ Len(hw) <= Depth
  /\ ris \in BOOLEAN /\ isr \in {"off", "loop", "get", "write"}
  /\ out \in Seq(Values) /\ Len(out) <= 3
  /\ call \in {"none", "size", "length", "flags", "direct", "put"}
  /\ line \in Seq(Chars) /\ Len(line) <= buff_size
  /\ reading \in BOOLEAN
  /\ IsScreen(screen)
  /\ end \in 0 .. buff_size
  /\ Content \in Seq(Values)

UartInv == RingInv /\ DriverTypeOK /\ ThreadOK /\ HandlerOK

LEMMA Users2 ==
  /\ Thread \in Producers /\ Handler \in Consumers
  /\ Thread \in Users /\ Handler \in Users /\ Thread # Handler
BY UartAssumption, RingAssumption DEF Users

LEMMA UartInvInit == UartInit => UartInv
<1> SUFFICES ASSUME UartInit PROVE UartInv
  OBVIOUS
<1>1. RingInv
  BY RingInvInit DEF UartInit
<1>2. head = tail /\ pc[Thread] = "idle" /\ pc[Handler] = "idle"
  BY Users2 DEF UartInit, Init
<1>3. Content = <<>>
  BY <1>1, <1>2, ContentType DEF RingInv
<1>4. IsScreen(screen)
  BY DEF UartInit, IsScreen
<1>5. DriverTypeOK
  <2>1. hw = <<>> /\ out = <<>> /\ line = <<>> /\ ris = FALSE /\ isr = "off"
        /\ call = "none" /\ reading = TRUE /\ end = 0
    BY DEF UartInit
  <2>2. <<>> \in Seq(Values) /\ <<>> \in Seq(Chars) /\ Len(<<>>) = 0
    OBVIOUS
  <2>3. 0 <= Depth /\ 0 <= buff_size /\ 0 <= 3 /\ 0 \in 0 .. buff_size
    BY UartAssumption
  <2>4. Len(hw) = 0 /\ Len(out) = 0 /\ Len(line) = 0
    BY <2>1
  <2> QED BY <1>3, <1>4, <2>1, <2>2, <2>3, <2>4 DEF DriverTypeOK
<1> QED BY <1>1, <1>2, <1>5 DEF UartInit, UartInv, ThreadOK, HandlerOK

-----------------------------------------------------------------------------
(* Every step of the driver is one of the ring, or leaves the ring alone.  *)

LEMMA ByteOut ==
  ASSUME UartInv, call # "none"
  PROVE  /\ out # <<>> /\ Head(out) \in Values /\ Tail(out) \in Seq(Values)
         /\ Len(Tail(out)) <= 3 /\ (Tail(out) = <<>> <=> Len(out) = 1)
         /\ out = <<Head(out)>> \o Tail(out)
<1> DEFINE n == Len(out)
           v == Tail(out)
<1>1. out \in Seq(Values) /\ n <= 3 /\ out # <<>>
  BY DEF UartInv, ThreadOK, DriverTypeOK
<1>2. /\ n \in Nat \ {0} /\ Head(out) \in Values /\ Head(out) = out[1]
      /\ v \in Seq(Values) /\ Len(v) = n - 1 /\ \A i \in 1 .. n - 1 : v[i] = out[i + 1]
  BY <1>1
<1>3. out = <<Head(out)>> \o v
  BY <1>1, <1>2
<1> HIDE DEF v
<1>4. v = <<>> <=> Len(v) = 0
  BY <1>2
<1> HIDE DEF n
<1>5. Len(v) <= 3 /\ (Len(v) = 0 <=> n = 1)
  BY <1>1, <1>2
<1> QED BY <1>1, <1>2, <1>3, <1>4, <1>5 DEF v, n

LEMMA UartRing ==
  ASSUME UartInv, [UartNext]_uartVars
  PROVE  [Next]_vars
<1>1. CASE OutPut
  <2>1. PutTest(Thread, Head(out)) => \E v \in Values : PutTest(Thread, v)
    BY <1>1, ByteOut DEF OutPut
  <2>2. Put(Thread)
    BY <1>1, <2>1 DEF OutPut, Put
  <2> QED BY <2>2, Users2 DEF Next
<1>2. CASE OutSize \/ OutLength
  BY <1>2, Users2 DEF OutSize, OutLength, Size, Next
<1>3. CASE TxGet
  BY <1>3, Users2 DEF TxGet, Next
<1>4. ASSUME \/ \E c \in Chars \cup {BS, CR} : InString(c)
             \/ OutString \/ OutFlags \/ OutDirect \/ Interrupt \/ TxLoop \/ TxWrite
             \/ Send \/ UNCHANGED uartVars
      PROVE  UNCHANGED vars
  BY <1>4 DEF InString, OutString, OutFlags, OutDirect, Interrupt, TxLoop, TxWrite, Send,
              uartVars
<1> QED BY <1>1, <1>2, <1>3, <1>4 DEF UartNext, OutByte, TxInterrupt

LEMMA UartRingInv ==
  ASSUME SingleUsers, UartInv, [UartNext]_uartVars
  PROVE  RingInv'
BY UartRing, RingInvNext DEF UartInv

(* Nothing of the ring changes: nor do its contents.                       *)
LEMMA SameRing ==
  ASSUME UNCHANGED vars
  PROVE  /\ UNCHANGED <<head, tail, data, pc, value, put, got, length>>
         /\ Content' = Content
BY DEF vars, ring, results, Content

-----------------------------------------------------------------------------
(* The steps of the line editor.                                           *)

LEMMA EditorKeeps ==
  ASSUME UartInv, RingInv', UNCHANGED <<vars, hardware, isr>>, out = <<>>,
         out' \in Seq(Values), out' # <<>>, Len(out') <= 3, call' = "size",
         line' \in Seq(Chars), Len(line') <= buff_size, reading' \in BOOLEAN,
         end' \in 0 .. buff_size
  PROVE  UartInv' /\ OnTheWay' = OnTheWay \o out'
<1>1. /\ UNCHANGED <<head, tail, data, pc, value, put, got, length, hw, ris, screen>>
      /\ Content' = Content
  BY SameRing DEF hardware
<1>2. DriverTypeOK'
  <2>1. IsScreen(screen)'
    BY <1>1 DEF UartInv, DriverTypeOK
  <2>2. /\ hw' \in Seq(Values) /\ Len(hw') <= Depth /\ ris' \in BOOLEAN
        /\ isr' \in {"off", "loop", "get", "write"}
        /\ Content' \in Seq(Values)
    BY <1>1 DEF UartInv, DriverTypeOK
  <2> QED BY <2>1, <2>2 DEF DriverTypeOK
<1>3. call = "none" /\ pc[Thread] = "idle"
  BY DEF UartInv, ThreadOK
<1>4. ThreadOK'
  BY <1>1, <1>3 DEF ThreadOK
<1>5. HandlerOK'
  BY <1>1 DEF UartInv, HandlerOK, Full
<1>6. OnTheWay' = OnTheWay \o out'
  <2> DEFINE way == hw \o InHandler \o Content
  <2>1. InHandler \in Seq(Values) /\ hw \in Seq(Values) /\ Content \in Seq(Values)
    BY DEF UartInv, DriverTypeOK, HandlerOK, InHandler
  <2>2. way \in Seq(Values)
    BY <2>1
  <2>3. OnTheWay = way \o out /\ OnTheWay' = way \o out'
    BY <1>1 DEF OnTheWay, InHandler
  <2> HIDE DEF way
  <2> QED BY <2>2, <2>3
<1> QED BY <1>2, <1>4, <1>5, <1>6 DEF UartInv

(* After the last byte is shown, the screen shows what the editor writes.  *)
LEMMA EditorShows ==
  ASSUME NEW s, IsScreen(s), NEW way \in Seq(Values), NEW l \in Seq(Values),
         Displays(ShowAll(s, way), l)
  PROVE  /\ \A c \in Values \ {BS, CR, LF} :
              Displays(ShowAll(s, way \o <<c>>), Append(l, c))
         /\ l # <<>> => Displays(ShowAll(s, way \o <<BS, SP, BS>>),
                                SubSeq(l, 1, Len(l) - 1))
         /\ Displays(ShowAll(s, way \o <<CR, LF>>), <<>>)
<1> DEFINE shown == ShowAll(s, way)
<1>1. IsScreen(shown) /\ BS \in Values /\ SP \in Values /\ CR \in Values /\ LF \in Values
  BY ShowAllType, UartAssumption
<1>2. \A c \in Values : /\ way \o <<c>> = Append(way, c) /\ Append(way, c) \in Seq(Values)
                        /\ ShowAll(s, Append(way, c)) = Show(shown, c)
  BY ShowLast
<1>3. ASSUME NEW c \in Values \ {BS, CR, LF}
      PROVE  Displays(ShowAll(s, way \o <<c>>), Append(l, c))
  BY <1>1, <1>2, DisplayChar
<1>4. ASSUME NEW b \in Values, NEW c \in Values
      PROVE  /\ way \o <<b, c>> = Append(Append(way, b), c)
             /\ ShowAll(s, way \o <<b, c>>) = Show(Show(shown, b), c)
  <2>1. way \o <<b, c>> = Append(Append(way, b), c)
    OBVIOUS
  <2> QED BY <1>2, <2>1, ShowLast
<1>5. way \o <<BS, SP, BS>> = Append(Append(Append(way, BS), SP), BS)
  BY <1>1
<1>6. ShowAll(s, way \o <<BS, SP, BS>>) = Show(Show(Show(shown, BS), SP), BS)
  <2> DEFINE u == Append(Append(way, BS), SP)
  <2>1. u \in Seq(Values) /\ way \o <<BS, SP>> = u
    BY <1>1, <1>2, <1>4
  <2>2. ShowAll(s, u) = Show(Show(shown, BS), SP)
    BY <1>1, <1>4, <2>1
  <2> HIDE DEF u
  <2>3. ShowAll(s, Append(u, BS)) = Show(ShowAll(s, u), BS)
    BY <1>1, <2>1, ShowLast
  <2> QED BY <1>5, <2>2, <2>3 DEF u
<1> QED BY <1>1, <1>3, <1>4, <1>6, DisplayErase, DisplayNewLine

(* The terminal will show the line.                                        *)
WillDisplay == Displays(ShowAll(screen, OnTheWay), line)

LEMMA WayType ==
  ASSUME UartInv
  PROVE  /\ OnTheWay \in Seq(Values) /\ InHandler \in Seq(Values)
         /\ hw \in Seq(Values) /\ Content \in Seq(Values) /\ out \in Seq(Values)
         /\ IsScreen(screen) /\ line \in Seq(Values)
<1>1. /\ InHandler \in Seq(Values) /\ hw \in Seq(Values) /\ Content \in Seq(Values)
      /\ out \in Seq(Values)
  BY DEF UartInv, DriverTypeOK, HandlerOK, InHandler
<1>2. OnTheWay \in Seq(Values)
  BY <1>1 DEF OnTheWay
<1>3. line \in Seq(Values)
  <2>1. Chars \subseteq Values
    BY UartAssumption
  <2> QED BY <2>1 DEF UartInv, DriverTypeOK
<1> QED BY <1>1, <1>2, <1>3 DEF UartInv, DriverTypeOK

LEMMA EchoIs ==
  ASSUME UartInv
  PROVE  EchoMatchesLine <=> WillDisplay
<1>1. IsScreen(ShowAll(screen, OnTheWay)) /\ line \in Seq(Values)
  BY WayType, ShowAllType
<1> QED BY <1>1, DisplaysIs DEF EchoMatchesLine, WillDisplay

LEMMA InStringStep ==
  ASSUME SingleUsers, UartInv, NEW c \in Chars \cup {BS, CR}, InString(c)
  PROVE  UartInv' /\ (WillDisplay => WillDisplay')
<1>1. /\ RingInv' /\ UNCHANGED <<vars, hardware, isr, screen>> /\ out = <<>>
      /\ call' = "size"
  BY UartRingInv DEF InString, UartNext, hardware
<1>2. /\ BS \in Values /\ SP \in Values /\ CR \in Values /\ LF \in Values
      /\ Chars \subseteq Values /\ BS \notin Chars /\ CR \notin Chars /\ LF \notin Chars
      /\ buff_size \in Nat \ {0} /\ BS # CR
  BY UartAssumption
<1>3. /\ line \in Seq(Chars) /\ Len(line) <= buff_size /\ Len(line) \in Nat /\ reading
      /\ end \in 0 .. buff_size
  BY DEF UartInv, DriverTypeOK, InString
<1>4. ASSUME OnTheWay' = OnTheWay \o out', WillDisplay
      PROVE  /\ c = CR /\ out' = <<CR, LF>> /\ line' = <<>> => WillDisplay'
             /\ c = BS /\ line # <<>> /\ out' = <<BS, SP, BS>>
                  /\ line' = SubSeq(line, 1, Len(line) - 1) => WillDisplay'
             /\ c \in Chars /\ out' = <<c>> /\ line' = Append(line, c) => WillDisplay'
  BY <1>1, <1>2, <1>4, WayType, EditorShows DEF WillDisplay
<1>5. CASE c = CR
  <2>1. out' = <<CR, LF>> /\ line' = <<>> /\ reading' = FALSE /\ end' = Len(line)
    BY <1>2, <1>5 DEF InString
  <2>2. out' \in Seq(Values) /\ out' # <<>> /\ Len(out') <= 3
    BY <1>2, <2>1
  <2>3. line' \in Seq(Chars) /\ Len(line') <= buff_size /\ end' \in 0 .. buff_size
    BY <1>2, <1>3, <2>1
  <2> QED BY <1>1, <1>4, <1>5, <2>1, <2>2, <2>3, EditorKeeps
<1>6. CASE c = BS
  <2>1. /\ out' = <<BS, SP, BS>> /\ line # <<>> /\ line' = SubSeq(line, 1, Len(line) - 1)
        /\ reading' = reading /\ end' = end
    BY <1>2, <1>6 DEF InString
  <2>2. out' \in Seq(Values) /\ out' # <<>> /\ Len(out') <= 3
    BY <1>2, <2>1
  <2>3. line' \in Seq(Chars) /\ Len(line') <= buff_size
    <3> DEFINE n == Len(line)
    <3>1. n \in Nat \ {0} /\ n <= buff_size
      BY <1>3, <2>1
    <3>4. n - 1 \in Int /\ \A i \in 1 .. n - 1 : line[i] \in Chars
      BY <1>3, <3>1
    <3> HIDE DEF n
    <3>2. /\ SubSeq(line, 1, n - 1) \in Seq(Chars)
          /\ Len(SubSeq(line, 1, n - 1)) = IF 1 <= n - 1 THEN n - 1 - 1 + 1 ELSE 0
      BY <3>4, SubSeqProperties
    <3>3. Len(SubSeq(line, 1, n - 1)) <= buff_size
      BY <1>2, <3>1, <3>2
    <3> QED BY <2>1, <3>2, <3>3 DEF n
  <2> QED BY <1>1, <1>3, <1>4, <1>6, <2>1, <2>2, <2>3, EditorKeeps
<1>7. CASE c \in Chars
  <2>1. /\ out' = <<c>> /\ line' = Append(line, c) /\ Len(line) < buff_size
        /\ reading' \in BOOLEAN /\ (end' = end \/ end' = Len(line'))
    <3>1. /\ out' = <<c>> /\ line' = Append(line, c) /\ More(line) /\ reading' = More(line')
          /\ end' = IF More(line') THEN end ELSE Len(line')
      BY <1>2, <1>7 DEF InString
    <3>2. More(line') \in BOOLEAN
      BY DEF More
    <3>3. end' = end \/ end' = Len(line')
      BY <3>1
    <3> QED BY <3>1, <3>2, <3>3 DEF More
  <2>2. out' \in Seq(Values) /\ out' # <<>> /\ Len(out') <= 3
    BY <1>2, <1>7, <2>1
  <2>3. line' \in Seq(Chars) /\ Len(line') <= buff_size /\ end' \in 0 .. buff_size
    <3> DEFINE n == Len(line)
               m == Len(line')
    <3>1. line' \in Seq(Chars) /\ m = n + 1 /\ n \in Nat /\ n < buff_size
      BY <1>3, <1>7, <2>1
    <3>2. end' = end \/ end' = m
      BY <2>1
    <3> HIDE DEF n, m
    <3>3. m <= buff_size /\ m \in 0 .. buff_size
      BY <1>2, <3>1
    <3> QED BY <1>3, <3>1, <3>2, <3>3 DEF m
  <2> QED BY <1>1, <1>4, <1>7, <2>1, <2>2, <2>3, EditorKeeps
<1> QED BY <1>5, <1>6, <1>7

LEMMA OutStringStep ==
  ASSUME SingleUsers, UartInv, OutString
  PROVE  UartInv' /\ (WillDisplay => WillDisplay')
<1>1. /\ RingInv' /\ UNCHANGED <<vars, hardware, isr, screen>> /\ out = <<>>
      /\ call' = "size" /\ out' = <<CR, LF>> /\ line' = <<>> /\ reading' = TRUE
      /\ end' = end
  BY UartRingInv DEF OutString, UartNext, hardware
<1>2. CR \in Values /\ LF \in Values /\ buff_size \in Nat
  BY UartAssumption
<1>3. out' \in Seq(Values) /\ out' # <<>> /\ Len(out') <= 3
  BY <1>1, <1>2
<1>4. line' \in Seq(Chars) /\ Len(line') <= buff_size /\ end' \in 0 .. buff_size
  BY <1>1, <1>2 DEF UartInv, DriverTypeOK
<1>5. UartInv' /\ OnTheWay' = OnTheWay \o out'
  BY <1>1, <1>3, <1>4, EditorKeeps
<1>6. ASSUME WillDisplay PROVE WillDisplay'
  BY <1>1, <1>5, <1>6, WayType, EditorShows DEF WillDisplay
<1> QED BY <1>5, <1>6

-----------------------------------------------------------------------------
(* The steps of the thread in uart_out_byte.                               *)

(* What keeps the types while the editor waits.                            *)
LEMMA OutKeeps ==
  ASSUME UartInv, UNCHANGED <<line, reading, end, screen, isr>>,
         hw' \in Seq(Values), Len(hw') <= Depth, ris' \in BOOLEAN,
         Content' \in Seq(Values),
         \/ UNCHANGED out
         \/ out' = Tail(out) /\ call # "none",
         call' \in {"none", "size", "length", "flags", "direct", "put"}
  PROVE  DriverTypeOK'
<1>1. out' \in Seq(Values) /\ Len(out') <= 3
  BY ByteOut DEF UartInv, DriverTypeOK
<1>2. IsScreen(screen)'
  BY DEF UartInv, DriverTypeOK
<1> QED BY <1>1, <1>2 DEF UartInv, DriverTypeOK

(* The way of the bytes, when the thread does not pass one on.             *)
LEMMA SameWay ==
  ASSUME UNCHANGED <<hw, isr, out, screen, line>>, Content' = Content,
         isr = "write" => got'[Handler] = got[Handler]
  PROVE  (WillDisplay => WillDisplay')
<1>1. OnTheWay' = OnTheWay
  BY DEF OnTheWay, InHandler
<1> QED BY <1>1 DEF WillDisplay

LEMMA OutSizeStep ==
  ASSUME SingleUsers, UartInv, OutSize
  PROVE  UartInv' /\ (WillDisplay => WillDisplay')
<1>1. /\ UNCHANGED <<head, tail, data, value, put, got, length>> /\ Content' = Content
      /\ UNCHANGED <<out, line, reading, end, hw, ris, screen, isr>>
      /\ call = "size" /\ call' = "length" /\ Runs
      /\ pc' = [pc EXCEPT ![Thread] = IF tail >= head THEN "ahead" ELSE "behind"]
  BY DEF OutSize, SizeTest, Goto, ring, results, hardware, Content
<1>2. RingInv' /\ RingTypeOK
  <2>1. RingInv'
    BY UartRingInv DEF UartNext, OutByte
  <2> QED BY <2>1 DEF UartInv, RingInv
<1>3. /\ pc'[Thread] = IF tail >= head THEN "ahead" ELSE "behind"
      /\ pc'[Handler] = pc[Handler]
  BY <1>1, <1>2, Users2 DEF RingTypeOK
<1>4. DriverTypeOK'
  <2>1. hw' \in Seq(Values) /\ Len(hw') <= Depth /\ ris' \in BOOLEAN
        /\ Content' \in Seq(Values)
    BY <1>1, UartAssumption DEF UartInv, DriverTypeOK
  <2> QED BY <1>1, <2>1, OutKeeps
<1>5. ThreadOK'
  <2>1. call # "none" /\ out # <<>>
    BY <1>1 DEF UartInv, ThreadOK
  <2> QED BY <1>1, <1>3, <2>1 DEF ThreadOK
<1>6. HandlerOK'
  BY <1>1, <1>3 DEF UartInv, HandlerOK, Full
<1>7. WillDisplay => WillDisplay'
  BY <1>1, SameWay
<1> QED BY <1>2, <1>4, <1>5, <1>6, <1>7 DEF UartInv

(* A size of zero is computed only when the fifo is empty.                 *)
LEMMA SizeZero ==
  ASSUME RingTypeOK, SizeResult(Thread), pc[Thread] = "ahead" => tail >= head,
         length'[Thread] = 0
  PROVE  head = tail
<1>1. /\ head \in 0 .. size - 1 /\ tail \in 0 .. size - 1 /\ size \in Nat \ {0, 1}
      /\ Wrap \in Nat /\ Wrap > 2 * size /\ length \in [Users -> 0 .. Lengths - 1]
      /\ Lengths = Wrap
  BY RingAssumption, UartAssumption DEF RingTypeOK, Indices
<1>2. CASE pc[Thread] = "ahead"
  <2> DEFINE d == tail - head
  <2>1. length'[Thread] = (Wrap + tail - head) % Wrap
    <3>1. length'[Thread] = Returned(Wrap + tail - head) /\ Wrap + tail - head \in Int
      BY <1>1, <1>2, Users2 DEF SizeResult
    <3> QED BY <1>1, <3>1, ReturnedIs
  <2>2. d \in 0 .. size - 1 /\ Wrap + tail - head = 1 * Wrap + d
    BY <1>1, <1>2
  <2> HIDE DEF d
  <2>3. d \in 0 .. Wrap - 1 /\ Wrap \in Nat \ {0}
    BY <1>1, <2>2
  <2>4. (1 * Wrap + d) % Wrap = d
    BY <2>3, Remainder
  <2>5. d = 0
    BY <2>1, <2>2, <2>4
  <2> QED BY <2>5, <1>1 DEF d
<1>3. CASE pc[Thread] = "behind"
  <2> DEFINE d == size - (head - tail)
  <2>1. length'[Thread] = (Wrap + size - (head - tail)) % Wrap
    <3>1. /\ length'[Thread] = Returned(Wrap + size - (head - tail))
          /\ Wrap + size - (head - tail) \in Int
      BY <1>1, <1>3, Users2 DEF SizeResult
    <3> QED BY <1>1, <3>1, ReturnedIs
  <2>2. d \in 1 .. 2 * size - 1 /\ Wrap + size - (head - tail) = 1 * Wrap + d
    BY <1>1
  <2> HIDE DEF d
  <2>3. d \in 0 .. Wrap - 1 /\ Wrap \in Nat \ {0} /\ d # 0
    BY <1>1, <2>2
  <2>4. (1 * Wrap + d) % Wrap = d
    BY <2>3, Remainder
  <2> QED BY <2>1, <2>2, <2>3, <2>4
<1> QED BY <1>2, <1>3 DEF SizeResult

LEMMA OutLengthStep ==
  ASSUME SingleUsers, UartInv, OutLength
  PROVE  UartInv' /\ (WillDisplay => WillDisplay')
<1>1. /\ UNCHANGED <<head, tail, data, value, put, got>> /\ Content' = Content
      /\ UNCHANGED <<out, line, reading, end, hw, ris, screen, isr>>
      /\ call = "length" /\ call' = "flags" /\ Runs /\ SizeResult(Thread)
      /\ pc' = [pc EXCEPT ![Thread] = "idle"]
  BY DEF OutLength, SizeResult, Goto, ring, hardware, Content
<1>2. RingInv' /\ RingTypeOK
  <2>1. RingInv'
    BY UartRingInv DEF UartNext, OutByte
  <2> QED BY <2>1 DEF UartInv, RingInv
<1>3. pc'[Thread] = "idle" /\ pc'[Handler] = pc[Handler]
  BY <1>1, <1>2, Users2 DEF RingTypeOK
<1>4. DriverTypeOK'
  <2>1. hw' \in Seq(Values) /\ Len(hw') <= Depth /\ ris' \in BOOLEAN
        /\ Content' \in Seq(Values)
    BY <1>1 DEF UartInv, DriverTypeOK
  <2> QED BY <1>1, <2>1, OutKeeps
<1>5. ThreadOK'
  <2>1. out # <<>> /\ (pc[Thread] = "ahead" => tail >= head)
    BY <1>1 DEF UartInv, ThreadOK
  <2>2. length'[Thread] = 0 => head = tail
    BY <1>1, <1>2, <2>1, SizeZero
  <2> QED BY <1>1, <1>3, <2>1, <2>2 DEF ThreadOK
<1>6. HandlerOK'
  BY <1>1, <1>3 DEF UartInv, HandlerOK, Full
<1>7. WillDisplay => WillDisplay'
  BY <1>1, SameWay
<1> QED BY <1>2, <1>4, <1>5, <1>6, <1>7 DEF UartInv

LEMMA OutFlagsStep ==
  ASSUME SingleUsers, UartInv, OutFlags
  PROVE  UartInv' /\ (WillDisplay => WillDisplay')
<1>1. /\ UNCHANGED <<head, tail, data, pc, value, put, got, length>> /\ Content' = Content
      /\ UNCHANGED <<out, line, reading, end, hw, ris, screen, isr>>
      /\ call = "flags" /\ Runs /\ call' = IF Direct THEN "direct" ELSE "put"
  BY SameRing DEF OutFlags, hardware
<1>2. RingInv'
  BY UartRingInv DEF OutFlags, UartNext, OutByte
<1>3. DriverTypeOK'
  <2>1. hw' \in Seq(Values) /\ Len(hw') <= Depth /\ ris' \in BOOLEAN
        /\ Content' \in Seq(Values)
    BY <1>1 DEF UartInv, DriverTypeOK
  <2> QED BY <1>1, <2>1, OutKeeps
<1>4. ThreadOK'
  <2>1. out # <<>> /\ pc[Thread] = "idle" /\ (length[Thread] = 0 => head = tail)
    BY <1>1 DEF UartInv, ThreadOK
  <2>2. isr' = "off" /\ (Full' <=> Full)
    BY <1>1 DEF Runs, Full
  <2> QED BY <1>1, <2>1, <2>2 DEF ThreadOK, Direct
<1>5. HandlerOK'
  BY <1>1 DEF UartInv, HandlerOK, Full
<1>6. WillDisplay => WillDisplay'
  BY <1>1, SameWay
<1> QED BY <1>2, <1>3, <1>4, <1>5, <1>6 DEF UartInv

(* A byte written to UARTDR when there is room.                            *)
LEMMA WriteKeeps ==
  ASSUME UartInv, ~Full, NEW b \in Values, WriteDR(b)
  PROVE  /\ hw' = Append(hw, b) /\ hw' \in Seq(Values) /\ Len(hw') <= Depth
         /\ ris' \in BOOLEAN /\ UNCHANGED screen /\ hw' = hw \o <<b>>
<1> DEFINE n == Len(hw)
<1>1. hw' = Append(hw, b) /\ UNCHANGED screen /\ ris' \in BOOLEAN
  BY DEF WriteDR, UartInv, DriverTypeOK
<1>2. hw \in Seq(Values) /\ n < Depth /\ n \in Nat /\ Depth \in Nat
  BY UartAssumption DEF UartInv, DriverTypeOK, Full
<1>3. hw' \in Seq(Values) /\ Len(hw') = n + 1 /\ hw' = hw \o <<b>>
  BY <1>1, <1>2
<1> HIDE DEF n
<1> QED BY <1>1, <1>2, <1>3

LEMMA OutDirectStep ==
  ASSUME SingleUsers, UartInv, OutDirect
  PROVE  UartInv' /\ (WillDisplay => WillDisplay')
<1>1. /\ UNCHANGED <<head, tail, data, pc, value, put, got, length>> /\ Content' = Content
      /\ UNCHANGED <<line, reading, end, isr>>
      /\ call = "direct" /\ Runs /\ WriteDR(Head(out))
      /\ out' = Tail(out) /\ call' = IF Len(out) = 1 THEN "none" ELSE "size"
  BY SameRing DEF OutDirect, Return
<1>2. RingInv'
  BY UartRingInv DEF UartNext, OutByte
<1>3. /\ Head(out) \in Values /\ Tail(out) \in Seq(Values)
      /\ (Tail(out) = <<>> <=> Len(out) = 1) /\ out = <<Head(out)>> \o Tail(out)
  BY <1>1, ByteOut
<1>4. head = tail /\ ~Full /\ isr = "off" /\ pc[Thread] = "idle"
  BY <1>1 DEF UartInv, ThreadOK, Runs
<1>5. /\ hw' \in Seq(Values) /\ Len(hw') <= Depth
      /\ ris' \in BOOLEAN /\ UNCHANGED screen /\ hw' = hw \o <<Head(out)>>
  BY <1>1, <1>3, <1>4, WriteKeeps
<1>6. DriverTypeOK'
  <2>1. Content' \in Seq(Values) /\ call # "none"
        /\ call' \in {"none", "size", "length", "flags", "direct", "put"}
    BY <1>1 DEF UartInv, DriverTypeOK
  <2> QED BY <1>1, <1>5, <2>1, OutKeeps
<1>7. ThreadOK'
  BY <1>1, <1>3, <1>4 DEF ThreadOK
<1>8. HandlerOK'
  BY <1>1, <1>4 DEF UartInv, HandlerOK
<1>9. OnTheWay' = OnTheWay
  <2>1. InHandler = <<>> /\ InHandler' = <<>>
    BY <1>1, <1>4 DEF InHandler
  <2>2. Content = <<>>
    BY <1>4, ContentType DEF UartInv, RingInv
  <2> DEFINE b == Head(out)
             rest == Tail(out)
  <2>3. OnTheWay = ((hw \o <<>>) \o <<>>) \o out /\ OnTheWay' = ((hw' \o <<>>) \o <<>>) \o rest
    BY <1>1, <2>1, <2>2 DEF OnTheWay
  <2>4. hw \in Seq(Values) /\ b \in Values /\ rest \in Seq(Values)
    BY <1>3, WayType
  <2>5. out = <<b>> \o rest /\ hw' = hw \o <<b>>
    BY <1>3, <1>5
  <2> HIDE DEF b, rest
  <2>6. ((hw \o <<>>) \o <<>>) \o (<<b>> \o rest) = (((hw \o <<b>>) \o <<>>) \o <<>>) \o rest
    BY <2>4
  <2> QED BY <2>3, <2>5, <2>6
<1> QED BY <1>1, <1>2, <1>5, <1>6, <1>7, <1>8, <1>9 DEF UartInv, WillDisplay

(* A byte moves from one sequence to the one before it.                    *)
LEMMA MoveByte ==
  ASSUME NEW a \in Seq(Values), NEW q \in Seq(Values), NEW b \in Values,
         NEW r \in Seq(Values)
  PROVE  (a \o q) \o (<<b>> \o r) = (a \o Append(q, b)) \o r
<1>1. Append(q, b) = q \o <<b>> /\ <<b>> \in Seq(Values)
  OBVIOUS
<1> DEFINE t == <<b>>
<1>2. t \in Seq(Values)
  OBVIOUS
<1> HIDE DEF t
<1>3. (a \o q) \o (t \o r) = (a \o (q \o t)) \o r
  BY <1>2
<1> QED BY <1>1, <1>3 DEF t

LEMMA OutPutStep ==
  ASSUME SingleUsers, UartInv, OutPut
  PROVE  UartInv' /\ (WillDisplay => WillDisplay')
<1>1. /\ UNCHANGED <<line, reading, end, hw, ris, screen, isr>> /\ call = "put" /\ Runs
      /\ isr = "off"
  BY DEF OutPut, hardware, Runs
<1>2. RingInv' /\ RingTypeOK /\ RingInv
  <2>1. RingInv'
    BY UartRingInv DEF UartNext, OutByte
  <2> QED BY <2>1 DEF UartInv, RingInv
<1>3. /\ Head(out) \in Values /\ Tail(out) \in Seq(Values) /\ out # <<>>
      /\ (Tail(out) = <<>> <=> Len(out) = 1) /\ out = <<Head(out)>> \o Tail(out)
  BY <1>1, ByteOut
<1>4. HandlerOK' \/ pc'[Handler] # pc[Handler] \/ got' # got
  BY <1>1 DEF UartInv, HandlerOK, Full
<1>5. ASSUME Content' = Content, UNCHANGED <<out, call, length>>,
             UNCHANGED got,
             pc'[Handler] = pc[Handler], pc'[Thread] \in {"idle", "write", "advance"},
             pc'[Thread] # "idle" => value'[Thread] = Head(out)
      PROVE  UartInv' /\ (WillDisplay => WillDisplay')
  <2>1. DriverTypeOK'
    <3>1. hw' \in Seq(Values) /\ Len(hw') <= Depth /\ ris' \in BOOLEAN
          /\ Content' \in Seq(Values) /\ call' = "put"
      BY <1>1, <1>5, UartAssumption DEF UartInv, DriverTypeOK
    <3> QED BY <1>1, <1>5, <3>1, OutKeeps
  <2>2. ThreadOK'
    BY <1>1, <1>3, <1>5 DEF ThreadOK
  <2>3. WillDisplay => WillDisplay'
    BY <1>1, <1>5, SameWay
  <2> QED BY <1>2, <1>4, <1>5, <2>1, <2>2, <2>3 DEF UartInv
<1>6. CASE PutTest(Thread, Head(out)) /\ UNCHANGED <<out, call>>
  <2>1. UNCHANGED <<head, tail, data, got, length>> /\ Content' = Content
    BY <1>6 DEF PutTest, ring, Content
  <2>2. /\ pc'[Handler] = pc[Handler] /\ pc'[Thread] \in {"idle", "write", "advance"}
        /\ pc'[Thread] # "idle" => value'[Thread] = Head(out)
    BY <1>2, <1>6, Users2 DEF PutTest, Goto, RingTypeOK
  <2> QED BY <1>5, <1>6, <2>1, <2>2
<1>7. CASE PutWrite(Thread) /\ UNCHANGED <<out, call>>
  <2>1. UNCHANGED <<value, got, length>> /\ Content' = Content
    BY <1>2, <1>7, Users2, ContentWrite DEF PutWrite, results
  <2>2. pc'[Handler] = pc[Handler] /\ pc'[Thread] = "advance" /\ pc[Thread] = "write"
    BY <1>2, <1>7, Users2 DEF PutWrite, Goto, RingTypeOK
  <2>3. value'[Thread] = Head(out)
    BY <2>1, <2>2 DEF UartInv, ThreadOK
  <2> QED BY <1>5, <1>7, <2>1, <2>2, <2>3
<1>8. CASE PutAdvance(Thread) /\ Return
  <2>1. UNCHANGED <<got, length>> /\ pc[Thread] = "advance"
        /\ pc'[Handler] = pc[Handler] /\ pc'[Thread] = "idle"
    BY <1>2, <1>8, Users2 DEF PutAdvance, Goto, RingTypeOK
  <2>2. Content' = Append(Content, Head(out))
    <3>1. value[Thread] = Head(out)
      BY <2>1 DEF UartInv, ThreadOK
    <3> QED BY <1>2, <1>8, <3>1, Users2, ContentPut
  <2>3. out' = Tail(out) /\ call' = IF Len(out) = 1 THEN "none" ELSE "size"
    BY <1>8 DEF Return
  <2>4. Content \in Seq(Values) /\ hw \in Seq(Values) /\ InHandler \in Seq(Values)
    BY WayType
  <2>5. DriverTypeOK'
    <3>1. hw' \in Seq(Values) /\ Len(hw') <= Depth /\ ris' \in BOOLEAN
          /\ call # "none" /\ call' \in {"none", "size", "length", "flags", "direct", "put"}
      BY <1>1, <1>8, <2>3 DEF UartInv, DriverTypeOK
    <3>2. Content' \in Seq(Values)
      BY <1>3, <2>2, <2>4
    <3> QED BY <1>1, <2>3, <3>1, <3>2, OutKeeps
  <2>6. ThreadOK'
    BY <1>3, <2>1, <2>3 DEF ThreadOK
  <2>7. OnTheWay' = OnTheWay
    <3> DEFINE b == Head(out)
               rest == Tail(out)
               h == InHandler
    <3>1. OnTheWay = ((hw \o h) \o Content) \o out
          /\ OnTheWay' = ((hw \o h) \o Content') \o rest
      BY <1>1, <2>1, <2>3 DEF OnTheWay, InHandler
    <3>2. b \in Values /\ rest \in Seq(Values) /\ h \in Seq(Values)
          /\ out = <<b>> \o rest /\ Content' = Append(Content, b)
      BY <1>3, <2>2, <2>4
    <3> HIDE DEF b, rest, h
    <3>3. ((hw \o h) \o Content) \o (<<b>> \o rest) = ((hw \o h) \o Append(Content, b)) \o rest
      <4> DEFINE front == hw \o h
                 q == Content
      <4>1. front \in Seq(Values) /\ q \in Seq(Values)
        BY <2>4, <3>2
      <4>2. b \in Values /\ rest \in Seq(Values)
        BY <3>2
      <4> HIDE DEF front, q
      <4>3. (front \o q) \o (<<b>> \o rest) = (front \o Append(q, b)) \o rest
        BY <4>1, <4>2, MoveByte
      <4> QED BY <4>3 DEF front, q
    <3> QED BY <3>1, <3>2, <3>3
  <2> QED BY <1>1, <1>2, <1>4, <2>1, <2>5, <2>6, <2>7 DEF UartInv, WillDisplay
<1> QED BY <1>6, <1>7, <1>8 DEF OutPut

-----------------------------------------------------------------------------
(* The steps of the interrupt, and of the hardware.                        *)

LEMMA HandlerKeeps ==
  ASSUME UartInv, UNCHANGED <<thread, screen>>,
         hw' \in Seq(Values), Len(hw') <= Depth, ris' \in BOOLEAN,
         isr' \in {"off", "loop", "get", "write"},
         Content' \in Seq(Values)
  PROVE  DriverTypeOK'
<1>1. IsScreen(screen)'
  BY DEF UartInv, DriverTypeOK
<1> QED BY <1>1 DEF UartInv, DriverTypeOK, thread

LEMMA InterruptStep ==
  ASSUME SingleUsers, UartInv, Interrupt \/ TxLoop
  PROVE  UartInv' /\ (WillDisplay => WillDisplay')
<1>1. /\ UNCHANGED <<head, tail, data, pc, value, put, got, length>> /\ Content' = Content
      /\ UNCHANGED <<thread, out, call, line, reading, hw, screen>>
  BY SameRing DEF Interrupt, TxLoop, hardware, thread
<1>2. RingInv'
  BY UartRingInv DEF UartNext, TxInterrupt
<1>3. /\ ris' \in BOOLEAN /\ isr \in {"off", "loop"} /\ isr' \in {"off", "loop", "get"}
      /\ isr' = "get" => ~Full
  BY DEF Interrupt, TxLoop, hardware, UartInv, DriverTypeOK
<1>4. DriverTypeOK'
  <2>1. hw' \in Seq(Values) /\ Len(hw') <= Depth
        /\ Content' \in Seq(Values)
    BY <1>1 DEF UartInv, DriverTypeOK
  <2> QED BY <1>1, <1>3, <2>1, HandlerKeeps
<1>5. ThreadOK'
  BY <1>1, <1>3 DEF UartInv, ThreadOK, Full
<1>6. HandlerOK'
  BY <1>1, <1>3 DEF UartInv, HandlerOK, Full
<1>7. OnTheWay' = OnTheWay
  BY <1>1, <1>3 DEF OnTheWay, InHandler
<1> QED BY <1>1, <1>2, <1>4, <1>5, <1>6, <1>7 DEF UartInv, WillDisplay

LEMMA TxGetStep ==
  ASSUME SingleUsers, UartInv, TxGet
  PROVE  UartInv' /\ (WillDisplay => WillDisplay')
<1>1. /\ UNCHANGED <<thread, out, call, line, reading, hw, ris, screen>>
      /\ isr = "get" /\ ~Full /\ Get(Handler)
      /\ isr' = IF pc'[Handler] # "idle" THEN "get"
                 ELSE IF pc[Handler] = "idle" THEN "off" ELSE "write"
  BY DEF TxGet, hardware, thread, UartInv, HandlerOK
<1>2. RingInv' /\ RingTypeOK /\ RingInv
  <2>1. RingInv'
    BY UartRingInv DEF UartNext, TxInterrupt
  <2> QED BY <2>1 DEF UartInv, RingInv
<1>3. /\ hw' \in Seq(Values) /\ Len(hw') <= Depth /\ ris' \in BOOLEAN
      /\ Content \in Seq(Values) /\ hw \in Seq(Values) /\ out \in Seq(Values)
  BY <1>1, WayType DEF UartInv, DriverTypeOK
<1>4. ASSUME UNCHANGED <<head, tail, data, got, length>>, pc'[Thread] = pc[Thread],
             value'[Thread] = value[Thread], isr' \in {"off", "get"},
             pc'[Handler] \in {"idle", "read", "advance"},
             isr' # "get" => pc'[Handler] = "idle"
      PROVE  UartInv' /\ (WillDisplay => WillDisplay')
  <2>1. Content' = Content
    BY <1>4 DEF Content
  <2>2. DriverTypeOK'
    BY <1>1, <1>3, <1>4, <2>1, HandlerKeeps
  <2>3. ThreadOK'
    BY <1>1, <1>4 DEF UartInv, ThreadOK, Full
  <2>4. HandlerOK'
    BY <1>1, <1>4 DEF HandlerOK, Full
  <2>5. OnTheWay' = OnTheWay
    BY <1>1, <1>4, <2>1 DEF OnTheWay, InHandler
  <2> QED BY <1>1, <1>2, <2>2, <2>3, <2>4, <2>5 DEF UartInv, WillDisplay
<1>5. CASE GetTest(Handler)
  <2>1. UNCHANGED <<head, tail, data, value, length>> /\ pc[Handler] = "idle"
        /\ \/ UNCHANGED pc /\ got' = [got EXCEPT ![Handler] = NULL]
           \/ pc' = [pc EXCEPT ![Handler] = "read"] /\ UNCHANGED got
    BY <1>5 DEF GetTest, Goto, ring
  <2>2. pc'[Thread] = pc[Thread] /\ pc'[Handler] \in {"idle", "read"}
    BY <1>2, <2>1, Users2 DEF RingTypeOK
  <2>3. isr' = IF pc'[Handler] = "idle" THEN "off" ELSE "get"
    BY <1>1, <2>1, <2>2
  <2>4. Content' = Content
    BY <2>1 DEF Content
  <2>5. DriverTypeOK'
    BY <1>1, <1>3, <2>3, <2>4, HandlerKeeps
  <2>6. ThreadOK'
    BY <1>1, <2>1, <2>2, <2>3 DEF UartInv, ThreadOK, Full
  <2>7. HandlerOK'
    BY <1>1, <2>2, <2>3 DEF HandlerOK, Full
  <2>8. OnTheWay' = OnTheWay
    BY <1>1, <2>3, <2>4 DEF OnTheWay, InHandler
  <2> QED BY <1>1, <1>2, <2>5, <2>6, <2>7, <2>8 DEF UartInv, WillDisplay
<1>6. CASE GetRead(Handler)
  <2>1. /\ UNCHANGED <<head, tail, data, got, length>> /\ pc[Handler] = "read"
        /\ pc' = [pc EXCEPT ![Handler] = "advance"]
        /\ value' = [value EXCEPT ![Handler] = data[head]]
    BY <1>6 DEF GetRead, Goto, ring, results
  <2>2. pc'[Thread] = pc[Thread] /\ pc'[Handler] = "advance" /\ value'[Thread] = value[Thread]
    BY <1>2, <2>1, Users2 DEF RingTypeOK
  <2>3. isr' = "get"
    BY <1>1, <2>2
  <2> QED BY <1>4, <2>1, <2>2, <2>3
<1>7. CASE GetAdvance(Handler)
  <2>1. /\ UNCHANGED <<tail, data, length>> /\ pc[Handler] = "advance"
        /\ pc' = [pc EXCEPT ![Handler] = "idle"] /\ head' = Succ(head)
        /\ got' = [got EXCEPT ![Handler] = value[Handler]]
        /\ value' = [value EXCEPT ![Handler] = NULL]
    BY <1>7 DEF GetAdvance, Goto
  <2>2. /\ pc'[Thread] = pc[Thread] /\ pc'[Handler] = "idle"
        /\ value'[Thread] = value[Thread] /\ got'[Handler] = value[Handler]
    BY <1>2, <2>1, Users2 DEF RingTypeOK
  <2>3. isr' = "write"
    BY <1>1, <2>1, <2>2
  <2>4. Content # <<>> /\ Head(Content) = value[Handler] /\ Content' = Tail(Content)
    BY <1>2, <1>7, Users2, ContentGet
  <2>5. value[Handler] \in Values /\ Content' \in Seq(Values)
        /\ Content = <<value[Handler]>> \o Content'
    <3> DEFINE q == Content
    <3>1. q \in Seq(Values) /\ q # <<>>
      BY <1>3, <2>4
    <3> HIDE DEF q
    <3>2. Head(q) \in Values /\ Tail(q) \in Seq(Values) /\ q = <<Head(q)>> \o Tail(q)
      BY <3>1
    <3> QED BY <2>4, <3>2 DEF q
  <2>6. DriverTypeOK'
    BY <1>1, <1>3, <2>3, <2>5, HandlerKeeps
  <2>7. head # tail
    <3>1. ConsumerState(Handler)
      BY <1>2, Users2 DEF RingInv
    <3> QED BY <2>1, <3>1 DEF ConsumerState
  <2>8. ThreadOK'
    <3>1. ThreadOK
      BY DEF UartInv
    <3>2. pc[Thread] = "ahead" /\ tail >= head => tail' >= head'
      <4>1. head \in Indices /\ tail \in Indices
        BY <1>2 DEF RingTypeOK
      <4>2. Succ(head) = IF head = size - 1 THEN 0 ELSE head + 1
        BY <4>1, Terms, AfterIs
      <4> QED BY <2>1, <2>7, <4>1, <4>2, RingAssumption DEF Indices
    <3> QED BY <1>1, <2>1, <2>2, <2>3, <2>7, <3>1, <3>2 DEF ThreadOK, Full
  <2>9. HandlerOK'
    BY <1>1, <2>2, <2>3, <2>5 DEF HandlerOK, Full
  <2>10. OnTheWay' = OnTheWay
    <3> DEFINE b == value[Handler]
    <3>1. InHandler = <<>> /\ InHandler' = <<b>>
      BY <1>1, <2>2, <2>3 DEF InHandler
    <3>2. /\ OnTheWay = ((hw \o <<>>) \o (<<b>> \o Content')) \o out
          /\ OnTheWay' = ((hw \o <<b>>) \o Content') \o out
      BY <1>1, <2>5, <3>1 DEF OnTheWay
    <3>3. <<>> \in Seq(Values) /\ Append(<<>>, b) = <<b>> /\ b \in Values
      BY <2>5
    <3>4. (hw \o <<>>) \o (<<b>> \o Content') = (hw \o Append(<<>>, b)) \o Content'
      <4> DEFINE q == Content'
      <4>1. q \in Seq(Values)
        BY <2>5
      <4> HIDE DEF b, q
      <4>2. (hw \o <<>>) \o (<<b>> \o q) = (hw \o Append(<<>>, b)) \o q
        BY SMTT(30), <1>3, <3>3, <4>1, MoveByte
      <4> QED BY <4>2 DEF q
    <3> QED BY <3>2, <3>3, <3>4
  <2> QED BY <1>1, <1>2, <2>6, <2>8, <2>9, <2>10 DEF UartInv, WillDisplay
<1> QED BY <1>1, <1>5, <1>6, <1>7 DEF Get

LEMMA TxWriteStep ==
  ASSUME SingleUsers, UartInv, TxWrite
  PROVE  UartInv' /\ (WillDisplay => WillDisplay')
<1>1. /\ UNCHANGED <<head, tail, data, pc, value, put, got, length>> /\ Content' = Content
      /\ UNCHANGED <<thread, out, call, line, reading>>
      /\ isr = "write" /\ isr' = "loop" /\ WriteDR(got[Handler])
  BY SameRing DEF TxWrite, thread
<1>2. RingInv'
  BY UartRingInv DEF UartNext, TxInterrupt
<1>3. ~Full /\ got[Handler] \in Values /\ pc[Handler] = "idle"
  BY <1>1 DEF UartInv, HandlerOK
<1>4. /\ hw' \in Seq(Values) /\ Len(hw') <= Depth
      /\ ris' \in BOOLEAN /\ UNCHANGED screen /\ hw' = hw \o <<got[Handler]>>
  BY <1>1, <1>3, WriteKeeps
<1>5. DriverTypeOK'
  <2>1. Content' \in Seq(Values)
    BY <1>1 DEF UartInv, DriverTypeOK
  <2> QED BY <1>1, <1>4, <2>1, HandlerKeeps
<1>6. ThreadOK'
  BY <1>1 DEF UartInv, ThreadOK
<1>7. HandlerOK'
  BY <1>1, <1>3 DEF HandlerOK
<1>8. OnTheWay' = OnTheWay
  <2>1. InHandler = <<got[Handler]>> /\ InHandler' = <<>>
    BY <1>1 DEF InHandler
  <2>2. /\ OnTheWay = ((hw \o <<got[Handler]>>) \o Content) \o out
        /\ OnTheWay' = ((hw' \o <<>>) \o Content) \o out
    BY <1>1, <2>1 DEF OnTheWay
  <2>3. hw' \o <<>> = hw'
    BY <1>4
  <2> QED BY <1>4, <2>2, <2>3
<1> QED BY <1>1, <1>2, <1>4, <1>5, <1>6, <1>7, <1>8 DEF UartInv, WillDisplay

LEMMA SendStep ==
  ASSUME SingleUsers, UartInv, Send
  PROVE  UartInv' /\ (WillDisplay => WillDisplay')
<1>1. /\ UNCHANGED <<head, tail, data, pc, value, put, got, length>> /\ Content' = Content
      /\ UNCHANGED <<thread, out, call, line, reading, end, isr>>
      /\ hw # <<>> /\ hw' = Tail(hw) /\ screen' = Show(screen, Head(hw))
      /\ ris' = (ris \/ Len(hw) = Trigger + 1)
  BY SameRing DEF Send, thread
<1>2. RingInv'
  BY UartRingInv DEF UartNext
<1> DEFINE n == Len(hw)
           m == Len(hw')
<1>3. /\ hw \in Seq(Values) /\ Head(hw) \in Values /\ hw' \in Seq(Values)
      /\ n \in Nat \ {0} /\ n <= Depth /\ m = n - 1 /\ Depth \in Nat
  BY <1>1, UartAssumption DEF UartInv, DriverTypeOK
<1>4. m <= Depth /\ (n < Depth => m < Depth) /\ n \in Nat /\ m \in Nat
  <2> HIDE DEF n, m
  <2> QED BY <1>3
<1>5. ~Full => ~Full'
  BY <1>3, <1>4 DEF Full
<1>6. DriverTypeOK'
  <2>2. IsScreen(screen')
    BY <1>1, <1>3, ShowType DEF UartInv, DriverTypeOK
  <2>3. ris' \in BOOLEAN
    BY <1>1 DEF UartInv, DriverTypeOK
  <2> QED BY <1>1, <1>3, <1>4, <2>2, <2>3 DEF UartInv, DriverTypeOK
<1>7. ThreadOK'
  BY <1>1, <1>5 DEF UartInv, ThreadOK
<1>8. HandlerOK'
  BY <1>1, <1>5 DEF UartInv, HandlerOK
<1>9. ShowAll(screen', OnTheWay') = ShowAll(screen, OnTheWay)
  <2> DEFINE rest == (InHandler \o Content) \o out
             b == Head(hw)
  <2>1. rest \in Seq(Values)
    BY WayType
  <2>2. OnTheWay = hw \o rest /\ OnTheWay' = hw' \o rest
    <3>1. OnTheWay = ((hw \o InHandler) \o Content) \o out
          /\ OnTheWay' = ((hw' \o InHandler) \o Content) \o out
      BY <1>1 DEF OnTheWay, InHandler
    <3> DEFINE h == InHandler
               q == Content
    <3>2. h \in Seq(Values) /\ q \in Seq(Values) /\ out \in Seq(Values)
      BY WayType
    <3> HIDE DEF h, q
    <3>3. ((hw \o h) \o q) \o out = hw \o ((h \o q) \o out)
      BY SMTT(30), <1>3, <3>2
    <3>4. ((hw' \o h) \o q) \o out = hw' \o ((h \o q) \o out)
      BY SMTT(30), <1>3, <3>2
    <3> QED BY <3>1, <3>3, <3>4 DEF h, q
  <2> HIDE DEF rest
  <2>3. /\ hw \o rest \in Seq(Values) /\ hw \o rest # <<>>
        /\ Head(hw \o rest) = b /\ Tail(hw \o rest) = hw' \o rest
    BY <1>1, <1>3, <2>1
  <2> QED BY <1>1, <2>2, <2>3, ShowFirst
<1> QED BY <1>1, <1>2, <1>6, <1>7, <1>8, <1>9 DEF UartInv, WillDisplay

LEMMA UartStep ==
  ASSUME SingleUsers, UartInv, [UartNext]_uartVars
  PROVE  UartInv' /\ (WillDisplay => WillDisplay')
<1>1. CASE UNCHANGED uartVars
  <2>1. /\ UNCHANGED <<head, tail, data, pc, value, put, got, length>> /\ Content' = Content
        /\ UNCHANGED <<out, call, line, reading, end, hw, ris, screen, isr>>
    BY <1>1, SameRing DEF uartVars, thread, hardware
  <2>2. RingInv'
    BY UartRingInv
  <2>3. IsScreen(screen)'
    BY <2>1 DEF UartInv, DriverTypeOK
  <2>4. DriverTypeOK' /\ ThreadOK' /\ HandlerOK'
    BY <2>1, <2>3 DEF UartInv, DriverTypeOK, ThreadOK, HandlerOK, Full
  <2>5. OnTheWay' = OnTheWay
    BY <2>1 DEF OnTheWay, InHandler
  <2> QED BY <2>1, <2>2, <2>4, <2>5 DEF UartInv, WillDisplay
<1>2. CASE UartNext
  BY <1>2, InStringStep, OutStringStep, OutSizeStep, OutLengthStep, OutFlagsStep,
     OutDirectStep, OutPutStep, InterruptStep, TxGetStep, TxWriteStep, SendStep
     DEF UartNext, OutByte, TxInterrupt
<1> QED BY <1>1, <1>2

-----------------------------------------------------------------------------
(* The theorems about the terminal.                                        *)

(* The inductive invariant of the driver.                                  *)
LEMMA UartInvariant ==
  ASSUME SingleUsers
  PROVE  UartSpec => [](UartInv /\ WillDisplay)
<1>1. UartInit => UartInv /\ WillDisplay
  <2> SUFFICES ASSUME UartInit PROVE UartInv /\ WillDisplay
    OBVIOUS
  <2>1. UartInv
    BY UartInvInit
  <2>2. head = tail
    BY DEF UartInit, Init
  <2>3. Content = <<>>
    BY <2>1, <2>2, ContentType DEF UartInv, RingInv
  <2>4. OnTheWay = <<>>
    BY <2>3 DEF UartInit, OnTheWay, InHandler
  <2>5. screen = [cells |-> <<>>, col |-> 0] /\ line = <<>>
    BY DEF UartInit
  <2>6. Displays(screen, line)
    BY <2>5 DEF Displays
  <2> QED BY <2>1, <2>4, <2>6, ShowNothing DEF WillDisplay
<1>2. UartInv /\ WillDisplay /\ [UartNext]_uartVars => (UartInv /\ WillDisplay)'
  BY UartStep
<1> QED BY <1>1, <1>2, PTL DEF UartSpec

(* Every variable of the driver has its type: of the line no more than     *)
(* buff_size characters are written, and the zero behind them at most at   *)
(* index buff_size, which is outside an array of buff_size bytes.          *)
THEOREM UartTypes ==
  ASSUME SingleUsers
  PROVE  UartSpec => []UartTypeOK
<1>1. UartInv => UartTypeOK
  BY DEF UartInv, RingInv, DriverTypeOK, IsScreen, UartTypeOK
<1> QED BY <1>1, UartInvariant, PTL

(* "updates the terminal (echos back input)" (uart.c:80): when all bytes   *)
(* have arrived, the terminal shows what uart_in_string has in its buffer, *)
(* for lines and fifos of any length and any interleaving of thread,       *)
(* interrupt and line.                                                     *)
THEOREM EchoIsLine ==
  ASSUME SingleUsers
  PROVE  UartSpec => []EchoMatchesLine
<1>1. UartInv /\ WillDisplay => EchoMatchesLine
  BY EchoIs
<1> QED BY <1>1, UartInvariant, PTL

(* tx_fifo is used as fifo8 is meant to be: what thread and handler do with*)
(* it are steps of the ring, so bytes pass it in their order, and none is  *)
(* lost or read before it is written.                                      *)
THEOREM TxFifoIsQueue ==
  ASSUME SingleUsers
  PROVE  UartSpec => Spec /\ ImplementsQueue
<1>1. UartInit => Init
  BY DEF UartInit
<1>2. UartInv /\ [UartNext]_uartVars => [Next]_vars
  BY UartRing
<1>3. UartSpec => Spec
  BY <1>1, <1>2, UartInvariant, PTL DEF UartSpec, Spec
<1> QED BY <1>3, RingIsQueue, PTL

-----------------------------------------------------------------------------
(* No byte is lost between a test of UARTFR and the write to UARTDR.       *)

(* uart.c:65-67, :48-51: whatever the handler does between the thread's    *)
(* test and its write, for any depth of the hardware's fifo it has room for*)
(* the byte.                                                               *)
THEOREM NoByteLost ==
  ASSUME SingleUsers
  PROVE  UartSpec => []EveryByteAccepted
<1>1. UartInv => EveryByteAccepted
  BY DEF UartInv, ThreadOK, HandlerOK, EveryByteAccepted
<1> QED BY <1>1, UartInvariant, PTL

-----------------------------------------------------------------------------
(* Where the output stops.                                                 *)

(* Stranded in terms of the indices.                                       *)
StrandedAt == head # tail /\ ~ris /\ isr = "off" /\ Len(hw) <= Trigger

LEMMA StrandedIs ==
  ASSUME RingInv, RingInv'
  PROVE  Stranded = StrandedAt /\ Stranded' = StrandedAt'
<1>1. Content = <<>> <=> head = tail
  BY ContentType DEF RingInv
<1>2. Content' = <<>> <=> head' = tail'
  <2> DEFINE h == head'
             t == tail'
             d == data'
  <2>1. /\ size \in Nat \ {0, 1} /\ h \in Slots(size) /\ t \in Slots(size)
        /\ d \in [Slots(size) -> Option]
    BY Terms DEF RingInv, RingTypeOK
  <2>2. Content' = Elements(size, h, t, d)
    BY DEF Content, Elements, Count, Place
  <2> HIDE DEF h, t, d
  <2>3. Elements(size, h, t, d) \in Seq(Option)
    BY <2>1, ElementsAre
  <2>4. h = t <=> Len(Elements(size, h, t, d)) = 0
    BY <2>1, FullOrEmpty
  <2>5. Elements(size, h, t, d) = <<>> <=> h = t
    BY <2>3, <2>4
  <2> QED BY <2>2, <2>5 DEF h, t
<1> QED BY <1>1, <1>2 DEF Stranded, StrandedAt

(* Steps that change neither the hardware's fifo nor the indices.          *)
LEMMA StrandedSame ==
  ASSUME UNCHANGED <<hw, head, tail>>,
         (~ris' /\ isr' = "off" <=> ~ris /\ isr = "off") \/ head = tail
  PROVE  StrandedAt' = StrandedAt
BY DEF StrandedAt

(* The handler ends when the hardware's fifo is full, and so above the     *)
(* trigger, or tx_fifo is empty; until then it is served.                  *)
LEMMA StrandedHandler ==
  ASSUME UartInv, Interrupt \/ TxLoop \/ TxGet \/ TxWrite
  PROVE  ~StrandedAt /\ ~StrandedAt'
<1> DEFINE n == Len(hw)
<1>1. ris \/ isr # "off"
  BY DEF Interrupt, TxLoop, TxGet, TxWrite
<1>2. n \in Nat /\ Trigger \in Nat /\ Depth \in Nat /\ Trigger < Depth
  BY UartAssumption DEF UartInv, DriverTypeOK
<1>3. CASE isr' # "off"
  BY <1>1, <1>3 DEF StrandedAt
<1>4. CASE TxLoop /\ isr' = "off"
  <2>1. Full /\ UNCHANGED hw
    BY <1>4 DEF TxLoop, hardware
  <2>2. n >= Depth /\ Len(hw') = n
    BY <2>1 DEF Full
  <2> HIDE DEF n
  <2>3. ~(Len(hw') <= Trigger)
    BY <1>2, <2>2
  <2> QED BY <1>1, <2>3 DEF StrandedAt
<1>5. CASE TxGet /\ isr' = "off"
  <2>1. Get(Handler) /\ pc[Handler] = "idle" /\ pc'[Handler] = "idle"
    BY <1>5 DEF TxGet
  <2>2. GetTest(Handler) /\ pc \in [Users -> {"idle", "write", "read", "advance", "ahead", "behind"}]
    BY <2>1 DEF Get, GetRead, GetAdvance, UartInv, RingInv, RingTypeOK
  <2>3. head = tail /\ UNCHANGED <<head, tail>>
    BY <2>1, <2>2, Users2 DEF GetTest, Goto, ring
  <2> QED BY <1>1, <2>3 DEF StrandedAt
<1> QED BY <1>3, <1>4, <1>5 DEF Interrupt, TxWrite

(* A byte that is sent raises the interrupt when the level falls to the    *)
(* trigger.                                                                *)
LEMMA StrandedSend ==
  ASSUME UartInv, Send
  PROVE  StrandedAt' = StrandedAt
<1> DEFINE n == Len(hw)
           m == Len(hw')
<1>1. /\ UNCHANGED <<head, tail, isr>> /\ hw # <<>> /\ hw' = Tail(hw)
      /\ ris' = (ris \/ n = Trigger + 1)
  BY DEF Send, vars, ring
<1>2. m = n - 1 /\ n \in Nat \ {0} /\ Trigger \in Nat
  BY <1>1, UartAssumption DEF UartInv, DriverTypeOK
<1>3. ris \in BOOLEAN
  BY DEF UartInv, DriverTypeOK
<1>4. (~ris' /\ m <= Trigger) <=> (~ris /\ n <= Trigger)
  <2> HIDE DEF n, m
  <2>1. m <= Trigger <=> n <= Trigger \/ n = Trigger + 1
    BY <1>2
  <2>2. n = Trigger + 1 => ~(n <= Trigger)
    BY <1>2
  <2> QED BY <1>1, <2>1, <2>2
<1> QED BY <1>1, <1>4 DEF StrandedAt

(* A put into a fifo that holds a byte.                                    *)
LEMMA StrandedPut ==
  ASSUME UartInv, SingleUsers, OutPut, ~(PutAdvance(Thread) /\ head = tail)
  PROVE  StrandedAt' = StrandedAt
<1>1. UNCHANGED <<hw, ris, isr>>
  BY DEF OutPut, hardware
<1>2. CASE UNCHANGED <<head, tail>>
  BY <1>1, <1>2 DEF StrandedAt
<1>3. CASE PutAdvance(Thread)
  <2>1. head # tail /\ head' = head /\ tail' = Succ(tail) /\ pc[Thread] = "advance"
    BY <1>3 DEF PutAdvance
  <2>2. Succ(tail) # head
    BY <2>1, Users2 DEF UartInv, RingInv, ProducerState
  <2> QED BY <1>1, <2>1, <2>2 DEF StrandedAt
<1> QED BY <1>2, <1>3 DEF OutPut, PutTest, PutWrite, ring

LEMMA StrandedStep ==
  ASSUME SingleUsers, UartInv, [UartNext]_uartVars, ~(PutAdvance(Thread) /\ head = tail)
  PROVE  StrandedAt' = StrandedAt
<1>1. CASE UNCHANGED uartVars
  BY <1>1 DEF uartVars, vars, ring, hardware, StrandedAt
<1>2. CASE OutString \/ \E c \in Chars \cup {BS, CR} : InString(c)
  BY <1>2 DEF OutString, InString, vars, ring, hardware, StrandedAt
<1>3. CASE OutSize \/ OutLength \/ OutFlags
  BY <1>3 DEF OutSize, OutLength, OutFlags, SizeTest, SizeResult, vars, ring, hardware,
              StrandedAt
<1>4. CASE OutDirect
  <2>1. head = tail /\ UNCHANGED <<head, tail>>
    BY <1>4 DEF OutDirect, vars, ring, UartInv, ThreadOK
  <2> QED BY <2>1 DEF StrandedAt
<1>5. CASE OutPut
  BY <1>5, StrandedPut
<1>6. CASE Interrupt \/ TxLoop \/ TxGet \/ TxWrite
  BY <1>6, StrandedHandler DEF StrandedAt
<1>7. CASE Send
  BY <1>7, StrandedSend
<1> QED BY <1>1, <1>2, <1>3, <1>4, <1>5, <1>6, <1>7 DEF UartNext, OutByte, TxInterrupt

(* uart.c:65-70: the output stops by the put of a byte into an empty       *)
(* tx_fifo and by no other step, and then for good, for any sizes of both  *)
(* fifos, any trigger level, and however many bytes leave during a call.   *)
THEOREM OutputStopsByPut ==
  ASSUME SingleUsers
  PROVE  UartSpec => StrandedOnlyByPut
<1> DEFINE P == Stranded' # Stranded => PutAdvance(Thread) /\ head = tail
<1>1. UartInv /\ [UartNext]_uartVars => P
  <2> SUFFICES ASSUME UartInv, [UartNext]_uartVars, ~(PutAdvance(Thread) /\ head = tail)
               PROVE  Stranded' = Stranded
    OBVIOUS
  <2>1. RingInv /\ RingInv'
    BY UartRingInv DEF UartInv
  <2>2. Stranded = StrandedAt /\ Stranded' = StrandedAt'
    BY <2>1, StrandedIs
  <2> QED BY <2>2, StrandedStep
<1> QED BY <1>1, UartInvariant, PTL DEF UartSpec, StrandedOnlyByPut
=============================================================================

---------------------------- MODULE MpmcFifoProofs ----------------------------
(***************************************************************************)
(* Proofs about module MpmcFifo, for any number of producers and consumers:*)
(* its semaphores count, wherever its block ends, and it is a queue if     *)
(* every index lies in its block.                                          *)
(***************************************************************************)
EXTENDS MpmcFifo, SharedLemmas, FiniteSetTheorems

Places == {"idle", "lock", "move", "advance", "unlock", "signal"}

(* Between c_wait and the move of the index; between that and c_signal.    *)
Before == {"lock", "move", "advance"}
Behind == {"unlock", "signal"}

InMutex(u) == pc[u] \in {"move", "advance", "unlock"}

(* One user at a time is between b_wait and b_signal.                      *)
MutexInv ==
  /\ \A u \in Users : InMutex(u) => mutex = 1
  /\ \A u, w \in Users : InMutex(u) /\ InMutex(w) => u = w

(* What a user carries is what the ring holds at its index, in the block.  *)
Carry(u) ==
  /\ u \in Producers =>
       /\ pc[u] \in Before => value[u] \in Values
       /\ pc[u] = "advance" /\ tail \in InBlock => data[tail] = value[u]
  /\ u \in Consumers /\ pc[u] = "advance" /\ head \in InBlock =>
       value[u] = data[head]

Carries == \A u \in Users : Carry(u)

(* MpmcTypeOK without the bounds of the semaphores.                        *)
VarTypes ==
  /\ head \in Indices /\ tail \in Indices
  /\ data \in [InBlock -> Option]
  /\ full \in Nat /\ empty \in Nat /\ mutex \in {0, 1}
  /\ pc \in [Users -> Places]
  /\ value \in [Users -> Option]
  /\ put \in [Producers -> {"none", "ok"}]
  /\ got \in [Consumers -> Option]

Counts ==
  /\ Len(Content) = empty + At(Consumers, Before) + At(Producers, Behind)
  /\ fifo_size = Len(Content) + full + At(Producers, Before) + At(Consumers, Behind)

MpmcInv == VarTypes /\ MutexInv /\ Carries /\ Counts

-----------------------------------------------------------------------------
(* The ring in the terms of SharedLemmas.                                  *)

LEMMA SizeIs == size \in Nat \ {0, 1} /\ fifo_size \in Nat \ {0} /\ fifo_size < size
<1>1. /\ fifo_size \in Nat \ {0} /\ sizeof_FIFO_t \in Nat \ {0}
      /\ element_size \in {1, 2, 4, 8}
  BY MpmcAssumption
<1>2. CASE element_size = 1
  BY <1>1, <1>2 DEF size
<1>3. CASE element_size = 2
  BY <1>1, <1>3 DEF size
<1>4. CASE element_size = 4
  BY <1>1, <1>4 DEF size
<1>5. CASE element_size = 8
  BY <1>1, <1>5 DEF size
<1> QED BY <1>1, <1>2, <1>3, <1>4, <1>5

LEMMA Terms ==
  /\ Indices = Slots(size)
  /\ \A i : Succ(i) = After(size, i)
  /\ Content = Elements(size, head, tail, Cells)
BY DEF Indices, Slots, Succ, After, Content, Elements, Count, Place

LEMMA CellsType ==
  VarTypes => /\ Cells \in [Slots(size) -> Option]
              /\ \A i \in InBlock : i \in Slots(size) /\ Cells[i] = data[i]
BY Terms DEF VarTypes, Cells, InBlock, Option

(* While data stays as it is, so do the cells.                             *)
LEMMA CellsStay == data' = data => Cells' = Cells
BY DEF Cells

LEMMA ContentLength == VarTypes => Len(Content) \in Nat
<1> SUFFICES ASSUME VarTypes PROVE Len(Content) \in Nat
  OBVIOUS
<1>1. /\ size \in Nat \ {0, 1}
      /\ head \in Slots(size) /\ tail \in Slots(size)
      /\ Cells \in [Slots(size) -> Option]
  BY SizeIs, Terms, CellsType DEF VarTypes
<1>2. Len(Elements(size, head, tail, Cells)) = Count(size, head, tail)
  BY <1>1, ElementsAre
<1> QED BY <1>1, <1>2, Terms, CountIs

(* How many users are where, after one of them has moved.                  *)
LEMMA AtType ==
  ASSUME NEW S, IsFiniteSet(S), NEW places
  PROVE  At(S, places) \in Nat
<1>1. IsFiniteSet({u \in S : pc[u] \in places})
  BY FS_Subset
<1> QED BY <1>1, FS_CardinalityType DEF At

Inside(l, places) == IF l \in places THEN 1 ELSE 0

LEMMA AtMoves ==
  ASSUME VarTypes, NEW S, IsFiniteSet(S), S \subseteq Users, NEW places,
         NEW u \in Users, NEW m, pc' = [pc EXCEPT ![u] = m]
  PROVE  At(S, places)' = IF u \in S
           THEN At(S, places) + Inside(m, places) - Inside(pc[u], places)
           ELSE At(S, places)
<1> DEFINE A == {w \in S : pc[w] \in places}
           B == {w \in S : pc'[w] \in places}
<1>1. \A w \in S : pc'[w] = IF w = u THEN m ELSE pc[w]
  BY DEF VarTypes
<1>2. IsFiniteSet(A) /\ Cardinality(A) \in Nat
  BY FS_Subset, FS_CardinalityType
<1>3. /\ Cardinality(A \cup {u}) = IF u \in A THEN Cardinality(A) ELSE Cardinality(A) + 1
      /\ Cardinality(A \ {u}) = IF u \in A THEN Cardinality(A) - 1 ELSE Cardinality(A)
  BY <1>2, FS_AddElement, FS_RemoveElement
<1>4. B = IF u \in S THEN IF m \in places THEN A \cup {u} ELSE A \ {u} ELSE A
  BY <1>1
<1>5. At(S, places) = Cardinality(A) /\ At(S, places)' = Cardinality(B)
  BY DEF At
<1>6. u \in S => (u \in A <=> pc[u] \in places)
  OBVIOUS
<1> HIDE DEF A, B
<1> QED BY <1>2, <1>3, <1>4, <1>5, <1>6 DEF Inside

(* The four counts that SemaphoresCount adds up.                           *)
LEMMA CountTypes ==
  /\ At(Producers, Before) \in Nat /\ At(Producers, Behind) \in Nat
  /\ At(Consumers, Before) \in Nat /\ At(Consumers, Behind) \in Nat
BY AtType, MpmcAssumption

LEMMA CountMoves ==
  ASSUME VarTypes, NEW u \in Users, NEW l, NEW m, From(u, l, m)
  PROVE  \A places :
           /\ u \in Producers =>
                /\ At(Producers, places)' =
                     At(Producers, places) + Inside(m, places) - Inside(l, places)
                /\ At(Consumers, places)' = At(Consumers, places)
           /\ u \in Consumers =>
                /\ At(Consumers, places)' =
                     At(Consumers, places) + Inside(m, places) - Inside(l, places)
                /\ At(Producers, places)' = At(Producers, places)
<1> SUFFICES ASSUME NEW places
             PROVE  /\ u \in Producers =>
                         /\ At(Producers, places)' =
                              At(Producers, places) + Inside(m, places) - Inside(l, places)
                         /\ At(Consumers, places)' = At(Consumers, places)
                    /\ u \in Consumers =>
                         /\ At(Consumers, places)' =
                              At(Consumers, places) + Inside(m, places) - Inside(l, places)
                         /\ At(Producers, places)' = At(Producers, places)
  OBVIOUS
<1>1. pc[u] = l /\ pc' = [pc EXCEPT ![u] = m]
  BY DEF From
<1>2. /\ IsFiniteSet(Producers) /\ Producers \subseteq Users
      /\ IsFiniteSet(Consumers) /\ Consumers \subseteq Users
      /\ ~ (u \in Producers /\ u \in Consumers)
  BY MpmcAssumption DEF Users
<1>3. At(Producers, places)' = IF u \in Producers
        THEN At(Producers, places) + Inside(m, places) - Inside(pc[u], places)
        ELSE At(Producers, places)
  BY <1>1, <1>2, AtMoves
<1>4. At(Consumers, places)' = IF u \in Consumers
        THEN At(Consumers, places) + Inside(m, places) - Inside(pc[u], places)
        ELSE At(Consumers, places)
  BY <1>1, <1>2, AtMoves
<1> QED BY <1>1, <1>2, <1>3, <1>4

-----------------------------------------------------------------------------
(* The conjuncts of the invariant, when user u makes a step.               *)

LEMMA MutexStep ==
  ASSUME VarTypes, MutexInv, NEW u \in Users, NEW l, NEW m, From(u, l, m),
         m \in {"move", "advance", "unlock"} => l \in {"move", "advance", "unlock"},
         mutex' = mutex
  PROVE  MutexInv'
BY DEF VarTypes, MutexInv, InMutex, From

(* Only a user that holds the mutex changes the ring.                      *)
LEMMA CarryStep ==
  ASSUME VarTypes, MutexInv, Carries, NEW u \in Users,
         InMutex(u) \/ UNCHANGED ring,
         \A w \in Users \ {u} : pc'[w] = pc[w] /\ value'[w] = value[w],
         Carry(u)'
  PROVE  Carries'
<1> SUFFICES ASSUME NEW w \in Users, w # u PROVE Carry(w)'
  BY DEF Carries
<1>1. Carry(w) /\ pc'[w] = pc[w] /\ value'[w] = value[w]
  BY DEF Carries
<1>2. CASE UNCHANGED ring
  BY <1>1, <1>2 DEF Carry, ring
<1>3. CASE InMutex(u)
  <2>1. pc[w] # "advance"
    BY <1>3 DEF MutexInv, InMutex
  <2> QED BY <1>1, <2>1 DEF Carry
<1> QED BY <1>2, <1>3

(* A step that leaves the number of elements and moves no semaphore.       *)
LEMMA CountStep ==
  ASSUME MpmcInv, NEW u \in Users, NEW l, NEW m, From(u, l, m),
         l \in Before <=> m \in Before, l \in Behind <=> m \in Behind,
         Content' = Content, UNCHANGED <<full, empty>>
  PROVE  Counts'
<1>2. Inside(m, Before) = Inside(l, Before) /\ Inside(m, Behind) = Inside(l, Behind)
  BY DEF Inside
<1>3. Inside(l, Before) \in Nat /\ Inside(l, Behind) \in Nat
  BY DEF Inside
<1>4. /\ At(Producers, Before)' = At(Producers, Before)
      /\ At(Producers, Behind)' = At(Producers, Behind)
      /\ At(Consumers, Before)' = At(Consumers, Before)
      /\ At(Consumers, Behind)' = At(Consumers, Behind)
  <2>1. VarTypes
    BY DEF MpmcInv
  <2>2. CASE u \in Producers
    BY <1>2, <1>3, <2>1, <2>2, CountMoves, CountTypes
  <2>3. CASE u \in Consumers
    BY <1>2, <1>3, <2>1, <2>3, CountMoves, CountTypes
  <2> QED BY <2>2, <2>3 DEF Users
<1> QED BY <1>4 DEF MpmcInv, Counts

LEMMA LockStep ==
  ASSUME MpmcInv, NEW u \in Users, Lock(u)
  PROVE  MpmcInv'
<1>0. VarTypes /\ MutexInv /\ Carries /\ Counts
  BY DEF MpmcInv
<1>1. /\ From(u, "lock", "move") /\ mutex = 0 /\ mutex' = 1
      /\ UNCHANGED <<head, tail, data, full, empty, value, put, got>>
  BY DEF Lock, ring, results
<1>2. VarTypes'
  BY <1>0, <1>1 DEF VarTypes, From, Places
<1>3. MutexInv'
  BY <1>0, <1>1 DEF VarTypes, MutexInv, InMutex, From
<1>4. Carries'
  BY <1>0, <1>1 DEF VarTypes, Carries, Carry, From, Before
<1>5. Content' = Content
  BY <1>1, CellsStay DEF Content
<1>6. Counts'
  BY <1>1, <1>5, CountStep DEF Before, Behind
<1> QED BY <1>2, <1>3, <1>4, <1>6 DEF MpmcInv

LEMMA UnlockStep ==
  ASSUME MpmcInv, NEW u \in Users, Unlock(u)
  PROVE  MpmcInv'
<1>0. VarTypes /\ MutexInv /\ Carries /\ Counts
  BY DEF MpmcInv
<1>1. /\ From(u, "unlock", "signal") /\ mutex' = 0
      /\ UNCHANGED <<head, tail, data, full, empty, value, put, got>>
  BY DEF Unlock, ring, results
<1>2. VarTypes'
  BY <1>0, <1>1 DEF VarTypes, From, Places
<1>3. MutexInv'
  BY <1>0, <1>1 DEF VarTypes, MutexInv, InMutex, From
<1>4. Carries'
  BY <1>0, <1>1 DEF VarTypes, Carries, Carry, From, Before
<1>5. Content' = Content
  BY <1>1, CellsStay DEF Content
<1>6. Counts'
  BY <1>1, <1>5, CountStep DEF Before, Behind
<1> QED BY <1>2, <1>3, <1>4, <1>6 DEF MpmcInv

-----------------------------------------------------------------------------
(* fifo_put and fifo_get on the ring.  The semaphores guarantee that there *)
(* is room, and an element.                                                *)

LEMMA RingHasRoom ==
  ASSUME MpmcInv, NEW p \in Producers, pc[p] \in Before
  PROVE  Len(Content) < fifo_size /\ Succ(tail) # head
<1>0. /\ size \in Nat \ {0, 1} /\ fifo_size \in Nat \ {0} /\ fifo_size < size
      /\ head \in Slots(size) /\ tail \in Slots(size)
      /\ Cells \in [Slots(size) -> Option]
  BY SizeIs, Terms, CellsType DEF MpmcInv, VarTypes
<1>1. At(Producers, Before) # 0
  <2>1. IsFiniteSet({u \in Producers : pc[u] \in Before})
    BY MpmcAssumption, FS_Subset
  <2> QED BY <2>1, FS_EmptySet DEF At
<1>2. Len(Elements(size, head, tail, Cells)) \in Nat
  BY <1>0, ElementsAre
<1>3. Len(Content) < fifo_size
  <2>1. VarTypes /\ Counts
    BY DEF MpmcInv
  <2>2. Len(Content) \in Nat /\ full \in Nat
    BY <2>1, ContentLength DEF VarTypes
  <2> QED BY <1>0, <1>1, <2>1, <2>2, CountTypes DEF Counts
<1>4. After(size, tail) = head <=> Len(Elements(size, head, tail, Cells)) = size - 1
  BY <1>0, FullOrEmpty
<1> QED BY <1>0, <1>2, <1>3, <1>4, Terms

LEMMA RingHasElement ==
  ASSUME MpmcInv, NEW c \in Consumers, pc[c] \in Before
  PROVE  head # tail
<1>0. /\ size \in Nat \ {0, 1}
      /\ head \in Slots(size) /\ tail \in Slots(size)
      /\ Cells \in [Slots(size) -> Option]
  BY SizeIs, Terms, CellsType DEF MpmcInv, VarTypes
<1>1. At(Consumers, Before) # 0
  <2>1. IsFiniteSet({u \in Consumers : pc[u] \in Before})
    BY MpmcAssumption, FS_Subset
  <2> QED BY <2>1, FS_EmptySet DEF At
<1>2. Len(Content) # 0
  <2>1. VarTypes /\ Counts
    BY DEF MpmcInv
  <2>2. empty \in Nat
    BY <2>1 DEF VarTypes
  <2> QED BY <1>1, <2>1, <2>2, CountTypes DEF Counts
<1>3. head = tail <=> Len(Elements(size, head, tail, Cells)) = 0
  BY <1>0, FullOrEmpty
<1> QED BY <1>2, <1>3, Terms

LEMMA PutOnRing ==
  ASSUME MpmcInv, NEW p \in Producers, PutAdvance(p)
  PROVE  /\ Len(Content) < fifo_size
         /\ Content' = Append(Content, Cells[tail])
         /\ tail \in InBlock => Cells[tail] = value[p]
         /\ Len(Content)' = Len(Content) + 1
         /\ tail' \in Indices
<1>0. /\ size \in Nat \ {0, 1}
      /\ head \in Slots(size) /\ tail \in Slots(size)
      /\ Cells \in [Slots(size) -> Option]
  BY SizeIs, Terms, CellsType DEF MpmcInv, VarTypes
<1>1. /\ pc[p] = "advance" /\ tail' = Succ(tail) /\ UNCHANGED <<head, data>>
  BY DEF PutAdvance, From
<1>2. Len(Content) < fifo_size /\ Succ(tail) # head
  BY <1>1, RingHasRoom DEF Before
<1>3. tail \in InBlock => Cells[tail] = value[p]
  BY <1>1, CellsType DEF MpmcInv, Carries, Carry, Users
<1>4. Content' = Elements(size, head, After(size, tail), Cells)
  BY <1>1, CellsStay, Terms DEF Content, Elements, Count, Place
<1>5. After(size, tail) # head
  BY <1>2, Terms
<1>6. Elements(size, head, After(size, tail), Cells)
        = Append(Elements(size, head, tail, Cells), Cells[tail])
  BY <1>0, <1>5, ElementsPut
<1>7. Elements(size, head, tail, Cells) \in Seq(Option)
  BY <1>0, ElementsAre
<1>8. Content' = Append(Content, Cells[tail])
  BY <1>4, <1>6, Terms
<1>9. Len(Content)' = Len(Content) + 1
  BY <1>7, <1>8, Terms
<1> QED BY <1>0, <1>1, <1>2, <1>3, <1>8, <1>9, Terms, AfterIs

LEMMA GetFromRing ==
  ASSUME MpmcInv, NEW c \in Consumers, GetAdvance(c)
  PROVE  /\ Content # <<>>
         /\ head \in InBlock => Head(Content) = value[c]
         /\ Content' = Tail(Content)
         /\ Len(Content)' = Len(Content) - 1
         /\ head' \in Indices
<1>0. /\ size \in Nat \ {0, 1}
      /\ head \in Slots(size) /\ tail \in Slots(size)
      /\ Cells \in [Slots(size) -> Option]
  BY SizeIs, Terms, CellsType DEF MpmcInv, VarTypes
<1>1. /\ pc[c] = "advance" /\ head' = Succ(head) /\ UNCHANGED <<tail, data>>
  BY DEF GetAdvance, From
<1>2. head # tail
  BY <1>1, RingHasElement DEF Before
<1>3. head \in InBlock => Cells[head] = value[c]
  BY <1>1, CellsType DEF MpmcInv, Carries, Carry, Users
<1>4. Content' = Elements(size, After(size, head), tail, Cells)
  BY <1>1, CellsStay, Terms DEF Content, Elements, Count, Place
<1>5. /\ Elements(size, head, tail, Cells) # <<>>
      /\ Head(Elements(size, head, tail, Cells)) = Cells[head]
      /\ Elements(size, After(size, head), tail, Cells) = Tail(Elements(size, head, tail, Cells))
  BY <1>0, <1>2, ElementsGet
<1>6. Elements(size, head, tail, Cells) \in Seq(Option)
  BY <1>0, ElementsAre
<1>7. /\ Content # <<>> /\ Content' = Tail(Content)
      /\ head \in InBlock => Head(Content) = value[c]
  BY <1>3, <1>4, <1>5, Terms
<1>8. Len(Content)' = Len(Content) - 1
  BY <1>6, <1>7, Terms
<1> QED BY <1>0, <1>1, <1>7, <1>8, Terms, AfterIs

LEMMA WriteOnRing ==
  ASSUME MpmcInv, NEW p \in Producers, PutWrite(p)
  PROVE  Content' = Content
<1>0. /\ size \in Nat \ {0, 1}
      /\ head \in Slots(size) /\ tail \in Slots(size)
      /\ Cells \in [Slots(size) -> Option]
  BY SizeIs, Terms, CellsType DEF MpmcInv, VarTypes
<1>1. /\ UNCHANGED <<head, tail>>
      /\ data' = IF tail \in InBlock THEN [data EXCEPT ![tail] = value[p]] ELSE data
  BY DEF PutWrite
<1>2. Content' = Elements(size, head, tail, Cells')
  BY <1>1 DEF Content, Elements, Count, Place
<1>3. \A i \in Slots(size) \ {tail} : Cells'[i] = Cells[i]
  BY <1>1, Terms DEF MpmcInv, VarTypes, Cells
<1>4. Elements(size, head, tail, Cells') = Elements(size, head, tail, Cells)
  BY <1>0, <1>3, ElementsWrite
<1> QED BY <1>2, <1>4, Terms

-----------------------------------------------------------------------------
(* The invariant is inductive.                                             *)

LEMMA MpmcInvInit == Init => MpmcInv
<1> SUFFICES ASSUME Init PROVE MpmcInv
  OBVIOUS
<1>1. VarTypes
  BY SizeIs DEF Init, VarTypes, Indices, InBlock, Option, Users, Places
<1>2. \A u \in Users : pc[u] = "idle"
  BY DEF Init
<1>3. MutexInv /\ Carries
  BY <1>2 DEF MutexInv, InMutex, Carries, Carry, Before
<1>4. \A S, places : S \subseteq Users /\ "idle" \notin places => At(S, places) = 0
  <2> SUFFICES ASSUME NEW S, NEW places, S \subseteq Users, "idle" \notin places
               PROVE  At(S, places) = 0
    OBVIOUS
  <2>1. {u \in S : pc[u] \in places} = {}
    BY <1>2
  <2> QED BY <2>1, FS_EmptySet DEF At
<1>5. Len(Content) = 0
  <2>1. /\ head \in Slots(size) /\ tail \in Slots(size) /\ head = tail
        /\ Cells \in [Slots(size) -> Option] /\ size \in Nat \ {0, 1}
    BY <1>1, Terms, SizeIs, CellsType DEF VarTypes, Init
  <2>2. Len(Elements(size, head, tail, Cells)) = 0
    BY <2>1, FullOrEmpty
  <2> QED BY <2>2, Terms
<1>6. Counts
  BY <1>4, <1>5, SizeIs DEF Counts, Init, Users, Before, Behind
<1> QED BY <1>1, <1>3, <1>6 DEF MpmcInv

LEMMA PutInv ==
  ASSUME MpmcInv, NEW p \in Producers, Put(p)
  PROVE  MpmcInv'
<1>0. /\ VarTypes /\ MutexInv /\ Carries /\ Counts
      /\ p \in Users /\ p \notin Consumers
  BY MpmcAssumption DEF MpmcInv, Users
<1>1. ASSUME NEW v \in Values, PutStart(p, v) PROVE MpmcInv'
  <2>1. /\ From(p, "idle", "lock") /\ full > 0 /\ full' = full - 1
        /\ value' = [value EXCEPT ![p] = v]
        /\ UNCHANGED <<ring, head, tail, data, empty, mutex, put, got>>
    BY <1>1 DEF PutStart, ring, results
  <2>2. VarTypes'
    BY <1>0, <2>1 DEF VarTypes, From, Places, Option
  <2>3. MutexInv'
    BY <1>0, <2>1, MutexStep
  <2>4. Carries'
    <3>1. Carry(p)'
      BY <1>0, <2>1 DEF VarTypes, Carry, From
    <3>2. \A w \in Users \ {p} : pc'[w] = pc[w] /\ value'[w] = value[w]
      BY <1>0, <2>1 DEF VarTypes, From
    <3> QED BY <1>0, <2>1, <3>1, <3>2, CarryStep
  <2>5. Counts'
    <3>1. Content' = Content
      BY <2>1, CellsStay DEF Content
    <3>2. /\ Inside("lock", Before) = 1 /\ Inside("idle", Before) = 0
          /\ Inside("lock", Behind) = 0 /\ Inside("idle", Behind) = 0
      BY DEF Inside, Before, Behind
    <3>3. /\ At(Producers, Before)' = At(Producers, Before) + 1
          /\ At(Producers, Behind)' = At(Producers, Behind)
          /\ At(Consumers, Before)' = At(Consumers, Before)
          /\ At(Consumers, Behind)' = At(Consumers, Behind)
      BY <1>0, <2>1, <3>2, CountMoves, CountTypes
    <3>4. /\ Len(Content) \in Nat /\ full \in Nat /\ empty \in Nat
          /\ fifo_size \in Nat
      BY <1>0, ContentLength, SizeIs DEF VarTypes
    <3>5. Counts
      BY <1>0
    <3>6. Len(Content)' = Len(Content)
      BY <3>1
    <3>7. Len(Content)' = empty' + At(Consumers, Before)' + At(Producers, Behind)'
      BY <2>1, <3>3, <3>4, <3>5, <3>6, CountTypes DEF Counts
    <3>8. fifo_size = Len(Content)' + full' + At(Producers, Before)' + At(Consumers, Behind)'
      BY <2>1, <3>3, <3>4, <3>5, <3>6, CountTypes DEF Counts
    <3> QED BY <3>7, <3>8 DEF Counts
  <2> QED BY <2>2, <2>3, <2>4, <2>5 DEF MpmcInv
<1>2. CASE PutWrite(p)
  <2>1. /\ From(p, "move", "advance")
        /\ data' = IF tail \in InBlock THEN [data EXCEPT ![tail] = value[p]] ELSE data
        /\ UNCHANGED <<head, tail, full, empty, mutex, value, put, got>>
    BY <1>2 DEF PutWrite, sems, results
  <2>2. VarTypes'
    BY <1>0, <2>1 DEF VarTypes, From, Places
  <2>3. MutexInv'
    BY <1>0, <2>1, MutexStep
  <2>4. Carries'
    <3>1. InMutex(p)
      BY <2>1 DEF InMutex, From
    <3>2. Carry(p)'
      BY <1>0, <2>1 DEF VarTypes, Carries, Carry, From, Before
    <3>3. \A w \in Users \ {p} : pc'[w] = pc[w] /\ value'[w] = value[w]
      BY <1>0, <2>1 DEF VarTypes, From
    <3> QED BY <1>0, <3>1, <3>2, <3>3, CarryStep
  <2>5. Content' = Content
    BY <1>2, WriteOnRing
  <2>6. Counts'
    BY <1>0, <2>1, <2>5, CountStep DEF Before, Behind
  <2> QED BY <2>2, <2>3, <2>4, <2>6 DEF MpmcInv
<1>3. CASE PutAdvance(p)
  <2>1. /\ From(p, "advance", "unlock") /\ tail' = Succ(tail)
        /\ value' = [value EXCEPT ![p] = NULL] /\ put' = [put EXCEPT ![p] = "ok"]
        /\ UNCHANGED <<head, data, full, empty, mutex, got>>
    BY <1>3 DEF PutAdvance, sems
  <2>2. VarTypes'
    <3>1. tail' \in Indices
      BY <1>3, PutOnRing
    <3> QED BY <1>0, <2>1, <3>1 DEF VarTypes, From, Places, Option
  <2>3. MutexInv'
    BY <1>0, <2>1, MutexStep
  <2>4. Carries'
    <3>1. InMutex(p)
      BY <2>1 DEF InMutex, From
    <3>2. Carry(p)'
      BY <1>0, <2>1 DEF VarTypes, Carry, From, Before
    <3>3. \A w \in Users \ {p} : pc'[w] = pc[w] /\ value'[w] = value[w]
      BY <1>0, <2>1 DEF VarTypes, From
    <3> QED BY <1>0, <3>1, <3>2, <3>3, CarryStep
  <2>5. Counts'
    <3>1. Len(Content)' = Len(Content) + 1
      BY <1>3, PutOnRing
    <3>2. /\ Inside("unlock", Before) = 0 /\ Inside("advance", Before) = 1
          /\ Inside("unlock", Behind) = 1 /\ Inside("advance", Behind) = 0
      BY DEF Inside, Before, Behind
    <3>3. /\ At(Producers, Before)' = At(Producers, Before) - 1
          /\ At(Producers, Behind)' = At(Producers, Behind) + 1
          /\ At(Consumers, Before)' = At(Consumers, Before)
          /\ At(Consumers, Behind)' = At(Consumers, Behind)
      BY <1>0, <2>1, <3>2, CountMoves, CountTypes
    <3>4. /\ Len(Content) \in Nat /\ full \in Nat /\ empty \in Nat
          /\ fifo_size \in Nat
      BY <1>0, ContentLength, SizeIs DEF VarTypes
    <3>5. Counts
      BY <1>0
    <3>6. Len(Content)' = Len(Content) + 1
      BY <3>1
    <3>7. Len(Content)' = empty' + At(Consumers, Before)' + At(Producers, Behind)'
      BY <2>1, <3>3, <3>4, <3>5, <3>6, CountTypes DEF Counts
    <3>8. fifo_size = Len(Content)' + full' + At(Producers, Before)' + At(Consumers, Behind)'
      BY <2>1, <3>3, <3>4, <3>5, <3>6, CountTypes, SMTT(30) DEF Counts
    <3> QED BY <3>7, <3>8 DEF Counts
  <2> QED BY <2>2, <2>3, <2>4, <2>5 DEF MpmcInv
<1>4. CASE PutSignal(p)
  <2>1. /\ From(p, "signal", "idle") /\ empty' = empty + 1
        /\ UNCHANGED <<ring, head, tail, data, full, mutex, value, put, got>>
    BY <1>4 DEF PutSignal, ring, results
  <2>2. VarTypes'
    BY <1>0, <2>1 DEF VarTypes, From, Places
  <2>3. MutexInv'
    BY <1>0, <2>1, MutexStep
  <2>4. Carries'
    <3>1. Carry(p)'
      BY <1>0, <2>1 DEF VarTypes, Carry, From, Before
    <3>2. \A w \in Users \ {p} : pc'[w] = pc[w] /\ value'[w] = value[w]
      BY <1>0, <2>1 DEF VarTypes, From
    <3> QED BY <1>0, <2>1, <3>1, <3>2, CarryStep
  <2>5. Counts'
    <3>1. Content' = Content
      BY <2>1, CellsStay DEF Content
    <3>2. /\ Inside("idle", Before) = 0 /\ Inside("signal", Before) = 0
          /\ Inside("idle", Behind) = 0 /\ Inside("signal", Behind) = 1
      BY DEF Inside, Before, Behind
    <3>3. /\ At(Producers, Before)' = At(Producers, Before)
          /\ At(Producers, Behind)' = At(Producers, Behind) - 1
          /\ At(Consumers, Before)' = At(Consumers, Before)
          /\ At(Consumers, Behind)' = At(Consumers, Behind)
      BY <1>0, <2>1, <3>2, CountMoves, CountTypes
    <3>4. /\ Len(Content) \in Nat /\ full \in Nat /\ empty \in Nat
          /\ fifo_size \in Nat
      BY <1>0, ContentLength, SizeIs DEF VarTypes
    <3>5. Counts
      BY <1>0
    <3>6. Len(Content)' = Len(Content)
      BY <3>1
    <3>7. Len(Content)' = empty' + At(Consumers, Before)' + At(Producers, Behind)'
      BY <2>1, <3>3, <3>4, <3>5, <3>6, CountTypes DEF Counts
    <3>8. fifo_size = Len(Content)' + full' + At(Producers, Before)' + At(Consumers, Behind)'
      BY <2>1, <3>3, <3>4, <3>5, <3>6, CountTypes DEF Counts
    <3> QED BY <3>7, <3>8 DEF Counts
  <2> QED BY <2>2, <2>3, <2>4, <2>5 DEF MpmcInv
<1> QED BY <1>0, <1>1, <1>2, <1>3, <1>4, LockStep, UnlockStep DEF Put

LEMMA GetInv ==
  ASSUME MpmcInv, NEW c \in Consumers, Get(c)
  PROVE  MpmcInv'
<1>0. /\ VarTypes /\ MutexInv /\ Carries /\ Counts
      /\ c \in Users /\ c \notin Producers
  BY MpmcAssumption DEF MpmcInv, Users
<1>1. CASE GetStart(c)
  <2>1. /\ From(c, "idle", "lock") /\ empty > 0 /\ empty' = empty - 1
        /\ UNCHANGED <<ring, head, tail, data, full, mutex, value, put, got>>
    BY <1>1 DEF GetStart, ring, results
  <2>2. VarTypes'
    BY <1>0, <2>1 DEF VarTypes, From, Places
  <2>3. MutexInv'
    BY <1>0, <2>1, MutexStep
  <2>4. Carries'
    <3>1. Carry(c)'
      BY <1>0, <2>1 DEF VarTypes, Carry, From
    <3>2. \A w \in Users \ {c} : pc'[w] = pc[w] /\ value'[w] = value[w]
      BY <1>0, <2>1 DEF VarTypes, From
    <3> QED BY <1>0, <2>1, <3>1, <3>2, CarryStep
  <2>5. Counts'
    <3>1. Content' = Content
      BY <2>1, CellsStay DEF Content
    <3>2. /\ Inside("lock", Before) = 1 /\ Inside("idle", Before) = 0
          /\ Inside("lock", Behind) = 0 /\ Inside("idle", Behind) = 0
      BY DEF Inside, Before, Behind
    <3>3. /\ At(Producers, Before)' = At(Producers, Before)
          /\ At(Producers, Behind)' = At(Producers, Behind)
          /\ At(Consumers, Before)' = At(Consumers, Before) + 1
          /\ At(Consumers, Behind)' = At(Consumers, Behind)
      BY <1>0, <2>1, <3>2, CountMoves, CountTypes
    <3>4. /\ Len(Content) \in Nat /\ full \in Nat /\ empty \in Nat
          /\ fifo_size \in Nat
      BY <1>0, ContentLength, SizeIs DEF VarTypes
    <3>5. Counts
      BY <1>0
    <3>6. Len(Content)' = Len(Content)
      BY <3>1
    <3>7. Len(Content)' = empty' + At(Consumers, Before)' + At(Producers, Behind)'
      BY <2>1, <3>3, <3>4, <3>5, <3>6, CountTypes DEF Counts
    <3>8. fifo_size = Len(Content)' + full' + At(Producers, Before)' + At(Consumers, Behind)'
      BY <2>1, <3>3, <3>4, <3>5, <3>6, CountTypes DEF Counts
    <3> QED BY <3>7, <3>8 DEF Counts
  <2> QED BY <2>2, <2>3, <2>4, <2>5 DEF MpmcInv
<1>2. CASE GetRead(c)
  <2>1. /\ From(c, "move", "advance")
        /\ UNCHANGED <<ring, head, tail, data, full, empty, mutex, put, got>>
    BY <1>2 DEF GetRead, ring, sems, results
  <2>2. PICK v \in Readable(head) : value' = [value EXCEPT ![c] = v]
    BY <1>2 DEF GetRead
  <2>3. v \in Option /\ (head \in InBlock => v = data[head])
    BY <1>0, <2>2 DEF VarTypes, Readable
  <2>4. VarTypes'
    BY <1>0, <2>1, <2>2, <2>3 DEF VarTypes, From, Places
  <2>5. MutexInv'
    BY <1>0, <2>1, MutexStep
  <2>6. Carries'
    <3>1. Carry(c)'
      BY <1>0, <2>1, <2>2, <2>3 DEF VarTypes, Carry, From
    <3>2. \A w \in Users \ {c} : pc'[w] = pc[w] /\ value'[w] = value[w]
      BY <1>0, <2>1, <2>2 DEF VarTypes, From
    <3> QED BY <1>0, <2>1, <3>1, <3>2, CarryStep
  <2>7. Content' = Content
    BY <2>1, CellsStay DEF Content
  <2>8. Counts'
    BY <1>0, <2>1, <2>7, CountStep DEF Before, Behind
  <2> QED BY <2>4, <2>5, <2>6, <2>8 DEF MpmcInv
<1>3. CASE GetAdvance(c)
  <2>1. /\ From(c, "advance", "unlock") /\ head' = Succ(head)
        /\ value' = [value EXCEPT ![c] = NULL] /\ got' = [got EXCEPT ![c] = value[c]]
        /\ UNCHANGED <<tail, data, full, empty, mutex, put>>
    BY <1>3 DEF GetAdvance, sems
  <2>2. VarTypes'
    <3>1. head' \in Indices
      BY <1>3, GetFromRing
    <3> QED BY <1>0, <2>1, <3>1 DEF VarTypes, From, Places, Option
  <2>3. MutexInv'
    BY <1>0, <2>1, MutexStep
  <2>4. Carries'
    <3>1. InMutex(c)
      BY <2>1 DEF InMutex, From
    <3>2. Carry(c)'
      BY <1>0, <2>1 DEF VarTypes, Carry, From
    <3>3. \A w \in Users \ {c} : pc'[w] = pc[w] /\ value'[w] = value[w]
      BY <1>0, <2>1 DEF VarTypes, From
    <3> QED BY <1>0, <3>1, <3>2, <3>3, CarryStep
  <2>5. Counts'
    <3>1. Len(Content)' = Len(Content) - 1
      BY <1>3, GetFromRing
    <3>2. /\ Inside("unlock", Before) = 0 /\ Inside("advance", Before) = 1
          /\ Inside("unlock", Behind) = 1 /\ Inside("advance", Behind) = 0
      BY DEF Inside, Before, Behind
    <3>3. /\ At(Producers, Before)' = At(Producers, Before)
          /\ At(Producers, Behind)' = At(Producers, Behind)
          /\ At(Consumers, Before)' = At(Consumers, Before) - 1
          /\ At(Consumers, Behind)' = At(Consumers, Behind) + 1
      BY <1>0, <2>1, <3>2, CountMoves, CountTypes
    <3>4. /\ Len(Content) \in Nat /\ full \in Nat /\ empty \in Nat
          /\ fifo_size \in Nat
      BY <1>0, ContentLength, SizeIs DEF VarTypes
    <3>5. Counts
      BY <1>0
    <3>6. Len(Content)' = Len(Content) - 1
      BY <3>1
    <3>7. Len(Content)' = empty' + At(Consumers, Before)' + At(Producers, Behind)'
      BY <2>1, <3>3, <3>4, <3>5, <3>6, CountTypes DEF Counts
    <3>8. full' = full
      BY <2>1
    <3>9. fifo_size = Len(Content) + full + At(Producers, Before) + At(Consumers, Behind)
      BY <3>5 DEF Counts
    <3>10. fifo_size = Len(Content)' + full' + At(Producers, Before)' + At(Consumers, Behind)'
      BY <3>3, <3>4, <3>6, <3>8, <3>9, CountTypes
    <3> QED BY <3>7, <3>10 DEF Counts
  <2> QED BY <2>2, <2>3, <2>4, <2>5 DEF MpmcInv
<1>4. CASE GetSignal(c)
  <2>1. /\ From(c, "signal", "idle") /\ full' = full + 1
        /\ UNCHANGED <<ring, head, tail, data, empty, mutex, value, put, got>>
    BY <1>4 DEF GetSignal, ring, results
  <2>2. VarTypes'
    BY <1>0, <2>1 DEF VarTypes, From, Places
  <2>3. MutexInv'
    BY <1>0, <2>1, MutexStep
  <2>4. Carries'
    <3>1. Carry(c)'
      BY <1>0, <2>1 DEF VarTypes, Carry, From
    <3>2. \A w \in Users \ {c} : pc'[w] = pc[w] /\ value'[w] = value[w]
      BY <1>0, <2>1 DEF VarTypes, From
    <3> QED BY <1>0, <2>1, <3>1, <3>2, CarryStep
  <2>5. Counts'
    <3>1. Content' = Content
      BY <2>1, CellsStay DEF Content
    <3>2. /\ Inside("idle", Before) = 0 /\ Inside("signal", Before) = 0
          /\ Inside("idle", Behind) = 0 /\ Inside("signal", Behind) = 1
      BY DEF Inside, Before, Behind
    <3>3. /\ At(Producers, Before)' = At(Producers, Before)
          /\ At(Producers, Behind)' = At(Producers, Behind)
          /\ At(Consumers, Before)' = At(Consumers, Before)
          /\ At(Consumers, Behind)' = At(Consumers, Behind) - 1
      BY <1>0, <2>1, <3>2, CountMoves, CountTypes
    <3>4. /\ Len(Content) \in Nat /\ full \in Nat /\ empty \in Nat
          /\ fifo_size \in Nat
      BY <1>0, ContentLength, SizeIs DEF VarTypes
    <3>5. Counts
      BY <1>0
    <3>6. Len(Content)' = Len(Content)
      BY <3>1
    <3>7. Len(Content)' = empty' + At(Consumers, Before)' + At(Producers, Behind)'
      BY <2>1, <3>3, <3>4, <3>5, <3>6, CountTypes DEF Counts
    <3>8. fifo_size = Len(Content)' + full' + At(Producers, Before)' + At(Consumers, Behind)'
      BY <2>1, <3>3, <3>4, <3>5, <3>6, CountTypes DEF Counts
    <3> QED BY <3>7, <3>8 DEF Counts
  <2> QED BY <2>2, <2>3, <2>4, <2>5 DEF MpmcInv
<1> QED BY <1>0, <1>1, <1>2, <1>3, <1>4, LockStep, UnlockStep DEF Get

LEMMA MpmcInvNext == MpmcInv /\ [Next]_vars => MpmcInv'
<1> SUFFICES ASSUME MpmcInv, [Next]_vars PROVE MpmcInv'
  OBVIOUS
<1>1. CASE UNCHANGED vars
  <2>1. /\ UNCHANGED <<head, tail, data, full, empty, mutex, pc, value, put, got>>
        /\ VarTypes /\ MutexInv /\ Carries /\ Counts
    BY <1>1 DEF vars, ring, sems, results, MpmcInv
  <2>2. VarTypes' /\ MutexInv' /\ Carries'
    BY <2>1 DEF VarTypes, MutexInv, InMutex, Carries, Carry
  <2>3. Content' = Content
    BY <2>1, CellsStay DEF Content
  <2>4. Counts'
    BY <2>1, <2>3 DEF Counts, At
  <2> QED BY <2>2, <2>4 DEF MpmcInv
<1> QED BY <1>1, PutInv, GetInv DEF Next

(* The inductive invariant of fifo_put and fifo_get: one user at a time has*)
(* the mutex, and the counting semaphores leave each user past c_wait its  *)
(* slot or element.                                                        *)
THEOREM MpmcInvariant == Spec => []MpmcInv
BY MpmcInvInit, MpmcInvNext, PTL DEF Spec

(* The two semaphores count the free slots and the elements but for the    *)
(* calls in progress; neither exceeds fifo_size.                           *)
THEOREM SemaphoresAreExact == Spec => []SemaphoresCount
<1>1. MpmcInv => SemaphoresCount
  <2> SUFFICES ASSUME MpmcInv PROVE SemaphoresCount
    OBVIOUS
  <2>1. VarTypes /\ Counts
    BY DEF MpmcInv
  <2>2. /\ Len(Content) \in Nat /\ full \in Nat /\ empty \in Nat
        /\ fifo_size \in Nat
    BY <2>1, ContentLength, SizeIs DEF VarTypes
  <2>3. full <= fifo_size
    BY <2>1, <2>2, CountTypes DEF Counts
  <2>4. empty <= fifo_size
    BY <2>1, <2>2, CountTypes DEF Counts
  <2>5. MpmcTypeOK
    BY <2>1, <2>2, <2>3, <2>4 DEF VarTypes, MpmcTypeOK, Places
  <2>6. /\ Len(Content) = empty + At(Consumers, Before) + At(Producers, Behind)
        /\ fifo_size - Len(Content) = full + At(Producers, Before) + At(Consumers, Behind)
    BY <2>1, <2>2, CountTypes, SMTT(30) DEF Counts
  <2> QED BY <2>5, <2>6 DEF SemaphoresCount, Before, Behind
<1> QED BY <1>1, MpmcInvariant, PTL

-----------------------------------------------------------------------------
(* Every step of the fifo is a step of the queue or none.                  *)

LEMMA MpmcStepRefines ==
  ASSUME FitsBlock
  PROVE  MpmcInv /\ [Next]_vars => [BoundedQueue!Next]_(BoundedQueue!vars)
<1> SUFFICES ASSUME MpmcInv, [Next]_vars
             PROVE  [BoundedQueue!Next]_(BoundedQueue!vars)
  OBVIOUS
<1>0. head \in InBlock /\ tail \in InBlock
  BY DEF FitsBlock, MpmcInv, VarTypes
<1>1. CASE Content' = Content /\ UNCHANGED <<put, got>>
  BY <1>1 DEF BoundedQueue!vars
<1>2. CASE UNCHANGED <<ring, put, got>>
  <2>1. Content' = Content
    BY <1>2, CellsStay DEF ring, Content
  <2> QED BY <1>1, <1>2, <2>1
<1>3. ASSUME NEW u \in Users, Lock(u) \/ Unlock(u) PROVE UNCHANGED <<ring, put, got>>
  BY <1>3 DEF Lock, Unlock, results
<1>4. ASSUME NEW p \in Producers, (\E v \in Values : PutStart(p, v)) \/ PutSignal(p)
      PROVE  UNCHANGED <<ring, put, got>>
  BY <1>4 DEF PutStart, PutSignal, results
<1>5. ASSUME NEW c \in Consumers, GetStart(c) \/ GetRead(c) \/ GetSignal(c)
      PROVE  UNCHANGED <<ring, put, got>>
  BY <1>5 DEF GetStart, GetRead, GetSignal, results
<1>6. ASSUME NEW p \in Producers, PutWrite(p)
      PROVE  Content' = Content /\ UNCHANGED <<put, got>>
  BY <1>6, WriteOnRing DEF PutWrite, results
<1>7. ASSUME NEW p \in Producers, PutAdvance(p) PROVE BoundedQueue!Next
  <2>1. value[p] \in Values
    BY <1>7 DEF MpmcInv, Carries, Carry, PutAdvance, From, Before, Users
  <2>2. BoundedQueue!Put(p, value[p])
    BY <1>0, <1>7, PutOnRing DEF PutAdvance, BoundedQueue!Put
  <2> QED BY <2>1, <2>2 DEF BoundedQueue!Next
<1>8. ASSUME NEW c \in Consumers, GetAdvance(c) PROVE BoundedQueue!Next
  <2>1. BoundedQueue!Get(c)
    BY <1>0, <1>8, GetFromRing DEF GetAdvance, BoundedQueue!Get
  <2> QED BY <2>1 DEF BoundedQueue!Next
<1>9. CASE UNCHANGED vars
  BY <1>2, <1>9 DEF vars, results
<1>10. ASSUME NEW p \in Producers, Put(p)
       PROVE  [BoundedQueue!Next]_(BoundedQueue!vars)
  BY <1>1, <1>2, <1>3, <1>4, <1>6, <1>7, <1>10 DEF Put, Users
<1>11. ASSUME NEW c \in Consumers, Get(c)
       PROVE  [BoundedQueue!Next]_(BoundedQueue!vars)
  BY <1>1, <1>2, <1>3, <1>5, <1>8, <1>11 DEF Get, Users
<1> QED BY <1>9, <1>10, <1>11 DEF Next

(* fifo_put and fifo_get are a first-in first-out queue of fifo_size       *)
(* elements, whoever puts and gets and however the calls interleave, if    *)
(* every index of the fifo lies in the block that fifo_init allocated.     *)
THEOREM FifoIsQueue ==
  ASSUME FitsBlock
  PROVE  Spec => ImplementsQueue
<1>1. Init => BoundedQueue!Init
  <2> SUFFICES ASSUME Init PROVE BoundedQueue!Init
    OBVIOUS
  <2>1. /\ head \in Slots(size) /\ tail \in Slots(size) /\ head = tail
        /\ Cells \in [Slots(size) -> Option] /\ size \in Nat \ {0, 1}
    BY MpmcInvInit, Terms, SizeIs, CellsType DEF MpmcInv, VarTypes, Init
  <2>2. Elements(size, head, tail, Cells) \in Seq(Option)
    BY <2>1, ElementsAre
  <2>3. Len(Elements(size, head, tail, Cells)) = 0
    BY <2>1, FullOrEmpty
  <2>4. Content = <<>>
    BY <2>2, <2>3, Terms
  <2> QED BY <2>4 DEF Init, BoundedQueue!Init
<1> QED BY <1>1, MpmcStepRefines, MpmcInvariant, PTL
        DEF Spec, ImplementsQueue, BoundedQueue!Spec
=============================================================================

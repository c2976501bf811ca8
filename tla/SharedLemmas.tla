---------------------------- MODULE SharedLemmas ----------------------------
(***************************************************************************)
(* What the proofs about several modules need: facts about division, the   *)
(* ring buffers of os/ipc.c as sequences (modules RingFifo and MpmcFifo)   *)
(* and the lists of waiting threads of os/schedule.c as sequences (modules *)
(* Scheduler and SleepQueue).                                              *)
(***************************************************************************)
EXTENDS Integers, Sequences, SequencesExt, SequenceTheorems, WellFoundedInduction, TLAPS

-----------------------------------------------------------------------------
(* Numbers: the least of a set, and division with a remainder.            *)

LEMMA LeastNat ==
  ASSUME NEW S \in SUBSET Nat, S # {}
  PROVE  \E n \in S : \A m \in S : n <= m
<1> DEFINE R == OpToRel(<, Nat)
<1>1. IsWellFoundedOn(R, Nat)
  BY NatLessThanWellFounded
<1>2. \A x, y \in Nat : <<y, x>> \in R <=> y < x
  BY DEF OpToRel
<1> HIDE DEF R
<1>3. PICK n \in S : \A m \in S : ~(<<m, n>> \in R)
  BY <1>1, WFMin
<1>4. \A m \in S : ~(m < n)
  BY <1>2, <1>3
<1>5. \A m \in S : n <= m
  BY <1>4, SMT
<1> QED BY <1>5

LEMMA Division ==
  ASSUME NEW d \in Nat \ {0}, NEW x \in Nat
  PROVE  /\ x \div d \in Nat /\ x % d \in 0 .. d - 1
         /\ x = (x \div d) * d + (x % d)
<1>1. x \div d \in Nat
  OBVIOUS
<1>2. x % d \in 0 .. d - 1
  OBVIOUS
<1>3. x = (x \div d) * d + (x % d)
  OBVIOUS
<1> QED BY <1>1, <1>2, <1>3

LEMMA Remainder ==
  ASSUME NEW d \in Nat \ {0}, NEW q \in Nat, NEW r \in 0 .. d - 1
  PROVE  (q * d + r) % d = r
<1> DEFINE x == q * d + r
           a == x \div d
           s == x % d
<1>1. x \in Nat
  OBVIOUS
<1>2. a \in Nat /\ s \in 0 .. d - 1 /\ x = a * d + s
  BY <1>1, Division
<1>3. q * d + r = a * d + s
  BY <1>2
<1> HIDE DEF a, s
<1>4. r = s
  BY <1>2, <1>3
<1> QED BY <1>4 DEF s

(* A number is divided by d exactly if it is a multiple of d.              *)
LEMMA Multiple ==
  ASSUME NEW d \in Nat \ {0}, NEW x \in Nat
  PROVE  x % d = 0 <=> \E q \in Nat : x = q * d
<1>1. ASSUME x % d = 0 PROVE \E q \in Nat : x = q * d
  <2>1. x \div d \in Nat /\ x = (x \div d) * d
    BY <1>1, Division
  <2> QED BY <2>1
<1>2. ASSUME NEW q \in Nat, x = q * d PROVE x % d = 0
  <2>1. (q * d + 0) % d = 0
    BY Remainder
  <2> QED BY <1>2, <2>1
<1> QED BY <1>1, <1>2

-----------------------------------------------------------------------------
(* Ring buffers: what the indices head and tail, which run modulo n, say   *)
(* about the elements between them.                                        *)

Slots(n) == 0 .. n - 1

After(n, i) == (i + 1) % n

(* The number of elements from slot h to slot t, and the place of each.    *)
Count(n, h, t) == (t + n - h) % n
Place(n, h, k) == (h + k - 1) % n

Elements(n, h, t, d) == [k \in 1 .. Count(n, h, t) |-> d[Place(n, h, k)]]

-----------------------------------------------------------------------------
(* Arithmetic modulo n.                                                    *)

LEMMA ModuloRange ==
  ASSUME NEW n \in Nat \ {0}, NEW a \in Int
  PROVE  a % n \in 0 .. n - 1
OBVIOUS

LEMMA Modulo ==
  ASSUME NEW n \in Nat \ {0, 1}, NEW a \in 0 .. 2 * n - 1
  PROVE  a % n = IF a < n THEN a ELSE a - n
OBVIOUS

LEMMA AfterIs ==
  ASSUME NEW n \in Nat \ {0, 1}, NEW i \in Slots(n)
  PROVE  /\ After(n, i) = IF i = n - 1 THEN 0 ELSE i + 1
         /\ After(n, i) \in Slots(n)
<1> DEFINE a == i + 1
<1>1. a \in 0 .. 2 * n - 1
  BY DEF Slots
<1> HIDE DEF a
<1>2. a % n = IF a < n THEN a ELSE a - n
  BY <1>1, Modulo
<1> QED BY <1>2 DEF After, Slots, a

LEMMA CountIs ==
  ASSUME NEW n \in Nat \ {0, 1}, NEW h \in Slots(n), NEW t \in Slots(n)
  PROVE  /\ Count(n, h, t) = IF t >= h THEN t - h ELSE t + n - h
         /\ Count(n, h, t) \in Nat /\ Count(n, h, t) < n
<1> DEFINE a == t + n - h
<1>1. a \in 0 .. 2 * n - 1
  BY DEF Slots
<1> HIDE DEF a
<1>2. a % n = IF a < n THEN a ELSE a - n
  BY <1>1, Modulo
<1> QED BY <1>2 DEF Count, Slots, a

LEMMA PlaceIs ==
  ASSUME NEW n \in Nat \ {0, 1}, NEW h \in Slots(n), NEW k \in 1 .. n
  PROVE  /\ Place(n, h, k) = IF h + k - 1 < n THEN h + k - 1 ELSE h + k - 1 - n
         /\ Place(n, h, k) \in Slots(n)
<1> DEFINE a == h + k - 1
<1>1. a \in 0 .. 2 * n - 1
  BY DEF Slots
<1> HIDE DEF a
<1>2. a % n = IF a < n THEN a ELSE a - n
  BY <1>1, Modulo
<1> QED BY <1>2 DEF Place, Slots, a

-----------------------------------------------------------------------------
(* The elements of a ring of n slots from h to t, with d in its array.     *)

LEMMA ElementsAre ==
  ASSUME NEW n \in Nat \ {0, 1}, NEW h \in Slots(n), NEW t \in Slots(n),
         NEW S, NEW d \in [Slots(n) -> S]
  PROVE  /\ Elements(n, h, t, d) \in Seq(S)
         /\ Len(Elements(n, h, t, d)) = Count(n, h, t)
<1> DEFINE m == Count(n, h, t)
<1>1. m \in Nat /\ m < n
  BY CountIs
<1>2. \A k \in 1 .. m : Place(n, h, k) \in Slots(n)
  BY <1>1, PlaceIs
<1> HIDE DEF m
<1>3. Elements(n, h, t, d) = [k \in 1 .. m |-> d[Place(n, h, k)]]
  BY DEF Elements, m
<1> QED BY <1>1, <1>2, <1>3 DEF m

(* No put succeeds when all slots but one are taken, no get when none is.  *)
LEMMA FullOrEmpty ==
  ASSUME NEW n \in Nat \ {0, 1}, NEW h \in Slots(n), NEW t \in Slots(n),
         NEW S, NEW d \in [Slots(n) -> S]
  PROVE  /\ After(n, t) = h <=> Len(Elements(n, h, t, d)) = n - 1
         /\ h = t <=> Len(Elements(n, h, t, d)) = 0
<1>1. After(n, t) = IF t = n - 1 THEN 0 ELSE t + 1
  BY AfterIs
<1>2. Count(n, h, t) = IF t >= h THEN t - h ELSE t + n - h
  BY CountIs
<1>3. Len(Elements(n, h, t, d)) = Count(n, h, t)
  BY ElementsAre
<1> QED BY <1>1, <1>2, <1>3 DEF Slots

(* A put: t advances over an element that has been written there.          *)
LEMMA ElementsPut ==
  ASSUME NEW n \in Nat \ {0, 1}, NEW h \in Slots(n), NEW t \in Slots(n),
         NEW S, NEW d \in [Slots(n) -> S], After(n, t) # h
  PROVE  /\ Len(Elements(n, h, t, d)) < n - 1
         /\ Elements(n, h, After(n, t), d) = Append(Elements(n, h, t, d), d[t])
<1> DEFINE m == Count(n, h, t)
<1>1. /\ After(n, t) \in Slots(n)
      /\ After(n, t) = IF t = n - 1 THEN 0 ELSE t + 1
  BY AfterIs
<1>2. m = IF t >= h THEN t - h ELSE t + n - h
  BY CountIs
<1>3. Count(n, h, After(n, t)) = IF After(n, t) >= h THEN After(n, t) - h
                                                     ELSE After(n, t) + n - h
  BY <1>1, CountIs
<1>4. m \in Nat /\ m < n - 1 /\ Count(n, h, After(n, t)) = m + 1
  BY <1>1, <1>2, <1>3 DEF Slots
<1>5. Place(n, h, m + 1) = IF h + (m + 1) - 1 < n THEN h + (m + 1) - 1
                                                  ELSE h + (m + 1) - 1 - n
  <2>1. m + 1 \in 1 .. n
    BY <1>4
  <2> QED BY <2>1, PlaceIs
<1>6. Place(n, h, m + 1) = t
  BY <1>2, <1>5 DEF Slots
<1>7. Elements(n, h, After(n, t), d) = [k \in 1 .. m + 1 |-> d[Place(n, h, k)]]
  BY <1>4 DEF Elements
<1>8. /\ Elements(n, h, t, d) = [k \in 1 .. m |-> d[Place(n, h, k)]]
      /\ Elements(n, h, t, d) \in Seq(S) /\ Len(Elements(n, h, t, d)) = m
  BY ElementsAre DEF Elements
<1> HIDE DEF m
<1> QED BY <1>4, <1>6, <1>7, <1>8

(* A get: h advances over the first element.                               *)
LEMMA ElementsGet ==
  ASSUME NEW n \in Nat \ {0, 1}, NEW h \in Slots(n), NEW t \in Slots(n),
         NEW S, NEW d \in [Slots(n) -> S], h # t
  PROVE  /\ Elements(n, h, t, d) # <<>>
         /\ Head(Elements(n, h, t, d)) = d[h]
         /\ Elements(n, After(n, h), t, d) = Tail(Elements(n, h, t, d))
<1> DEFINE m == Count(n, h, t)
<1>1. /\ After(n, h) \in Slots(n)
      /\ After(n, h) = IF h = n - 1 THEN 0 ELSE h + 1
  BY AfterIs
<1>2. m \in Nat \ {0} /\ m < n /\ Count(n, After(n, h), t) = m - 1
  <2>1. m = IF t >= h THEN t - h ELSE t + n - h
    BY CountIs
  <2>2. Count(n, After(n, h), t) = IF t >= After(n, h) THEN t - After(n, h)
                                                       ELSE t + n - After(n, h)
    BY <1>1, CountIs
  <2> QED BY <1>1, <2>1, <2>2 DEF Slots
<1>3. Place(n, h, 1) = h
  <2>1. 1 \in 1 .. n
    OBVIOUS
  <2>2. Place(n, h, 1) = IF h + 1 - 1 < n THEN h + 1 - 1 ELSE h + 1 - 1 - n
    BY <2>1, PlaceIs
  <2> QED BY <2>2 DEF Slots
<1>4. \A k \in 1 .. m - 1 : Place(n, After(n, h), k) = Place(n, h, k + 1)
  <2> SUFFICES ASSUME NEW k \in 1 .. m - 1
               PROVE  Place(n, After(n, h), k) = Place(n, h, k + 1)
    OBVIOUS
  <2>1. k \in 1 .. n /\ k + 1 \in 1 .. n
    BY <1>2
  <2>2. Place(n, After(n, h), k) = IF After(n, h) + k - 1 < n
                                   THEN After(n, h) + k - 1 ELSE After(n, h) + k - 1 - n
    BY <1>1, <2>1, PlaceIs
  <2>3. Place(n, h, k + 1) = IF h + (k + 1) - 1 < n THEN h + (k + 1) - 1
                                                    ELSE h + (k + 1) - 1 - n
    BY <2>1, PlaceIs
  <2> QED BY <1>1, <2>1, <2>2, <2>3 DEF Slots
<1>5. Elements(n, After(n, h), t, d) =
        [k \in 1 .. m - 1 |-> d[Place(n, After(n, h), k)]]
  BY <1>2 DEF Elements
<1>6. /\ Elements(n, h, t, d) = [k \in 1 .. m |-> d[Place(n, h, k)]]
      /\ Elements(n, h, t, d) \in Seq(S) /\ Len(Elements(n, h, t, d)) = m
  BY ElementsAre DEF Elements
<1> HIDE DEF m
<1>7. Elements(n, h, t, d) # <<>> /\ Head(Elements(n, h, t, d)) = d[h]
  BY <1>2, <1>3, <1>6
<1>8. Elements(n, After(n, h), t, d) = Tail(Elements(n, h, t, d))
  BY <1>2, <1>4, <1>5, <1>6
<1> QED BY <1>7, <1>8

(* The slot at t, where a producer writes, is not among the elements.      *)
LEMMA ElementsWrite ==
  ASSUME NEW n \in Nat \ {0, 1}, NEW h \in Slots(n), NEW t \in Slots(n),
         NEW d, NEW e, \A i \in Slots(n) \ {t} : e[i] = d[i]
  PROVE  Elements(n, h, t, e) = Elements(n, h, t, d)
<1> DEFINE m == Count(n, h, t)
<1>1. m \in Nat /\ m < n /\ m = IF t >= h THEN t - h ELSE t + n - h
  BY CountIs
<1>2. \A k \in 1 .. m : Place(n, h, k) \in Slots(n) /\ Place(n, h, k) # t
  <2> SUFFICES ASSUME NEW k \in 1 .. m
               PROVE  Place(n, h, k) \in Slots(n) /\ Place(n, h, k) # t
    OBVIOUS
  <2>1. k \in 1 .. n
    BY <1>1
  <2>2. /\ Place(n, h, k) \in Slots(n)
        /\ Place(n, h, k) = IF h + k - 1 < n THEN h + k - 1 ELSE h + k - 1 - n
    BY <2>1, PlaceIs
  <2> QED BY <1>1, <2>1, <2>2 DEF Slots
<1> HIDE DEF m
<1> QED BY <1>2 DEF Elements, m

-----------------------------------------------------------------------------
(* Lists: what linking a thread in and taking the first one off does.      *)

(* A list after a thread was linked in behind its first k threads.         *)
Linked(r, s, k, e) ==
  /\ Len(r) = Len(s) + 1
  /\ \A i \in 1 .. Len(s) + 1 :
       r[i] = IF i <= k THEN s[i] ELSE IF i = k + 1 THEN e ELSE s[i - 1]

LEMMA InsertAtLinks ==
  ASSUME NEW T, NEW s \in Seq(T), NEW k \in 0 .. Len(s), NEW e \in T,
         NEW r, r = InsertAt(s, k + 1, e)
  PROVE  r \in Seq(T) /\ Linked(r, s, k, e)
<1> DEFINE a == SubSeq(s, 1, k)
           b == SubSeq(s, k + 1, Len(s))
           d == a \o <<e>>
<1>1. r = d \o b
  <2>1. (k + 1) - 1 = k
    OBVIOUS
  <2> QED BY <2>1, Zenon DEF InsertAt
<1>2. /\ a \in Seq(T) /\ Len(a) = k
      /\ \A i \in 1 .. k : a[i] = s[i]
  OBVIOUS
<1>3. /\ b \in Seq(T) /\ Len(b) = Len(s) - k
      /\ \A i \in 1 .. Len(s) - k : b[i] = s[k + i]
  OBVIOUS
<1> HIDE DEF a, b
<1>4. /\ d \in Seq(T) /\ Len(d) = k + 1
      /\ \A i \in 1 .. k + 1 : d[i] = IF i <= k THEN s[i] ELSE e
  BY <1>2
<1> HIDE DEF d
<1>5. /\ d \o b \in Seq(T)
      /\ Len(d \o b) = Len(d) + Len(b)
      /\ \A i \in 1 .. Len(d) + Len(b) :
           (d \o b)[i] = IF i <= Len(d) THEN d[i] ELSE b[i - Len(d)]
  BY <1>3, <1>4, ConcatProperties
<1>6. r \in Seq(T) /\ Len(r) = Len(s) + 1 /\ Len(s) \in Nat
  <2>1. Len(d) + Len(b) = Len(s) + 1
    BY <1>3, <1>4
  <2>2. r \in Seq(T) /\ Len(r) = Len(d) + Len(b)
    BY <1>1, <1>5
  <2> QED BY <2>1, <2>2
<1>7. ASSUME NEW i \in 1 .. Len(s) + 1
      PROVE  r[i] = IF i <= k THEN s[i] ELSE IF i = k + 1 THEN e ELSE s[i - 1]
  <2>0. i \in 1 .. Len(d) + Len(b)
    BY <1>3, <1>4, <1>6
  <2>1. r[i] = IF i <= Len(d) THEN d[i] ELSE b[i - Len(d)]
    BY <1>1, <1>5, <2>0
  <2>2. CASE i <= k + 1
    BY <2>1, <2>2, <1>4
  <2>3. CASE i > k + 1
    <3>1. r[i] = b[i - (k + 1)]
      BY <2>1, <2>3, <1>4
    <3>2. i - (k + 1) \in 1 .. Len(s) - k
      BY <2>3, <1>6
    <3>3. b[i - (k + 1)] = s[k + (i - (k + 1))]
      BY <3>2, <1>3
    <3>4. k + (i - (k + 1)) = i - 1
      OBVIOUS
    <3> QED BY <2>3, <3>1, <3>3, <3>4
  <2> QED BY <2>2, <2>3
<1> QED BY <1>6, <1>7 DEF Linked

LEMMA InsertWaiter ==
  ASSUME NEW T, NEW s \in Seq(T), NEW k \in 0 .. Len(s), NEW e \in T \ Range(s),
         IsInjective(s), NEW r, r = InsertAt(s, k + 1, e)
  PROVE  /\ r \in Seq(T) /\ r # <<>>
         /\ Range(r) = Range(s) \cup {e} /\ IsInjective(r)
<1>0. r \in Seq(T) /\ Linked(r, s, k, e)
  BY InsertAtLinks
<1>1. /\ r \in Seq(T) /\ Len(r) = Len(s) + 1
      /\ \A i \in 1 .. Len(s) + 1 :
           r[i] = IF i <= k THEN s[i] ELSE IF i = k + 1 THEN e ELSE s[i - 1]
  BY <1>0 DEF Linked
<1>2. /\ Len(s) \in Nat /\ DOMAIN s = 1 .. Len(s) /\ DOMAIN r = 1 .. Len(s) + 1
  BY <1>1
<1>3. \A i \in 1 .. Len(s) : s[i] # e
  BY <1>2 DEF Range
<1>4. Range(r) = Range(s) \cup {e}
  <2>1. ASSUME NEW i \in 1 .. Len(s) + 1 PROVE r[i] \in Range(s) \cup {e}
    <3>1. i # k + 1 => (i <= k /\ i \in 1 .. Len(s)) \/ (~ (i <= k) /\ i - 1 \in 1 .. Len(s))
      BY <1>2
    <3>2. \/ r[i] = e
          \/ r[i] = s[i] /\ i \in 1 .. Len(s)
          \/ r[i] = s[i - 1] /\ i - 1 \in 1 .. Len(s)
      BY <3>1, <1>1
    <3>3. \A j \in 1 .. Len(s) : s[j] \in Range(s)
      BY <1>2 DEF Range
    <3> QED BY <3>2, <3>3
  <2>2. ASSUME NEW i \in 1 .. Len(s) PROVE \E j \in 1 .. Len(s) + 1 : r[j] = s[i]
    <3>1. CASE i <= k
      BY <3>1, <1>1, <1>2
    <3>2. CASE ~ (i <= k)
      <4>1. i + 1 \in 1 .. Len(s) + 1 /\ ~ (i + 1 <= k) /\ i + 1 # k + 1 /\ (i + 1) - 1 = i
        BY <3>2, <1>2
      <4>2. r[i + 1] = s[i]
        BY <4>1, <1>1
      <4> QED BY <4>1, <4>2
    <3> QED BY <3>1, <3>2
  <2>3. k + 1 \in 1 .. Len(s) + 1 /\ r[k + 1] = e
    BY <1>1, <1>2
  <2>4. Range(r) = {r[i] : i \in 1 .. Len(s) + 1} /\ Range(s) = {s[i] : i \in 1 .. Len(s)}
    BY <1>2 DEF Range
  <2>5. Range(r) \subseteq Range(s) \cup {e}
    BY <2>1, <2>4
  <2>6. Range(s) \cup {e} \subseteq Range(r)
    BY <2>2, <2>3, <2>4
  <2> QED BY <2>5, <2>6
<1>5. IsInjective(r)
  <2> SUFFICES ASSUME NEW i \in 1 .. Len(s) + 1, NEW j \in 1 .. Len(s) + 1, r[i] = r[j]
               PROVE  i = j
    BY <1>2 DEF IsInjective
  <2>1. \A m, n \in 1 .. Len(s) : s[m] = s[n] => m = n
    BY <1>2 DEF IsInjective
  <2>2. \A m \in 1 .. Len(s) + 1 : m <= k => m \in 1 .. Len(s)
    BY <1>2
  <2>3. \A m \in 1 .. Len(s) + 1 : ~ (m <= k) /\ m # k + 1 => m - 1 \in 1 .. Len(s)
    BY <1>2
  <2>4. \A m \in 1 .. Len(s) + 1 :
          \/ m <= k /\ r[m] = s[m] /\ m \in 1 .. Len(s)
          \/ m = k + 1 /\ r[m] = e
          \/ k + 1 < m /\ r[m] = s[m - 1] /\ m - 1 \in 1 .. Len(s)
    BY <1>1, <1>2, <2>2, <2>3
  <2>5. CASE i <= k /\ r[i] = s[i] /\ i \in 1 .. Len(s)
    <3>1. ~ (k + 1 < j /\ r[j] = s[j - 1] /\ j - 1 \in 1 .. Len(s))
      <4> SUFFICES ASSUME k + 1 < j, r[j] = s[j - 1], j - 1 \in 1 .. Len(s) PROVE FALSE
        OBVIOUS
      <4>1. i = j - 1
        BY <2>1, <2>5
      <4> QED BY <4>1, <2>5, <1>2
    <3> QED BY <3>1, <2>1, <2>4, <2>5, <1>3
  <2>6. CASE i = k + 1 /\ r[i] = e
    BY <2>4, <2>6, <1>3
  <2>7. CASE k + 1 < i /\ r[i] = s[i - 1] /\ i - 1 \in 1 .. Len(s)
    <3>1. CASE j <= k /\ r[j] = s[j] /\ j \in 1 .. Len(s)
      <4>1. j = i - 1
        BY <2>1, <2>7, <3>1
      <4> QED BY <4>1, <2>7, <3>1, <1>2
    <3>2. CASE j = k + 1 /\ r[j] = e
      BY <2>7, <3>2, <1>3
    <3>3. CASE k + 1 < j /\ r[j] = s[j - 1] /\ j - 1 \in 1 .. Len(s)
      <4>1. i - 1 = j - 1
        BY <2>1, <2>7, <3>3
      <4> QED BY <4>1
    <3> QED BY <2>4, <3>1, <3>2, <3>3
  <2> QED BY <2>4, <2>5, <2>6, <2>7
<1> QED BY <1>1, <1>4, <1>5

(* A list after its first thread was taken off.                            *)
LEMMA TakeWaiter ==
  ASSUME NEW T, NEW s \in Seq(T), s # <<>>, IsInjective(s)
  PROVE  /\ Head(s) \in Range(s) /\ Head(s) \in T
         /\ Tail(s) \in Seq(T)
         /\ Range(Tail(s)) = Range(s) \ {Head(s)} /\ IsInjective(Tail(s))
<1>1. /\ Head(s) = s[1] /\ Head(s) \in T /\ Len(s) \in Nat \ {0}
      /\ Tail(s) \in Seq(T) /\ Len(Tail(s)) = Len(s) - 1
      /\ \A i \in 1 .. Len(s) - 1 : Tail(s)[i] = s[i + 1]
  BY HeadTailProperties
<1>2. DOMAIN s = 1 .. Len(s) /\ DOMAIN Tail(s) = 1 .. Len(s) - 1
  BY <1>1
<1>3. \A m, n \in 1 .. Len(s) : s[m] = s[n] => m = n
  BY <1>2 DEF IsInjective
<1>4. Head(s) \in Range(s)
  BY <1>1, <1>2 DEF Range
<1>5. Range(Tail(s)) = Range(s) \ {Head(s)}
  <2>1. ASSUME NEW i \in 1 .. Len(s) - 1
        PROVE  Tail(s)[i] \in Range(s) /\ Tail(s)[i] # Head(s)
    <3>1. i + 1 \in 1 .. Len(s) /\ i + 1 # 1 /\ 1 \in 1 .. Len(s)
      BY <1>1
    <3> QED BY <3>1, <1>1, <1>2, <1>3 DEF Range
  <2>2. ASSUME NEW i \in 1 .. Len(s), s[i] # Head(s)
        PROVE  \E j \in 1 .. Len(s) - 1 : Tail(s)[j] = s[i]
    <3>1. i - 1 \in 1 .. Len(s) - 1 /\ (i - 1) + 1 = i
      BY <2>2, <1>1
    <3>2. Tail(s)[i - 1] = s[i]
      BY <3>1, <1>1
    <3> QED BY <3>1, <3>2
  <2>3. Range(Tail(s)) = {Tail(s)[i] : i \in 1 .. Len(s) - 1} /\ Range(s) = {s[i] : i \in 1 .. Len(s)}
    BY <1>2 DEF Range
  <2>4. Range(Tail(s)) \subseteq Range(s) \ {Head(s)}
    BY <2>1, <2>3
  <2>5. Range(s) \ {Head(s)} \subseteq Range(Tail(s))
    BY <2>2, <2>3
  <2> QED BY <2>4, <2>5
<1>6. IsInjective(Tail(s))
  <2> SUFFICES ASSUME NEW i \in 1 .. Len(s) - 1, NEW j \in 1 .. Len(s) - 1,
                      Tail(s)[i] = Tail(s)[j]
               PROVE  i = j
    BY <1>2 DEF IsInjective
  <2>1. i + 1 \in 1 .. Len(s) /\ j + 1 \in 1 .. Len(s)
    BY <1>1
  <2>2. i + 1 = j + 1
    BY <2>1, <1>1, <1>3
  <2> QED BY <2>2
<1> QED BY <1>1, <1>4, <1>5, <1>6

(* A list in the order of priorities, and the place sched_block chooses.   *)
Sorted(pri, s) == \A m, n \in DOMAIN s : m < n => pri[s[m]] <= pri[s[n]]

Slot(pri, s, k, e) ==
  /\ k = Len(s) \/ pri[e] < pri[s[k + 1]]
  /\ \A m \in 1 .. k : ~ (pri[e] < pri[s[m]])

(* A thread inserted before the first waiter of a larger priority number   *)
(* leaves the list in the order of priorities.                             *)
LEMMA InsertSorted ==
  ASSUME NEW T, NEW pri \in [T -> Int], NEW s \in Seq(T), NEW k \in 0 .. Len(s),
         NEW e \in T, Sorted(pri, s), Slot(pri, s, k, e),
         NEW r, r = InsertAt(s, k + 1, e)
  PROVE  Sorted(pri, r)
<1>0. r \in Seq(T) /\ Linked(r, s, k, e)
  BY InsertAtLinks
<1>1. /\ r \in Seq(T) /\ Len(r) = Len(s) + 1
      /\ \A i \in 1 .. Len(s) + 1 :
           r[i] = IF i <= k THEN s[i] ELSE IF i = k + 1 THEN e ELSE s[i - 1]
  BY <1>0 DEF Linked
<1>2. /\ Len(s) \in Nat /\ k \in Nat /\ k <= Len(s)
      /\ DOMAIN s = 1 .. Len(s) /\ DOMAIN r = 1 .. Len(s) + 1
  BY <1>1
<1>2a. \A m, n \in 1 .. Len(s) : m < n => pri[s[m]] <= pri[s[n]]
  BY <1>2 DEF Sorted
<1>3. pri[e] \in Int /\ \A m \in 1 .. Len(s) : pri[s[m]] \in Int
  OBVIOUS
<1>4. ASSUME NEW m \in 1 .. Len(s), m <= k PROVE pri[s[m]] <= pri[e]
  <2>1. m \in 1 .. k
    BY <1>2, <1>4
  <2>2. ~ (pri[e] < pri[s[m]])
    BY <2>1 DEF Slot
  <2> QED BY <2>2, <1>3
<1>5. ASSUME NEW m \in 1 .. Len(s), k < m PROVE pri[e] <= pri[s[m]]
  <2>0. k + 1 \in 1 .. Len(s) /\ k # Len(s)
    <3>1. \A n \in Nat : m \in 1 .. n => k + 1 \in 1 .. n /\ k # n
      BY <1>2, <1>5
    <3> QED BY <3>1, <1>2
  <2>1. k + 1 \in 1 .. Len(s) /\ pri[e] < pri[s[k + 1]]
    BY <2>0 DEF Slot
  <2>2. m = k + 1 \/ k + 1 < m
    BY <1>2, <1>5
  <2>3. pri[s[k + 1]] <= pri[s[m]]
    BY <2>1, <2>2, <1>2a, <1>3
  <2> QED BY <2>1, <2>3, <1>3
<1> SUFFICES ASSUME NEW i \in 1 .. Len(s) + 1, NEW j \in 1 .. Len(s) + 1, i < j
             PROVE  pri[r[i]] <= pri[r[j]]
  BY <1>2 DEF Sorted
<1>6. CASE j <= k
  <2>1. i \in 1 .. Len(s) /\ j \in 1 .. Len(s) /\ i <= k
    BY <1>2, <1>6
  <2>2. r[i] = s[i] /\ r[j] = s[j]
    BY <2>1, <1>1, <1>6
  <2> QED BY <2>1, <2>2, <1>2a
<1>7. CASE j = k + 1
  <2>1. i \in 1 .. Len(s) /\ i <= k /\ ~ (j <= k)
    BY <1>2, <1>7
  <2>2. r[i] = s[i] /\ r[j] = e
    BY <2>1, <1>1, <1>7
  <2> QED BY <2>1, <2>2, <1>4
<1>8. CASE k + 1 < j
  <2>1. j - 1 \in 1 .. Len(s) /\ ~ (j <= k) /\ j # k + 1 /\ k < j - 1
    BY <1>2, <1>8
  <2>2. r[j] = s[j - 1]
    BY <2>1, <1>1
  <2>3. CASE i <= k
    <3>1. i \in 1 .. Len(s) /\ i < j - 1
      BY <1>2, <1>8, <2>3
    <3>2. r[i] = s[i]
      BY <2>3, <1>1
    <3> QED BY <2>1, <2>2, <3>1, <3>2, <1>2a
  <2>4. CASE i = k + 1
    <3>1. r[i] = e
      <4>1. ~ (i <= k)
        BY <2>4, <1>2
      <4> QED BY <4>1, <2>4, <1>1
    <3> QED BY <2>1, <2>2, <3>1, <1>5
  <2>5. CASE k + 1 < i
    <3>1. i - 1 \in 1 .. Len(s) /\ i - 1 < j - 1 /\ ~ (i <= k) /\ i # k + 1
      BY <1>2, <2>5
    <3>2. r[i] = s[i - 1]
      BY <3>1, <1>1
    <3> QED BY <2>1, <2>2, <3>1, <3>2, <1>2a
  <2> QED BY <2>3, <2>4, <2>5, <1>2
<1> QED BY <1>6, <1>7, <1>8, <1>2
=============================================================================

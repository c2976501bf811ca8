-------------------------- MODULE SleepQueueProofs --------------------------
(***************************************************************************)
(* Proofs that sleepers are woken neither late nor early, for any number of*)
(* threads and any durations, until times wrap around.                     *)
(***************************************************************************)
EXTENDS SleepQueue, SharedLemmas, FiniteSetTheorems

-----------------------------------------------------------------------------
(* The inductive invariant.                                                *)

Due(i) == resume_tick[sleepers[i]]

(* When an armed alarm will match, as if the timer did not wrap around.    *)
NextMatch == IF alarm <= now THEN alarm + Wrap ELSE alarm

(* When the first sleeper will have been woken at the latest.              *)
Deadline == (IF pending THEN now - waited ELSE NextMatch) + Delay

(* What one more sleeper that is due at the same time costs.               *)
Cost == Slack + Delay

(* An interrupt with a sleeper behind it: a later unsleep arms the alarm.  *)
AlarmSpare == pending /\ alarm # NULL => Len(sleepers) >= 2

(* History and list agree: each sleeper has the time left that it should.  *)
LeftAgrees == \A i \in 1 .. Len(sleepers) : left[sleepers[i]] = Due(i) - now

(* The alarm matches no earlier than the first sleeper is due.             *)
NotEarly ==
  IF pending THEN alarm = NULL /\ Due(1) <= now ELSE Due(1) <= NextMatch

(* The first sleeper is woken a Delay after it is due, or the alarm was    *)
(* armed a moment ago; each sleeper behind it, in its turn, within Late.   *)
InTime ==
  /\ Deadline <= now + Cost \/ Deadline <= Due(1) + Delay
  /\ \A i \in 1 .. Len(sleepers) : Deadline + (i - 1) * Cost <= Due(i) + Late

OneLap ==
  /\ ~high
  /\ Sorted(resume_tick, sleepers)
  /\ LeftAgrees
  /\ sleepers # <<>> => NotEarly /\ InTime

SleepInv ==
  /\ AlarmHasSleeper
  /\ AlarmSpare
  /\ firstLap => OneLap
-----------------------------------------------------------------------------
(* The constants.                                                          *)

LEMMA Constants ==
  /\ IsFiniteSet(Threads) /\ Cardinality(Threads) \in Nat \ {0}
  /\ Wrap \in Nat \ {0} /\ Slack \in 1 .. Wrap - 1 /\ Delay \in Nat
  /\ Cost \in Nat /\ Cost = Slack + Delay
  /\ Late \in Nat /\ Late = Delay + (Cardinality(Threads) - 1) * Cost
  /\ Durations \subseteq Cost + 1 .. Wrap - Late - 1
  /\ NULL \notin Times
<1>1. Cardinality(Threads) \in Nat \ {0}
  BY SleepAssumption, FS_CardinalityType, FS_EmptySet
<1>2. Cost \in Nat
  BY SleepAssumption DEF Cost
<1>3. \A a, b \in Nat : a * b \in Nat
  OBVIOUS
<1>4. Late = Delay + (Cardinality(Threads) - 1) * Cost
  BY DEF Late, Cost
<1>5. (Cardinality(Threads) - 1) * Cost \in Nat
  <2>1. Cardinality(Threads) - 1 \in Nat
    BY <1>1
  <2> QED BY <2>1, <1>2, <1>3
<1>6. Late \in Nat
  BY <1>4, <1>5, SleepAssumption
<1> QED BY <1>1, <1>2, <1>4, <1>6, SleepAssumption DEF Cost

(* The i-th sleeper waits for i - 1 others, of which there are enough.     *)
LEMMA Enough ==
  ASSUME NEW i \in 1 .. Cardinality(Threads), NEW x \in Int, NEW y \in Int,
         x <= y + Delay
  PROVE  x + (i - 1) * Cost <= y + Late
<1>1. \A a, b, c \in Nat : a <= b => a * c <= b * c /\ a * c \in Nat /\ b * c \in Nat
  OBVIOUS
<1>2. /\ i - 1 \in Nat /\ Cardinality(Threads) - 1 \in Nat
      /\ i - 1 <= Cardinality(Threads) - 1
  BY Constants
<1>3. /\ (i - 1) * Cost <= (Cardinality(Threads) - 1) * Cost
      /\ (i - 1) * Cost \in Nat /\ (Cardinality(Threads) - 1) * Cost \in Nat
  BY <1>1, <1>2, Constants
<1> DEFINE a == (i - 1) * Cost
           b == (Cardinality(Threads) - 1) * Cost
<1>4. a <= b /\ a \in Nat /\ b \in Nat
  BY <1>3
<1>5. Late = Delay + b /\ Delay \in Nat
  BY Constants
<1> HIDE DEF a, b
<1>6. x + a <= y + Late
  BY <1>4, <1>5
<1> QED BY <1>6 DEF a

LEMMA CostStep ==
  ASSUME NEW i \in Nat
  PROVE  /\ i * Cost = (i - 1) * Cost + Cost
         /\ i * Cost \in Nat /\ (i - 1) * Cost \in Int
<1>1. \A a \in Nat, c \in Nat : /\ a * c = (a - 1) * c + c
                               /\ a * c \in Nat /\ (a - 1) * c \in Int
  OBVIOUS
<1> QED BY <1>1, Constants

LEMMA ModuloWrap ==
  ASSUME NEW a \in 0 .. 2 * Wrap - 1
  PROVE  /\ a % Wrap \in Times
         /\ a % Wrap = IF a < Wrap THEN a ELSE a - Wrap
<1>1. \A n \in Nat \ {0} : \A b \in 0 .. 2 * n - 1 :
        b % n \in 0 .. n - 1 /\ b % n = IF b < n THEN b ELSE b - n
  OBVIOUS
<1> QED BY <1>1, Constants DEF Times

-----------------------------------------------------------------------------
(* The list.                                                               *)

LEMMA LengthBound ==
  ASSUME NEW s \in Seq(Threads), IsInjective(s)
  PROVE  Len(s) <= Cardinality(Threads)
<1>1. /\ Len(s) \in Nat /\ DOMAIN s = 1 .. Len(s)
      /\ s \in [1 .. Len(s) -> Threads]
  OBVIOUS
<1>2. s \in Injection(1 .. Len(s), Threads)
  BY <1>1 DEF Injection
<1>3. Cardinality(1 .. Len(s)) <= Cardinality(Threads)
  BY <1>2, FS_Injection, Constants
<1>4. Cardinality(1 .. Len(s)) = Len(s)
  BY <1>1, FS_Interval
<1> QED BY <1>3, <1>4

(* A set of numbers has a least element: the prefix of the numbers up to it*)
(* is minimal among those of the elements.                                 *)
LEMMA MinIsLeast ==
  ASSUME NEW S, S \subseteq Nat, S # {}
  PROVE  Min(S) \in S /\ \A y \in S : Min(S) <= y
<1>1. PICK n \in S : TRUE
  OBVIOUS
<1> DEFINE Upto(x) == 0 .. x
           R == StrictSubsetOrdering(Upto(n))
           U == {Upto(x) : x \in {y \in S : y <= n}}
<1>2. \A x \in Nat, y \in Nat : x <= y <=> Upto(x) \subseteq Upto(y)
  <2>1. \A x \in Nat, y \in Nat : Upto(x) \subseteq Upto(y) => x \in Upto(y)
    OBVIOUS
  <2> QED BY <2>1
<1>3. IsWellFoundedOn(R, FiniteSubsetsOf(Upto(n)))
  BY FS_StrictSubsetOrderingWellFounded
<1>4. U \subseteq FiniteSubsetsOf(Upto(n)) /\ U # {}
  <2>1. ASSUME NEW x \in S, x <= n PROVE Upto(x) \in FiniteSubsetsOf(Upto(n))
    <3>1. Upto(x) \subseteq Upto(n)
      BY <1>2, <2>1
    <3>2. IsFiniteSet(Upto(x))
      BY FS_Interval
    <3> QED BY <3>1, <3>2 DEF FiniteSubsetsOf
  <2>2. n <= n
    OBVIOUS
  <2> QED BY <2>1, <2>2
<1>5. PICK m \in U : \A u \in U : ~ (<<u, m>> \in R)
  BY <1>3, <1>4, WFMin
<1>6. PICK x \in S : x <= n /\ m = Upto(x)
  OBVIOUS
<1>7. ASSUME NEW y \in S PROVE x <= y
  <2>1. CASE n < y
    BY <1>6, <2>1
  <2>2. CASE y <= n /\ ~ (x <= y)
    <3>1. y <= x
      BY <2>2
    <3>2. Upto(y) \subseteq Upto(x) /\ Upto(x) \subseteq Upto(n) /\ Upto(y) # Upto(x)
      BY <1>2, <1>6, <2>2, <3>1
    <3>3. <<Upto(y), m>> \in R
      BY <3>2, <1>6 DEF StrictSubsetOrdering
    <3>4. Upto(y) \in U
      BY <2>2
    <3> QED BY <3>3, <3>4, <1>5
  <2> QED BY <2>1, <2>2
<1> QED BY <1>7 DEF Min
(* The place that sleep finds in the list.                                 *)
LEMMA PositionIsSlot ==
  ASSUME SleepTypeOK, NEW tick \in Times
  PROVE  \E k \in 0 .. Len(sleepers) :
           /\ Position(tick) = k + 1
           /\ k = Len(sleepers) \/ tick < Due(k + 1)
           /\ \A m \in 1 .. k : ~ (tick < Due(m))
<1> DEFINE S == {i \in DOMAIN sleepers : tick < resume_tick[sleepers[i]]}
                  \cup {Len(sleepers) + 1}
<1>1. Len(sleepers) \in Nat /\ DOMAIN sleepers = 1 .. Len(sleepers)
  BY DEF SleepTypeOK
<1>2. S \subseteq 1 .. Len(sleepers) + 1 /\ S # {}
  BY <1>1
<1>3. Min(S) \in S /\ \A y \in S : Min(S) <= y
  BY <1>1, <1>2, MinIsLeast
<1>4. Position(tick) = Min(S)
  BY DEF Position
<1>5. \A i \in 1 .. Len(sleepers) : i \in S <=> tick < Due(i)
  BY <1>1 DEF Due
<1> HIDE DEF S
<1>5a. Min(S) \in 1 .. Len(sleepers) + 1
  BY <1>2, <1>3
<1> DEFINE k == Min(S) - 1
<1>6. k \in 0 .. Len(sleepers) /\ Min(S) = k + 1
  <2>1. \A m \in 1 .. Len(sleepers) + 1 : m - 1 \in 0 .. Len(sleepers) /\ m = (m - 1) + 1
    BY <1>1
  <2> QED BY <2>1, <1>5a
<1>7. k = Len(sleepers) \/ tick < Due(k + 1)
  BY <1>1, <1>3, <1>5, <1>6
<1>8. ASSUME NEW m \in 1 .. k PROVE ~ (tick < Due(m))
  <2>1. m \in 1 .. Len(sleepers) /\ ~ (Min(S) <= m)
    BY <1>1, <1>6
  <2> QED BY <2>1, <1>3, <1>5
<1> HIDE DEF k
<1> QED BY <1>4, <1>6, <1>7, <1>8

(* What sleep does to the list.                                            *)
LEMMA SleepEffect ==
  ASSUME SleepTypeOK, NEW t \in Threads, NEW d \in Durations, Sleep(t, d),
         NEW tick \in Times, tick = (now + d) % Wrap
  PROVE  \E k \in 0 .. Len(sleepers) :
           /\ sleepers' \in Seq(Threads) /\ IsInjective(sleepers') /\ sleepers' # <<>>
           /\ sleepers' = InsertAt(sleepers, k + 1, t) /\ Linked(sleepers', sleepers, k, t)
           /\ k = Len(sleepers) \/ tick < Due(k + 1)
           /\ \A m \in 1 .. k : ~ (tick < Due(m))
<1>1. PICK k \in 0 .. Len(sleepers) :
           /\ Position(tick) = k + 1
           /\ k = Len(sleepers) \/ tick < Due(k + 1)
           /\ \A m \in 1 .. k : ~ (tick < Due(m))
  BY PositionIsSlot
<1>2. sleepers \in Seq(Threads) /\ IsInjective(sleepers)
  BY DEF SleepTypeOK
<1>3. t \in Threads \ Range(sleepers)
  BY DEF Sleep, Asleep
<1>4. sleepers' = InsertAt(sleepers, k + 1, t)
  BY <1>1 DEF Sleep
<1>5. sleepers' \in Seq(Threads) /\ sleepers' # <<>> /\ IsInjective(sleepers')
  BY <1>2, <1>3, <1>4, InsertWaiter
<1>6. Linked(sleepers', sleepers, k, t)
  BY <1>2, <1>4, InsertAtLinks
<1> QED BY <1>1, <1>4, <1>5, <1>6

-----------------------------------------------------------------------------
(* Sleep.                                                                  *)

LEMMA TickOfSleep ==
  ASSUME SleepTypeOK, NEW d \in Durations
  PROVE  /\ d \in Cost + 1 .. Wrap - Late - 1 /\ d \in Nat
         /\ (now + d) % Wrap \in Times
         /\ (now + d) % Wrap > now => (now + d) % Wrap = now + d
<1>1. d \in Cost + 1 .. Wrap - Late - 1 /\ now \in 0 .. Wrap - 1
  BY Constants DEF SleepTypeOK, Times
<1>2. now + d \in 0 .. 2 * Wrap - 1 /\ d \in Nat /\ d < Wrap
  BY <1>1, Constants
<1>3. /\ (now + d) % Wrap \in Times
      /\ (now + d) % Wrap = IF now + d < Wrap THEN now + d ELSE now + d - Wrap
  <2>1. PICK a \in 0 .. 2 * Wrap - 1 : a = now + d
    BY <1>2
  <2>2. a % Wrap \in Times /\ a % Wrap = IF a < Wrap THEN a ELSE a - Wrap
    BY ModuloWrap
  <2>3. a \in Int /\ Wrap \in Int /\ now \in Int /\ d \in Int
    BY <1>1, <1>2, <2>1, Constants
  <2> QED BY <2>1, <2>2, <2>3
<1>4. (now + d) % Wrap > now => (now + d) % Wrap = now + d
  <2>1. ~ (now + d - Wrap > now)
    BY <1>1, <1>2, Constants
  <2> QED BY <2>1, <1>3
<1> QED BY <1>1, <1>2, <1>3, <1>4

LEMMA SleepTypes ==
  ASSUME SleepTypeOK, NEW t \in Threads, NEW d \in Durations, Sleep(t, d)
  PROVE  SleepTypeOK'
<1>1. /\ d \in Cost + 1 .. Wrap - Late - 1 /\ d \in Nat
      /\ (now + d) % Wrap \in Times
  BY TickOfSleep
<1>2. sleepers' \in Seq(Threads) /\ IsInjective(sleepers')
  BY <1>1, SleepEffect
<1>3. resume_tick' \in [Threads -> Times]
  BY <1>1 DEF Sleep, SleepTypeOK
<1>4. left' \in [Threads -> -(Late + 1) .. Wrap]
  <2>1. d \in -(Late + 1) .. Wrap
    BY <1>1, Constants
  <2> QED BY <2>1 DEF Sleep, SleepTypeOK
<1>5. alarm' \in Times \cup {NULL} /\ firstLap' \in BOOLEAN
  BY <1>1 DEF Sleep, SleepTypeOK
<1>6. UNCHANGED <<pending, high, now, waited>>
  BY DEF Sleep
<1> QED BY <1>2, <1>3, <1>4, <1>5, <1>6 DEF SleepTypeOK

LEMMA SleepAlarm ==
  ASSUME AlarmHasSleeper, AlarmSpare,
         NEW t \in Threads, NEW d \in Durations, Sleep(t, d)
  PROVE  AlarmHasSleeper' /\ AlarmSpare'
<1> DEFINE tick == (now + d) % Wrap
<1>0. SleepTypeOK
  BY DEF AlarmHasSleeper
<1>1. tick \in Times /\ tick # NULL
  BY <1>0, TickOfSleep, Constants
<1>2. PICK k \in 0 .. Len(sleepers) :
        sleepers' \in Seq(Threads) /\ sleepers' # <<>> /\ Linked(sleepers', sleepers, k, t)
  BY <1>0, <1>1, SleepEffect
<1>3. Len(sleepers') = Len(sleepers) + 1
  BY <1>2 DEF Linked
<1>4. /\ pending' = pending
      /\ alarm' = IF NewRoot(tick) THEN tick ELSE alarm
  BY DEF Sleep
<1>5. sleepers = <<>> => NewRoot(tick)
  BY DEF NewRoot
<1> HIDE DEF tick
<1>6. alarm' # NULL \/ pending'
  BY <1>1, <1>4, <1>5 DEF AlarmHasSleeper
<1>7. SleepTypeOK'
  BY <1>0, SleepTypes
<1>8. AlarmHasSleeper'
  BY <1>2, <1>6, <1>7 DEF AlarmHasSleeper
<1>9. AlarmSpare'
  <2>1. SUFFICES ASSUME pending PROVE Len(sleepers') >= 2
    BY <1>4 DEF AlarmSpare
  <2>2. sleepers # <<>> /\ sleepers \in Seq(Threads)
    BY <2>1, <1>0 DEF AlarmHasSleeper, SleepTypeOK
  <2>3. Len(sleepers) \in Nat \ {0}
    BY <2>2
  <2> QED BY <2>3, <1>3
<1> QED BY <1>8, <1>9
(* Types that the arithmetic needs.                                        *)
LEMMA Numbers ==
  ASSUME SleepTypeOK
  PROVE  /\ Len(sleepers) \in Nat /\ DOMAIN sleepers = 1 .. Len(sleepers)
         /\ Len(sleepers) <= Cardinality(Threads)
         /\ \A i \in 1 .. Len(sleepers) : /\ sleepers[i] \in Threads /\ Due(i) \in Times
                                        /\ sleepers[i] \in Asleep
         /\ now \in Times /\ now \in Int /\ waited \in 0 .. Delay
         /\ Times \subseteq Int
         /\ alarm # NULL => /\ NextMatch \in Int /\ now < NextMatch
                           /\ alarm \in Times
<1>1. Len(sleepers) \in Nat /\ DOMAIN sleepers = 1 .. Len(sleepers)
  BY DEF SleepTypeOK
<1>2. Len(sleepers) <= Cardinality(Threads)
  BY LengthBound DEF SleepTypeOK
<1>3. \A i \in 1 .. Len(sleepers) : /\ sleepers[i] \in Threads /\ Due(i) \in Times
                                  /\ sleepers[i] \in Asleep
  <2> SUFFICES ASSUME NEW i \in 1 .. Len(sleepers)
               PROVE  /\ sleepers[i] \in Threads /\ Due(i) \in Times
                      /\ sleepers[i] \in Asleep
    OBVIOUS
  <2>1. sleepers[i] \in Threads
    BY DEF SleepTypeOK
  <2>2. Due(i) \in Times
    BY <2>1 DEF SleepTypeOK, Due
  <2>3. sleepers[i] \in Asleep
    BY <1>1 DEF Asleep, Range
  <2> QED BY <2>1, <2>2, <2>3
<1>4. now \in Times /\ now \in Int /\ waited \in 0 .. Delay /\ Times \subseteq Int
  BY Constants DEF SleepTypeOK, Times
<1>5. ASSUME alarm # NULL PROVE NextMatch \in Int /\ now < NextMatch /\ alarm \in Times
  <2>1. alarm \in 0 .. Wrap - 1 /\ now \in 0 .. Wrap - 1 /\ Wrap \in Nat
    BY <1>5, Constants DEF SleepTypeOK, Times
  <2> QED BY <2>1 DEF NextMatch, Times
<1> QED BY <1>1, <1>2, <1>3, <1>4, <1>5

LEMMA SleepLap ==
  ASSUME AlarmHasSleeper, OneLap, NEW t \in Threads, NEW d \in Durations, Sleep(t, d),
         firstLap'
  PROVE  OneLap'
<1> DEFINE tick == (now + d) % Wrap
           n == Len(sleepers)
<1>0. SleepTypeOK
  BY DEF AlarmHasSleeper
<1>1. tick \in Times /\ tick = now + d /\ d \in Cost + 1 .. Wrap - Late - 1 /\ d \in Nat
  BY <1>0, TickOfSleep DEF Sleep
<1>2. tick \in Int /\ now \in Int /\ now + Cost < tick /\ now < tick
  <2>1. now \in Int /\ Cost \in Nat /\ Late \in Nat /\ Wrap \in Nat
    BY <1>0, Numbers, Constants
  <2> QED BY <2>1, <1>1
<1>3. PICK k \in 0 .. n :
        /\ sleepers' \in Seq(Threads) /\ IsInjective(sleepers') /\ sleepers' # <<>>
        /\ sleepers' = InsertAt(sleepers, k + 1, t) /\ Linked(sleepers', sleepers, k, t)
        /\ k = n \/ tick < Due(k + 1)
        /\ \A m \in 1 .. k : ~ (tick < Due(m))
  BY <1>0, <1>1, SleepEffect
<1>4. /\ resume_tick' = [resume_tick EXCEPT ![t] = tick]
      /\ left' = [left EXCEPT ![t] = d]
      /\ alarm' = IF NewRoot(tick) THEN tick ELSE alarm
      /\ UNCHANGED <<pending, high, now, waited>>
      /\ t \notin Asleep
  BY DEF Sleep
<1> HIDE DEF tick
<1>5. n \in Nat /\ k \in Nat /\ k <= n /\ Len(sleepers') = n + 1
  <2>1. n \in Nat
    BY <1>0, Numbers
  <2>2. Len(sleepers') = n + 1
    BY <1>3 DEF Linked
  <2> QED BY <2>1, <2>2
<1>6. \A i \in 1 .. n : /\ sleepers[i] # t /\ sleepers[i] \in Threads /\ Due(i) \in Int
                      /\ resume_tick'[sleepers[i]] = Due(i)
                      /\ left'[sleepers[i]] = left[sleepers[i]]
  BY <1>0, <1>4, Numbers DEF SleepTypeOK, Due
<1>7. resume_tick'[t] = tick /\ left'[t] = tick - now
  BY <1>0, <1>1, <1>2, <1>4 DEF SleepTypeOK
<1>8. \A i \in 1 .. n + 1 :
        \/ i <= k /\ i \in 1 .. n /\ sleepers'[i] = sleepers[i] /\ Due(i)' = Due(i)
        \/ i = k + 1 /\ sleepers'[i] = t /\ Due(i)' = tick
        \/ /\ k + 1 < i /\ i - 1 \in 1 .. n /\ sleepers'[i] = sleepers[i - 1]
           /\ Due(i)' = Due(i - 1)
  <2> SUFFICES ASSUME NEW i \in 1 .. n + 1
               PROVE  \/ i <= k /\ i \in 1 .. n /\ sleepers'[i] = sleepers[i] /\ Due(i)' = Due(i)
                      \/ i = k + 1 /\ sleepers'[i] = t /\ Due(i)' = tick
                      \/ /\ k + 1 < i /\ i - 1 \in 1 .. n /\ sleepers'[i] = sleepers[i - 1]
                         /\ Due(i)' = Due(i - 1)
    OBVIOUS
  <2>1. sleepers'[i] = IF i <= k THEN sleepers[i] ELSE IF i = k + 1 THEN t ELSE sleepers[i - 1]
    BY <1>3 DEF Linked
  <2>2. Due(i)' = resume_tick'[sleepers'[i]]
    BY DEF Due
  <2>3. CASE i <= k
    <3>1. i \in 1 .. n
      BY <1>5, <2>3
    <3> QED BY <3>1, <2>1, <2>2, <2>3, <1>6
  <2>4. CASE i = k + 1
    <3>1. ~ (i <= k)
      BY <1>5, <2>4
    <3> QED BY <3>1, <2>1, <2>2, <2>4, <1>7
  <2>5. CASE k + 1 < i
    <3>1. i - 1 \in 1 .. n /\ ~ (i <= k) /\ i # k + 1
      BY <1>5, <2>5
    <3> QED BY <3>1, <2>1, <2>2, <2>5, <1>6
  <2> QED BY <2>3, <2>4, <2>5, <1>5
<1>9. \A i \in 1 .. n : \A j \in 1 .. n : i < j => Due(i) <= Due(j)
  BY <1>0, Numbers DEF OneLap, Sorted, Due
<1>10. \A i \in 1 .. n : k < i => tick < Due(i)
  <2> SUFFICES ASSUME NEW i \in 1 .. n, k < i PROVE tick < Due(i)
    OBVIOUS
  <2>1. k + 1 \in 1 .. n /\ k # n /\ (k + 1 = i \/ k + 1 < i)
    BY <1>5
  <2>2. tick < Due(k + 1)
    BY <2>1, <1>3
  <2>3. Due(k + 1) <= Due(i)
    BY <2>1, <1>9, <1>6
  <2> QED BY <2>1, <2>2, <2>3, <1>2, <1>6
<1>11. Sorted(resume_tick', sleepers')
  <2>1. resume_tick' \in [Threads -> Int] /\ sleepers \in Seq(Threads)
    BY <1>0, <1>2, <1>4, Numbers DEF SleepTypeOK
  <2>2. Sorted(resume_tick', sleepers)
    BY <1>0, <1>6, <1>9, Numbers DEF Sorted
  <2>3. Slot(resume_tick', sleepers, k, t)
    <3>1. k = n \/ resume_tick'[t] < resume_tick'[sleepers[k + 1]]
      <4>1. k = n \/ k + 1 \in 1 .. n
        BY <1>5
      <4> QED BY <4>1, <1>3, <1>6, <1>7
    <3>2. \A m \in 1 .. k : ~ (resume_tick'[t] < resume_tick'[sleepers[m]])
      <4>1. \A m \in 1 .. k : m \in 1 .. n
        BY <1>5
      <4> QED BY <4>1, <1>3, <1>6, <1>7
    <3> QED BY <3>1, <3>2 DEF Slot
  <2> QED BY <2>1, <2>2, <2>3, <1>3, InsertSorted
<1>12. LeftAgrees'
  <2> SUFFICES ASSUME NEW i \in 1 .. n + 1 PROVE left'[sleepers'[i]] = Due(i)' - now
    BY <1>4, <1>5 DEF LeftAgrees
  <2>1. \A j \in 1 .. n : left[sleepers[j]] = Due(j) - now
    BY DEF OneLap, LeftAgrees
  <2> QED BY <2>1, <1>6, <1>7, <1>8, SMTT(30)
<1>13. \A i \in 1 .. n + 1 : i \in 1 .. Cardinality(Threads) /\ Due(i)' \in Int
  <2>1. n + 1 <= Cardinality(Threads)
    BY <1>3, <1>5, LengthBound
  <2>2. \A i \in 1 .. n + 1 : Due(i)' \in Int
    BY <1>2, <1>6, <1>8
  <2> QED BY <2>1, <2>2, <1>5, Constants
<1>14. 1 \in 1 .. n + 1
  BY <1>5
<1>15. NewRoot(tick) <=> n = 0 \/ tick < Due(1)
  BY <1>0, <1>5 DEF NewRoot, Due, SleepTypeOK
<1>16. CASE NewRoot(tick)
  <2>1. k = 0
    <3>1. k # 0 => n # 0 /\ 1 \in 1 .. k
      BY <1>5
    <3> QED BY <3>1, <1>3, <1>15, <1>16
  <2>2. ~ pending
    <3> SUFFICES ASSUME pending PROVE FALSE
      OBVIOUS
    <3>1. sleepers # <<>> /\ n # 0
      BY <1>0, <1>5 DEF AlarmHasSleeper, SleepTypeOK
    <3>2. Due(1) <= now /\ Due(1) \in Int
      BY <3>1, <1>5, <1>6 DEF OneLap, NotEarly
    <3> QED BY <3>1, <3>2, <1>2, <1>15, <1>16
  <2>3. alarm' = tick /\ NextMatch' = tick
    <3>1. ~ (tick <= now)
      BY <1>2
    <3> QED BY <3>1, <1>4, <1>16 DEF NextMatch
  <2>4. Deadline' = tick + Delay
    BY <2>2, <2>3, <1>4 DEF Deadline
  <2>5. \A i \in 1 .. n + 1 : tick <= Due(i)'
    <3> SUFFICES ASSUME NEW i \in 1 .. n + 1 PROVE tick <= Due(i)'
      OBVIOUS
    <3>1. CASE i = 1
      BY <3>1, <2>1, <1>2, <1>5, <1>8
    <3>2. CASE i # 1
      <4>1. i - 1 \in 1 .. n /\ Due(i)' = Due(i - 1) /\ k < i - 1
        BY <3>2, <2>1, <1>5, <1>8
      <4> QED BY <4>1, <1>2, <1>6, <1>10
    <3> QED BY <3>1, <3>2
  <2>6. Due(1)' = tick
    BY <2>1, <1>5, <1>8, <1>14
  <2>7. NotEarly'
    BY <2>2, <2>3, <2>6, <1>2, <1>4 DEF NotEarly
  <2>8. \A i \in 1 .. n + 1 : Deadline' + (i - 1) * Cost <= Due(i)' + Late
    <3> SUFFICES ASSUME NEW i \in 1 .. n + 1
                 PROVE  Deadline' + (i - 1) * Cost <= Due(i)' + Late
      OBVIOUS
    <3>1. /\ Deadline' \in Int /\ Due(i)' \in Int /\ i \in 1 .. Cardinality(Threads)
          /\ Deadline' <= Due(i)' + Delay
      BY <2>4, <2>5, <1>2, <1>13, Constants
    <3> QED BY <3>1, Enough
  <2>9. Deadline' <= Due(1)' + Delay
    BY <2>4, <2>6, <1>2, Constants
  <2>10. InTime'
    BY <2>8, <2>9, <1>5 DEF InTime
  <2> QED BY <2>7, <2>10, <1>4, <1>11, <1>12 DEF OneLap
<1>17. CASE ~ NewRoot(tick)
  <2>1. n # 0 /\ sleepers # <<>> /\ ~ (tick < Due(1))
    BY <1>15, <1>17 DEF NewRoot
  <2>2. k # 0
    <3>1. k = 0 => k + 1 = 1
      OBVIOUS
    <3> QED BY <3>1, <2>1, <1>3
  <2>3. Due(1)' = Due(1)
    BY <2>2, <1>5, <1>8, <1>14
  <2>4. /\ NextMatch' = NextMatch /\ Deadline' = Deadline
        /\ UNCHANGED <<alarm, pending, now>>
    BY <1>4, <1>17 DEF NextMatch, Deadline
  <2>5. NotEarly /\ InTime
    BY <2>1 DEF OneLap
  <2>6. NotEarly'
    BY <2>3, <2>4, <2>5 DEF NotEarly
  <2>7. Deadline \in Int /\ Delay \in Nat /\ Cost \in Nat
    <3>1. pending \/ alarm # NULL
      BY <2>1 DEF AlarmHasSleeper
    <3>2. now - waited \in Int
      BY <1>0, Numbers, Constants
    <3>3. IF pending THEN now - waited \in Int ELSE NextMatch \in Int
      BY <3>1, <3>2, <1>0, Numbers
    <3>4. Delay \in Nat /\ Cost \in Nat
      BY Constants
    <3> QED BY <3>3, <3>4 DEF Deadline
  <2>8. Deadline <= tick + Delay
    <3>1. Deadline <= now + Cost \/ Deadline <= Due(1) + Delay
      BY <2>5 DEF InTime
    <3>2. Due(1) \in Int /\ Due(1) <= tick
      <4>1. 1 \in 1 .. n
        BY <2>1, <1>5
      <4> QED BY <4>1, <2>1, <1>2, <1>6
    <3> QED BY <3>1, <3>2, <2>7, <1>2
  <2>9. \A i \in 1 .. n + 1 : Deadline' + (i - 1) * Cost <= Due(i)' + Late
    <3> SUFFICES ASSUME NEW i \in 1 .. n + 1
                 PROVE  Deadline' + (i - 1) * Cost <= Due(i)' + Late
      OBVIOUS
    <3>1. CASE i <= k
      <4>1. i \in 1 .. n /\ Due(i)' = Due(i)
        BY <3>1, <1>5, <1>8
      <4> QED BY <4>1, <2>4, <2>5 DEF InTime
    <3>2. CASE ~ (i <= k)
      <4>1. tick <= Due(i)'
        <5>1. CASE i = k + 1
          BY <5>1, <1>2, <1>5, <1>8
        <5>2. CASE i # k + 1
          <6>1. i - 1 \in 1 .. n /\ Due(i)' = Due(i - 1) /\ k < i - 1
            BY <3>2, <5>2, <1>5, <1>8
          <6> QED BY <6>1, <1>2, <1>6, <1>10
        <5> QED BY <5>1, <5>2
      <4>2. /\ Deadline' \in Int /\ Due(i)' \in Int /\ i \in 1 .. Cardinality(Threads)
            /\ Deadline' <= Due(i)' + Delay
        BY <4>1, <2>4, <2>7, <2>8, <1>2, <1>13
      <4> QED BY <4>2, Enough
    <3> QED BY <3>1, <3>2
  <2>10. Deadline' <= now' + Cost \/ Deadline' <= Due(1)' + Delay
    BY <2>3, <2>4, <2>5 DEF InTime
  <2>11. InTime'
    BY <2>9, <2>10, <1>5 DEF InTime
  <2> QED BY <2>6, <2>11, <1>4, <1>11, <1>12 DEF OneLap
<1> QED BY <1>16, <1>17
-----------------------------------------------------------------------------
(* Unsleep.                                                                *)

(* What is left of the list.                                               *)
LEMMA UnsleepEffect ==
  ASSUME SleepTypeOK, Unsleep
  PROVE  /\ sleepers' \in Seq(Threads) /\ IsInjective(sleepers')
         /\ Len(sleepers) \in Nat \ {0} /\ Len(sleepers') = Len(sleepers) - 1
         /\ Head(sleepers) = sleepers[1] /\ Head(sleepers) \in Threads
         /\ \A i \in 1 .. Len(sleepers) - 1 :
              /\ i + 1 \in 1 .. Len(sleepers)
              /\ sleepers'[i] = sleepers[i + 1] /\ Due(i)' = Due(i + 1)
              /\ left'[sleepers'[i]] = left[sleepers[i + 1]]
<1>1. sleepers \in Seq(Threads) /\ sleepers # <<>> /\ IsInjective(sleepers)
  BY DEF SleepTypeOK, Unsleep
<1>2. /\ sleepers' = Tail(sleepers)
      /\ resume_tick' = [resume_tick EXCEPT ![Head(sleepers)] = 0]
      /\ left' = [left EXCEPT ![Head(sleepers)] = 0]
  BY DEF Unsleep
<1>3. sleepers' \in Seq(Threads) /\ IsInjective(sleepers')
  BY <1>1, <1>2, TakeWaiter
<1>4. /\ Len(sleepers) \in Nat \ {0} /\ Len(sleepers') = Len(sleepers) - 1
      /\ Head(sleepers) = sleepers[1] /\ Head(sleepers) \in Threads
      /\ \A i \in 1 .. Len(sleepers) - 1 : sleepers'[i] = sleepers[i + 1]
  BY <1>1, <1>2, HeadTailProperties
<1>5. ASSUME NEW i \in 1 .. Len(sleepers) - 1
      PROVE  /\ i + 1 \in 1 .. Len(sleepers)
             /\ sleepers'[i] = sleepers[i + 1] /\ Due(i)' = Due(i + 1)
             /\ left'[sleepers'[i]] = left[sleepers[i + 1]]
  <2>1. i + 1 \in 1 .. Len(sleepers) /\ 1 \in 1 .. Len(sleepers) /\ i + 1 # 1
    BY <1>4
  <2>2. sleepers[i + 1] # Head(sleepers) /\ sleepers[i + 1] \in Threads
    BY <2>1, <1>1, <1>4 DEF IsInjective
  <2>3. sleepers'[i] = sleepers[i + 1]
    BY <1>4
  <2>4. resume_tick'[sleepers'[i]] = resume_tick[sleepers[i + 1]]
    BY <2>2, <2>3, <1>2 DEF SleepTypeOK
  <2>5. left'[sleepers'[i]] = left[sleepers[i + 1]]
    BY <2>2, <2>3, <1>2 DEF SleepTypeOK
  <2> QED BY <2>1, <2>3, <2>4, <2>5 DEF Due
<1> QED BY <1>3, <1>4, <1>5

LEMMA SlackAhead ==
  ASSUME SleepTypeOK
  PROVE  /\ now \in Int /\ Slack \in Int /\ Wrap \in Int
         /\ (now + Slack) % Wrap \in Times
         /\ (now + Slack) % Wrap = IF now + Slack < Wrap THEN now + Slack
                                   ELSE now + Slack - Wrap
<1>1. now \in 0 .. Wrap - 1 /\ Slack \in 1 .. Wrap - 1 /\ Wrap \in Nat
  BY Constants DEF SleepTypeOK, Times
<1>2. PICK a \in 0 .. 2 * Wrap - 1 : a = now + Slack
  BY <1>1
<1>3. a % Wrap \in Times /\ a % Wrap = IF a < Wrap THEN a ELSE a - Wrap
  BY ModuloWrap
<1>4. a \in Int /\ now \in Int /\ Slack \in Int /\ Wrap \in Int
  BY <1>1
<1> QED BY <1>2, <1>3, <1>4

LEMMA UnsleepAlarm ==
  ASSUME AlarmHasSleeper, AlarmSpare, Unsleep
  PROVE  AlarmHasSleeper' /\ AlarmSpare'
<1>0. SleepTypeOK
  BY DEF AlarmHasSleeper
<1>1. /\ sleepers' \in Seq(Threads) /\ IsInjective(sleepers')
      /\ Len(sleepers) \in Nat \ {0} /\ Len(sleepers') = Len(sleepers) - 1
      /\ Head(sleepers) \in Threads
  BY <1>0, UnsleepEffect
<1>2. /\ pending /\ pending' = FALSE /\ waited' = 0 /\ alarm' = Rearm
      /\ UNCHANGED <<now, high, firstLap>>
      /\ resume_tick' = [resume_tick EXCEPT ![Head(sleepers)] = 0]
      /\ left' = [left EXCEPT ![Head(sleepers)] = 0]
  BY DEF Unsleep
<1>3. ASSUME Len(sleepers) = 1 PROVE alarm' = NULL /\ sleepers' = <<>>
  <2>1. alarm' = NULL
    BY <1>2, <1>3 DEF Rearm, AlarmSpare
  <2>2. sleepers' = <<>>
    BY <1>1, <1>3
  <2> QED BY <2>1, <2>2
<1>4. ASSUME Len(sleepers) # 1
      PROVE  alarm' \in Times /\ alarm' # NULL /\ sleepers' # <<>>
  <2>1. 2 \in 1 .. Len(sleepers)
    BY <1>1, <1>4
  <2>2. resume_tick[sleepers[2]] \in Times
    BY <2>1, <1>0, Numbers DEF Due
  <2>3. alarm' \in Times
    BY <2>2, <1>0, <1>2, <1>4, SlackAhead DEF Rearm
  <2>4. sleepers' # <<>>
    BY <1>1, <1>4
  <2> QED BY <2>3, <2>4, Constants
<1>5. (alarm' # NULL <=> sleepers' # <<>>) /\ alarm' \in Times \cup {NULL}
  BY <1>3, <1>4
<1>6. SleepTypeOK'
  <2>1. 0 \in Times /\ 0 \in -(Late + 1) .. Wrap /\ 0 \in 0 .. Delay
    BY Constants DEF Times
  <2>2. resume_tick' \in [Threads -> Times] /\ left' \in [Threads -> -(Late + 1) .. Wrap]
    BY <2>1, <1>0, <1>2 DEF SleepTypeOK
  <2> QED BY <2>1, <2>2, <1>0, <1>1, <1>2, <1>5 DEF SleepTypeOK
<1> QED BY <1>2, <1>5, <1>6 DEF AlarmHasSleeper, AlarmSpare

(* The first sleeper is woken when it is due, or later.                    *)
LEMMA UnsleepNotEarly ==
  ASSUME AlarmHasSleeper, OneLap, Unsleep
  PROVE  left[Head(sleepers)] <= 0
<1>0. SleepTypeOK
  BY DEF AlarmHasSleeper
<1>1. Head(sleepers) = sleepers[1] /\ 1 \in 1 .. Len(sleepers)
  BY <1>0, UnsleepEffect
<1>2. Due(1) <= now
  BY DEF OneLap, NotEarly, Unsleep
<1>3. left[sleepers[1]] = Due(1) - now
  BY <1>1 DEF OneLap, LeftAgrees
<1>4. Due(1) \in Int /\ now \in Int
  BY <1>0, <1>1, Numbers
<1> QED BY <1>1, <1>2, <1>3, <1>4

LEMMA UnsleepLap ==
  ASSUME AlarmHasSleeper, OneLap, Unsleep
  PROVE  OneLap'
<1> DEFINE n == Len(sleepers)
           tick == Due(2)
<1>0. SleepTypeOK
  BY DEF AlarmHasSleeper
<1>1. /\ sleepers' \in Seq(Threads) /\ IsInjective(sleepers')
      /\ n \in Nat \ {0} /\ Len(sleepers') = n - 1
      /\ \A i \in 1 .. n - 1 : /\ i + 1 \in 1 .. n
                              /\ sleepers'[i] = sleepers[i + 1] /\ Due(i)' = Due(i + 1)
                              /\ left'[sleepers'[i]] = left[sleepers[i + 1]]
  BY <1>0, UnsleepEffect
<1>2. /\ pending /\ pending' = FALSE /\ alarm' = Rearm
      /\ UNCHANGED <<now, high, firstLap>>
  BY DEF Unsleep
<1>3. /\ \A i \in 1 .. n : Due(i) \in Int /\ left[sleepers[i]] = Due(i) - now
      /\ n <= Cardinality(Threads)
  BY <1>0, Numbers DEF OneLap, LeftAgrees
<1>4. \A i \in 1 .. n : \A j \in 1 .. n : i < j => Due(i) <= Due(j)
  BY <1>0, Numbers DEF OneLap, Sorted, Due
<1>5. LeftAgrees'
  <2> SUFFICES ASSUME NEW i \in 1 .. n - 1 PROVE left'[sleepers'[i]] = Due(i)' - now
    BY <1>1, <1>2 DEF LeftAgrees
  <2> QED BY <1>1, <1>3
<1>6. Sorted(resume_tick', sleepers')
  <2>1. DOMAIN sleepers' = 1 .. n - 1
    BY <1>1
  <2> SUFFICES ASSUME NEW i \in 1 .. n - 1, NEW j \in 1 .. n - 1, i < j
               PROVE  resume_tick'[sleepers'[i]] <= resume_tick'[sleepers'[j]]
    BY <2>1 DEF Sorted
  <2>2. Due(i)' = Due(i + 1) /\ Due(j)' = Due(j + 1) /\ i + 1 \in 1 .. n /\ j + 1 \in 1 .. n
    BY <1>1
  <2>3. i + 1 < j + 1
    OBVIOUS
  <2>4. Due(i)' <= Due(j)'
    BY <2>2, <2>3, <1>4
  <2> QED BY <2>4 DEF Due
<1>7. ASSUME sleepers' # <<>> PROVE NotEarly' /\ InTime'
  <2>1. 2 \in 1 .. n /\ 1 \in 1 .. n - 1 /\ n # 1
    BY <1>1, <1>7
  <2>2. Due(1)' = tick /\ tick \in Int /\ tick \in Times
    <3>1. Due(1)' = Due(1 + 1)
      BY <2>1, <1>1
    <3> QED BY <3>1, <2>1, <1>0, Numbers
  <2>3. alarm' = IF tick < now + Slack THEN (now + Slack) % Wrap ELSE tick
    BY <2>1, <1>2 DEF Rearm, Soon, OneLap, Due
  <2>4. /\ now \in 0 .. Wrap - 1 /\ Slack \in 1 .. Wrap - 1 /\ Wrap \in Nat
        /\ Delay \in Nat /\ Cost \in Nat /\ Cost = Slack + Delay
    BY <1>0, Constants DEF SleepTypeOK, Times
  <2>5. NextMatch' = IF tick < now + Slack THEN now + Slack ELSE tick
    <3>1. CASE tick < now + Slack
      <4>1. alarm' = IF now + Slack < Wrap THEN now + Slack ELSE now + Slack - Wrap
        BY <3>1, <2>3, <1>0, SlackAhead
      <4>2. NextMatch' = IF alarm' <= now THEN alarm' + Wrap ELSE alarm'
        BY <1>2 DEF NextMatch
      <4> QED BY <3>1, <4>1, <4>2, <2>4
    <3>2. CASE ~ (tick < now + Slack)
      <4>1. alarm' = tick /\ ~ (tick <= now)
        BY <3>2, <2>2, <2>3, <2>4
      <4>2. NextMatch' = IF alarm' <= now THEN alarm' + Wrap ELSE alarm'
        BY <1>2 DEF NextMatch
      <4> QED BY <3>2, <4>1, <4>2
    <3> QED BY <3>1, <3>2
  <2>6. NotEarly'
    <3>1. tick <= NextMatch'
      BY <2>2, <2>4, <2>5
    <3> QED BY <3>1, <2>2, <1>2 DEF NotEarly
  <2>7. Deadline' = NextMatch' + Delay
    BY <1>2 DEF Deadline
  <2>8. Deadline' <= now' + Cost \/ Deadline' <= Due(1)' + Delay
    BY <2>2, <2>4, <2>5, <2>7, <1>2
  <2>9. ASSUME NEW i \in 1 .. n - 1
        PROVE  Deadline' + (i - 1) * Cost <= Due(i)' + Late
    <3>1. /\ Due(i)' = Due(i + 1) /\ Due(i + 1) \in Int /\ i + 1 \in 1 .. n
          /\ i \in 1 .. Cardinality(Threads) /\ i \in Nat
      BY <1>1, <1>3, Constants
    <3>2. CASE tick < now + Slack
      <4>1. Deadline' = now + Cost
        BY <3>2, <2>4, <2>5, <2>7
      <4>2. Deadline + i * Cost <= Due(i + 1) + Late
        <5>1. InTime
          BY DEF OneLap, Unsleep
        <5>2. Deadline + ((i + 1) - 1) * Cost <= Due(i + 1) + Late
          BY <5>1, <3>1 DEF InTime
        <5>3. (i + 1) - 1 = i
          OBVIOUS
        <5> QED BY <5>2, <5>3
      <4>3. Deadline = now - waited + Delay /\ waited \in 0 .. Delay
        BY <1>0, <1>2, Numbers DEF Deadline
      <4>4. /\ i * Cost = (i - 1) * Cost + Cost
            /\ i * Cost \in Nat /\ (i - 1) * Cost \in Int
        BY <3>1, CostStep
      <4>5. Late \in Nat
        BY Constants
      <4> DEFINE a == i * Cost
                 b == (i - 1) * Cost
      <4>6. a = b + Cost /\ a \in Nat /\ b \in Int /\ Deadline + a <= Due(i + 1) + Late
        BY <4>2, <4>4
      <4> HIDE DEF a, b
      <4>7. now + Cost + b <= Due(i + 1) + Late
        BY <4>3, <4>5, <4>6, <3>1, <2>4
      <4> QED BY <4>1, <4>7, <3>1 DEF b
    <3>3. CASE ~ (tick < now + Slack)
      <4>1. Deadline' = tick + Delay
        BY <3>3, <2>5, <2>7
      <4>2. tick <= Due(i + 1)
        <5>1. 2 = i + 1 \/ 2 < i + 1
          OBVIOUS
        <5> QED BY <5>1, <3>1, <2>1, <2>2, <1>4
      <4>3. Deadline' \in Int /\ Due(i)' \in Int /\ Deadline' <= Due(i)' + Delay
        BY <4>1, <4>2, <3>1, <2>2, <2>4
      <4> QED BY <4>3, <3>1, Enough
    <3> QED BY <3>2, <3>3
  <2>10. InTime'
    BY <2>8, <2>9, <1>1 DEF InTime
  <2> QED BY <2>6, <2>10
<1> QED BY <1>2, <1>5, <1>6, <1>7 DEF OneLap
-----------------------------------------------------------------------------
(* The timer.                                                              *)

(* No sleeper is later than the allowances of those due with it.           *)
LEMMA LapInTime ==
  ASSUME AlarmHasSleeper, OneLap
  PROVE  \A i \in 1 .. Len(sleepers) : left[sleepers[i]] >= -Late
<1>0. SleepTypeOK
  BY DEF AlarmHasSleeper
<1> SUFFICES ASSUME NEW i \in 1 .. Len(sleepers) PROVE left[sleepers[i]] >= -Late
  OBVIOUS
<1>1. /\ sleepers # <<>> /\ i - 1 \in Nat /\ Due(i) \in Int /\ now \in Int
      /\ left[sleepers[i]] = Due(i) - now
  BY <1>0, Numbers DEF OneLap, LeftAgrees
<1>2. Deadline + (i - 1) * Cost <= Due(i) + Late
  BY <1>1 DEF OneLap, InTime
<1>3. Delay \in Nat /\ Late \in Nat
  BY Constants
<1>4. Deadline \in Int /\ now <= Deadline
  <2>1. CASE pending
    BY <2>1, <1>0, <1>3, Numbers DEF Deadline
  <2>2. CASE ~ pending
    <3>1. NextMatch \in Int /\ now < NextMatch
      BY <2>2, <1>0, <1>1, Numbers DEF AlarmHasSleeper
    <3> QED BY <2>2, <3>1, <1>1, <1>3 DEF Deadline
  <2> QED BY <2>1, <2>2
<1>5. (i - 1) * Cost \in Nat
  BY <1>1, CostStep
<1> DEFINE a == (i - 1) * Cost
<1>6. a \in Nat /\ Deadline + a <= Due(i) + Late
  BY <1>2, <1>5
<1> HIDE DEF a
<1>7. now <= Due(i) + Late
  BY <1>1, <1>3, <1>4, <1>6
<1> QED BY <1>1, <1>3, <1>7

LEMMA NextTick ==
  ASSUME SleepTypeOK
  PROVE  /\ (now + 1) % Wrap \in Times
         /\ (now + 1) % Wrap # 0 => (now + 1) % Wrap = now + 1
<1>1. now \in 0 .. Wrap - 1 /\ Wrap \in Nat \ {0}
  BY Constants DEF SleepTypeOK, Times
<1>2. PICK a \in 0 .. 2 * Wrap - 1 : a = now + 1
  BY <1>1
<1>3. a % Wrap \in Times /\ a % Wrap = IF a < Wrap THEN a ELSE a - Wrap
  BY ModuloWrap
<1> QED BY <1>1, <1>2, <1>3

LEMMA TickAlarm ==
  ASSUME AlarmHasSleeper, AlarmSpare, Tick
  PROVE  AlarmHasSleeper' /\ AlarmSpare'
<1>0. SleepTypeOK
  BY DEF AlarmHasSleeper
<1>1. /\ now' \in Times
      /\ high' = (high \/ now' = 0) /\ pending' = (pending \/ alarm = now')
      /\ alarm' = IF alarm = now' THEN NULL ELSE alarm
      /\ firstLap' = (firstLap /\ now' # 0)
      /\ UNCHANGED <<sleepers, resume_tick>>
  BY <1>0, NextTick DEF Tick
<1>2. now' # NULL
  BY <1>1, Constants
<1>3. waited' \in 0 .. Delay
  BY <1>0, Constants DEF Tick, SleepTypeOK
<1>4. left' \in [Threads -> -(Late + 1) .. Wrap]
  <2>1. left' = [t \in Threads |->
                   IF t \in Asleep /\ left[t] >= -Late THEN left[t] - 1 ELSE left[t]]
    BY DEF Tick
  <2>2. ASSUME NEW t \in Threads PROVE left'[t] \in -(Late + 1) .. Wrap
    <3>1. left[t] \in -(Late + 1) .. Wrap /\ Late \in Nat /\ Wrap \in Nat
      BY <1>0, Constants DEF SleepTypeOK
    <3>2. left'[t] = IF t \in Asleep /\ left[t] >= -Late THEN left[t] - 1 ELSE left[t]
      BY <2>1
    <3>3. left[t] >= -Late => left[t] - 1 \in -(Late + 1) .. Wrap
      BY <3>1
    <3> QED BY <3>1, <3>2, <3>3
  <2> QED BY <2>1, <2>2
<1>5. SleepTypeOK'
  <2>1. pending' \in BOOLEAN /\ high' \in BOOLEAN /\ firstLap' \in BOOLEAN
    BY <1>0, <1>1 DEF SleepTypeOK
  <2>2. alarm' \in Times \cup {NULL}
    BY <1>0, <1>1 DEF SleepTypeOK
  <2> QED BY <2>1, <2>2, <1>0, <1>1, <1>3, <1>4 DEF SleepTypeOK
<1>6. AlarmHasSleeper'
  BY <1>1, <1>2, <1>5 DEF AlarmHasSleeper
<1>7. AlarmSpare'
  BY <1>1, <1>2 DEF AlarmSpare
<1> QED BY <1>6, <1>7

LEMMA TickLap ==
  ASSUME AlarmHasSleeper, OneLap, Tick, firstLap'
  PROVE  OneLap'
<1>0. SleepTypeOK
  BY DEF AlarmHasSleeper
<1>1. /\ now' = now + 1 /\ now \in Int /\ now' \in Times
      /\ high' = high /\ pending' = (pending \/ alarm = now')
      /\ alarm' = IF alarm = now' THEN NULL ELSE alarm
      /\ waited' = IF pending THEN waited + 1 ELSE 0
      /\ UNCHANGED <<sleepers, resume_tick>>
  <2>1. now' # 0
    BY DEF Tick
  <2>2. now' = now + 1 /\ now \in Int /\ now' \in Times
    BY <2>1, <1>0, NextTick, Numbers DEF Tick
  <2>3. high' = high
    BY <2>1 DEF Tick, OneLap, AlarmHasSleeper, SleepTypeOK
  <2> QED BY <2>2, <2>3 DEF Tick
<1>2. \A i \in 1 .. Len(sleepers) : Due(i)' = Due(i) /\ Due(i) \in Int
  BY <1>0, <1>1, Numbers DEF Due
<1>3. LeftAgrees'
  <2> SUFFICES ASSUME NEW i \in 1 .. Len(sleepers)
               PROVE  left'[sleepers[i]] = Due(i)' - now'
    BY <1>1 DEF LeftAgrees
  <2>1. sleepers[i] \in Threads /\ sleepers[i] \in Asleep
    BY <1>0, Numbers
  <2>2. left[sleepers[i]] >= -Late
    BY LapInTime
  <2>3. left'[sleepers[i]] = left[sleepers[i]] - 1
    BY <2>1, <2>2 DEF Tick
  <2>4. left[sleepers[i]] = Due(i) - now
    BY DEF OneLap, LeftAgrees
  <2> QED BY <2>3, <2>4, <1>1, <1>2
<1>4. Sorted(resume_tick', sleepers')
  BY <1>1 DEF OneLap
<1>5. ASSUME sleepers # <<>> PROVE NotEarly' /\ InTime'
  <2>1. NotEarly /\ InTime /\ 1 \in 1 .. Len(sleepers)
    BY <1>5, <1>0, Numbers DEF OneLap, SleepTypeOK
  <2>2. /\ alarm # NULL \/ pending
        /\ alarm # NULL => NextMatch \in Int /\ now < NextMatch /\ alarm \in Int
        /\ waited \in Int /\ Delay \in Nat /\ Wrap \in Nat /\ Due(1) \in Int
    <3>1. waited \in 0 .. Delay /\ Delay \in Nat /\ Wrap \in Nat
      BY <1>0, Numbers, Constants
    <3> QED BY <3>1, <1>0, <1>2, <1>5, <2>1, Numbers DEF AlarmHasSleeper
  <2>3. now' # NULL
    BY <1>1, Constants
  <2>4. NotEarly' /\ Deadline' = Deadline
    <3>1. CASE pending
      <4>1. alarm = NULL /\ Due(1) <= now
        BY <2>1, <3>1 DEF NotEarly
      <4>2. pending' /\ alarm' = NULL /\ Due(1)' <= now'
        <5>1. pending' /\ alarm' = NULL
          BY <3>1, <4>1, <1>1
        <5>2. Due(1)' = Due(1) /\ Due(1) \in Int
          BY <1>2, <2>1
        <5>3. Due(1) <= now + 1
          BY <4>1, <5>2, <1>1
        <5> QED BY <5>1, <5>2, <5>3, <1>1
      <4>3. now' - waited' = now - waited
        BY <3>1, <1>1, <2>2
      <4> QED BY <3>1, <4>2, <4>3 DEF NotEarly, Deadline
    <3>2. CASE ~ pending /\ alarm = now'
      <4>1. NextMatch = now' /\ Due(1) <= NextMatch
        BY <3>2, <1>1, <2>1 DEF NextMatch, NotEarly
      <4>2. pending' /\ alarm' = NULL /\ waited' = 0 /\ Due(1)' <= now'
        BY <3>2, <4>1, <2>1, <1>1, <1>2
      <4>3. now' - waited' = NextMatch
        BY <4>1, <4>2, <1>1
      <4> QED BY <3>2, <4>2, <4>3 DEF NotEarly, Deadline
    <3>3. CASE ~ pending /\ alarm # now'
      <4>1. ~ pending' /\ alarm' = alarm /\ alarm # NULL /\ alarm \in Int
        BY <3>3, <1>1, <2>2
      <4>2. NextMatch' = NextMatch
        <5>1. alarm <= now <=> alarm <= now'
          BY <3>3, <4>1, <1>1
        <5> QED BY <4>1, <5>1 DEF NextMatch
      <4>3. Due(1)' <= NextMatch'
        BY <3>3, <4>2, <1>2, <2>1 DEF NotEarly
      <4> QED BY <3>3, <4>1, <4>2, <4>3 DEF NotEarly, Deadline
    <3> QED BY <3>1, <3>2, <3>3
  <2>5. Deadline \in Int /\ Cost \in Nat
    <3>1. CASE pending
      <4>1. Deadline = now - waited + Delay
        BY <3>1 DEF Deadline
      <4> QED BY <4>1, <2>2, <1>1, Constants
    <3>2. CASE ~ pending
      <4>1. Deadline = NextMatch + Delay
        BY <3>2 DEF Deadline
      <4> QED BY <3>2, <4>1, <2>2, Constants
    <3> QED BY <3>1, <3>2
  <2>6. Deadline' <= now' + Cost \/ Deadline' <= Due(1)' + Delay
    <3>1. Deadline <= now + Cost \/ Deadline <= Due(1) + Delay
      BY <2>1 DEF InTime
    <3>2. Deadline <= now + Cost => Deadline <= now + 1 + Cost
      BY <2>5, <1>1
    <3>3. Due(1)' = Due(1)
      BY <1>2, <2>1
    <3> QED BY <3>1, <3>2, <3>3, <2>4, <1>1
  <2>7. \A i \in 1 .. Len(sleepers) : Deadline' + (i - 1) * Cost <= Due(i)' + Late
    BY <2>1, <2>4, <1>2 DEF InTime
  <2>8. InTime'
    BY <2>6, <2>7, <1>1 DEF InTime
  <2> QED BY <2>4, <2>8
<1> QED BY <1>1, <1>3, <1>4, <1>5 DEF OneLap

-----------------------------------------------------------------------------
LEMMA SleepInvInit == Init => SleepInv
<1> SUFFICES ASSUME Init PROVE SleepInv
  OBVIOUS
<1>1. /\ sleepers = <<>> /\ alarm = NULL /\ pending = FALSE /\ now = 0 /\ high = FALSE
      /\ waited = 0 /\ firstLap = TRUE
      /\ resume_tick = [t \in Threads |-> 0] /\ left = [t \in Threads |-> 0]
  BY DEF Init
<1>2. 0 \in Times /\ 0 \in -(Late + 1) .. Wrap /\ 0 \in 0 .. Delay
  BY Constants DEF Times
<1>3. sleepers \in Seq(Threads) /\ IsInjective(sleepers) /\ Len(sleepers) = 0
  BY <1>1 DEF IsInjective
<1>4. SleepTypeOK
  BY <1>1, <1>2, <1>3 DEF SleepTypeOK
<1>5. Sorted(resume_tick, sleepers) /\ LeftAgrees
  BY <1>1, <1>3 DEF Sorted, LeftAgrees
<1> QED BY <1>1, <1>4, <1>5 DEF SleepInv, AlarmHasSleeper, AlarmSpare, OneLap

LEMMA SleepInvNext == SleepInv /\ [Next]_vars => SleepInv'
<1> SUFFICES ASSUME SleepInv, [Next]_vars PROVE SleepInv'
  OBVIOUS
<1>0. AlarmHasSleeper /\ AlarmSpare /\ (firstLap => OneLap)
  BY DEF SleepInv
<1>1. CASE \E t \in Threads, d \in Durations : Sleep(t, d)
  <2>1. PICK t \in Threads, d \in Durations : Sleep(t, d)
    BY <1>1
  <2>2. firstLap' => firstLap
    BY <2>1 DEF Sleep
  <2> QED BY <2>1, <2>2, <1>0, SleepAlarm, SleepLap DEF SleepInv
<1>2. CASE Unsleep
  <2>1. firstLap' = firstLap
    BY <1>2 DEF Unsleep
  <2> QED BY <2>1, <1>0, <1>2, UnsleepAlarm, UnsleepLap DEF SleepInv
<1>3. CASE Tick
  <2>1. firstLap' => firstLap
    BY <1>3 DEF Tick
  <2> QED BY <2>1, <1>0, <1>3, TickAlarm, TickLap DEF SleepInv
<1>4. CASE UNCHANGED vars
  BY <1>0, <1>4 DEF vars, timer, SleepInv, AlarmHasSleeper, SleepTypeOK, AlarmSpare,
     OneLap, LeftAgrees, NotEarly, InTime, Deadline, NextMatch, Due
<1> QED BY <1>1, <1>2, <1>3, <1>4 DEF Next

(* The inductive invariant of the list and its alarm, which the theorems   *)
(* below follow from.                                                      *)
THEOREM SleepInvariant == Spec => []SleepInv
BY SleepInvInit, SleepInvNext, PTL DEF Spec

(* "this shouldn't happen" (schedule.c:324) never does: whenever alarm 0   *)
(* matches there is a sleeper to wake, also when times wrap around.        *)
THEOREM AlarmFindsSleeper == Spec => []AlarmHasSleeper
<1>1. SleepInv => AlarmHasSleeper
  BY DEF SleepInv
<1> QED BY <1>1, SleepInvariant, PTL

(* Until times wrap around, every sleeper is woken within the allowances of*)
(* all threads that may be due with it: the list's order and the alarm's   *)
(* arming and re-arming by sleep and unsleep lose no time.                 *)
THEOREM NobodyLate == Spec => []WakesInTime
<1>1. ASSUME SleepInv PROVE WakesInTime
  <2> SUFFICES ASSUME firstLap, NEW t \in Asleep PROVE left[t] >= -Late
    BY DEF WakesInTime
  <2>1. AlarmHasSleeper /\ OneLap
    BY <1>1 DEF SleepInv
  <2>2. PICK i \in 1 .. Len(sleepers) : t = sleepers[i]
    BY <2>1, Numbers DEF AlarmHasSleeper, Asleep, Range
  <2> QED BY <2>1, <2>2, LapInTime
<1> QED BY <1>1, SleepInvariant, PTL

(* Until times wrap around, unsleep wakes no thread before its time.       *)
THEOREM NobodyEarly == Spec => SleepsLongEnough
<1>1. SleepInv /\ [Next]_vars => [firstLap /\ Unsleep => left[Head(sleepers)] <= 0]_vars
  BY UnsleepNotEarly DEF SleepInv
<1> QED BY <1>1, SleepInvariant, PTL DEF Spec, SleepsLongEnough
=============================================================================

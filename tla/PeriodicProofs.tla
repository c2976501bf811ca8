--------------------------- MODULE PeriodicProofs ---------------------------
(***************************************************************************)
(* What is proved of module Periodic, for any number of tasks, any periods *)
(* and any width of the timer: the queue stays one ring, whatever wraps    *)
(* around, and until something does, its first task is the one that is due *)
(* first, and tasks whose due times are apart run on time.                 *)
(***************************************************************************)
EXTENDS Periodic, SharedLemmas

Links == [Tasks -> Tasks \cup {NULL}]

(* The set A is one ring of which root is an element.                     *)
Mutual(A, nx, pv) ==
  \A s \in A : nx[s] \in A /\ pv[nx[s]] = s /\ pv[s] \in A /\ nx[pv[s]] = s

Spans(A, nx, root) ==
  \A S \in SUBSET A : root \in S /\ (\A s \in S : nx[s] \in S) => S = A

Ring(A, nx, pv, root) == root \in A /\ Mutual(A, nx, pv) /\ Spans(A, nx, root)

(* The ring is sorted by the times in sched, from root on.                *)
InOrder(A, nx, sched, root) ==
  \A s \in A : nx[s] # root => sched[s] <= sched[nx[s]]

(* t is linked in before p; the first of the ring, t, is taken out.       *)
Inserted(t, p, nx, pv, nx2, pv2) ==
  /\ nx2 = [nx EXCEPT ![t] = p, ![pv[p]] = t]
  /\ pv2 = [pv EXCEPT ![t] = pv[p], ![p] = t]

Removed(t, nx, pv, nx2, pv2) ==
  /\ nx2 = [nx EXCEPT ![pv[t]] = nx[t]]
  /\ pv2 = [pv EXCEPT ![nx[t]] = pv[t]]

-----------------------------------------------------------------------------
(* The inductive invariant.                                               *)

(* Without a task there is no alarm, and no interrupt.                    *)
IdleOK ==
  /\ Added = {} => alarm = NULL /\ irq = "none"
  /\ locked => ~Running
  /\ irq = "none" => waited = 0
  /\ ordered /\ irq # "none" => alarm = NULL /\ irq # "again"

RingOK ==
  IF PeriodicScheduleRoot = NULL THEN Added = {}
  ELSE Ring(Added, next, prev, PeriodicScheduleRoot)

(* The first task is not due yet, or it has been due since its alarm.     *)
Punctual ==
  ordered /\ Apart /\ ~locked /\ Added # {} =>
    LET due == sched_time[PeriodicScheduleRoot]
    IN IF irq = "none" THEN now < due ELSE now = due + waited

PeriodicInv == PeriodicTypeOK /\ IdleOK /\ RingOK /\ FirstIsRoot

(* A task's handler ends before the task is due again.                    *)
ShortTasks == \A t \in Tasks : Delay < period[t]

-----------------------------------------------------------------------------
(* Rings.                                                                 *)

LEMMA InsertValues ==
  ASSUME NEW nx \in Links, NEW pv \in Links, NEW t \in Tasks, NEW p \in Tasks,
         pv[p] \in Tasks, t # p, t # pv[p], NEW nx2, NEW pv2,
         Inserted(t, p, nx, pv, nx2, pv2)
  PROVE  /\ nx2 \in Links /\ nx2[t] = p /\ nx2[pv[p]] = t
         /\ \A s \in Tasks : s # t /\ s # pv[p] => nx2[s] = nx[s]
         /\ pv2 \in Links /\ pv2[t] = pv[p] /\ pv2[p] = t
         /\ \A s \in Tasks : s # t /\ s # p => pv2[s] = pv[s]
<1>1. nx2 = [nx EXCEPT ![t] = p, ![pv[p]] = t] /\ pv2 = [pv EXCEPT ![t] = pv[p], ![p] = t]
  BY DEF Inserted
<1>2. /\ nx2 \in Links /\ nx2[t] = p /\ nx2[pv[p]] = t
      /\ \A s \in Tasks : s # t /\ s # pv[p] => nx2[s] = nx[s]
  BY <1>1 DEF Links
<1>3. /\ pv2 \in Links /\ pv2[t] = pv[p] /\ pv2[p] = t
      /\ \A s \in Tasks : s # t /\ s # p => pv2[s] = pv[s]
  BY <1>1 DEF Links
<1> QED BY <1>2, <1>3

(* A task that is linked in before one of the ring belongs to it.         *)
LEMMA InsertRing ==
  ASSUME NEW A \in SUBSET Tasks, NEW nx \in Links, NEW pv \in Links,
         NEW t \in Tasks \ A, NEW p \in A, NEW root, NEW nx2, NEW pv2,
         Ring(A, nx, pv, root), Inserted(t, p, nx, pv, nx2, pv2)
  PROVE  Ring(A \cup {t}, nx2, pv2, root)
<1> DEFINE q == pv[p]
           B == A \cup {t}
<1>1. p \in Tasks /\ q \in A /\ nx[q] = p /\ t # p /\ t # q /\ root \in A
  BY DEF Ring, Mutual
<1>2. Mutual(A, nx, pv) /\ Spans(A, nx, root)
  BY DEF Ring
<1>3. /\ nx2[t] = p /\ nx2[q] = t
      /\ \A s \in Tasks : s # t /\ s # q => nx2[s] = nx[s]
      /\ pv2[t] = q /\ pv2[p] = t
      /\ \A s \in Tasks : s # t /\ s # p => pv2[s] = pv[s]
  BY <1>1, InsertValues
<1> HIDE DEF q
<1>4. ASSUME NEW s \in B
      PROVE  nx2[s] \in B /\ pv2[nx2[s]] = s /\ pv2[s] \in B /\ nx2[pv2[s]] = s
  <2>1. nx2[s] \in B /\ pv2[nx2[s]] = s
    <3>1. CASE s = t
      BY <3>1, <1>1, <1>3
    <3>2. CASE s = q
      BY <3>2, <1>1, <1>3
    <3>3. CASE s # t /\ s # q
      <4>1. nx2[s] = nx[s] /\ nx[s] \in A /\ pv[nx[s]] = s
        BY <3>3, <1>2, <1>3 DEF Mutual
      <4>2. nx[s] # p
        BY <4>1, <3>3 DEF q
      <4> QED BY <4>1, <4>2, <1>3
    <3> QED BY <3>1, <3>2, <3>3
  <2>2. pv2[s] \in B /\ nx2[pv2[s]] = s
    <3>1. CASE s = t
      BY <3>1, <1>1, <1>3
    <3>2. CASE s = p
      BY <3>2, <1>1, <1>3
    <3>3. CASE s # t /\ s # p
      <4>1. pv2[s] = pv[s] /\ pv[s] \in A /\ nx[pv[s]] = s
        BY <3>3, <1>2, <1>3 DEF Mutual
      <4>2. pv[s] # q
        BY <4>1, <3>3, <1>1
      <4> QED BY <4>1, <4>2, <1>3
    <3> QED BY <3>1, <3>2, <3>3
  <2> QED BY <2>1, <2>2
<1>5. ASSUME NEW S \in SUBSET B, root \in S, \A s \in S : nx2[s] \in S
      PROVE  S = B
  <2> DEFINE R == S \cap A
  <2>1. ASSUME NEW s \in R PROVE nx[s] \in R
    <3>1. nx[s] \in A /\ s # t
      BY <1>2 DEF Mutual
    <3>2. CASE s = q
      BY <3>2, <1>1, <1>3, <1>5
    <3>3. CASE s # q
      BY <3>1, <3>3, <1>3, <1>5
    <3> QED BY <3>2, <3>3
  <2>2. R = A
    <3>1. R \in SUBSET A /\ root \in R
      BY <1>1, <1>5
    <3> QED BY <3>1, <2>1, <1>2 DEF Spans
  <2>3. t \in S
    BY <2>2, <1>1, <1>3, <1>5
  <2> QED BY <2>2, <2>3
<1>6. root \in B /\ Mutual(B, nx2, pv2)
  BY <1>1, <1>4 DEF Mutual
<1>7. Spans(B, nx2, root)
  BY <1>5 DEF Spans
<1> QED BY <1>6, <1>7 DEF Ring

LEMMA RemoveValues ==
  ASSUME NEW nx \in Links, NEW pv \in Links, NEW t \in Tasks,
         nx[t] \in Tasks, pv[t] \in Tasks, NEW nx2, NEW pv2,
         Removed(t, nx, pv, nx2, pv2)
  PROVE  /\ nx2 \in Links /\ nx2[pv[t]] = nx[t]
         /\ \A s \in Tasks : s # pv[t] => nx2[s] = nx[s]
         /\ pv2 \in Links /\ pv2[nx[t]] = pv[t]
         /\ \A s \in Tasks : s # nx[t] => pv2[s] = pv[s]
BY DEF Removed, Links

(* When the first of several is taken out, the others are a ring that     *)
(* begins with the one after it.                                          *)
LEMMA RemoveRing ==
  ASSUME NEW A \in SUBSET Tasks, NEW nx \in Links, NEW pv \in Links,
         NEW t \in A, nx[t] # t, NEW nx2, NEW pv2,
         Ring(A, nx, pv, t), Removed(t, nx, pv, nx2, pv2)
  PROVE  Ring(A \ {t}, nx2, pv2, nx[t])
<1> DEFINE n == nx[t]
           q == pv[t]
           B == A \ {t}
<1>1. Mutual(A, nx, pv) /\ Spans(A, nx, t)
  BY DEF Ring
<1>2. n \in B /\ q \in B /\ pv[n] = t /\ nx[q] = t
  BY <1>1 DEF Mutual
<1>3. /\ nx2[q] = n /\ \A s \in Tasks : s # q => nx2[s] = nx[s]
      /\ pv2[n] = q /\ \A s \in Tasks : s # n => pv2[s] = pv[s]
  BY <1>2, RemoveValues
<1> HIDE DEF n, q
<1>4. ASSUME NEW s \in B
      PROVE  nx2[s] \in B /\ pv2[nx2[s]] = s /\ pv2[s] \in B /\ nx2[pv2[s]] = s
  <2>1. nx2[s] \in B /\ pv2[nx2[s]] = s
    <3>1. CASE s = q
      BY <3>1, <1>2, <1>3
    <3>2. CASE s # q
      <4>1. nx2[s] = nx[s] /\ nx[s] \in A /\ pv[nx[s]] = s
        BY <3>2, <1>1, <1>3 DEF Mutual
      <4>2. nx[s] # t /\ nx[s] # n
        BY <4>1, <3>2, <1>2 DEF q
      <4> QED BY <4>1, <4>2, <1>3
    <3> QED BY <3>1, <3>2
  <2>2. pv2[s] \in B /\ nx2[pv2[s]] = s
    <3>1. CASE s = n
      BY <3>1, <1>2, <1>3
    <3>2. CASE s # n
      <4>1. pv2[s] = pv[s] /\ pv[s] \in A /\ nx[pv[s]] = s
        BY <3>2, <1>1, <1>3 DEF Mutual
      <4>2. pv[s] # t /\ pv[s] # q
        BY <4>1, <3>2, <1>2 DEF n
      <4> QED BY <4>1, <4>2, <1>3
    <3> QED BY <3>1, <3>2
  <2> QED BY <2>1, <2>2
<1>5. ASSUME NEW S \in SUBSET B, n \in S, \A s \in S : nx2[s] \in S
      PROVE  S = B
  <2> DEFINE R == S \cup {t}
  <2>1. ASSUME NEW s \in R PROVE nx[s] \in R
    <3>1. CASE s = t
      BY <3>1, <1>5 DEF n
    <3>2. CASE s = q
      BY <3>2, <1>2
    <3>3. CASE s # t /\ s # q
      BY <3>3, <1>3, <1>5
    <3> QED BY <3>1, <3>2, <3>3
  <2>2. R = A
    <3>1. R \in SUBSET A /\ t \in R
      OBVIOUS
    <3> QED BY <3>1, <2>1, <1>1 DEF Spans
  <2> QED BY <2>2
<1>6. n \in B /\ Mutual(B, nx2, pv2)
  BY <1>2, <1>4 DEF Mutual
<1>7. Spans(B, nx2, n)
  BY <1>5 DEF Spans
<1>8. Ring(B, nx2, pv2, n)
  BY <1>6, <1>7 DEF Ring
<1> QED BY <1>8 DEF n

(* The first task of a sorted ring is due first.                          *)
LEMMA RootIsFirst ==
  ASSUME NEW A \in SUBSET Tasks, NEW nx, NEW pv, NEW root, NEW sched \in [Tasks -> Nat],
         Ring(A, nx, pv, root), InOrder(A, nx, sched, root)
  PROVE  \A s \in A : sched[root] <= sched[s]
<1> DEFINE S == {s \in A : sched[root] <= sched[s]}
<1>1. root \in A /\ Mutual(A, nx, pv) /\ Spans(A, nx, root)
  BY DEF Ring
<1>2. root \in S
  BY <1>1
<1>3. ASSUME NEW s \in S PROVE nx[s] \in S
  <2>1. nx[s] \in A
    BY <1>1 DEF Mutual
  <2>2. CASE nx[s] = root
    BY <2>2, <1>2
  <2>3. CASE nx[s] # root
    <3>1. sched[s] <= sched[nx[s]]
      BY <2>3 DEF InOrder
    <3> QED BY <2>1, <3>1, <1>1
  <2> QED BY <2>2, <2>3
<1>4. S = A
  BY <1>1, <1>2, <1>3 DEF Spans
<1> QED BY <1>4

-----------------------------------------------------------------------------
(* The search for the place of a task.                                    *)

(* The tasks it visits: those in every set that has the one after the     *)
(* root, and that it does not leave before it stops.                      *)
VisitsStay(X, time, root, nx) ==
  nx[root] \in X /\ \A m \in X : ~Stops(m, time, root) => nx[m] \in X

LEMMA VisitedIs ==
  ASSUME NEW nx, NEW root, NEW time
  PROVE  Visited(time, root, nx)
           = {n \in Tasks : \A X \in SUBSET Tasks : VisitsStay(X, time, root, nx) => n \in X}
BY DEF Visited, VisitsStay

LEMMA VisitsStayInRing ==
  ASSUME NEW A \in SUBSET Tasks, NEW nx \in Links, NEW pv \in Links, NEW root,
         Ring(A, nx, pv, root), NEW time
  PROVE  Visited(time, root, nx) \subseteq A /\ VisitsStay(Visited(time, root, nx), time, root, nx)
<1> DEFINE V == Visited(time, root, nx)
<1>1. root \in A /\ Mutual(A, nx, pv)
  BY DEF Ring
<1>2. VisitsStay(A, time, root, nx)
  BY <1>1 DEF Mutual, VisitsStay
<1>3. V \subseteq A
  BY <1>2, VisitedIs
<1>4. ASSUME NEW X \in SUBSET Tasks, VisitsStay(X, time, root, nx)
      PROVE  nx[root] \in X /\ \A m \in V : ~Stops(m, time, root) => nx[m] \in X
  <2>1. V \subseteq X
    BY <1>4, VisitedIs
  <2> QED BY <1>4, <2>1 DEF VisitsStay
<1>5. nx[root] \in V
  BY <1>1, <1>4, VisitedIs DEF Mutual
<1>6. ASSUME NEW m \in V, ~Stops(m, time, root) PROVE nx[m] \in V
  <2>1. nx[m] \in Tasks
    BY <1>1, <1>3 DEF Mutual
  <2>2. \A X \in SUBSET Tasks : VisitsStay(X, time, root, nx) => nx[m] \in X
    BY <1>4, <1>6
  <2> QED BY <2>1, <2>2, VisitedIs
<1> HIDE DEF V
<1>7. VisitsStay(V, time, root, nx)
  BY <1>5, <1>6 DEF VisitsStay
<1> QED BY <1>3, <1>7 DEF V

(* The search stops, and did not stop at the task before.                 *)
LEMMA PositionIs ==
  ASSUME NEW A \in SUBSET Tasks, NEW nx \in Links, NEW pv \in Links, NEW root,
         Ring(A, nx, pv, root), NEW time
  PROVE  LET p == Position(time, root, nx)
         IN p \in A /\ Stops(p, time, root) /\ (pv[p] = root \/ ~Stops(pv[p], time, root))
<1> DEFINE V == Visited(time, root, nx)
           p == Position(time, root, nx)
<1>1. root \in A /\ Mutual(A, nx, pv) /\ Spans(A, nx, root)
  BY DEF Ring
<1>2. V \subseteq A /\ VisitsStay(V, time, root, nx)
  BY VisitsStayInRing
<1>3. \E n \in V : Stops(n, time, root)
  <2> SUFFICES ASSUME \A n \in V : ~Stops(n, time, root)
               PROVE  FALSE
    OBVIOUS
  <2> HIDE DEF V
  <2>1. nx[root] \in V /\ \A m \in V : nx[m] \in V
    BY <1>2 DEF VisitsStay
  <2>2. V \cup {root} = A
    <3> DEFINE S == V \cup {root}
    <3>1. S \in SUBSET A /\ root \in S
      BY <1>1, <1>2
    <3>2. \A s \in S : nx[s] \in S
      BY <2>1
    <3> HIDE DEF S
    <3>3. S = A
      BY <3>1, <3>2, <1>1 DEF Spans
    <3> QED BY <3>3 DEF S
  <2>3. pv[root] \in A /\ nx[pv[root]] = root
    BY <1>1 DEF Mutual
  <2>4. root \in V
    BY <2>1, <2>2, <2>3
  <2> QED BY <2>4 DEF Stops
<1>4. p \in V /\ Stops(p, time, root)
  BY <1>3 DEF Position
<1>5. ASSUME pv[p] # root, Stops(pv[p], time, root)
      PROVE  FALSE
  <2> DEFINE X == V \ {p}
  <2> HIDE DEF V, p
  <2>1. p \in A /\ nx[pv[p]] = p /\ pv[nx[root]] = root
    BY <1>1, <1>2, <1>4 DEF Mutual
  <2>2. nx[root] \in X
    BY <2>1, <1>2, <1>5 DEF VisitsStay
  <2>3. ASSUME NEW m \in X, ~Stops(m, time, root) PROVE nx[m] \in X
    <3>1. nx[m] \in V
      BY <2>3, <1>2 DEF VisitsStay
    <3>2. nx[m] # p
      BY <2>3, <1>1, <1>2, <1>5 DEF Mutual
    <3> QED BY <3>1, <3>2
  <2> HIDE DEF X
  <2>4. VisitsStay(X, time, root, nx)
    BY <2>2, <2>3 DEF VisitsStay
  <2>5. X \in SUBSET Tasks
    BY <1>2 DEF X
  <2>6. p \in X
    BY <1>4, <2>4, <2>5, VisitedIs DEF V
  <2> QED BY <2>6 DEF X
<1> QED BY <1>2, <1>4, <1>5

(* A task inserted at its place leaves the ring sorted, unless it is due  *)
(* before the first.                                                      *)
LEMMA InsertInOrder ==
  ASSUME NEW A \in SUBSET Tasks, NEW nx \in Links, NEW pv \in Links, NEW root,
         NEW t \in Tasks \ A, NEW nx2, NEW pv2, NEW sched \in [Tasks -> Nat],
         NEW time \in Nat, sched_time \in [Tasks -> Nat],
         \A s \in A : sched[s] = sched_time[s], sched[t] = time,
         Ring(A, nx, pv, root), InOrder(A, nx, sched, root), sched[root] <= time,
         Inserted(t, Position(time, root, nx), nx, pv, nx2, pv2)
  PROVE  InOrder(A \cup {t}, nx2, sched, root)
<1> DEFINE p == Position(time, root, nx)
           q == pv[p]
<1>1. root \in A /\ Mutual(A, nx, pv)
  BY DEF Ring
<1>2. p \in A /\ Stops(p, time, root) /\ (q = root \/ ~Stops(q, time, root))
  BY PositionIs
<1>3. q \in A /\ nx[q] = p /\ t # p /\ t # q
  BY <1>1, <1>2 DEF Mutual
<1>4. /\ nx2[t] = p /\ nx2[q] = t
      /\ \A s \in Tasks : s # t /\ s # q => nx2[s] = nx[s]
  BY <1>2, <1>3, InsertValues
<1> HIDE DEF p, q
<1>5. ASSUME NEW s \in A \cup {t}, nx2[s] # root PROVE sched[s] <= sched[nx2[s]]
  <2>1. CASE s = t
    BY <2>1, <1>2, <1>4, <1>5 DEF Stops
  <2>2. CASE s = q
    <3>1. sched[q] <= time
      BY <1>2, <1>3 DEF Stops
    <3> QED BY <2>2, <3>1, <1>4
  <2>3. CASE s # t /\ s # q
    BY <2>3, <1>4, <1>5 DEF InOrder
  <2> QED BY <2>1, <2>2, <2>3
<1> QED BY <1>5 DEF InOrder

-----------------------------------------------------------------------------
(* The steps of the queue.                                                *)

LEMMA DueIs ==
  ASSUME NEW time \in Times, NEW t \in Tasks
  PROVE  Due(time, t) \in Times /\ Due(time, t) \in Nat
BY PeriodicAssumption DEF Due, Times

LEMMA NullIsNot == NULL \notin Tasks /\ NULL \notin Times
BY PeriodicAssumption

LEMMA RootIsAdded ==
  ASSUME PeriodicInv
  PROVE  /\ PeriodicScheduleRoot # NULL <=> Added # {}
         /\ PeriodicScheduleRoot # NULL =>
              /\ PeriodicScheduleRoot \in Added
              /\ Ring(Added, next, prev, PeriodicScheduleRoot)
         /\ next \in Links /\ prev \in Links /\ Added \in SUBSET Tasks
         /\ sched_time \in [Tasks -> Nat]
BY DEF PeriodicInv, PeriodicTypeOK, RingOK, Ring, Links, Added, Times

LEMMA OrderIs ==
  FirstIsRoot <=>
    (ordered => /\ InOrder(Added, next, sched_time, PeriodicScheduleRoot)
                /\ (irq = "none" /\ Added # {} => alarm = sched_time[PeriodicScheduleRoot]))
BY DEF FirstIsRoot, InOrder

(* The first task of all.                                                 *)
LEMMA AddFirst ==
  ASSUME PeriodicInv, NEW t \in Tasks, PeriodicScheduleRoot = NULL, AddPeriodicTask(t)
  PROVE  PeriodicInv' /\ Added' = {t} /\ PeriodicScheduleRoot' = t
           /\ sched_time'[t] = Due(now, t)
<1> DEFINE due == Due(now, t)
<1>1. PeriodicTypeOK /\ IdleOK /\ now \in Times /\ Added = {} /\ NULL \notin Tasks
  BY RootIsAdded, NullIsNot DEF PeriodicInv, PeriodicTypeOK
<1>2. due \in Times
  BY <1>1, DueIs
<1>3. /\ next' = [next EXCEPT ![t] = t] /\ prev' = [prev EXCEPT ![t] = t]
      /\ PeriodicScheduleRoot' = t /\ alarm' = due
      /\ sched_time' = [sched_time EXCEPT ![t] = due]
      /\ ordered' = (ordered /\ ~FALSE /\ due > now)
      /\ UNCHANGED <<irq, now, waited, locked>>
  BY <1>1 DEF AddPeriodicTask, arm_timer
<1> HIDE DEF due
<1>4. PeriodicTypeOK'
  BY <1>1, <1>2, <1>3 DEF PeriodicTypeOK
<1>5. next'[t] = t /\ prev'[t] = t /\ sched_time'[t] = due
  BY <1>1, <1>3 DEF PeriodicTypeOK
<1>6. Added' = {t}
  BY <1>1, <1>3 DEF PeriodicTypeOK, Added
<1>7. IdleOK'
  <2>1. ~Running /\ Running' = Running
    BY <1>3 DEF AddPeriodicTask, Free, Running
  <2>2. irq = "none"
    BY <1>1 DEF IdleOK
  <2> QED BY <1>1, <1>3, <1>6, <2>1, <2>2 DEF IdleOK
<1>8. Ring(Added', next', prev', t)
  BY <1>5, <1>6 DEF Ring, Mutual, Spans
<1>9. RingOK'
  BY <1>1, <1>3, <1>8 DEF RingOK
<1>10. FirstIsRoot'
  BY <1>3, <1>5, <1>6 DEF FirstIsRoot
<1> QED BY <1>3, <1>4, <1>5, <1>6, <1>7, <1>9, <1>10 DEF PeriodicInv, due

(* Which tasks have been added, after one was linked in.                  *)
Covers(nx, A) == \A s \in Tasks : nx[s] # NULL <=> s \in A

CoversExcept(nx, A, t) == \A s \in Tasks : s \notin A /\ s # t => nx[s] = NULL

LEMMA AddedInserted ==
  ASSUME NEW A \in SUBSET Tasks, NEW nx \in Links, NEW pv \in Links, NEW root,
         NEW t \in Tasks \ A, NEW p \in A, NEW nx2, NEW pv2,
         Ring(A, nx, pv, root), Inserted(t, p, nx, pv, nx2, pv2),
         CoversExcept(nx, A, t)
  PROVE  Covers(nx2, A \cup {t})
<1>1. Mutual(A, nx, pv)
  BY DEF Ring
<1>2. pv[p] \in A /\ t # p /\ t # pv[p]
  BY <1>1 DEF Mutual
<1>3. /\ nx2[t] = p /\ nx2[pv[p]] = t
      /\ \A s \in Tasks : s # t /\ s # pv[p] => nx2[s] = nx[s]
  BY <1>2, InsertValues
<1>4. ASSUME NEW s \in Tasks PROVE nx2[s] # NULL <=> s \in A \cup {t}
  <2>1. CASE s = t
    BY <2>1, <1>3, NullIsNot
  <2>2. CASE s = pv[p]
    BY <2>2, <1>2, <1>3, NullIsNot
  <2>3. CASE s # t /\ s # pv[p]
    <3>1. nx2[s] = nx[s]
      BY <2>3, <1>3
    <3>2. s \in A => nx[s] \in Tasks
      BY <1>1 DEF Mutual
    <3> QED BY <2>3, <3>1, <3>2, NullIsNot DEF CoversExcept
  <2> QED BY <2>1, <2>2, <2>3
<1> QED BY <1>4 DEF Covers

(* A further task.                                                        *)
LEMMA AddFurther ==
  ASSUME PeriodicInv, NEW t \in Tasks, PeriodicScheduleRoot # NULL, AddPeriodicTask(t)
  PROVE  /\ PeriodicInv' /\ Added' = Added \cup {t}
         /\ UNCHANGED PeriodicScheduleRoot
         /\ sched_time' = [sched_time EXCEPT ![t] = Due(now, t)]
<1> DEFINE due == Due(now, t)
           root == PeriodicScheduleRoot
           early == due < sched_time[root]
           p == IF early THEN root ELSE Position(due, root, next)
<1>1. /\ PeriodicTypeOK /\ IdleOK /\ FirstIsRoot /\ now \in Times
      /\ root \in Added /\ Ring(Added, next, prev, root) /\ t \in Tasks \ Added
      /\ next \in Links /\ prev \in Links /\ Added \in SUBSET Tasks
      /\ sched_time \in [Tasks -> Nat]
  BY RootIsAdded DEF PeriodicInv, PeriodicTypeOK, AddPeriodicTask
<1>2. due \in Times /\ due \in Nat
  BY <1>1, DueIs
<1>3. /\ sched_time' = [sched_time EXCEPT ![t] = due]
      /\ Inserted(t, p, next, prev, next', prev')
      /\ root' = root
      /\ alarm' = IF early THEN due ELSE alarm
      /\ ordered' = (ordered /\ ~early /\ due > now)
      /\ UNCHANGED <<irq, now, waited, locked>>
  BY DEF AddPeriodicTask, arm_timer, InsertBefore, Inserted
<1>4. p \in Added
  <2>1. Position(due, root, next) \in Added
    BY <1>1, PositionIs
  <2> QED BY <1>1, <2>1
<1>5. ASSUME ~early PROVE p = Position(due, root, next)
  BY <1>5
<1>6. early \in BOOLEAN
  OBVIOUS
<1> HIDE DEF p
<1>7. prev[p] \in Added
  BY <1>1, <1>4 DEF Ring, Mutual
<1>8. next' \in Links /\ prev' \in Links
  <2>1. p \in Tasks /\ prev[p] \in Tasks /\ t # p /\ t # prev[p]
    BY <1>1, <1>4, <1>7
  <2> QED BY <1>1, <1>3, <2>1, InsertValues
<1>9. CoversExcept(next, Added, t)
  BY DEF Added, CoversExcept
<1>10. Covers(next', Added \cup {t})
  BY <1>1, <1>3, <1>4, <1>9, AddedInserted
<1>11. Added' = Added \cup {t}
  BY <1>1, <1>10 DEF Added, Covers
<1>12. Ring(Added \cup {t}, next', prev', root)
  BY <1>1, <1>3, <1>4, InsertRing
<1>13. root # NULL
  OBVIOUS
<1> HIDE DEF due, early, root
<1>14. PeriodicTypeOK'
  BY <1>1, <1>2, <1>3, <1>6, <1>8 DEF PeriodicTypeOK, Links, root
<1>15. IdleOK'
  <2>1. ~Running' /\ Running' = Running
    BY <1>3 DEF AddPeriodicTask, Free, Running
  <2>2. ordered' => ordered /\ alarm' = alarm
    BY <1>3
  <2>3. Added # {}
    BY <1>1
  <2> QED BY <1>1, <1>3, <1>11, <2>1, <2>2, <2>3 DEF IdleOK
<1>16. RingOK'
  BY <1>3, <1>11, <1>12, <1>13 DEF RingOK, root
<1>17. ASSUME ordered'
       PROVE  InOrder(Added', next', sched_time', root') /\
              (irq' = "none" => alarm' = sched_time'[root'])
  <2>1. ordered /\ ~early
    BY <1>3, <1>17
  <2>2. InOrder(Added, next, sched_time, root)
    BY <1>1, <2>1, OrderIs DEF root
  <2>3. sched_time[root] <= due
    BY <1>1, <1>2, <2>1 DEF early
  <2> DEFINE sched == sched_time'
  <2>4. /\ sched \in [Tasks -> Nat] /\ sched[t] = due
        /\ \A s \in Added : sched[s] = sched_time[s]
    BY <1>1, <1>2, <1>3
  <2> HIDE DEF sched
  <2>5. InOrder(Added, next, sched, root)
    BY <2>2, <2>4, <1>1 DEF InOrder, Ring, Mutual
  <2>6. sched[root] <= due
    BY <2>3, <2>4, <1>1
  <2>7. Inserted(t, Position(due, root, next), next, prev, next', prev')
    BY <1>3, <1>5, <2>1
  <2>8. InOrder(Added \cup {t}, next', sched, root)
    BY <1>1, <1>2, <2>4, <2>5, <2>6, <2>7, InsertInOrder
  <2>9. irq' = "none" => alarm' = sched[root]
    BY <1>1, <1>3, <2>1, <2>4 DEF FirstIsRoot, root
  <2> QED BY <1>3, <1>11, <2>8, <2>9 DEF sched
<1>18. FirstIsRoot'
  BY <1>17 DEF FirstIsRoot, InOrder, root
<1> QED BY <1>1, <1>3, <1>11, <1>14, <1>15, <1>16, <1>18 DEF PeriodicInv, root, due

(* The first task has run: it is moved, or stays the first.               *)
LEMMA RunRing ==
  ASSUME PeriodicInv, ScheduleBackground
  PROVE  LET t == PeriodicScheduleRoot
             due == Due(sched_time[t], t)
         IN /\ t \in Added /\ PeriodicScheduleRoot' \in Added /\ Added' = Added
            /\ next' \in Links /\ prev' \in Links
            /\ sched_time' = [sched_time EXCEPT ![t] = due]
            /\ Ring(Added, next', prev', PeriodicScheduleRoot')
            /\ InOrder(Added, next, sched_time, t)
                 => InOrder(Added, next', sched_time', PeriodicScheduleRoot')
<1> DEFINE t == PeriodicScheduleRoot
           due == Due(sched_time[t], t)
           n == next[t]
           nx == [next EXCEPT ![prev[t]] = n]
           pv == [prev EXCEPT ![n] = prev[t]]
           p == Position(due, n, nx)
           sched == [sched_time EXCEPT ![t] = due]
           B == Added \ {t}
<1>1. Added # {}
  BY DEF ScheduleBackground, PeriodicInv, IdleOK, Running
<1>2. /\ t \in Added /\ Ring(Added, next, prev, t) /\ next \in Links /\ prev \in Links
      /\ Added \in SUBSET Tasks /\ sched_time \in [Tasks -> Nat]
      /\ sched_time \in [Tasks -> Times]
  BY <1>1, RootIsAdded DEF PeriodicInv, PeriodicTypeOK
<1>3. due \in Nat
  BY <1>2, DueIs
<1>4. sched \in [Tasks -> Nat] /\ sched[t] = due /\ \A s \in B : sched[s] = sched_time[s]
  BY <1>2, <1>3
<1>5. sched_time' = sched
  BY DEF ScheduleBackground
<1>6. \/ /\ sched[t] > sched[n] /\ t' = n
         /\ Inserted(t, p, nx, pv, next', prev')
      \/ /\ ~(sched[t] > sched[n]) /\ t' = t /\ next' = next /\ prev' = prev
  BY DEF ScheduleBackground, MustMove, InsertBefore, Inserted
<1>7. n \in Added /\ prev[t] \in Added
  BY <1>2 DEF Ring, Mutual
<1>8. Removed(t, next, prev, nx, pv)
  BY DEF Removed
<1> HIDE DEF nx, pv, sched
<1>9. CASE ~(sched[t] > sched[n]) /\ t' = t /\ next' = next /\ prev' = prev
  <2>1. Added' = Added
    BY <1>9 DEF Added
  <2>2. ASSUME InOrder(Added, next, sched_time, t), NEW s \in Added, next[s] # t
        PROVE  sched[s] <= sched[next[s]]
    <3>1. CASE s = t
      BY <3>1, <1>2, <1>4, <1>7, <1>9
    <3>2. CASE s # t
      <4>1. next[s] \in B /\ s \in B
        BY <3>2, <2>2, <1>2 DEF Ring, Mutual
      <4>2. sched_time[s] <= sched_time[next[s]]
        BY <2>2 DEF InOrder
      <4> QED BY <4>1, <4>2, <1>4
    <3> QED BY <3>1, <3>2
  <2>3. InOrder(Added, next, sched_time, t) => InOrder(Added, next, sched, t)
    BY <2>2 DEF InOrder
  <2> QED BY <1>2, <1>5, <1>9, <2>1, <2>3 DEF sched
<1>10. CASE /\ sched[t] > sched[n] /\ t' = n
            /\ Inserted(t, p, nx, pv, next', prev')
  <2>1. n # t
    <3> HIDE DEF n, t
    <3> QED BY <1>3, <1>4, <1>10
  <2> HIDE DEF n
  <2>2. /\ nx \in Links /\ nx[prev[t]] = n
        /\ \A s \in Tasks : s # prev[t] => nx[s] = next[s]
        /\ pv \in Links
    <3>1. n = next[t]
      BY DEF n
    <3>2. t \in Tasks /\ next[t] \in Tasks /\ prev[t] \in Tasks
      BY <3>1, <1>2, <1>7
    <3> QED BY <3>1, <3>2, <1>2, <1>8, RemoveValues
  <2>3. Ring(B, nx, pv, n)
    BY <1>2, <1>8, <2>1, RemoveRing DEF n
  <2> HIDE DEF B
  <2>4. B \in SUBSET Tasks /\ t \in Tasks \ B /\ Added = B \cup {t} /\ n \in B
    BY <1>2, <1>7, <2>1 DEF B
  <2>5. p \in B
    <3>1. Position(due, n, nx) \in B
      BY <2>2, <2>3, <2>4, PositionIs
    <3> QED BY <3>1
  <2> HIDE DEF p
  <2>6. pv[p] \in B
    BY <2>3, <2>5 DEF Ring, Mutual
  <2>7. next' \in Links /\ prev' \in Links
    <3>1. p \in Tasks /\ pv[p] \in Tasks /\ t \in Tasks /\ t # p /\ t # pv[p]
      BY <2>4, <2>5, <2>6
    <3> QED BY <3>1, <1>10, <2>2, InsertValues
  <2>8. Ring(Added, next', prev', n)
    <3>1. Ring(B \cup {t}, next', prev', n)
      BY <1>10, <2>2, <2>3, <2>4, <2>5, InsertRing
    <3> QED BY <3>1, <2>4
  <2>9. CoversExcept(nx, B, t)
    BY <1>7, <2>2, <2>4 DEF CoversExcept, Added
  <2>10. Covers(next', B \cup {t})
    BY <1>10, <2>2, <2>3, <2>4, <2>5, <2>9, AddedInserted
  <2>11. Added' = Added
    BY <2>4, <2>10 DEF Added, Covers
  <2>12. ASSUME InOrder(Added, next, sched_time, t)
         PROVE  InOrder(Added, next', sched, n)
    <3>1. ASSUME NEW s \in B, nx[s] # n PROVE sched[s] <= sched[nx[s]]
      <4>1. s # prev[t] /\ nx[s] = next[s] /\ nx[s] \in B
        BY <3>1, <2>2, <2>3, <2>4 DEF Ring, Mutual
      <4>2. next[s] # t
        BY <4>1, <2>4
      <4>3. sched_time[s] <= sched_time[next[s]]
        BY <4>2, <2>4, <2>12 DEF InOrder
      <4> QED BY <4>1, <4>3, <1>4 DEF B
    <3>2. InOrder(B, nx, sched, n)
      BY <3>1 DEF InOrder
    <3>3. sched[n] <= due /\ \A s \in B : sched[s] = sched_time[s]
      BY <1>2, <1>4, <1>7, <1>10 DEF B
    <3>4. Inserted(t, Position(due, n, nx), nx, pv, next', prev')
      BY <1>10 DEF p
    <3> HIDE DEF due
    <3>5. InOrder(B \cup {t}, next', sched, n)
      BY <1>2, <1>3, <1>4, <2>2, <2>3, <2>4, <3>2, <3>3, <3>4, InsertInOrder
    <3> QED BY <3>5, <2>4
  <2> QED BY <1>2, <1>5, <1>7, <1>10, <2>7, <2>8, <2>11, <2>12 DEF sched, n
<1> QED BY <1>6, <1>9, <1>10

LEMMA RunKeeps ==
  ASSUME PeriodicInv, ScheduleBackground
  PROVE  PeriodicInv'
<1> DEFINE t == PeriodicScheduleRoot
           due == Due(sched_time[t], t)
<1>1. /\ t \in Added /\ t' \in Added /\ Added' = Added
      /\ next' \in Links /\ prev' \in Links
      /\ sched_time' = [sched_time EXCEPT ![t] = due]
      /\ Ring(Added, next', prev', t')
      /\ InOrder(Added, next, sched_time, t) => InOrder(Added, next', sched_time', t')
  BY RunRing
<1>2. /\ PeriodicTypeOK /\ IdleOK /\ FirstIsRoot /\ Added \in SUBSET Tasks
  BY RootIsAdded DEF PeriodicInv
<1>3. due \in Times
  BY <1>1, <1>2, DueIs DEF PeriodicTypeOK
<1>4. /\ alarm' = sched_time'[t'] /\ irq' = (IF irq = "again" THEN "pending" ELSE "none") /\ waited' = 0
      /\ ordered' = (ordered /\ due > sched_time[t])
      /\ UNCHANGED <<now, locked>>
  BY DEF ScheduleBackground, arm_timer
<1>5. sched_time' \in [Tasks -> Times]
  BY <1>1, <1>2, <1>3 DEF PeriodicTypeOK
<1> HIDE DEF t, due
<1>6. PeriodicTypeOK'
  BY <1>1, <1>2, <1>4, <1>5, PeriodicAssumption DEF PeriodicTypeOK, Links, t
<1>7. IdleOK'
  <2>1. Added # {} /\ ~locked /\ ~Running'
    BY <1>1, <1>2, <1>4 DEF ScheduleBackground, IdleOK, Running
  <2>2. ordered' => irq' = "none"
    <3>1. ordered' => ordered /\ irq \in {"running", "again"}
      BY <1>4 DEF ScheduleBackground, Running
    <3> QED BY <3>1, <1>2, <1>4 DEF IdleOK
  <2> QED BY <1>1, <1>4, <2>1, <2>2 DEF IdleOK
<1>8. RingOK'
  BY <1>1, <1>2, NullIsNot DEF RingOK, t
<1>9. FirstIsRoot'
  <2>1. ordered' => InOrder(Added, next', sched_time', t')
    BY <1>1, <1>2, <1>4, OrderIs DEF t
  <2> QED BY <2>1, <1>1, <1>4 DEF FirstIsRoot, InOrder, t
<1> QED BY <1>6, <1>7, <1>8, <1>9 DEF PeriodicInv

(* The steps of the interrupt and of the timer do not touch the queue.    *)
LEMMA QueueUnchanged ==
  ASSUME PeriodicInv, UNCHANGED queue
  PROVE  RingOK' /\ Added' = Added
<1>1. Added' = Added
  BY DEF Added, queue
<1> QED BY <1>1 DEF PeriodicInv, RingOK, queue

LEMMA TickKeeps ==
  ASSUME PeriodicInv, Tick
  PROVE  PeriodicInv'
<1>1. PeriodicTypeOK /\ IdleOK /\ FirstIsRoot
  BY DEF PeriodicInv
<1>2. /\ UNCHANGED queue /\ UNCHANGED locked /\ now' = (now + 1) % Wrap
      /\ irq # "none" /\ ~locked => waited < Delay
      /\ \/ /\ alarm = now' /\ alarm' = NULL
            /\ irq' = CASE irq = "none" -> "pending" [] irq = "running" -> "again" [] OTHER -> irq
         \/ alarm # now' /\ UNCHANGED <<alarm, irq>>
      /\ waited' = IF irq = "none" \/ locked THEN waited ELSE waited + 1
      /\ ordered' = (ordered /\ (now' = 0 => Added = {}))
  BY DEF Tick, Match
<1>3. RingOK' /\ Added' = Added
  BY <1>2, QueueUnchanged
<1>4. now' \in Times
  BY <1>1, <1>2, PeriodicAssumption DEF PeriodicTypeOK, Times
<1>5. waited' \in 0 .. Delay
  BY <1>1, <1>2, PeriodicAssumption DEF PeriodicTypeOK
<1>6. PeriodicTypeOK'
  BY <1>1, <1>2, <1>4, <1>5 DEF PeriodicTypeOK, queue
<1>7. IdleOK'
  <2>1. now' # NULL
    BY <1>4, NullIsNot
  <2>2. Running' = Running
    BY <1>2 DEF Running
  <2>3. CASE alarm = now'
    <3>1. alarm # NULL
      BY <2>1, <2>3
    <3> QED BY <1>1, <1>2, <1>3, <2>1, <2>2, <2>3, <3>1 DEF IdleOK
  <2>4. CASE alarm # now'
    BY <1>1, <1>2, <1>3, <2>2, <2>4 DEF IdleOK
  <2> QED BY <2>3, <2>4
<1>8. FirstIsRoot'
  BY <1>1, <1>2, <1>3 DEF FirstIsRoot, queue
<1> QED BY <1>3, <1>6, <1>7, <1>8 DEF PeriodicInv

(* Every step keeps the invariant.                                        *)
LEMMA PeriodicNext ==
  ASSUME PeriodicInv, [Next]_vars
  PROVE  PeriodicInv'
<1>1. PeriodicTypeOK /\ IdleOK /\ FirstIsRoot
  BY DEF PeriodicInv
<1>2. ASSUME NEW t \in Tasks, AddPeriodicTask(t) PROVE PeriodicInv'
  BY <1>2, AddFirst, AddFurther
<1>3. ASSUME NEW t \in Tasks, AddFails(t) PROVE PeriodicInv'
  <2>1. UNCHANGED <<queue, alarm, irq, now, waited, ordered>> /\ ~Running /\ locked' = TRUE
    BY <1>3 DEF AddFails, Free
  <2>2. RingOK' /\ Added' = Added
    BY <2>1, QueueUnchanged
  <2>3. PeriodicTypeOK' /\ IdleOK' /\ FirstIsRoot'
    BY <1>1, <2>1, <2>2 DEF PeriodicTypeOK, IdleOK, FirstIsRoot, queue, Running
  <2> QED BY <2>2, <2>3 DEF PeriodicInv
<1>4. CASE RunTask
  <2>1. /\ UNCHANGED <<queue, alarm, now, waited, locked, ordered>>
        /\ irq = "pending" /\ ~locked /\ irq' = "running"
    BY <1>4 DEF RunTask
  <2>2. RingOK' /\ Added' = Added
    BY <2>1, QueueUnchanged
  <2>3. PeriodicTypeOK' /\ IdleOK' /\ FirstIsRoot'
    BY <1>1, <2>1, <2>2 DEF PeriodicTypeOK, IdleOK, FirstIsRoot, queue, Running
  <2> QED BY <2>2, <2>3 DEF PeriodicInv
<1>5. CASE ScheduleBackground
  BY <1>5, RunKeeps
<1>6. CASE Tick
  BY <1>6, TickKeeps
<1>7. CASE MatchNow
  <2>1. /\ UNCHANGED <<queue, now, waited, locked, ordered>>
        /\ alarm = now /\ alarm' = NULL
        /\ irq' = CASE irq = "none" -> "pending" [] irq = "running" -> "again" [] OTHER -> irq
    BY <1>7 DEF MatchNow, Match
  <2>2. RingOK' /\ Added' = Added
    BY <2>1, QueueUnchanged
  <2>3. alarm # NULL /\ irq' # "none" /\ (irq = "none" => irq' = "pending") /\ Running' = Running
    BY <1>1, <2>1, NullIsNot DEF PeriodicTypeOK, Running
  <2>4. PeriodicTypeOK' /\ FirstIsRoot'
    BY <1>1, <2>1, <2>2, <2>3 DEF PeriodicTypeOK, FirstIsRoot, queue
  <2>5. IdleOK'
    BY <1>1, <2>1, <2>2, <2>3 DEF IdleOK
  <2> QED BY <2>2, <2>4, <2>5 DEF PeriodicInv
<1>8. CASE UNCHANGED vars
  <2>1. UNCHANGED <<queue, alarm, irq, now, waited, locked, ordered>>
    BY <1>8 DEF vars
  <2>2. RingOK' /\ Added' = Added
    BY <2>1, QueueUnchanged
  <2>3. PeriodicTypeOK' /\ IdleOK' /\ FirstIsRoot'
    BY <1>1, <2>1, <2>2 DEF PeriodicTypeOK, IdleOK, FirstIsRoot, queue, Running
  <2> QED BY <2>2, <2>3 DEF PeriodicInv
<1> QED BY <1>2, <1>3, <1>4, <1>5, <1>6, <1>7, <1>8 DEF Next

LEMMA PeriodicInit ==
  ASSUME Init
  PROVE  PeriodicInv
<1>1. Added = {}
  BY DEF Init, Added
<1>2. PeriodicTypeOK
  <2>1. 0 \in Times /\ 0 \in 0 .. Delay
    BY PeriodicAssumption DEF Times
  <2>2. /\ sched_time \in [Tasks -> Times]
        /\ next \in [Tasks -> Tasks \cup {NULL}] /\ prev \in [Tasks -> Tasks \cup {NULL}]
    BY <2>1 DEF Init
  <2> QED BY <2>1, <2>2 DEF Init, PeriodicTypeOK
<1>3. IdleOK /\ RingOK /\ FirstIsRoot
  BY <1>1 DEF Init, IdleOK, RingOK, FirstIsRoot
<1> QED BY <1>2, <1>3 DEF PeriodicInv

(* The inductive invariant of the queue and of its alarm: whatever the    *)
(* order of additions, runs and wrap-arounds.                             *)
THEOREM PeriodicInvariant == Spec => []PeriodicInv
<1>1. Init => PeriodicInv
  BY PeriodicInit
<1>2. PeriodicInv /\ [Next]_vars => PeriodicInv'
  BY PeriodicNext
<1> QED BY <1>1, <1>2, PTL DEF Spec

(* add_periodic_task and schedule_background keep the tasks one doubly    *)
(* linked ring that contains the root: none is lost from the queue.       *)
THEOREM RingStaysIntact == Spec => []RingIntact
<1>1. PeriodicInv => RingIntact
  <2> SUFFICES ASSUME PeriodicInv PROVE RingIntact
    OBVIOUS
  <2>1. PeriodicTypeOK /\ RingOK
    BY DEF PeriodicInv
  <2>2. Added = {} <=> PeriodicScheduleRoot = NULL
    BY RootIsAdded
  <2>3. ASSUME Added # {}
        PROVE  Mutual(Added, next, prev) /\ Spans(Added, next, PeriodicScheduleRoot)
    BY <2>3, RootIsAdded DEF Ring
  <2>4. \A t \in Added : /\ next[t] \in Added /\ prev[next[t]] = t
                         /\ prev[t] \in Added /\ next[prev[t]] = t
    BY <2>3 DEF Mutual
  <2>5. \A S \in SUBSET Added :
          (PeriodicScheduleRoot \in S /\ \A t \in S : next[t] \in S) => S = Added
    BY <2>3 DEF Spans
  <2> QED BY <2>1, <2>2, <2>4, <2>5 DEF RingIntact
<1> QED BY <1>1, PeriodicInvariant, PTL

(* Until times wrap around or a task is added that is due before the      *)
(* root, the ring is sorted, and alarm 1 is armed for the first of it.    *)
THEOREM AlarmIsForFirst == Spec => []FirstIsRoot
<1>1. PeriodicInv => FirstIsRoot
  BY DEF PeriodicInv
<1> QED BY <1>1, PeriodicInvariant, PTL

-----------------------------------------------------------------------------
(* Times that are apart.                                                  *)

(* The ticks from time b to time a, without the whole numbers of Grid.    *)
Gap(a, b) == (a + Wrap * Grid - b) % Grid

LEMMA ApartIs ==
  Apart <=> \A t, u \in Added : t # u => Gap(sched_time[t], sched_time[u]) > Delay
BY DEF Apart, Gap

LEMMA ShiftModulo ==
  ASSUME NEW d \in Nat \ {0}, NEW x \in Nat, NEW k \in Nat
  PROVE  (x + k * d) % d = x % d
<1> DEFINE q == x \div d
           r == x % d
<1>1. q \in Nat /\ r \in 0 .. d - 1 /\ x = q * d + r
  BY Division
<1> HIDE DEF q, r
<1>2. x + k * d = (q + k) * d + r
  BY <1>1
<1>3. ((q + k) * d + r) % d = r
  BY <1>1, Remainder
<1> QED BY <1>2, <1>3 DEF r

LEMMA GapIsLess ==
  ASSUME NEW a \in Times, NEW b \in Times, b <= a
  PROVE  Gap(a, b) <= a - b
<1> DEFINE x == a - b
<1>1. x \in Nat /\ a \in Nat /\ b \in Nat /\ Wrap \in Nat /\ Grid \in Nat \ {0}
  BY PeriodicAssumption DEF Times
<1>2. a + Wrap * Grid - b = x + Wrap * Grid
  BY <1>1
<1> HIDE DEF x
<1>3. (x + Wrap * Grid) % Grid = x % Grid
  BY <1>1, ShiftModulo
<1>4. x % Grid <= x
  <2>1. x \div Grid \in Nat /\ x % Grid \in 0 .. Grid - 1 /\ x = (x \div Grid) * Grid + (x % Grid)
    BY <1>1, Division
  <2>2. (x \div Grid) * Grid \in Nat
    BY <2>1, <1>1
  <2> QED BY <2>1, <2>2
<1> QED BY <1>2, <1>3, <1>4 DEF Gap, x

LEMMA WrapIsLong == Wrap * Grid \in Nat /\ \A a \in Times : a <= Wrap * Grid
<1>1. Wrap \in Nat /\ Grid \in Nat \ {0}
  BY PeriodicAssumption
<1>2. Wrap * Grid >= Wrap
  BY <1>1
<1> QED BY <1>1, <1>2 DEF Times

LEMMA GapIsNat ==
  ASSUME NEW a \in Times, NEW b \in Times
  PROVE  Gap(a, b) \in Nat
<1> DEFINE x == a + Wrap * Grid - b
<1>1. x \in Nat /\ Grid \in Nat \ {0}
  BY WrapIsLong, PeriodicAssumption DEF Times
<1> HIDE DEF x
<1>2. x % Grid \in Nat
  BY <1>1
<1> QED BY <1>2 DEF Gap, x

LEMMA GapStays ==
  ASSUME NEW a \in Times, NEW b \in Times, NEW t \in Tasks, a + period[t] \in Times
  PROVE  Gap(a + period[t], b) = Gap(a, b) /\ Gap(b, a + period[t]) = Gap(b, a)
<1> DEFINE W == Wrap * Grid
           p == period[t]
           x == a + W - b
           y == b + W - (a + p)
<1>1. /\ a \in Nat /\ b \in Nat /\ W \in Nat /\ p \in Nat /\ a + p \in Nat
      /\ b <= W /\ a + p <= W /\ Grid \in Nat \ {0}
  BY WrapIsLong, PeriodicAssumption DEF Times
<1>2. PICK k \in Nat : p = k * Grid
  BY <1>1, Multiple, PeriodicAssumption
<1> HIDE DEF W, p
<1>3. x \in Nat /\ y \in Nat
  BY <1>1
<1>4. (a + p) + W - b = x + p /\ b + W - a = y + p
  BY <1>1
<1> HIDE DEF x, y
<1>5. (x + p) % Grid = x % Grid /\ (y + p) % Grid = y % Grid
  BY <1>1, <1>2, <1>3, ShiftModulo
<1>6. /\ Gap(a + p, b) = ((a + p) + W - b) % Grid
      /\ Gap(a, b) = (a + W - b) % Grid
      /\ Gap(b, a + p) = (b + W - (a + p)) % Grid
      /\ Gap(b, a) = (b + W - a) % Grid
  BY DEF Gap, W
<1>7. /\ Gap(a + p, b) = (x + p) % Grid /\ Gap(a, b) = x % Grid
      /\ Gap(b, a + p) = y % Grid /\ Gap(b, a) = (y + p) % Grid
  BY <1>4, <1>6 DEF x, y
<1> QED BY <1>5, <1>7 DEF p

(* A time that has not wrapped around is one period later.                *)
LEMMA DueNoWrap ==
  ASSUME NEW time \in Times, NEW t \in Tasks, Due(time, t) > time
  PROVE  Due(time, t) = time + period[t]
<1>1. Wrap \in Nat \ {0} /\ period[t] \in 1 .. Wrap - 1 /\ time \in 0 .. Wrap - 1
  BY PeriodicAssumption DEF Times
<1> DEFINE x == time + period[t]
<1>2. x \in Nat /\ x < 2 * Wrap /\ x < time + Wrap
  BY <1>1
<1>3. CASE x < Wrap
  <2>1. x % Wrap = x
    BY <1>1, <1>2, <1>3
  <2> QED BY <2>1 DEF Due
<1>4. CASE x >= Wrap
  <2>1. x - Wrap \in 0 .. Wrap - 1
    BY <1>1, <1>2, <1>4
  <2>2. (1 * Wrap + (x - Wrap)) % Wrap = x - Wrap
    BY <1>1, <2>1, Remainder
  <2>3. x % Wrap = x - Wrap
    <3>1. 1 * Wrap + (x - Wrap) = x
      BY <1>1, <1>2
    <3> QED BY <2>2, <3>1
  <2>4. Due(time, t) = x - Wrap
    BY <2>3 DEF Due
  <2> QED BY <2>4, <1>1, <1>2
<1> QED BY <1>2, <1>3, <1>4, <1>1

(* Due times that are apart were so before the step.                      *)
LEMMA ApartBefore ==
  ASSUME PeriodicInv, Next, ordered', Apart'
  PROVE  ordered /\ Apart
<1>1. PeriodicTypeOK /\ Added \in SUBSET Tasks /\ sched_time \in [Tasks -> Times]
  BY RootIsAdded DEF PeriodicInv, PeriodicTypeOK
<1>2. \A t, u \in Added' : t # u => Gap(sched_time'[t], sched_time'[u]) > Delay
  BY DEF Apart, Gap
<1>3. ASSUME Added \subseteq Added', \A t \in Added : sched_time'[t] = sched_time[t]
      PROVE  Apart
  BY <1>2, <1>3, ApartIs
<1>4. ASSUME NEW t \in Tasks, AddPeriodicTask(t) PROVE ordered /\ Apart
  <2>1. ordered /\ t \notin Added /\ sched_time' = [sched_time EXCEPT ![t] = Due(now, t)]
    BY <1>4 DEF AddPeriodicTask
  <2>2. Added \subseteq Added'
    <3>1. CASE PeriodicScheduleRoot = NULL
      BY <3>1, RootIsAdded
    <3>2. CASE PeriodicScheduleRoot # NULL
      BY <3>2, <1>4, AddFurther
    <3> QED BY <3>1, <3>2
  <2> QED BY <1>1, <1>3, <2>1, <2>2
<1>5. ASSUME UNCHANGED queue, ordered' => ordered PROVE ordered /\ Apart
  <2>1. Added' = Added
    BY <1>5, QueueUnchanged
  <2> QED BY <2>1, <1>3, <1>5 DEF queue
<1>6. CASE ScheduleBackground
  <2> DEFINE t == PeriodicScheduleRoot
             due == Due(sched_time[t], t)
  <2>1. /\ t \in Added /\ Added' = Added
        /\ sched_time' = [sched_time EXCEPT ![t] = due]
    BY <1>6, RunRing
  <2>2. ordered /\ due > sched_time[t]
    BY <1>6 DEF ScheduleBackground
  <2>3. sched_time[t] \in Times /\ t \in Tasks
    BY <1>1, <2>1
  <2>4. due = sched_time[t] + period[t] /\ due \in Times
    BY <2>2, <2>3, DueNoWrap, DueIs
  <2> HIDE DEF t, due
  <2>5. sched_time[t] + period[t] \in Times
    BY <2>4
  <2>6. ASSUME NEW u \in Added, NEW v \in Added, u # v
        PROVE  Gap(sched_time[u], sched_time[v]) > Delay
    <3>1. Gap(sched_time'[u], sched_time'[v]) > Delay
      BY <1>2, <2>1, <2>6
    <3>2. sched_time[u] \in Times /\ sched_time[v] \in Times
      BY <1>1
    <3>3. CASE u = t
      <4>1. sched_time'[u] = sched_time[t] + period[t] /\ sched_time'[v] = sched_time[v]
        BY <1>1, <2>1, <2>4, <2>6, <3>3
      <4>2. Gap(sched_time[t] + period[t], sched_time[v]) = Gap(sched_time[t], sched_time[v])
        BY <3>2, <2>3, <2>5, GapStays
      <4> QED BY <3>1, <3>3, <4>1, <4>2
    <3>4. CASE v = t
      <4>1. sched_time'[v] = sched_time[t] + period[t] /\ sched_time'[u] = sched_time[u]
        BY <1>1, <2>1, <2>4, <2>6, <3>4
      <4>2. Gap(sched_time[u], sched_time[t] + period[t]) = Gap(sched_time[u], sched_time[t])
        BY <3>2, <2>3, <2>5, GapStays
      <4> QED BY <3>1, <3>4, <4>1, <4>2
    <3>5. CASE u # t /\ v # t
      BY <1>1, <2>1, <3>1, <3>5
    <3> QED BY <3>3, <3>4, <3>5
  <2> QED BY <2>2, <2>6, ApartIs
<1> QED
  BY <1>4, <1>5, <1>6 DEF Next, AddFails, RunTask, Tick, MatchNow

-----------------------------------------------------------------------------
(* Tasks that run on time.                                                *)

LEMMA PunctualRun ==
  ASSUME ShortTasks, PeriodicInv, Punctual, ScheduleBackground, ordered', Apart', ~locked'
  PROVE  now' < sched_time'[PeriodicScheduleRoot'] /\ irq' = "none"
<1> DEFINE t == PeriodicScheduleRoot
           due == Due(sched_time[t], t)
           r == PeriodicScheduleRoot'
<1>1. /\ t \in Added /\ r \in Added /\ sched_time' = [sched_time EXCEPT ![t] = due]
  BY RunRing
<1>2. ordered /\ Apart
  BY ApartBefore DEF Next
<1>3. irq = "running" /\ irq' = "none" /\ now' = now /\ ~locked /\ due > sched_time[t]
  <2>1. /\ irq \in {"running", "again"} /\ irq' = (IF irq = "again" THEN "pending" ELSE "none")
        /\ now' = now /\ ~locked /\ due > sched_time[t]
    BY DEF ScheduleBackground, Running
  <2> QED BY <2>1, <1>2 DEF PeriodicInv, IdleOK
<1>4. /\ Added \in SUBSET Tasks /\ sched_time \in [Tasks -> Times] /\ sched_time \in [Tasks -> Nat]
      /\ now \in Nat /\ waited \in 0 .. Delay /\ Ring(Added, next, prev, t)
  BY <1>1, RootIsAdded DEF PeriodicInv, PeriodicTypeOK, Times
<1>5. now = sched_time[t] + waited
  BY <1>1, <1>2, <1>3 DEF Punctual
<1>6. now <= sched_time[t] + Delay
  BY <1>1, <1>4, <1>5, PeriodicAssumption
<1>7. CASE r = t
  <2>1. due = sched_time[t] + period[t] /\ period[t] > Delay
    BY <1>1, <1>3, <1>4, DueNoWrap DEF ShortTasks
  <2>2. sched_time[t] \in Nat /\ period[t] \in Nat
    BY <1>1, <1>4, PeriodicAssumption
  <2> HIDE DEF due
  <2>3. now < due
    BY <2>1, <2>2, <1>4, <1>6, PeriodicAssumption
  <2>4. sched_time'[r] = due
    BY <1>1, <1>4, <1>7
  <2> QED BY <2>3, <2>4, <1>3
<1>8. CASE r # t
  <2>1. InOrder(Added, next, sched_time, t)
    BY <1>2, OrderIs DEF PeriodicInv
  <2>2. sched_time[t] <= sched_time[r]
    <3> HIDE DEF t, r
    <3> QED BY <2>1, <1>1, <1>4, RootIsFirst
  <2>3. Gap(sched_time[r], sched_time[t]) > Delay
    BY <1>1, <1>2, <1>8, ApartIs
  <2>4. sched_time[r] \in Times /\ sched_time[t] \in Times
    BY <1>1, <1>4
  <2>5. Gap(sched_time[r], sched_time[t]) <= sched_time[r] - sched_time[t]
    BY <2>2, <2>4, GapIsLess
  <2>6. sched_time[r] \in Nat /\ sched_time[t] \in Nat /\ Delay \in Nat /\ Grid \in Nat \ {0} /\ Wrap \in Nat
    BY <1>1, <1>4, PeriodicAssumption
  <2>7. Gap(sched_time[r], sched_time[t]) \in Nat
    BY <2>4, GapIsNat
  <2>8. now < sched_time[r]
    BY <2>3, <2>5, <2>6, <2>7, <1>4, <1>6
  <2>9. sched_time'[r] = sched_time[r]
    BY <1>1, <1>4, <1>8
  <2> QED BY <2>8, <2>9, <1>3
<1> QED BY <1>7, <1>8

LEMMA PunctualTick ==
  ASSUME PeriodicInv, Punctual, Tick, ordered', Apart', ~locked', Added # {}
  PROVE  LET due == sched_time[PeriodicScheduleRoot]
         IN IF irq' = "none" THEN now' < due ELSE now' = due + waited'
<1> DEFINE due == sched_time[PeriodicScheduleRoot]
<1>1. ordered /\ Apart
  BY ApartBefore DEF Next
<1>2. /\ ~locked /\ now' = (now + 1) % Wrap /\ now' # 0
      /\ \/ alarm = now' /\ irq = "none" /\ irq' = "pending"
         \/ alarm # now' /\ UNCHANGED irq
      /\ waited' = IF irq = "none" THEN waited ELSE waited + 1
  <2>1. now' \in Times /\ now' # NULL
    BY PeriodicAssumption, NullIsNot DEF PeriodicInv, PeriodicTypeOK, Tick, Times
  <2>2. alarm = now' => irq = "none"
    BY <1>1, <2>1 DEF PeriodicInv, IdleOK
  <2> QED BY <2>2 DEF Tick, Match
<1>3. /\ now \in 0 .. Wrap - 1 /\ Wrap \in Nat /\ waited \in Nat
      /\ IF irq = "none" THEN now < due /\ waited = 0 /\ alarm = due ELSE now = due + waited
  BY <1>1, <1>2, PeriodicAssumption
  DEF Punctual, PeriodicInv, PeriodicTypeOK, Times, IdleOK, FirstIsRoot
<1>4. now' = now + 1
  <2>1. CASE now + 1 < Wrap
    <3>1. (now + 1) % Wrap = now + 1
      BY <2>1, <1>3
    <3> QED BY <3>1, <1>2
  <2>2. CASE now + 1 = Wrap
    <3>1. (now + 1) % Wrap = 0
      BY <2>2, <1>3
    <3> QED BY <3>1, <1>2
  <2> QED BY <2>1, <2>2, <1>3
<1>5. due \in Nat
  BY RootIsAdded
<1> HIDE DEF due
<1>6. IF irq' = "none" THEN now' < due ELSE now' = due + waited'
  <2>1. CASE irq = "none"
    BY <1>2, <1>3, <1>4, <1>5, <2>1
  <2>2. CASE irq # "none"
    BY <1>2, <1>3, <1>4, <1>5, <2>2
  <2> QED BY <2>1, <2>2
<1> QED BY <1>6 DEF due

LEMMA PunctualNext ==
  ASSUME ShortTasks, PeriodicInv, Punctual, [Next]_vars
  PROVE  Punctual'
<1>1. CASE UNCHANGED vars
  BY <1>1 DEF vars, queue, Punctual, Apart, Added
<1>2. CASE Next
  <2> SUFFICES ASSUME ordered', Apart', ~locked', Added' # {}
               PROVE  IF irq' = "none" THEN now' < sched_time'[PeriodicScheduleRoot']
                      ELSE now' = sched_time'[PeriodicScheduleRoot'] + waited'
    BY DEF Punctual
  <2>1. ordered /\ Apart
    BY <1>2, ApartBefore
  <2>2. ASSUME UNCHANGED <<queue, now, waited, locked>>, irq' = "none" <=> irq = "none"
        PROVE  IF irq' = "none" THEN now' < sched_time'[PeriodicScheduleRoot']
               ELSE now' = sched_time'[PeriodicScheduleRoot'] + waited'
    <3>1. Added' = Added
      BY <2>2 DEF Added, queue
    <3> QED BY <2>1, <2>2, <3>1 DEF Punctual, queue
  <2>3. ASSUME NEW t \in Tasks, AddPeriodicTask(t)
        PROVE  IF irq' = "none" THEN now' < sched_time'[PeriodicScheduleRoot']
               ELSE now' = sched_time'[PeriodicScheduleRoot'] + waited'
    <3>1. ordered' = (ordered /\ ~(PeriodicScheduleRoot # NULL /\ Due(now, t) < sched_time[PeriodicScheduleRoot])
                              /\ Due(now, t) > now)
          /\ UNCHANGED <<irq, now, waited, locked>> /\ t \notin Added
      BY <2>3 DEF AddPeriodicTask
    <3>2. CASE PeriodicScheduleRoot = NULL
      <4>1. irq = "none"
        BY <3>2, RootIsAdded DEF PeriodicInv, IdleOK
      <4>2. PeriodicScheduleRoot' = t /\ sched_time'[t] = Due(now, t)
        BY <3>2, <2>3, AddFirst
      <4>3. now < Due(now, t)
        <5>1. now \in Times /\ Due(now, t) \in Nat
          BY DueIs DEF PeriodicInv, PeriodicTypeOK
        <5> QED BY <3>1, <5>1 DEF Times
      <4> QED BY <3>1, <4>1, <4>2, <4>3
    <3>3. CASE PeriodicScheduleRoot # NULL
      <4>1. /\ PeriodicScheduleRoot' = PeriodicScheduleRoot
            /\ sched_time' = [sched_time EXCEPT ![t] = Due(now, t)]
        BY <3>3, <2>3, AddFurther
      <4>2. PeriodicScheduleRoot \in Added /\ sched_time \in [Tasks -> Nat] /\ Added \in SUBSET Tasks
        BY <3>3, RootIsAdded
      <4>3. sched_time'[PeriodicScheduleRoot'] = sched_time[PeriodicScheduleRoot]
        BY <3>1, <4>1, <4>2
      <4> QED BY <2>1, <3>1, <4>2, <4>3 DEF Punctual
    <3> QED BY <3>2, <3>3
  <2>4. ASSUME NEW t \in Tasks, AddFails(t)
        PROVE  FALSE
    BY <2>4 DEF AddFails
  <2>5. CASE RunTask
    BY <2>2, <2>5 DEF RunTask
  <2>6. CASE ScheduleBackground
    BY <2>6, PunctualRun
  <2>7. CASE Tick
    <3>1. Added' = Added /\ UNCHANGED <<PeriodicScheduleRoot, sched_time>>
      BY <2>7, QueueUnchanged DEF Tick, queue
    <3> QED BY <2>7, <3>1, PunctualTick
  <2>8. CASE MatchNow
    <3>1. UNCHANGED queue /\ alarm = now /\ irq = "none" /\ UNCHANGED locked
      <4>1. alarm # NULL
        BY <2>8, NullIsNot DEF MatchNow, PeriodicInv, PeriodicTypeOK
      <4> QED BY <2>1, <2>8, <4>1 DEF MatchNow, PeriodicInv, IdleOK
    <3>2. Added # {}
      BY <3>1, QueueUnchanged
    <3>3. alarm = sched_time[PeriodicScheduleRoot] /\ now < sched_time[PeriodicScheduleRoot]
      BY <2>1, <3>1, <3>2 DEF PeriodicInv, FirstIsRoot, Punctual
    <3>4. now \in Nat
      BY DEF PeriodicInv, PeriodicTypeOK, Times
    <3> QED BY <3>1, <3>3, <3>4
  <2> QED BY <1>2, <2>3, <2>4, <2>5, <2>6, <2>7, <2>8 DEF Next
<1> QED BY <1>1, <1>2

(* "Support for scheduled, recurring tasks that execute reliably on CPU0" *)
(* (README): tasks whose due times are apart by more than Delay, and that *)
(* end before they are due again, run neither early nor later than Delay. *)
THEOREM TasksRunOnTime == ShortTasks => (Spec => []ApartTasksOnTime)
<1> SUFFICES ASSUME ShortTasks PROVE Spec => []ApartTasksOnTime
  OBVIOUS
<1>1. Init => PeriodicInv /\ Punctual
  <2>1. Init => Added = {}
    BY DEF Init, Added
  <2> QED BY <2>1, PeriodicInit DEF Punctual
<1>2. PeriodicInv /\ Punctual /\ [Next]_vars => (PeriodicInv /\ Punctual)'
  BY PeriodicNext, PunctualNext
<1>3. PeriodicInv /\ Punctual => ApartTasksOnTime
  <2> SUFFICES ASSUME PeriodicInv, Punctual, ordered, Apart PROVE OnTime
    BY DEF ApartTasksOnTime
  <2>1. /\ now \in Nat /\ waited \in 0 .. Delay /\ Delay \in Nat /\ (locked => ~Running)
        /\ Running => Added # {}
    BY PeriodicAssumption DEF PeriodicInv, PeriodicTypeOK, IdleOK, Running, Times
  <2>2. ASSUME ~locked, NEW t \in Added PROVE now <= sched_time[t] + Delay
    <3> DEFINE root == PeriodicScheduleRoot
    <3>1. /\ sched_time \in [Tasks -> Nat] /\ Added \in SUBSET Tasks /\ root \in Added
          /\ Ring(Added, next, prev, root)
      BY <2>2, RootIsAdded
    <3>2. InOrder(Added, next, sched_time, root)
      BY OrderIs DEF PeriodicInv
    <3>3. IF irq = "none" THEN now < sched_time[root] ELSE now = sched_time[root] + waited
      BY <2>2 DEF Punctual
    <3> HIDE DEF root
    <3>4. sched_time[root] <= sched_time[t] /\ sched_time[root] \in Nat /\ sched_time[t] \in Nat
      BY <3>1, <3>2, <2>2, RootIsFirst
    <3> QED BY <2>1, <3>3, <3>4
  <2>3. ASSUME Running PROVE sched_time[PeriodicScheduleRoot] <= now
    <3>1. Added # {} /\ now = sched_time[PeriodicScheduleRoot] + waited
      BY <2>1, <2>3 DEF Punctual, Running
    <3>2. sched_time[PeriodicScheduleRoot] \in Nat
      BY <3>1, RootIsAdded
    <3> QED BY <2>1, <3>1, <3>2
  <2> QED BY <2>2, <2>3 DEF OnTime
<1> QED BY <1>1, <1>2, <1>3, PTL DEF Spec
=============================================================================

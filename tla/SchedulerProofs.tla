--------------------------- MODULE SchedulerProofs ---------------------------
(***************************************************************************)
(* Proofs that the scheduler keeps its promises for any number of threads, *)
(* priority levels and semaphores; then, since their steps are steps of the*)
(* scheduler, proofs about module Semaphores.                              *)
(***************************************************************************)
EXTENDS SemaphoreProps, SchedulerInductive, SharedLemmas, FiniteSetTheorems

-----------------------------------------------------------------------------
(* Counting the threads of a level in a state.                             *)

Members(f, p, st) == {t \in Threads : Priority[t] = p /\ f[t] = st}

(* The updates of the schedule, as operators the provers need not look     *)
(* into.                                                                   *)
StateFcns == [Threads -> ThreadStates]
CountFcns == [Levels -> Nat]

Put(f, t, new) == [f EXCEPT ![t] = new]
Inc(count, p) == [count EXCEPT ![p] = @ + 1]
Dec(count, p) == [count EXCEPT ![p] = @ - 1]

Counted(f, active, running) ==
  \A p \in Levels :
    /\ active[p] = Cardinality(Members(f, p, "ACTIVE"))
    /\ running[p] = Cardinality(Members(f, p, "RUNNING"))

(* When one thread changes its state, one level has one thread more in the *)
(* new state and one less in the old one.                                  *)
Moved(f, g, t, new) ==
  \A p \in Levels, st \in ThreadStates :
    /\ Cardinality(Members(f, p, st)) \in Nat
    /\ Cardinality(Members(g, p, st)) \in Nat
    /\ p = Priority[t] /\ st = new =>
         Cardinality(Members(g, p, st)) = Cardinality(Members(f, p, st)) + 1
    /\ p = Priority[t] /\ st = f[t] =>
         /\ Cardinality(Members(f, p, st)) # 0
         /\ Cardinality(Members(g, p, st)) = Cardinality(Members(f, p, st)) - 1
    /\ p # Priority[t] \/ (st # new /\ st # f[t]) =>
         Cardinality(Members(g, p, st)) = Cardinality(Members(f, p, st))

LEMMA CardMove ==
  ASSUME NEW f \in StateFcns, NEW t \in Threads,
         NEW new \in ThreadStates, f[t] # new
  PROVE  Moved(f, Put(f, t, new), t, new)
<1> DEFINE g == Put(f, t, new)
<1> SUFFICES ASSUME NEW p \in Levels, NEW st \in ThreadStates
             PROVE  /\ Cardinality(Members(f, p, st)) \in Nat
                    /\ Cardinality(Members(g, p, st)) \in Nat
                    /\ p = Priority[t] /\ st = new =>
                         Cardinality(Members(g, p, st)) = Cardinality(Members(f, p, st)) + 1
                    /\ p = Priority[t] /\ st = f[t] =>
                         /\ Cardinality(Members(f, p, st)) # 0
                         /\ Cardinality(Members(g, p, st)) = Cardinality(Members(f, p, st)) - 1
                    /\ p # Priority[t] \/ (st # new /\ st # f[t]) =>
                         Cardinality(Members(g, p, st)) = Cardinality(Members(f, p, st))
  BY Zenon DEF Moved
<1>0. f \in [Threads -> ThreadStates] /\ g = [f EXCEPT ![t] = new]
  BY DEF Put, StateFcns
<1> HIDE DEF g
<1> DEFINE F == Members(f, p, st)
           G == Members(g, p, st)
<1>1. IsFiniteSet(F) /\ IsFiniteSet(G)
  <2>1. F \subseteq Threads /\ G \subseteq Threads
    BY DEF Members
  <2> QED BY <2>1, ConstantsAssumption, FS_Subset DEF ConstantsAssumption
<1>2. Cardinality(F) \in Nat /\ Cardinality(G) \in Nat
  BY <1>1, FS_CardinalityType
<1>3. ASSUME p = Priority[t], st = new PROVE Cardinality(G) = Cardinality(F) + 1
  <2>1. t \notin F /\ G = F \cup {t}
    BY <1>0, <1>3 DEF Members
  <2> QED BY <2>1, <1>1, FS_AddElement
<1>4. ASSUME p = Priority[t], st = f[t]
      PROVE  Cardinality(G) = Cardinality(F) - 1 /\ Cardinality(F) # 0
  <2>1. t \in F /\ G = F \ {t}
    BY <1>0, <1>4 DEF Members
  <2>2. Cardinality(F) # 0
    BY <2>1, <1>1, FS_EmptySet
  <2> QED BY <2>1, <2>2, <1>1, FS_RemoveElement
<1>5. ASSUME p # Priority[t] \/ (st # new /\ st # f[t]) PROVE G = F
  BY <1>0, <1>5 DEF Members
<1> QED BY <1>2, <1>3, <1>4, <1>5

(* A thread that has stopped running becomes ACTIVE (schedule).            *)
LEMMA CountPreempt ==
  ASSUME NEW f \in StateFcns, NEW t \in Threads,
         f[t] = "RUNNING",
         NEW active \in CountFcns, NEW running \in CountFcns,
         Counted(f, active, running)
  PROVE  /\ Counted(Put(f, t, "ACTIVE"), Inc(active, Priority[t]), Dec(running, Priority[t]))
         /\ Inc(active, Priority[t]) \in CountFcns
         /\ Dec(running, Priority[t]) \in CountFcns
<1>0. Priority[t] \in Levels BY ConstantsAssumption DEF ConstantsAssumption
<1>1. "ACTIVE" \in ThreadStates /\ "RUNNING" \in ThreadStates BY DEF ThreadStates
<1>2. Moved(f, Put(f, t, "ACTIVE"), t, "ACTIVE")
  BY <1>1, CardMove
<1>3. Inc(active, Priority[t]) \in CountFcns /\ Dec(running, Priority[t]) \in CountFcns
  BY <1>0, <1>1, <1>2 DEF Counted, Moved, Inc, Dec, CountFcns
<1>4. Counted(Put(f, t, "ACTIVE"), Inc(active, Priority[t]), Dec(running, Priority[t]))
  BY <1>0, <1>1, <1>2 DEF Counted, Moved, Inc, Dec, CountFcns
<1> QED BY <1>3, <1>4

(* An ACTIVE thread becomes RUNNING (schedule, init_scheduler).            *)
LEMMA CountRun ==
  ASSUME NEW f \in StateFcns, NEW t \in Threads,
         f[t] = "ACTIVE",
         NEW active \in CountFcns, NEW running \in CountFcns,
         Counted(f, active, running)
  PROVE  /\ Counted(Put(f, t, "RUNNING"), Dec(active, Priority[t]), Inc(running, Priority[t]))
         /\ Dec(active, Priority[t]) \in CountFcns
         /\ Inc(running, Priority[t]) \in CountFcns
<1>0. Priority[t] \in Levels BY ConstantsAssumption DEF ConstantsAssumption
<1>1. "ACTIVE" \in ThreadStates /\ "RUNNING" \in ThreadStates BY DEF ThreadStates
<1>2. Moved(f, Put(f, t, "RUNNING"), t, "RUNNING")
  BY <1>1, CardMove
<1>3. Dec(active, Priority[t]) \in CountFcns /\ Inc(running, Priority[t]) \in CountFcns
  BY <1>0, <1>1, <1>2 DEF Counted, Moved, Inc, Dec, CountFcns
<1>4. Counted(Put(f, t, "RUNNING"), Dec(active, Priority[t]), Inc(running, Priority[t]))
  BY <1>0, <1>1, <1>2 DEF Counted, Moved, Inc, Dec, CountFcns
<1> QED BY <1>3, <1>4

(* A thread becomes ACTIVE (enqueue_thread).                               *)
LEMMA CountEnter ==
  ASSUME NEW f \in StateFcns, NEW t \in Threads,
         f[t] \notin {"ACTIVE", "RUNNING"},
         NEW active \in CountFcns, NEW running \in CountFcns,
         Counted(f, active, running)
  PROVE  /\ Counted(Put(f, t, "ACTIVE"), Inc(active, Priority[t]), running)
         /\ Inc(active, Priority[t]) \in CountFcns
         /\ running \in CountFcns
<1>0. Priority[t] \in Levels BY ConstantsAssumption DEF ConstantsAssumption
<1>1. "ACTIVE" \in ThreadStates /\ "RUNNING" \in ThreadStates BY DEF ThreadStates
<1>2. Moved(f, Put(f, t, "ACTIVE"), t, "ACTIVE")
  BY <1>1, CardMove
<1>3. Inc(active, Priority[t]) \in CountFcns /\ running \in CountFcns
  BY <1>0, <1>1, <1>2 DEF Counted, Moved, Inc, Dec, CountFcns
<1>4. Counted(Put(f, t, "ACTIVE"), Inc(active, Priority[t]), running)
  BY <1>0, <1>1, <1>2 DEF Counted, Moved, Inc, Dec, CountFcns
<1> QED BY <1>3, <1>4

(* A RUNNING thread leaves the schedule (dequeue_thread).                  *)
LEMMA CountLeave ==
  ASSUME NEW f \in StateFcns, NEW t \in Threads,
         f[t] = "RUNNING",
         NEW new \in ThreadStates, new \notin {"ACTIVE", "RUNNING"},
         NEW active \in CountFcns, NEW running \in CountFcns,
         Counted(f, active, running)
  PROVE  /\ Counted(Put(f, t, new), active, Dec(running, Priority[t]))
         /\ active \in CountFcns
         /\ Dec(running, Priority[t]) \in CountFcns
<1>0. Priority[t] \in Levels BY ConstantsAssumption DEF ConstantsAssumption
<1>1. "ACTIVE" \in ThreadStates /\ "RUNNING" \in ThreadStates BY DEF ThreadStates
<1>2. Moved(f, Put(f, t, new), t, new)
  BY <1>1, CardMove
<1>3. active \in CountFcns /\ Dec(running, Priority[t]) \in CountFcns
  BY <1>0, <1>1, <1>2 DEF Counted, Moved, Inc, Dec, CountFcns
<1>4. Counted(Put(f, t, new), active, Dec(running, Priority[t]))
  BY <1>0, <1>1, <1>2 DEF Counted, Moved, Inc, Dec, CountFcns
<1> QED BY <1>3, <1>4

(* A count is zero exactly if the level has no such thread.                *)
LEMMA CountZero ==
  ASSUME NEW f \in StateFcns,
         NEW active \in CountFcns, NEW running \in CountFcns,
         Counted(f, active, running), NEW p \in Levels
  PROVE  /\ active[p] = 0 <=> \A t \in Threads : Priority[t] = p => f[t] # "ACTIVE"
         /\ running[p] = 0 <=> \A t \in Threads : Priority[t] = p => f[t] # "RUNNING"
<1> DEFINE A == Members(f, p, "ACTIVE")
           R == Members(f, p, "RUNNING")
<1>1. A \subseteq Threads /\ R \subseteq Threads
  BY DEF Members
<1>2. IsFiniteSet(A) /\ IsFiniteSet(R)
  BY <1>1, ConstantsAssumption, FS_Subset DEF ConstantsAssumption
<1>3. (Cardinality(A) = 0 <=> A = {}) /\ (Cardinality(R) = 0 <=> R = {})
  BY <1>2, FS_EmptySet
<1>4. active[p] = Cardinality(A) /\ running[p] = Cardinality(R)
  BY DEF Counted
<1>5. A = {} <=> \A t \in Threads : Priority[t] = p => f[t] # "ACTIVE"
  BY DEF Members
<1>6. R = {} <=> \A t \in Threads : Priority[t] = p => f[t] # "RUNNING"
  BY DEF Members
<1> QED BY <1>3, <1>4, <1>5, <1>6

-----------------------------------------------------------------------------
(* The rings.                                                              *)

(* A ring without the names of the variables: r is the root of the members *)
(* S, nx and pv their links.                                               *)
Ring(nx, pv, r, S) ==
  /\ r = NULL <=> S = {}
  /\ r # NULL => r \in S
  /\ \A u \in S : /\ nx[u] \in S /\ pv[u] \in S
                  /\ pv[nx[u]] = u /\ nx[pv[u]] = u
  /\ \A T \in SUBSET S : T # {} /\ (\A u \in T : nx[u] \in T) => T = S

LEMMA OneRingIsRing ==
  OneRing <=> \A p \in Levels : Ring(next_tcb, prev_tcb, ThreadSchedule[p], Scheduled(p))
BY DEF OneRing, RingLinks, Connected, Ring

(* A ring depends on the links of its members only.                        *)
LEMMA RingSame ==
  ASSUME NEW nx, NEW pv, NEW r, NEW S, Ring(nx, pv, r, S),
         NEW nx2, NEW pv2, \A u \in S : nx2[u] = nx[u] /\ pv2[u] = pv[u]
  PROVE  Ring(nx2, pv2, r, S)
<1>1. ASSUME NEW T \in SUBSET S, T # {}, \A u \in T : nx2[u] \in T
      PROVE  T = S
  BY <1>1 DEF Ring
<1> QED BY <1>1 DEF Ring

(* The root may advance.                                                   *)
LEMMA RingAdvance ==
  ASSUME NEW nx, NEW pv, NEW r, NEW S, NULL \notin S, Ring(nx, pv, r, S), r # NULL
  PROVE  Ring(nx, pv, nx[r], S)
BY DEF Ring

(* A member that is its own successor is alone.                            *)
LEMMA RingAlone ==
  ASSUME NEW nx, NEW pv, NEW r, NEW S, Ring(nx, pv, r, S),
         NEW t \in S, nx[t] = t \/ pv[t] = t
  PROVE  S = {t}
<1>1. nx[t] = t
  BY DEF Ring
<1>2. {t} \in SUBSET S /\ {t} # {} /\ \A u \in {t} : nx[u] \in {t}
  BY <1>1
<1> QED BY <1>2 DEF Ring

(* The first thread of a level.                                            *)
LEMMA RingFirst ==
  ASSUME NEW nx, NEW pv, NEW t, t # NULL, nx[t] = t, pv[t] = t
  PROVE  Ring(nx, pv, t, {t})
<1>1. ASSUME NEW T \in SUBSET {t}, T # {} PROVE T = {t}
  BY <1>1
<1> QED BY <1>1 DEF Ring

(* A thread is inserted in front of the root.                              *)
LEMMA RingInsert ==
  ASSUME NEW nx, NEW pv, NEW r, NEW S, NULL \notin S, Ring(nx, pv, r, S), r # NULL,
         NEW t, t \notin S, t # NULL,
         NEW nx2, NEW pv2,
         nx2[t] = r, pv2[t] = pv[r], nx2[pv[r]] = t, pv2[r] = t,
         \A u \in S : u # pv[r] => nx2[u] = nx[u],
         \A u \in S : u # r => pv2[u] = pv[u]
  PROVE  Ring(nx2, pv2, t, S \cup {t})
<1>1. r \in S /\ pv[r] \in S
  BY DEF Ring
<1>2. ASSUME NEW u \in S \cup {t}
      PROVE  /\ nx2[u] \in S \cup {t} /\ pv2[u] \in S \cup {t}
             /\ pv2[nx2[u]] = u /\ nx2[pv2[u]] = u
  <2>1. CASE u = t BY <2>1, <1>1
  <2>2. CASE u \in S BY <2>2, <1>1 DEF Ring
  <2> QED BY <2>1, <2>2
<1>3. ASSUME NEW T \in SUBSET (S \cup {t}), T # {}, \A u \in T : nx2[u] \in T
      PROVE  T = S \cup {t}
  <2> DEFINE T0 == T \ {t}
  <2>1. T0 \in SUBSET S
    OBVIOUS
  <2>2. r \in T \/ t \notin T
    BY <1>3
  <2>3. T0 # {}
    BY <1>3, <2>2, <1>1
  <2>4. ASSUME NEW u \in T0 PROVE nx[u] \in T0
    <3>1. CASE u = pv[r]
      BY <3>1, <2>1, <2>2, <1>1, <1>3 DEF Ring
    <3>2. CASE u # pv[r]
      BY <3>2, <2>1, <1>3 DEF Ring
    <3> QED BY <3>1, <3>2
  <2>5. T0 = S
    BY <2>1, <2>3, <2>4 DEF Ring
  <2>6. t \in T
    BY <2>5, <1>1, <1>3
  <2> QED BY <2>5, <2>6
<1> QED BY <1>2, <1>3 DEF Ring

(* A thread that is not alone is taken out; the thread after it is the new *)
(* root.                                                                   *)
LEMMA RingRemove ==
  ASSUME NEW nx, NEW pv, NEW r, NEW S, NULL \notin S, Ring(nx, pv, r, S),
         NEW t \in S, S # {t},
         NEW nx2, NEW pv2,
         nx2[pv[t]] = nx[t], pv2[nx[t]] = pv[t],
         \A u \in S : u # pv[t] /\ u # t => nx2[u] = nx[u],
         \A u \in S : u # nx[t] => pv2[u] = pv[u]
  PROVE  Ring(nx2, pv2, nx[t], S \ {t})
<1>1. nx[t] # t /\ pv[t] # t
  BY RingAlone
<1>2. nx[t] \in S \ {t} /\ pv[t] \in S \ {t}
  BY <1>1 DEF Ring
<1>3. ASSUME NEW u \in S \ {t}
      PROVE  /\ nx2[u] \in S \ {t} /\ pv2[u] \in S \ {t}
             /\ pv2[nx2[u]] = u /\ nx2[pv2[u]] = u
  BY <1>1, <1>2 DEF Ring
<1>4. ASSUME NEW T \in SUBSET (S \ {t}), T # {}, \A u \in T : nx2[u] \in T
      PROVE  T = S \ {t}
  <2>1. CASE pv[t] \in T
    <3> DEFINE T1 == T \cup {t}
    <3>1. T1 \in SUBSET S /\ T1 # {}
      OBVIOUS
    <3>2. \A u \in T1 : nx[u] \in T1
      BY <2>1, <1>4 DEF Ring
    <3>3. T1 = S
      BY <3>1, <3>2 DEF Ring
    <3> QED BY <3>3
  <2>2. CASE pv[t] \notin T
    <3>1. \A u \in T : nx[u] \in T
      BY <2>2, <1>4
    <3>2. T = S
      BY <3>1, <1>4 DEF Ring
    <3> QED BY <3>2
  <2> QED BY <2>1, <2>2
<1> QED BY <1>2, <1>3, <1>4 DEF Ring

(* enqueue_thread inserts a thread that is in no ring.                     *)
LEMMA EnqueueRing ==
  ASSUME ScheduleTypeOK, OneRing, CountsExact,
         NEW t \in Threads, state[t] \notin {"ACTIVE", "RUNNING"},
         EnqueueThread(t)
  PROVE  ScheduleTypeOK' /\ OneRing' /\ CountsExact'
<1> DEFINE p == Priority[t]
           root == ThreadSchedule[p]
           last == prev_tcb[root]
<1>0. p \in Levels /\ NULL \notin Threads
  BY ConstantsAssumption DEF ConstantsAssumption
<1>1. \A q \in Levels :
        /\ Scheduled(q)' = IF q = p THEN Scheduled(q) \cup {t} ELSE Scheduled(q)
        /\ t \notin Scheduled(q)
        /\ Scheduled(q) \subseteq Threads
        /\ q # p => Scheduled(q) \cap Scheduled(p) = {}
  BY <1>0 DEF EnqueueThread, ScheduleTypeOK, Scheduled, InState
<1>2. Ring(next_tcb, prev_tcb, root, Scheduled(p))
  BY <1>0, OneRingIsRing
<1>3. root # NULL => root \in Scheduled(p) /\ last \in Scheduled(p)
  BY <1>2 DEF Ring
<1>4. /\ next_tcb' \in [Threads -> Threads \cup {NULL}]
      /\ prev_tcb' \in [Threads -> Threads \cup {NULL}]
      /\ Ring(next_tcb', prev_tcb', t, Scheduled(p) \cup {t})
      /\ \A u \in Threads : u \notin Scheduled(p) \cup {t} =>
           next_tcb'[u] = next_tcb[u] /\ prev_tcb'[u] = prev_tcb[u]
  <2>1. CASE root = NULL
    <3>1. /\ next_tcb' = [next_tcb EXCEPT ![t] = t]
          /\ prev_tcb' = [prev_tcb EXCEPT ![t] = t]
      BY <2>1 DEF EnqueueThread
    <3>2. Scheduled(p) = {}
      BY <1>2, <2>1 DEF Ring
    <3>3. Ring(next_tcb', prev_tcb', t, {t})
      BY <3>1, <1>0, RingFirst DEF ScheduleTypeOK
    <3> QED BY <3>1, <3>2, <3>3 DEF ScheduleTypeOK
  <2>2. CASE root # NULL
    <3>1. /\ next_tcb' = [next_tcb EXCEPT ![t] = root, ![last] = t]
          /\ prev_tcb' = [prev_tcb EXCEPT ![t] = last, ![root] = t]
      BY <2>2 DEF EnqueueThread
    <3>2. /\ root \in Scheduled(p) /\ last \in Scheduled(p)
          /\ Scheduled(p) \subseteq Threads /\ t \notin Scheduled(p)
      BY <1>0, <1>1, <1>3, <2>2
    <3>3. /\ next_tcb' \in [Threads -> Threads \cup {NULL}]
          /\ prev_tcb' \in [Threads -> Threads \cup {NULL}]
          /\ \A u \in Threads :
               /\ next_tcb'[u] = IF u = last THEN t ELSE IF u = t THEN root ELSE next_tcb[u]
               /\ prev_tcb'[u] = IF u = root THEN t ELSE IF u = t THEN last ELSE prev_tcb[u]
      BY <3>1, <3>2 DEF ScheduleTypeOK
    <3>4. Ring(next_tcb', prev_tcb', t, Scheduled(p) \cup {t})
      <4> HIDE DEF root, p
      <4> QED BY <3>2, <3>3, <1>0, <1>2, <2>2, RingInsert
    <3> QED BY <3>2, <3>3, <3>4
  <2> QED BY <2>1, <2>2
<1>5. ASSUME NEW q \in Levels, q # p
      PROVE  Ring(next_tcb', prev_tcb', ThreadSchedule[q], Scheduled(q))
  <2>1. Ring(next_tcb, prev_tcb, ThreadSchedule[q], Scheduled(q))
    BY OneRingIsRing
  <2>2. \A u \in Scheduled(q) : next_tcb'[u] = next_tcb[u] /\ prev_tcb'[u] = prev_tcb[u]
    BY <1>0, <1>1, <1>4, <1>5
  <2> QED BY <2>1, <2>2, RingSame
<1>6. /\ ThreadSchedule' = [ThreadSchedule EXCEPT ![p] = t]
      /\ ThreadSchedule' \in [Levels -> Threads \cup {NULL}]
      /\ state' = [state EXCEPT ![t] = "ACTIVE"]
      /\ state' \in [Threads -> ThreadStates]
  BY <1>0 DEF EnqueueThread, ScheduleTypeOK, ThreadStates
<1>7. OneRing'
  <2>1. \A q \in Levels : Ring(next_tcb', prev_tcb', ThreadSchedule'[q], Scheduled(q)')
    <3> SUFFICES ASSUME NEW q \in Levels
                 PROVE  Ring(next_tcb', prev_tcb', ThreadSchedule'[q], Scheduled(q)')
      OBVIOUS
    <3>1. CASE q = p
      <4>1. ThreadSchedule'[q] = t /\ Scheduled(q)' = Scheduled(p) \cup {t}
        BY <3>1, <1>0, <1>1, <1>6 DEF ScheduleTypeOK
      <4> QED BY <4>1, <1>4
    <3>2. CASE q # p
      <4>1. ThreadSchedule'[q] = ThreadSchedule[q] /\ Scheduled(q)' = Scheduled(q)
        BY <3>2, <1>0, <1>1, <1>6 DEF ScheduleTypeOK
      <4> QED BY <4>1, <3>2, <1>5
    <3> QED BY <3>1, <3>2
  <2> QED BY <2>1 DEF OneRing, RingLinks, Connected, Ring
<1>8. /\ CountsExact'
      /\ ActivePriorityCount' \in [Levels -> Nat]
      /\ RunningPriorityCount' \in [Levels -> Nat]
  <2>1. Counted(state, ActivePriorityCount, RunningPriorityCount)
    BY DEF CountsExact, Counted, InState, Members
  <2>2. /\ ActivePriorityCount' = [ActivePriorityCount EXCEPT ![p] = @ + 1]
        /\ RunningPriorityCount' = RunningPriorityCount
    BY DEF EnqueueThread
  <2>3. /\ Counted(state', ActivePriorityCount', RunningPriorityCount')
        /\ ActivePriorityCount' \in [Levels -> Nat]
    <3>1. /\ state \in StateFcns
          /\ ActivePriorityCount \in CountFcns
          /\ RunningPriorityCount \in CountFcns
      BY DEF ScheduleTypeOK, StateFcns, CountFcns
    <3>2. /\ state' = Put(state, t, "ACTIVE")
          /\ ActivePriorityCount' = Inc(ActivePriorityCount, Priority[t])
          /\ RunningPriorityCount' = RunningPriorityCount
      BY <1>6, <2>2 DEF Put, Inc
    <3>3. /\ Counted(state', ActivePriorityCount', RunningPriorityCount')
          /\ ActivePriorityCount' \in CountFcns
      BY <2>1, <3>1, <3>2, CountEnter
    <3> QED BY <3>3 DEF CountFcns
  <2> QED BY <2>2, <2>3 DEF CountsExact, Counted, InState, Members, ScheduleTypeOK
<1> QED BY <1>4, <1>6, <1>7, <1>8 DEF ScheduleTypeOK

(* dequeue_thread takes out the RUNNING thread that calls it; the counts   *)
(* tell it whether the thread was the last one of its level.               *)
LEMMA DequeueRing ==
  ASSUME ScheduleTypeOK, OneRing, CountsExact,
         NEW t \in Threads, state[t] = "RUNNING",
         NEW new \in ThreadStates, new \notin {"ACTIVE", "RUNNING"},
         DequeueThread(t, new)
  PROVE  ScheduleTypeOK' /\ OneRing' /\ CountsExact'
<1> DEFINE p == Priority[t]
           after == next_tcb[t]
           before == prev_tcb[t]
<1>0. p \in Levels /\ NULL \notin Threads
  BY ConstantsAssumption DEF ConstantsAssumption
<1>1. /\ state' = [state EXCEPT ![t] = new]
      /\ state' \in [Threads -> ThreadStates]
      /\ ActivePriorityCount' = ActivePriorityCount
      /\ RunningPriorityCount' = [RunningPriorityCount EXCEPT ![p] = @ - 1]
  BY DEF DequeueThread, ScheduleTypeOK
<1>2. \A q \in Levels :
        /\ Scheduled(q)' = IF q = p THEN Scheduled(q) \ {t} ELSE Scheduled(q)
        /\ Scheduled(q) \subseteq Threads
        /\ q # p => Scheduled(q) \cap Scheduled(p) = {}
  BY <1>0, <1>1 DEF ScheduleTypeOK, Scheduled, InState
<1>3. t \in Scheduled(p)
  BY DEF Scheduled, InState
<1>4. /\ Counted(state', ActivePriorityCount', RunningPriorityCount')
      /\ RunningPriorityCount' \in [Levels -> Nat]
  <2>1. Counted(state, ActivePriorityCount, RunningPriorityCount)
    BY DEF CountsExact, Counted, InState, Members
  <2>2. /\ state \in StateFcns
        /\ ActivePriorityCount \in CountFcns
        /\ RunningPriorityCount \in CountFcns
    BY DEF ScheduleTypeOK, StateFcns, CountFcns
  <2>3. /\ state' = Put(state, t, new)
        /\ RunningPriorityCount' = Dec(RunningPriorityCount, Priority[t])
        /\ ActivePriorityCount' = ActivePriorityCount
    BY <1>1 DEF Put, Dec
  <2>4. /\ Counted(state', ActivePriorityCount', RunningPriorityCount')
        /\ RunningPriorityCount' \in CountFcns
    BY <2>1, <2>2, <2>3, CountLeave
  <2> QED BY <2>4 DEF CountFcns
<1>5. CountsExact'
  BY <1>4 DEF CountsExact, Counted, InState, Members
<1>6. ActivePriorityCount[p] = 0 /\ RunningPriorityCount[p] - 1 = 0 <=> Scheduled(p) = {t}
  <2>1. ActivePriorityCount'[p] = 0 /\ RunningPriorityCount'[p] = 0 <=>
        \A u \in Threads : Priority[u] = p => state'[u] # "ACTIVE" /\ state'[u] # "RUNNING"
    <3> HIDE DEF p
    <3>0. /\ state' \in StateFcns
          /\ ActivePriorityCount' \in CountFcns /\ RunningPriorityCount' \in CountFcns
      BY <1>1, <1>4 DEF ScheduleTypeOK, StateFcns, CountFcns
    <3>1. /\ ActivePriorityCount'[p] = 0 <=>
               \A u \in Threads : Priority[u] = p => state'[u] # "ACTIVE"
          /\ RunningPriorityCount'[p] = 0 <=>
               \A u \in Threads : Priority[u] = p => state'[u] # "RUNNING"
      BY <1>0, <1>4, <3>0, CountZero
    <3> QED BY <3>1
  <2>2. (\A u \in Threads : Priority[u] = p => state'[u] # "ACTIVE" /\ state'[u] # "RUNNING")
        <=> Scheduled(p)' = {}
    BY DEF Scheduled, InState
  <2>3. RunningPriorityCount'[p] = RunningPriorityCount[p] - 1
    BY <1>0, <1>1 DEF ScheduleTypeOK
  <2> QED BY <2>1, <2>2, <2>3, <1>0, <1>1, <1>2, <1>3
<1>7. Ring(next_tcb, prev_tcb, ThreadSchedule[p], Scheduled(p))
  BY <1>0, OneRingIsRing
<1>8. after \in Scheduled(p) /\ before \in Scheduled(p)
  BY <1>3, <1>7 DEF Ring
<1>9. /\ next_tcb' \in [Threads -> Threads \cup {NULL}]
      /\ prev_tcb' \in [Threads -> Threads \cup {NULL}]
      /\ ThreadSchedule' \in [Levels -> Threads \cup {NULL}]
      /\ Ring(next_tcb', prev_tcb', ThreadSchedule'[p], Scheduled(p) \ {t})
      /\ \A u \in Threads : u \notin Scheduled(p) =>
           next_tcb'[u] = next_tcb[u] /\ prev_tcb'[u] = prev_tcb[u]
      /\ \A q \in Levels : q # p => ThreadSchedule'[q] = ThreadSchedule[q]
  <2>1. CASE Scheduled(p) = {t}
    <3>1. /\ next_tcb' = [next_tcb EXCEPT ![t] = NULL]
          /\ prev_tcb' = prev_tcb
          /\ ThreadSchedule' = [ThreadSchedule EXCEPT ![p] = NULL]
      BY <1>6, <2>1 DEF DequeueThread
    <3>2. Ring(next_tcb', prev_tcb', NULL, {})
      BY DEF Ring
    <3>3. Scheduled(p) \ {t} = {} /\ ThreadSchedule'[p] = NULL
      BY <2>1, <3>1, <1>0 DEF ScheduleTypeOK
    <3>4. Ring(next_tcb', prev_tcb', ThreadSchedule'[p], Scheduled(p) \ {t})
      BY <3>2, <3>3
    <3> QED BY <3>1, <3>4, <1>0, <1>3 DEF ScheduleTypeOK
  <2>2. CASE Scheduled(p) # {t}
    <3>1. /\ next_tcb' = [next_tcb EXCEPT ![before] = after, ![t] = NULL]
          /\ prev_tcb' = [prev_tcb EXCEPT ![after] = before]
          /\ ThreadSchedule' = [ThreadSchedule EXCEPT ![p] = after]
      BY <1>6, <2>2 DEF DequeueThread
    <3>2. after # t /\ before # t
      BY <1>3, <1>7, <2>2, RingAlone
    <3>3. /\ next_tcb' \in [Threads -> Threads \cup {NULL}]
          /\ prev_tcb' \in [Threads -> Threads \cup {NULL}]
          /\ \A u \in Threads :
               /\ next_tcb'[u] = IF u = t THEN NULL ELSE IF u = before THEN after ELSE next_tcb[u]
               /\ prev_tcb'[u] = IF u = after THEN before ELSE prev_tcb[u]
      BY <3>1, <3>2, <1>0, <1>2, <1>8 DEF ScheduleTypeOK
    <3>4. Scheduled(p) \subseteq Threads
      BY <1>0, <1>2
    <3>5. Ring(next_tcb', prev_tcb', after, Scheduled(p) \ {t})
      <4> HIDE DEF p
      <4> QED BY SMTT(30), <3>2, <3>3, <3>4, <1>0, <1>3, <1>7, <1>8, <2>2, RingRemove
    <3>6. ThreadSchedule'[p] = after
      BY <3>1, <1>0 DEF ScheduleTypeOK
    <3>7. Ring(next_tcb', prev_tcb', ThreadSchedule'[p], Scheduled(p) \ {t})
      BY <3>5, <3>6
    <3> QED BY <3>1, <3>3, <3>4, <3>7, <1>0, <1>3, <1>8 DEF ScheduleTypeOK
  <2> QED BY <2>1, <2>2
<1>10. OneRing'
  <2>1. ASSUME NEW q \in Levels
        PROVE  Ring(next_tcb', prev_tcb', ThreadSchedule'[q], Scheduled(q)')
    <3>1. CASE q = p
      BY <3>1, <1>0, <1>2, <1>9
    <3>2. CASE q # p
      <4>1. Ring(next_tcb, prev_tcb, ThreadSchedule[q], Scheduled(q))
        BY OneRingIsRing
      <4>2. \A u \in Scheduled(q) : next_tcb'[u] = next_tcb[u] /\ prev_tcb'[u] = prev_tcb[u]
        BY <3>2, <1>0, <1>2, <1>9
      <4>3. Ring(next_tcb', prev_tcb', ThreadSchedule[q], Scheduled(q))
        BY <4>1, <4>2, RingSame
      <4> QED BY <4>3, <3>2, <1>2, <1>9
    <3> QED BY <3>1, <3>2
  <2> QED BY <2>1 DEF OneRing, RingLinks, Connected, Ring
<1> QED BY <1>1, <1>4, <1>5, <1>9, <1>10 DEF ScheduleTypeOK

-----------------------------------------------------------------------------
(* schedule().                                                             *)

TwoCores == \A a, b, c \in Cores : a = b \/ b = c \/ a = c

LEMMA SupportedTwoCores == Supported => TwoCores
BY DEF Supported, TwoCores

(* The first half of schedule(): no thread of core c is RUNNING after it.  *)
LEMMA Preempt ==
  ASSUME ScheduleTypeOK, CountsExact, NEW c \in Cores
  PROVE  /\ StateAfterPreempt(c) \in StateFcns
         /\ ActiveAfterPreempt(c) \in CountFcns
         /\ RunningAfterPreempt(c) \in CountFcns
         /\ Counted(StateAfterPreempt(c), ActiveAfterPreempt(c), RunningAfterPreempt(c))
         /\ \A u \in Threads :
              /\ u # RunPt[c] => StateAfterPreempt(c)[u] = state[u]
              /\ u = RunPt[c] => StateAfterPreempt(c)[u] =
                   IF state[u] = "RUNNING" THEN "ACTIVE" ELSE state[u]
<1>1. Counted(state, ActivePriorityCount, RunningPriorityCount)
  BY DEF CountsExact, Counted, InState, Members
<1>2. /\ state \in StateFcns
      /\ ActivePriorityCount \in CountFcns
      /\ RunningPriorityCount \in CountFcns
  BY DEF ScheduleTypeOK, StateFcns, CountFcns
<1>3. CASE ~ Preempted(c)
  <2>1. /\ StateAfterPreempt(c) = state
        /\ ActiveAfterPreempt(c) = ActivePriorityCount
        /\ RunningAfterPreempt(c) = RunningPriorityCount
    BY <1>3 DEF StateAfterPreempt, ActiveAfterPreempt, RunningAfterPreempt
  <2> QED BY <2>1, <1>1, <1>2, <1>3 DEF Preempted
<1>4. CASE Preempted(c)
  <2> DEFINE t == RunPt[c]
  <2>1. t \in Threads /\ state[t] = "RUNNING"
    BY <1>4 DEF Preempted
  <2>2. /\ StateAfterPreempt(c) = Put(state, t, "ACTIVE")
        /\ ActiveAfterPreempt(c) = Inc(ActivePriorityCount, Priority[t])
        /\ RunningAfterPreempt(c) = Dec(RunningPriorityCount, Priority[t])
    BY <1>4 DEF StateAfterPreempt, ActiveAfterPreempt, RunningAfterPreempt, Put, Inc, Dec
  <2>3. /\ Counted(StateAfterPreempt(c), ActiveAfterPreempt(c), RunningAfterPreempt(c))
        /\ ActiveAfterPreempt(c) \in CountFcns
        /\ RunningAfterPreempt(c) \in CountFcns
    <3> HIDE DEF t
    <3> QED BY <1>1, <1>2, <2>1, <2>2, CountPreempt
  <2>4. /\ StateAfterPreempt(c) \in StateFcns
        /\ \A u \in Threads :
              StateAfterPreempt(c)[u] = IF u = t THEN "ACTIVE" ELSE state[u]
    BY <1>2, <2>1, <2>2 DEF Put, StateFcns, ThreadStates
  <2> QED BY <2>1, <2>3, <2>4
<1> QED BY <1>3, <1>4

(* No other core has been given the thread of core c.                      *)
LEMMA PreemptedOthers ==
  ASSUME ScheduleTypeOK, CountsExact, RunningHasOneCore, NEW c \in Cores, ~pendsv[c],
         NEW u \in Threads, StateAfterPreempt(c)[u] = "RUNNING"
  PROVE  /\ state[u] = "RUNNING" /\ u # RunPt[c]
         /\ \E d \in Cores : d # c /\ Assigned(d) = u
<1>1. state[u] = "RUNNING" /\ u # RunPt[c]
  BY Preempt
<1>2. PICK d \in Cores : Assigned(d) = u
  BY <1>1 DEF RunningHasOneCore
<1>3. Assigned(c) = RunPt[c]
  BY DEF Assigned
<1> QED BY <1>1, <1>2, <1>3

(* The thread that schedule() picks is ACTIVE: if another core runs the    *)
(* root, no core runs the thread after it.                                 *)
LEMMA PickIsActive ==
  ASSUME TwoCores, ScheduleTypeOK, CoreTypeOK, OneRing, CountsExact, RunningHasOneCore,
         NEW c \in Cores, ~pendsv[c], NEW p \in Levels, SchedulePick(c, p)
  PROVE  /\ ThreadSchedule[p] \in Scheduled(p)
         /\ \E t \in Scheduled(p) :
              /\ StateAfterPreempt(c)[t] = "ACTIVE"
              /\ NextRunPt' = [NextRunPt EXCEPT ![c] = t]
              /\ state' = Put(StateAfterPreempt(c), t, "RUNNING")
<1> DEFINE st == StateAfterPreempt(c)
           root == ThreadSchedule[p]
<1>1. /\ st \in StateFcns
      /\ ActiveAfterPreempt(c) \in CountFcns /\ RunningAfterPreempt(c) \in CountFcns
      /\ Counted(st, ActiveAfterPreempt(c), RunningAfterPreempt(c))
  BY Preempt
<1>2. PICK a \in Threads : Priority[a] = p /\ st[a] = "ACTIVE"
  <2>1. ActiveAfterPreempt(c)[p] # 0
    BY DEF SchedulePick, IsHighest
  <2> HIDE DEF st
  <2>2. ~ \A t \in Threads : Priority[t] = p => st[t] # "ACTIVE"
    BY <1>1, <2>1, CountZero
  <2> QED BY <2>2
<1>3. \A u \in Threads : st[u] \in {"ACTIVE", "RUNNING"} <=> state[u] \in {"ACTIVE", "RUNNING"}
  BY Preempt
<1>4. a \in Scheduled(p)
  BY <1>2, <1>3 DEF Scheduled, InState
<1>5. Ring(next_tcb, prev_tcb, root, Scheduled(p)) /\ Scheduled(p) \subseteq Threads
  BY OneRingIsRing DEF Scheduled, InState
<1>6. root \in Scheduled(p) /\ next_tcb[root] \in Scheduled(p)
  BY <1>4, <1>5 DEF Ring
<1>7. ASSUME st[root] = "RUNNING" PROVE st[next_tcb[root]] = "ACTIVE"
  <2> DEFINE n == next_tcb[root]
  <2>1. st[n] \in {"ACTIVE", "RUNNING"}
    BY <1>3, <1>5, <1>6 DEF Scheduled, InState
  <2>2. ASSUME st[n] = "RUNNING" PROVE FALSE
    <3>1. /\ \E d \in Cores : d # c /\ Assigned(d) = root
          /\ \E d \in Cores : d # c /\ Assigned(d) = n
      BY <1>5, <1>6, <1>7, <2>2, PreemptedOthers
    <3>2. n = root
      BY <3>1 DEF TwoCores
    <3>3. Scheduled(p) = {root}
      BY <3>2, <1>5, <1>6, RingAlone
    <3> QED BY <3>3, <1>2, <1>4, <1>7
  <2> QED BY <2>1, <2>2
<1>8. st[root] \in {"ACTIVE", "RUNNING"}
  BY <1>3, <1>5, <1>6 DEF Scheduled, InState
<1>9. CASE st[root] = "RUNNING"
  <2>1. /\ NextRunPt' = [NextRunPt EXCEPT ![c] = next_tcb[root]]
        /\ state' = Put(st, next_tcb[root], "RUNNING")
    BY <1>9 DEF SchedulePick, Put
  <2> QED BY <2>1, <1>6, <1>7, <1>9
<1>10. CASE st[root] = "ACTIVE"
  <2>1. /\ NextRunPt' = [NextRunPt EXCEPT ![c] = root]
        /\ state' = Put(st, root, "RUNNING")
    BY <1>10 DEF SchedulePick, Put
  <2> QED BY <2>1, <1>6, <1>10
<1> QED BY <1>8, <1>9, <1>10

(* schedule() keeps the rings and counts.                                  *)
LEMMA ScheduleRing ==
  ASSUME TwoCores, ScheduleTypeOK, CoreTypeOK, OneRing, CountsExact, RunningHasOneCore,
         NEW c \in Cores, ~pendsv[c], Schedule(c)
  PROVE  ScheduleTypeOK' /\ OneRing' /\ CountsExact'
<1> DEFINE st == StateAfterPreempt(c)
<1>0. /\ next_tcb' = next_tcb /\ prev_tcb' = prev_tcb
      /\ NULL \notin Threads /\ Priority \in [Threads -> Levels]
  BY ConstantsAssumption DEF Schedule, ConstantsAssumption
<1>1. /\ st \in StateFcns
      /\ ActiveAfterPreempt(c) \in CountFcns /\ RunningAfterPreempt(c) \in CountFcns
      /\ Counted(st, ActiveAfterPreempt(c), RunningAfterPreempt(c))
      /\ \A u \in Threads : st[u] \in {"ACTIVE", "RUNNING"} <=> state[u] \in {"ACTIVE", "RUNNING"}
  BY Preempt
<1>2. CASE ScheduleIdle(c)
  <2>1. /\ state' = st
        /\ ActivePriorityCount' = ActiveAfterPreempt(c)
        /\ RunningPriorityCount' = RunningAfterPreempt(c)
        /\ ThreadSchedule' = ThreadSchedule
    BY <1>2 DEF ScheduleIdle
  <2>2. Counted(state', ActivePriorityCount', RunningPriorityCount')
    BY <1>1, <2>1
  <2>3. CountsExact'
    BY <2>2 DEF CountsExact, Counted, InState, Members
  <2>4. ScheduleTypeOK'
    BY <1>0, <1>1, <2>1 DEF ScheduleTypeOK, StateFcns, CountFcns
  <2>5. \A q \in Levels : Scheduled(q)' = Scheduled(q)
    BY <1>1, <2>1 DEF Scheduled, InState
  <2>6. \A q \in Levels : Ring(next_tcb', prev_tcb', ThreadSchedule'[q], Scheduled(q)')
    BY <1>0, <2>1, <2>5, OneRingIsRing
  <2> QED BY <2>3, <2>4, <2>6 DEF OneRing, RingLinks, Connected, Ring
<1>3. ASSUME NEW p \in Levels, SchedulePick(c, p)
      PROVE  ScheduleTypeOK' /\ OneRing' /\ CountsExact'
  <2> DEFINE root == ThreadSchedule[p]
  <2>1. PICK t \in Scheduled(p) :
          /\ st[t] = "ACTIVE"
          /\ state' = Put(st, t, "RUNNING")
    BY <1>3, PickIsActive
  <2>2. root \in Scheduled(p)
    BY <1>3, PickIsActive
  <2>3. t \in Threads /\ Priority[t] = p /\ Scheduled(p) \subseteq Threads
    BY DEF Scheduled, InState
  <2>4. /\ ActivePriorityCount' = Dec(ActiveAfterPreempt(c), p)
        /\ RunningPriorityCount' = Inc(RunningAfterPreempt(c), p)
        /\ \/ ThreadSchedule' = ThreadSchedule
           \/ ThreadSchedule' = [ThreadSchedule EXCEPT ![p] = next_tcb[root]]
    BY <1>3 DEF SchedulePick, Dec, Inc
  <2>5. /\ Counted(state', ActivePriorityCount', RunningPriorityCount')
        /\ ActivePriorityCount' \in CountFcns /\ RunningPriorityCount' \in CountFcns
    <3> HIDE DEF st
    <3> QED BY <1>1, <2>1, <2>3, <2>4, CountRun
  <2>6. CountsExact'
    BY <2>5 DEF CountsExact, Counted, InState, Members
  <2>7. /\ state' \in StateFcns
        /\ \A u \in Threads : state'[u] = IF u = t THEN "RUNNING" ELSE st[u]
    <3> HIDE DEF st
    <3> QED BY <1>1, <2>1, <2>3 DEF Put, StateFcns, ThreadStates
  <2>8. \A q \in Levels : Scheduled(q)' = Scheduled(q)
    BY <1>1, <2>1, <2>3, <2>7 DEF Scheduled, InState
  <2>9. Ring(next_tcb, prev_tcb, root, Scheduled(p))
    BY OneRingIsRing
  <2>10. /\ Ring(next_tcb, prev_tcb, next_tcb[root], Scheduled(p))
         /\ next_tcb[root] \in Threads
    <3>1. NULL \notin Scheduled(p) /\ root # NULL
      BY <1>0, <2>2, <2>3
    <3>2. Ring(next_tcb, prev_tcb, next_tcb[root], Scheduled(p))
      BY <2>9, <3>1, RingAdvance
    <3> QED BY <2>2, <2>3, <2>9, <3>2 DEF Ring
  <2>11. ScheduleTypeOK'
    BY <1>0, <2>4, <2>5, <2>7, <2>10 DEF ScheduleTypeOK, StateFcns, CountFcns
  <2>12. \A q \in Levels : Ring(next_tcb, prev_tcb, ThreadSchedule'[q], Scheduled(q))
    <3> SUFFICES ASSUME NEW q \in Levels
                 PROVE  Ring(next_tcb, prev_tcb, ThreadSchedule'[q], Scheduled(q))
      OBVIOUS
    <3>1. Ring(next_tcb, prev_tcb, ThreadSchedule[q], Scheduled(q))
      BY OneRingIsRing
    <3>2. CASE ThreadSchedule' = ThreadSchedule
      BY <3>1, <3>2
    <3>3. CASE ThreadSchedule' = [ThreadSchedule EXCEPT ![p] = next_tcb[root]]
      <4>1. ThreadSchedule'[q] = IF q = p THEN next_tcb[root] ELSE ThreadSchedule[q]
        BY <3>3 DEF ScheduleTypeOK
      <4>2. CASE q = p
        BY <4>1, <4>2, <2>10
      <4>3. CASE q # p
        BY <4>1, <4>3, <3>1
      <4> QED BY <4>2, <4>3
    <3> QED BY <2>4, <3>2, <3>3
  <2>13. \A q \in Levels : Ring(next_tcb', prev_tcb', ThreadSchedule'[q], Scheduled(q)')
    BY <1>0, <2>8, <2>12
  <2> QED BY <2>6, <2>11, <2>13 DEF OneRing, RingLinks, Connected, Ring
<1> QED BY <1>2, <1>3 DEF Schedule

(* What schedule() does to the threads, for the other invariants: t is the *)
(* thread it picks, or the idle thread.                                    *)
Picked(c, t) ==
  /\ NextRunPt' = [NextRunPt EXCEPT ![c] = t]
  /\ t \in Threads => StateAfterPreempt(c)[t] = "ACTIVE" /\ state'[t] = "RUNNING"
  /\ \A u \in Threads : u # t => state'[u] = StateAfterPreempt(c)[u]
  /\ \A u \in Threads : state'[u] = "ACTIVE" => PriorityOf(t) <= Priority[u]

LEMMA ScheduleEffect ==
  ASSUME TwoCores, ScheduleTypeOK, CoreTypeOK, OneRing, CountsExact, RunningHasOneCore,
         NEW c \in Cores, ~pendsv[c], Schedule(c)
  PROVE  \E t \in Threads \cup {Idle} : Picked(c, t)
<1> DEFINE st == StateAfterPreempt(c)
<1>0. /\ Idle \notin Threads /\ Priority \in [Threads -> Levels] /\ LevelCount \in Nat
      /\ Levels \subseteq Int
  BY ConstantsAssumption DEF ConstantsAssumption, Levels
<1>1. /\ st \in StateFcns
      /\ ActiveAfterPreempt(c) \in CountFcns /\ RunningAfterPreempt(c) \in CountFcns
      /\ Counted(st, ActiveAfterPreempt(c), RunningAfterPreempt(c))
  BY Preempt
<1>2. \A u \in Threads : st[u] = "ACTIVE" => ActiveAfterPreempt(c)[Priority[u]] # 0
  <2> HIDE DEF st
  <2> SUFFICES ASSUME NEW u \in Threads, ActiveAfterPreempt(c)[Priority[u]] = 0
               PROVE  st[u] # "ACTIVE"
    OBVIOUS
  <2>1. Priority[u] \in Levels
    BY <1>0
  <2>2. \A v \in Threads : Priority[v] = Priority[u] => st[v] # "ACTIVE"
    BY <1>1, <2>1, CountZero
  <2> QED BY <2>2
<1>3. CASE ScheduleIdle(c)
  <2>1. /\ state' = st /\ NextRunPt' = [NextRunPt EXCEPT ![c] = Idle]
        /\ \A p \in Levels : ActiveAfterPreempt(c)[p] = 0
    BY <1>3 DEF ScheduleIdle
  <2>2. Picked(c, Idle)
    BY <1>0, <1>2, <2>1 DEF Picked
  <2> QED BY <2>2
<1>4. ASSUME NEW p \in Levels, SchedulePick(c, p)
      PROVE  \E t \in Threads : Picked(c, t)
  <2>1. PICK t \in Scheduled(p) :
              /\ st[t] = "ACTIVE"
              /\ NextRunPt' = [NextRunPt EXCEPT ![c] = t]
              /\ state' = Put(st, t, "RUNNING")
    BY <1>4, PickIsActive
  <2>2. t \in Threads /\ Priority[t] = p
    BY DEF Scheduled, InState
  <2>3. \A u \in Threads : state'[u] = IF u = t THEN "RUNNING" ELSE st[u]
    <3> HIDE DEF st
    <3> QED BY <1>1, <2>1, <2>2 DEF Put, StateFcns
  <2>4. \A q \in Levels : q < p => ActiveAfterPreempt(c)[q] = 0
    BY <1>4 DEF SchedulePick, IsHighest
  <2>5. ASSUME NEW u \in Threads, state'[u] = "ACTIVE" PROVE PriorityOf(t) <= Priority[u]
    <3>1. ActiveAfterPreempt(c)[Priority[u]] # 0 /\ Priority[u] \in Levels
      BY <1>0, <1>2, <2>3, <2>5
    <3>2. ~ (Priority[u] < p)
      BY <2>4, <3>1
    <3>3. PriorityOf(t) = p
      BY <2>2 DEF PriorityOf
    <3>4. p \in Int /\ Priority[u] \in Int
      BY <1>0, <3>1
    <3> QED BY <3>2, <3>3, <3>4
  <2>6. Picked(c, t)
    BY <2>1, <2>2, <2>3, <2>5 DEF Picked
  <2> QED BY <2>2, <2>6
<1> QED BY <1>3, <1>4 DEF Schedule

-----------------------------------------------------------------------------
(* The lists of waiting threads.                                           *)

(* The lists do not change and no thread starts or stops waiting.          *)
LEMMA WaitSame ==
  ASSUME WaitingOnce, WaitersByPriority,
         bthreads' = bthreads, SleepSchedule' = SleepSchedule,
         \A u \in Threads : /\ state'[u] = "SLEEPING" <=> state[u] = "SLEEPING"
                            /\ state'[u] = "BLOCKED" <=> state[u] = "BLOCKED"
  PROVE  WaitingOnce' /\ WaitersByPriority'
<1>1. WaitingOnce'
  BY DEF WaitingOnce
<1>2. WaitersByPriority'
  BY DEF WaitersByPriority
<1> QED BY <1>1, <1>2

-----------------------------------------------------------------------------
(* The steps of the scheduler.                                             *)

(* The thread of a core other than c is RUNNING: where it need not be,     *)
(* there is no other core.                                                 *)
LEMMA OtherCoreRuns ==
  ASSUME CoreTypeOK, Control, NEW c \in Cores, NEW d \in Cores, c # d,
         Assigned(d) \in Threads
  PROVE  state[Assigned(d)] = "RUNNING"
<1>1. CASE pendsv[d]
  BY <1>1 DEF Assigned, Control
<1>2. CASE ~pendsv[d]
  <2>1. RunPt[d] \in Threads /\ Assigned(d) = RunPt[d] /\ NULL \notin Threads
    BY <1>2, ConstantsAssumption DEF Assigned, ConstantsAssumption
  <2>2. pc[d] = "task"
    BY <2>1 DEF Control, CoreTypeOK, PCs
  <2> QED BY <1>2, <2>1, <2>2 DEF Control
<1> QED BY <1>1, <1>2

(* If no other core has a thread, the new root is RUNNING only if it is    *)
(* alone.                                                                  *)
LEMMA ScheduleBootRoot ==
  ASSUME TwoCores, ScheduleTypeOK, CoreTypeOK, OneRing, CountsExact, RunningHasOneCore,
         NEW c \in Cores, ~pendsv[c], Schedule(c),
         \A u \in Threads : StateAfterPreempt(c)[u] # "RUNNING",
         NEW q \in Levels, ThreadSchedule'[q] # NULL,
         state'[ThreadSchedule'[q]] = "RUNNING"
  PROVE  Scheduled(q)' = {ThreadSchedule'[q]}
<1> DEFINE st == StateAfterPreempt(c)
           root == ThreadSchedule[q]
<1>0. ScheduleTypeOK'
  BY ScheduleRing
<1>1. ThreadSchedule'[q] \in Threads
  BY <1>0 DEF ScheduleTypeOK
<1>2. ~ ScheduleIdle(c)
  BY <1>1 DEF ScheduleIdle
<1>3. PICK p \in Levels : SchedulePick(c, p)
  BY <1>2 DEF Schedule
<1>4. PICK t \in Scheduled(p) : st[t] = "ACTIVE" /\ state' = Put(st, t, "RUNNING")
  BY <1>3, PickIsActive
<1>5. ThreadSchedule[p] \in Scheduled(p)
  BY <1>3, PickIsActive
<1>6. \A u \in Threads : state'[u] = IF u = t THEN "RUNNING" ELSE st[u]
  <2>1. st \in StateFcns
    BY Preempt
  <2>2. t \in Threads
    BY DEF Scheduled, InState
  <2> HIDE DEF st
  <2> QED BY <1>4, <2>1, <2>2 DEF Put, StateFcns
<1>7. ThreadSchedule'[q] = t
  BY <1>1, <1>6
<1>8. ThreadSchedule[p] \in Threads /\ t \in Threads /\ Priority[t] = p
  BY <1>5 DEF Scheduled, InState
<1>9. st[ThreadSchedule[p]] # "RUNNING"
  BY <1>8
<1>10. /\ ThreadSchedule' = [ThreadSchedule EXCEPT ![p] = next_tcb[ThreadSchedule[p]]]
       /\ state' = Put(st, ThreadSchedule[p], "RUNNING")
  BY <1>3, <1>9 DEF SchedulePick, Put
<1>11. t = ThreadSchedule[p]
  <2>1. st \in StateFcns
    BY Preempt
  <2>2. state'[ThreadSchedule[p]] = "RUNNING"
    <3> HIDE DEF st
    <3> QED BY <1>8, <1>10, <2>1 DEF Put, StateFcns
  <2> QED BY <2>2, <1>6, <1>8
<1>12. /\ OneRing' /\ Ring(next_tcb, prev_tcb, ThreadSchedule[p], Scheduled(p))
       /\ Scheduled(q)' = Scheduled(q)
  <2>1. OneRing'
    BY ScheduleRing
  <2>2. \A u \in Threads : st[u] \in {"ACTIVE", "RUNNING"} <=> state[u] \in {"ACTIVE", "RUNNING"}
    BY Preempt
  <2>3. \A u \in Threads : state'[u] \in {"ACTIVE", "RUNNING"} <=> state[u] \in {"ACTIVE", "RUNNING"}
    BY <1>4, <1>6, <2>2
  <2> QED BY <2>1, <2>3, OneRingIsRing DEF Scheduled, InState
<1>13. q = p
  <2>1. ThreadSchedule'[q] \in Scheduled(q)'
    BY <1>12 DEF OneRing, RingLinks
  <2> QED BY <2>1, <1>7, <1>8, <1>12 DEF Scheduled, InState
<1>14. next_tcb[t] = t
  BY <1>7, <1>10, <1>11, <1>13 DEF ScheduleTypeOK
<1>15. Scheduled(p) = {t}
  BY <1>12, <1>14, RingAlone
<1> QED BY <1>7, <1>12, <1>13, <1>15

(* Core c calls schedule(), from a handler, a thread, or the end of kill.  *)
LEMMA ScheduleStep ==
  ASSUME Supported, IInv, NEW c \in Cores, ~pendsv[c], Schedule(c),
         pc[c] \in {"task", "yield", "killed"},
         NEW l \in {"task", "yield"}, l = "yield" => pc[c] = "yield",
         pc' = [pc EXCEPT ![c] = l],
         resched' = [resched EXCEPT ![c] = FALSE]
  PROVE  IInv'
<1> DEFINE st == StateAfterPreempt(c)
<1>1. /\ TwoCores /\ ScheduleTypeOK /\ WaitTypeOK /\ CoreTypeOK /\ OneRing /\ CountsExact
      /\ RunningHasOneCore /\ Control /\ Idle \notin Threads /\ NULL \notin Threads
      /\ BlackHole \notin Threads
  BY SupportedTwoCores, ConstantsAssumption DEF IInv, TypeOK, ConstantsAssumption
<1>2. ScheduleTypeOK' /\ OneRing' /\ CountsExact'
  BY <1>1, ScheduleRing
<1>3. /\ bthreads' = bthreads /\ SleepSchedule' = SleepSchedule
      /\ armed' = armed /\ timerIrq' = timerIrq
      /\ RunPt' = RunPt /\ SP' = SP /\ ctx' = ctx
      /\ pendsv' = [pendsv EXCEPT ![c] = TRUE]
  BY DEF Schedule, timer
<1>4. PICK t \in Threads \cup {Idle} : Picked(c, t)
  BY <1>1, ScheduleEffect
<1>5. \A u \in Threads :
        /\ u # RunPt[c] => st[u] = state[u]
        /\ u = RunPt[c] => st[u] = IF state[u] = "RUNNING" THEN "ACTIVE" ELSE state[u]
  BY <1>1, Preempt
<1>6. /\ NextRunPt' = [NextRunPt EXCEPT ![c] = t]
      /\ t \in Threads => st[t] = "ACTIVE" /\ state'[t] = "RUNNING"
      /\ \A u \in Threads : u # t => state'[u] = st[u]
  BY <1>4 DEF Picked
<1>7. \A u \in Threads, k \in {"FREE", "SLEEPING", "BLOCKED", "DEAD"} : state'[u] = k <=> state[u] = k
  BY <1>5, <1>6
<1>8. CoreTypeOK'
  BY <1>1, <1>3, <1>6 DEF CoreTypeOK, PCs
<1>9. /\ Assigned(c) = RunPt[c] /\ Assigned(c)' = t
      /\ \A d \in Cores : d # c => Assigned(d)' = Assigned(d)
      /\ \A d \in Cores : d # c => /\ pc'[d] = pc[d] /\ pendsv'[d] = pendsv[d]
                                   /\ resched'[d] = resched[d]
                                   /\ NextRunPt'[d] = NextRunPt[d]
      /\ pc'[c] = l /\ pendsv'[c] = TRUE /\ resched'[c] = FALSE /\ NextRunPt'[c] = t
  BY <1>1, <1>3, <1>6 DEF CoreTypeOK, Assigned
<1>10. \A d \in Cores : d # c /\ Assigned(d) \in Threads =>
         /\ state[Assigned(d)] = "RUNNING" /\ state'[Assigned(d)] = "RUNNING"
         /\ Assigned(d) # RunPt[c] /\ Assigned(d) # t
  <2> SUFFICES ASSUME NEW d \in Cores, d # c, Assigned(d) \in Threads
               PROVE  /\ state[Assigned(d)] = "RUNNING" /\ state'[Assigned(d)] = "RUNNING"
                      /\ Assigned(d) # RunPt[c] /\ Assigned(d) # t
    OBVIOUS
  <2>1. state[Assigned(d)] = "RUNNING"
    BY <1>1, OtherCoreRuns
  <2>2. Assigned(d) # RunPt[c]
    BY <1>1, <1>9, <2>1 DEF RunningHasOneCore
  <2>3. st[Assigned(d)] = "RUNNING"
    BY <1>5, <2>1, <2>2
  <2> QED BY <1>6, <2>1, <2>2, <2>3
<1>11. RunningHasOneCore'
  <2> SUFFICES ASSUME NEW u \in Threads, state'[u] = "RUNNING"
               PROVE  \E d \in Cores : Assigned(d)' = u /\ \A e \in Cores : Assigned(e)' = u => e = d
    BY DEF RunningHasOneCore
  <2>1. CASE u = t
    BY <2>1, <1>9, <1>10
  <2>2. CASE u # t
    <3>1. state[u] = "RUNNING" /\ u # RunPt[c]
      BY <2>2, <1>5, <1>6
    <3>2. PICK d \in Cores : Assigned(d) = u /\ \A e \in Cores : Assigned(e) = u => e = d
      BY <1>1, <3>1 DEF RunningHasOneCore
    <3> QED BY <2>2, <3>1, <3>2, <1>9
  <2> QED BY <2>1, <2>2
<1>12. WaitingOnce' /\ WaitersByPriority'
  BY <1>3, <1>7, WaitSame DEF IInv
<1>13. WaitTypeOK' /\ SleeperHasAlarm' /\ AlarmsDue' /\ Contexts'
  BY <1>1, <1>3 DEF IInv, WaitTypeOK, SleeperHasAlarm, AlarmsDue, Contexts
<1>14. Control'
  <2> SUFFICES ASSUME NEW d \in Cores
        PROVE /\ pc'[d] \in {"off", "main", "boot"} => RunPt'[d] = NULL /\ ~pendsv'[d]
              /\ pendsv'[d] /\ NextRunPt'[d] \in Threads => state'[NextRunPt'[d]] = "RUNNING"
              /\ ~pendsv'[d] /\ pc'[d] = "task" /\ RunPt'[d] \in Threads => state'[RunPt'[d]] = "RUNNING"
              /\ pendsv'[d] \/ resched'[d] => pc'[d] \in {"task", "yield"}
              /\ ~ (pendsv'[d] /\ resched'[d])
              /\ pc'[d] \in {"yield", "kill", "killed"} => Cores = {BootCore}
              /\ pc'[d] = "kill" => RunPt'[d] \in Threads /\ state'[RunPt'[d]] = "DEAD"
              /\ pc'[d] = "killed" => RunPt'[d] = BlackHole
    BY DEF Control
  <2>1. CASE d = c
    BY <2>1, <1>1, <1>6, <1>9 DEF Control
  <2>2. CASE d # c
    <3>1. pc[d] \notin {"yield", "kill", "killed"}
      BY <2>2, <1>1 DEF Control
    <3>2. /\ pendsv[d] => Assigned(d) = NextRunPt[d]
          /\ ~pendsv[d] => Assigned(d) = RunPt[d]
      BY DEF Assigned
    <3> QED BY <2>2, <3>1, <3>2, <1>1, <1>3, <1>9, <1>10 DEF Control
  <2> QED BY <2>1, <2>2
<1>15. BootRoot'
  <2> SUFFICES ASSUME NEW d \in Cores, pc'[d] \in {"off", "main", "boot"},
                      NEW q \in Levels, ThreadSchedule'[q] # NULL,
                      state'[ThreadSchedule'[q]] = "RUNNING"
               PROVE  Scheduled(q)' = {ThreadSchedule'[q]}
    BY DEF BootRoot
  <2>1. d # c /\ Assigned(d) = NULL
    <3>1. d # c
      BY <1>9
    <3>2. RunPt[d] = NULL /\ ~pendsv[d]
      BY <3>1, <1>1, <1>9 DEF Control
    <3> QED BY <3>1, <3>2 DEF Assigned
  <2>2. \A u \in Threads : st[u] # "RUNNING"
    <3> SUFFICES ASSUME NEW u \in Threads, st[u] = "RUNNING" PROVE FALSE
      OBVIOUS
    <3>1. PICK e \in Cores : e # c /\ Assigned(e) = u
      BY <1>1, PreemptedOthers
    <3> QED BY <2>1, <3>1, <1>1 DEF TwoCores
  <2> QED BY <2>2, <1>1, ScheduleBootRoot
<1>16. Stacks'
  BY <1>1, <1>3, <1>7, <1>9 DEF IInv, Stacks, Control, CoreTypeOK
<1> QED BY <1>2, <1>8, <1>11, <1>12, <1>13, <1>14, <1>15, <1>16 DEF IInv, TypeOK

(* A thread that is created or stops waiting enters the schedule: no core  *)
(* is concerned.                                                           *)
LEMMA EnqueueStep ==
  ASSUME Supported, IInv, NEW t \in Threads, state[t] \in {"FREE", "SLEEPING", "BLOCKED"},
         EnqueueThread(t), UNCHANGED <<switch, pc>>,
         \A d \in Cores : resched'[d] => resched[d] \/ (~pendsv[d] /\ pc[d] \in {"task", "yield"})
  PROVE  /\ ScheduleTypeOK' /\ OneRing' /\ CountsExact' /\ RunningHasOneCore'
         /\ Control' /\ BootRoot' /\ Stacks'
         /\ state' = [state EXCEPT ![t] = "ACTIVE"]
<1>1. /\ ScheduleTypeOK /\ CoreTypeOK /\ OneRing /\ CountsExact
      /\ RunningHasOneCore /\ Control /\ Priority[t] \in Levels
  BY ConstantsAssumption DEF IInv, TypeOK, ConstantsAssumption
<1>2. ScheduleTypeOK' /\ OneRing' /\ CountsExact'
  BY <1>1, EnqueueRing
<1>3. /\ RunPt' = RunPt /\ NextRunPt' = NextRunPt /\ pendsv' = pendsv /\ SP' = SP
      /\ pc' = pc
      /\ \A d \in Cores : Assigned(d)' = Assigned(d)
  BY DEF switch, Assigned
<1>4. /\ state' = [state EXCEPT ![t] = "ACTIVE"]
      /\ ThreadSchedule' = [ThreadSchedule EXCEPT ![Priority[t]] = t]
  BY DEF EnqueueThread
<1>5. \A u \in Threads : state'[u] = IF u = t THEN "ACTIVE" ELSE state[u]
  BY <1>1, <1>4 DEF ScheduleTypeOK
<1>6. RunningHasOneCore'
  BY <1>1, <1>3, <1>5 DEF RunningHasOneCore
<1>7. Control'
  BY <1>1, <1>3, <1>5 DEF Control
<1>8. Stacks'
  BY <1>1, <1>3, <1>5 DEF IInv, Stacks
<1>9. BootRoot'
  <2> SUFFICES ASSUME NEW d \in Cores, pc[d] \in {"off", "main", "boot"},
                      NEW q \in Levels, ThreadSchedule'[q] # NULL,
                      state'[ThreadSchedule'[q]] = "RUNNING"
               PROVE  Scheduled(q)' = {ThreadSchedule'[q]}
    BY <1>3 DEF BootRoot
  <2>1. ThreadSchedule'[q] \in Threads
    BY <1>2 DEF ScheduleTypeOK
  <2>2. ThreadSchedule'[q] # t /\ state[ThreadSchedule'[q]] = "RUNNING"
    BY <1>5, <2>1
  <2>3. q # Priority[t] /\ ThreadSchedule'[q] = ThreadSchedule[q]
    BY <1>1, <1>4, <2>2 DEF ScheduleTypeOK
  <2>4. Scheduled(q) = {ThreadSchedule[q]}
    BY <2>2, <2>3 DEF IInv, BootRoot
  <2>5. Scheduled(q)' = Scheduled(q)
    BY <1>5, <2>3 DEF Scheduled, InState
  <2> QED BY <2>3, <2>4, <2>5
<1> QED BY <1>2, <1>4, <1>6, <1>7, <1>8, <1>9

(* The thread of core c leaves the schedule in sched_block, sleep or kill. *)
LEMMA DequeueStep ==
  ASSUME Cores = {BootCore}, IInv, NEW c \in Cores, InThread(c),
         NEW new \in {"SLEEPING", "BLOCKED", "DEAD"}, DequeueThread(RunPt[c], new),
         NEW l \in {"yield", "kill"}, l = "kill" => new = "DEAD",
         pc' = [pc EXCEPT ![c] = l], UNCHANGED <<switch, resched>>
  PROVE  /\ ScheduleTypeOK' /\ OneRing' /\ CountsExact' /\ RunningHasOneCore'
         /\ Control' /\ BootRoot' /\ Stacks'
         /\ state[RunPt[c]] = "RUNNING"
         /\ state' = [state EXCEPT ![RunPt[c]] = new]
<1> DEFINE t == RunPt[c]
<1>1. /\ ScheduleTypeOK /\ CoreTypeOK /\ OneRing /\ CountsExact
      /\ RunningHasOneCore /\ Control /\ Stacks
      /\ NULL \notin Threads /\ BlackHole \notin Threads
  BY ConstantsAssumption DEF IInv, TypeOK, ConstantsAssumption
<1>2. /\ t \in Threads /\ ~pendsv[c] /\ ~resched[c] /\ pc[c] = "task"
      /\ state[t] = "RUNNING"
  BY <1>1 DEF InThread, Ready, Control
<1>3. new \in ThreadStates /\ new \notin {"ACTIVE", "RUNNING"}
  BY DEF ThreadStates
<1>4. ScheduleTypeOK' /\ OneRing' /\ CountsExact'
  <2> HIDE DEF t
  <2>1. DequeueThread(t, new)
    BY DEF t
  <2> QED BY <1>1, <1>2, <1>3, <2>1, DequeueRing
<1>5. /\ state' = [state EXCEPT ![t] = new]
      /\ \A u \in Threads : state'[u] = IF u = t THEN new ELSE state[u]
  BY <1>1 DEF DequeueThread, ScheduleTypeOK
<1>6. /\ RunPt' = RunPt /\ NextRunPt' = NextRunPt /\ pendsv' = pendsv /\ SP' = SP
      /\ resched' = resched
      /\ \A d \in Cores : d = c
      /\ pc'[c] = l
  BY <1>1 DEF switch, CoreTypeOK
<1>7. \A u \in Threads : state'[u] # "RUNNING"
  <2> SUFFICES ASSUME NEW u \in Threads, state[u] = "RUNNING" PROVE u = t
    BY <1>3, <1>5
  <2>1. Assigned(c) = u
    BY <1>1, <1>6 DEF RunningHasOneCore
  <2> QED BY <2>1, <1>2 DEF Assigned
<1>8. RunningHasOneCore'
  BY <1>7 DEF RunningHasOneCore
<1>9. Control'
  BY <1>1, <1>2, <1>5, <1>6 DEF Control
<1>10. Stacks'
  BY <1>1, <1>2, <1>5, <1>6 DEF Stacks
<1>11. BootRoot'
  BY <1>6 DEF BootRoot
<1> QED BY <1>1, <1>2, <1>4, <1>5, <1>8, <1>9, <1>10, <1>11

(* add_thread.                                                             *)
LEMMA AddThreadStep ==
  ASSUME Supported, IInv, NEW c \in Cores, NEW t \in Threads, AddThread(c, t)
  PROVE  IInv'
<1>1. /\ state[t] = "FREE" /\ EnqueueThread(t) /\ UNCHANGED <<switch, pc>>
      /\ resched' = resched /\ bthreads' = bthreads /\ UNCHANGED timer
      /\ ctx' = [ctx EXCEPT ![t] = "task"]
  BY DEF AddThread
<1>2. /\ ScheduleTypeOK' /\ OneRing' /\ CountsExact' /\ RunningHasOneCore'
      /\ Control' /\ BootRoot' /\ Stacks'
      /\ state' = [state EXCEPT ![t] = "ACTIVE"]
  BY <1>1, EnqueueStep
<1>3. WaitingOnce' /\ WaitersByPriority'
  <2>1. \A u \in Threads : state'[u] = IF u = t THEN "ACTIVE" ELSE state[u]
    BY <1>2 DEF IInv, TypeOK, ScheduleTypeOK
  <2> QED BY <1>1, <2>1, WaitSame DEF IInv, timer
<1>4. WaitTypeOK' /\ SleeperHasAlarm' /\ AlarmsDue'
  BY <1>1 DEF IInv, TypeOK, WaitTypeOK, SleeperHasAlarm, AlarmsDue, timer
<1>5. CoreTypeOK' /\ Contexts'
  BY <1>1 DEF IInv, TypeOK, CoreTypeOK, Contexts, switch
<1> QED BY <1>2, <1>3, <1>4, <1>5 DEF IInv, TypeOK

(* sched_unblock.                                                          *)
LEMMA SchedUnblockStep ==
  ASSUME Supported, IInv, NEW c \in Cores, NEW s \in Sems, SchedUnblock(c, s)
  PROVE  IInv'
<1> DEFINE list == bthreads[s]
           t == Head(list)
<1>0. /\ ScheduleTypeOK /\ WaitTypeOK /\ CoreTypeOK /\ WaitingOnce /\ WaitersByPriority
      /\ Priority \in [Threads -> Levels] /\ Levels \subseteq Int
  BY ConstantsAssumption DEF IInv, TypeOK, ConstantsAssumption, Levels
<1>1. /\ list # <<>> /\ EnqueueThread(t) /\ UNCHANGED <<switch, pc>> /\ ctx' = ctx
      /\ UNCHANGED timer
      /\ bthreads' = [bthreads EXCEPT ![s] = Tail(list)]
      /\ ~pendsv[c] /\ pc[c] \in {"task", "yield"}
  BY DEF SchedUnblock, InThread, Ready
<1>2. /\ list \in Seq(Threads) /\ IsInjective(list)
  BY <1>0 DEF WaitTypeOK, WaitingOnce
<1>3. /\ t \in Range(list) /\ t \in Threads
      /\ Tail(list) \in Seq(Threads)
      /\ Range(Tail(list)) = Range(list) \ {t} /\ IsInjective(Tail(list))
  BY <1>1, <1>2, TakeWaiter
<1>4. state[t] = "BLOCKED"
  BY <1>0, <1>3 DEF WaitingOnce
<1>5. resched' \in [Cores -> BOOLEAN] /\ \A d \in Cores : d # c => resched'[d] = resched[d]
  <2> DEFINE b == Priority[t] >= IF RunPt[c] \in Threads THEN Priority[RunPt[c]]
                                                        ELSE LevelCount
  <2>1. resched' = [resched EXCEPT ![c] = b]
    BY DEF SchedUnblock
  <2>2. b \in BOOLEAN
    OBVIOUS
  <2> HIDE DEF b
  <2> QED BY <2>1, <2>2, <1>0 DEF CoreTypeOK
<1>6. /\ ScheduleTypeOK' /\ OneRing' /\ CountsExact' /\ RunningHasOneCore'
      /\ Control' /\ BootRoot' /\ Stacks'
      /\ state' = [state EXCEPT ![t] = "ACTIVE"]
  <2>1. \A d \in Cores : resched'[d] => resched[d] \/ (~pendsv[d] /\ pc[d] \in {"task", "yield"})
    BY <1>1, <1>5
  <2> HIDE DEF t
  <2> QED BY <1>1, <1>3, <1>4, <2>1, EnqueueStep
<1>7. \A u \in Threads : state'[u] = IF u = t THEN "ACTIVE" ELSE state[u]
  BY <1>0, <1>6 DEF ScheduleTypeOK
<1>8. \A r \in Sems : bthreads'[r] = IF r = s THEN Tail(list) ELSE bthreads[r]
  BY <1>0, <1>1 DEF WaitTypeOK
<1>9. WaitTypeOK'
  BY <1>0, <1>1, <1>3 DEF WaitTypeOK, timer
<1>10. WaitingOnce'
  <2>1. SleepSchedule' = SleepSchedule
    BY <1>1 DEF timer
  <2>2. \A u \in Threads : state'[u] = "SLEEPING" <=> u \in Range(SleepSchedule')
    BY <1>0, <1>4, <1>7, <2>1 DEF WaitingOnce
  <2>3. \A r \in Sems : r # s => t \notin Range(bthreads[r])
    BY <1>0, <1>3 DEF WaitingOnce
  <2>4. \A u \in Threads : state'[u] = "BLOCKED" <=> \E r \in Sems : u \in Range(bthreads'[r])
    <3> SUFFICES ASSUME NEW u \in Threads
                 PROVE  state'[u] = "BLOCKED" <=> \E r \in Sems : u \in Range(bthreads'[r])
      OBVIOUS
    <3> HIDE DEF t, list
    <3>1. CASE u = t
      <4>1. \A r \in Sems : t \notin Range(bthreads'[r])
        BY <1>3, <1>8, <2>3
      <4> QED BY <3>1, <4>1, <1>7
    <3>2. CASE u # t
      <4>1. \A r \in Sems : u \in Range(bthreads'[r]) <=> u \in Range(bthreads[r])
        BY <3>2, <1>3, <1>8 DEF list
      <4> QED BY <3>2, <4>1, <1>0, <1>7 DEF WaitingOnce
    <3> QED BY <3>1, <3>2
  <2>5. \A r \in Sems : IsInjective(bthreads'[r])
    <3> HIDE DEF t, list
    <3> QED BY <1>0, <1>3, <1>8 DEF WaitingOnce
  <2>6. \A r1, r2 \in Sems : r1 # r2 => Range(bthreads'[r1]) \cap Range(bthreads'[r2]) = {}
    <3>1. \A r \in Sems : Range(bthreads'[r]) \subseteq Range(bthreads[r])
      <4> HIDE DEF t
      <4> QED BY <1>3, <1>8
    <3> QED BY <3>1, <1>0 DEF WaitingOnce
  <2> QED BY <2>1, <2>2, <2>4, <2>5, <2>6, <1>0 DEF WaitingOnce
<1>11. WaitersByPriority'
  <2>1. ASSUME NEW i \in DOMAIN Tail(list), NEW j \in DOMAIN Tail(list), i < j
        PROVE  Priority[Tail(list)[i]] <= Priority[Tail(list)[j]]
    <3> HIDE DEF list
    <3>1. /\ i + 1 \in DOMAIN list /\ j + 1 \in DOMAIN list /\ i + 1 < j + 1
          /\ Tail(list)[i] = list[i + 1] /\ Tail(list)[j] = list[j + 1]
      BY <1>1, <1>2, <2>1, HeadTailProperties
    <3> QED BY <3>1, <1>0 DEF WaitersByPriority, list
  <2> HIDE DEF list
  <2> QED BY <2>1, <1>0, <1>8 DEF WaitersByPriority
<1>12. SleeperHasAlarm' /\ AlarmsDue' /\ Contexts' /\ CoreTypeOK'
  BY <1>0, <1>1, <1>5 DEF IInv, SleeperHasAlarm, AlarmsDue, Contexts, CoreTypeOK, timer, switch
<1> QED BY <1>6, <1>9, <1>10, <1>11, <1>12 DEF IInv, TypeOK

(* timer0_interrupt and unsleep.                                           *)
LEMMA UnsleepStep ==
  ASSUME Supported, IInv, Unsleep
  PROVE  IInv'
<1> DEFINE t == Head(SleepSchedule)
<1>0. /\ ScheduleTypeOK /\ WaitTypeOK /\ CoreTypeOK /\ WaitingOnce /\ WaitersByPriority
      /\ AlarmsDue
  BY DEF IInv, TypeOK
<1>1. /\ SleepSchedule # <<>> /\ EnqueueThread(t) /\ UNCHANGED <<switch, pc>> /\ ctx' = ctx
      /\ resched' = resched /\ bthreads' = bthreads
      /\ SleepSchedule' = Tail(SleepSchedule)
      /\ timerIrq = TRUE /\ timerIrq' = FALSE
      /\ armed' = (armed \/ Tail(SleepSchedule) # <<>>)
  BY <1>0 DEF Unsleep, switch, flow, WaitTypeOK
<1>2. SleepSchedule \in Seq(Threads) /\ IsInjective(SleepSchedule)
  BY <1>0 DEF WaitTypeOK, WaitingOnce
<1>3. /\ t \in Range(SleepSchedule) /\ t \in Threads
      /\ SleepSchedule' \in Seq(Threads)
      /\ Range(SleepSchedule') = Range(SleepSchedule) \ {t} /\ IsInjective(SleepSchedule')
  BY <1>1, <1>2, TakeWaiter
<1>4. state[t] = "SLEEPING"
  BY <1>0, <1>3 DEF WaitingOnce
<1>5. /\ ScheduleTypeOK' /\ OneRing' /\ CountsExact' /\ RunningHasOneCore'
      /\ Control' /\ BootRoot' /\ Stacks'
      /\ state' = [state EXCEPT ![t] = "ACTIVE"]
  <2> HIDE DEF t
  <2> QED BY <1>1, <1>3, <1>4, EnqueueStep
<1>6. \A u \in Threads : state'[u] = IF u = t THEN "ACTIVE" ELSE state[u]
  BY <1>0, <1>5 DEF ScheduleTypeOK
<1>7. WaitingOnce'
  <2>1. \A u \in Threads : state'[u] = "SLEEPING" <=> u \in Range(SleepSchedule')
    <3> HIDE DEF t
    <3> QED BY <1>0, <1>3, <1>6 DEF WaitingOnce
  <2>2. \A u \in Threads : state'[u] = "BLOCKED" <=> state[u] = "BLOCKED"
    BY <1>4, <1>6
  <2> QED BY <1>0, <1>1, <1>3, <2>1, <2>2 DEF WaitingOnce
<1>8. WaitersByPriority'
  BY <1>0, <1>1 DEF WaitersByPriority
<1>9. /\ Len(SleepSchedule) \in Nat /\ Len(SleepSchedule') = Len(SleepSchedule) - 1
      /\ (SleepSchedule' # <<>> => Len(SleepSchedule') >= 1)
      /\ armed' \in BOOLEAN
  <2>1. /\ Len(SleepSchedule) \in Nat
        /\ Len(Tail(SleepSchedule)) = Len(SleepSchedule) - 1
    BY <1>1, <1>2, HeadTailProperties
  <2>2. SleepSchedule' # <<>> => Len(SleepSchedule') >= 1
    <3>1. SleepSchedule' # <<>> => Len(SleepSchedule') # 0 /\ Len(SleepSchedule') \in Nat
      BY <1>3, EmptySeq, LenProperties
    <3> QED BY <3>1
  <2>3. armed' \in BOOLEAN
    <3> DEFINE b == armed \/ Tail(SleepSchedule) # <<>>
    <3>1. armed' = b
      BY <1>1
    <3>2. b \in BOOLEAN
      OBVIOUS
    <3> HIDE DEF b
    <3> QED BY <3>1, <3>2
  <2> QED BY <2>1, <2>2, <2>3, <1>1
<1>10. SleeperHasAlarm' /\ AlarmsDue'
  <2>1. SleepSchedule' # <<>> => armed'
    BY <1>1
  <2>2. armed' => Len(SleepSchedule') >= 1
    <3>1. CASE armed
      BY <3>1, <1>0, <1>1, <1>9 DEF AlarmsDue
    <3>2. CASE ~armed
      BY <3>2, <1>1, <1>9
    <3> QED BY <3>1, <3>2
  <2> QED BY <2>1, <2>2, <1>1 DEF SleeperHasAlarm, AlarmsDue
<1>11. WaitTypeOK' /\ CoreTypeOK' /\ Contexts'
  BY <1>0, <1>1, <1>3, <1>9 DEF IInv, WaitTypeOK, CoreTypeOK, Contexts, switch
<1> QED BY <1>5, <1>7, <1>8, <1>10, <1>11 DEF IInv, TypeOK

(* sched_block.                                                            *)
LEMMA SchedBlockStep ==
  ASSUME Supported, IInv, NEW c \in Cores, NEW s \in Sems, SchedBlock(c, s)
  PROVE  IInv'
<1> DEFINE t == RunPt[c]
           list == bthreads[s]
<1>0. /\ ScheduleTypeOK /\ WaitTypeOK /\ CoreTypeOK /\ WaitingOnce /\ WaitersByPriority
      /\ Priority \in [Threads -> Levels] /\ Levels \subseteq Int
      /\ Cores = {BootCore}
  BY ConstantsAssumption DEF IInv, TypeOK, ConstantsAssumption, Levels, Supported
<1>1. PICK k \in BlockSlots(list, Priority[t]) :
        bthreads' = [bthreads EXCEPT ![s] = InsertAt(list, k + 1, t)]
  BY DEF SchedBlock
<1>2. /\ InThread(c) /\ DequeueThread(t, "BLOCKED")
      /\ pc' = [pc EXCEPT ![c] = "yield"] /\ UNCHANGED <<switch, resched>>
      /\ ctx' = ctx /\ UNCHANGED timer /\ t \in Threads
  BY DEF SchedBlock, Goto, InThread
<1>3. /\ ScheduleTypeOK' /\ OneRing' /\ CountsExact' /\ RunningHasOneCore'
      /\ Control' /\ BootRoot' /\ Stacks'
      /\ state[t] = "RUNNING"
      /\ state' = [state EXCEPT ![t] = "BLOCKED"]
  BY <1>0, <1>2, DequeueStep
<1>4. /\ list \in Seq(Threads) /\ IsInjective(list) /\ t \in Threads \ Range(list)
      /\ t \notin Range(SleepSchedule) /\ \A r \in Sems : t \notin Range(bthreads[r])
  BY <1>0, <1>2, <1>3 DEF WaitTypeOK, WaitingOnce
<1>5. /\ k \in 0 .. Len(list)
      /\ k = Len(list) \/ Priority[t] < Priority[list[k + 1]]
      /\ \A i \in 1 .. k : ~ (Priority[t] < Priority[list[i]])
  BY DEF BlockSlots
<1> DEFINE new == bthreads'[s]
<1>6. /\ new = InsertAt(list, k + 1, t)
      /\ \A r \in Sems : r # s => bthreads'[r] = bthreads[r]
  BY <1>0, <1>1 DEF WaitTypeOK
<1>7. /\ new \in Seq(Threads)
      /\ Range(new) = Range(list) \cup {t} /\ IsInjective(new)
  <2> HIDE DEF t, list, new
  <2> QED BY <1>4, <1>5, <1>6, InsertWaiter
<1>8. WaitTypeOK'
  BY <1>0, <1>1, <1>2, <1>6, <1>7 DEF WaitTypeOK, timer
<1>9. \A u \in Threads : state'[u] = IF u = t THEN "BLOCKED" ELSE state[u]
  BY <1>0, <1>3 DEF ScheduleTypeOK
<1>10. WaitingOnce'
  <2>1. SleepSchedule' = SleepSchedule
    BY <1>2 DEF timer
  <2>2. \A u \in Threads : state'[u] = "SLEEPING" <=> u \in Range(SleepSchedule')
    BY <1>0, <1>3, <1>9, <2>1 DEF WaitingOnce
  <2>3. \A r \in Sems, u \in Threads : u # t => (u \in Range(bthreads'[r]) <=> u \in Range(bthreads[r]))
    <3> SUFFICES ASSUME NEW r \in Sems, NEW u \in Threads, u # t
                 PROVE  u \in Range(bthreads'[r]) <=> u \in Range(bthreads[r])
      OBVIOUS
    <3>1. CASE r = s
      BY <3>1, <1>7
    <3>2. CASE r # s
      BY <3>2, <1>6
    <3> QED BY <3>1, <3>2
  <2>4. t \in Range(bthreads'[s])
    BY <1>7
  <2>5. \A u \in Threads : state'[u] = "BLOCKED" <=> \E r \in Sems : u \in Range(bthreads'[r])
    <3> SUFFICES ASSUME NEW u \in Threads
                 PROVE  state'[u] = "BLOCKED" <=> \E r \in Sems : u \in Range(bthreads'[r])
      OBVIOUS
    <3>1. CASE u = t
      BY <3>1, <1>9, <2>4
    <3>2. CASE u # t
      BY <3>2, <1>0, <1>9, <2>3 DEF WaitingOnce
    <3> QED BY <3>1, <3>2
  <2>6. \A r \in Sems : IsInjective(bthreads'[r])
    BY <1>0, <1>6, <1>7 DEF WaitingOnce
  <2>7. \A r \in Sems : Range(bthreads'[r]) \subseteq Range(bthreads[r]) \cup {t}
    BY <1>6, <1>7
  <2>8. \A r \in Sems : r # s => t \notin Range(bthreads'[r])
    BY <1>4, <1>6
  <2>9. \A r1, r2 \in Sems : r1 # r2 => Range(bthreads'[r1]) \cap Range(bthreads'[r2]) = {}
    BY <2>7, <2>8, <1>0, <1>4 DEF WaitingOnce
  <2> QED BY <2>1, <2>2, <2>5, <2>6, <2>9, <1>0 DEF WaitingOnce
<1>11. WaitersByPriority'
  <2>0. Priority \in [Threads -> Int]
    BY <1>0
  <2>1. Sorted(Priority, list) /\ Slot(Priority, list, k, t)
    BY <1>0, <1>5 DEF WaitersByPriority, Sorted, Slot
  <2>2. \A r \in Sems : bthreads'[r] = IF r = s THEN new ELSE bthreads[r]
    BY <1>6
  <2> HIDE DEF t, list, new
  <2>3. Sorted(Priority, new)
    BY <1>4, <1>5, <1>6, <2>0, <2>1, InsertSorted
  <2> QED BY <2>2, <2>3, <1>0 DEF WaitersByPriority, Sorted
<1>12. SleeperHasAlarm' /\ AlarmsDue' /\ Contexts' /\ CoreTypeOK'
  BY <1>0, <1>2 DEF IInv, SleeperHasAlarm, AlarmsDue, Contexts, CoreTypeOK, PCs, timer, switch
<1> QED BY <1>3, <1>8, <1>10, <1>11, <1>12 DEF IInv, TypeOK

(* sleep.                                                                  *)
LEMMA SleepStep ==
  ASSUME Supported, IInv, NEW c \in Cores, Sleep(c)
  PROVE  IInv'
<1> DEFINE t == RunPt[c]
           list == SleepSchedule
           new == SleepSchedule'
<1>0. /\ ScheduleTypeOK /\ WaitTypeOK /\ CoreTypeOK /\ WaitingOnce /\ WaitersByPriority
      /\ SleeperHasAlarm /\ AlarmsDue
  BY DEF IInv, TypeOK
<1>1. Cores = {BootCore}
  BY DEF Sleep, Supported
<1>2. PICK k \in 0 .. Len(list) :
        /\ new = InsertAt(list, k + 1, t)
        /\ armed' = (armed \/ k = 0)
  BY DEF Sleep
<1>3. /\ InThread(c) /\ DequeueThread(t, "SLEEPING")
      /\ pc' = [pc EXCEPT ![c] = "yield"] /\ UNCHANGED <<switch, resched>>
      /\ ctx' = ctx /\ timerIrq' = timerIrq /\ bthreads' = bthreads /\ t \in Threads
  BY DEF Sleep, Goto, InThread
<1>4. /\ ScheduleTypeOK' /\ OneRing' /\ CountsExact' /\ RunningHasOneCore'
      /\ Control' /\ BootRoot' /\ Stacks'
      /\ state[t] = "RUNNING"
      /\ state' = [state EXCEPT ![t] = "SLEEPING"]
  BY <1>1, <1>3, DequeueStep
<1>5. /\ list \in Seq(Threads) /\ IsInjective(list) /\ t \in Threads \ Range(list)
      /\ \A r \in Sems : t \notin Range(bthreads[r])
  BY <1>0, <1>3, <1>4 DEF WaitTypeOK, WaitingOnce
<1>6. /\ new \in Seq(Threads) /\ new # <<>>
      /\ Range(new) = Range(list) \cup {t} /\ IsInjective(new)
  <2> HIDE DEF t, list, new
  <2> QED BY <1>2, <1>5, InsertWaiter
<1>7. Len(new) = Len(list) + 1 /\ Len(list) \in Nat
  <2> HIDE DEF t, list, new
  <2> QED BY <1>2, <1>5, InsertAtLinks DEF Linked
<1>8. \A u \in Threads : state'[u] = IF u = t THEN "SLEEPING" ELSE state[u]
  BY <1>0, <1>4 DEF ScheduleTypeOK
<1>9. WaitingOnce'
  <2>1. \A u \in Threads : state'[u] = "SLEEPING" <=> u \in Range(new)
    <3> SUFFICES ASSUME NEW u \in Threads
                 PROVE  state'[u] = "SLEEPING" <=> u \in Range(new)
      OBVIOUS
    <3>1. state[u] = "SLEEPING" <=> u \in Range(list)
      BY <1>0 DEF WaitingOnce
    <3> HIDE DEF t, list, new
    <3> QED BY <1>6, <1>8, <3>1
  <2>2. \A u \in Threads : state'[u] = "BLOCKED" <=> state[u] = "BLOCKED"
    BY <1>4, <1>8
  <2> QED BY <1>0, <1>3, <1>6, <2>1, <2>2 DEF WaitingOnce
<1>10. WaitersByPriority'
  BY <1>0, <1>3 DEF WaitersByPriority
<1>11. armed' \in BOOLEAN
  <2> DEFINE b == armed \/ k = 0
  <2>1. armed' = b
    BY <1>2
  <2>2. b \in BOOLEAN
    OBVIOUS
  <2> HIDE DEF b
  <2> QED BY <2>1, <2>2
<1>12. SleeperHasAlarm'
  <2>1. armed' \/ timerIrq'
    <3>1. CASE list # <<>>
      BY <3>1, <1>0, <1>2, <1>3 DEF SleeperHasAlarm
    <3>2. CASE list = <<>>
      <4>1. k = 0
        BY <3>2
      <4> QED BY <4>1, <1>2
    <3> QED BY <3>1, <3>2
  <2> QED BY <2>1, <1>6 DEF SleeperHasAlarm
<1>13. AlarmsDue'
  <2>1. Len(new) >= 1
    BY <1>7
  <2>2. timerIrq' => Len(new) >= 2
    <3>1. timerIrq => Len(list) >= 1
      BY <1>0 DEF AlarmsDue
    <3> HIDE DEF list, new
    <3> QED BY <3>1, <1>3, <1>7
  <2> QED BY <2>1, <2>2 DEF AlarmsDue
<1>14. WaitTypeOK' /\ CoreTypeOK' /\ Contexts'
  BY <1>0, <1>3, <1>6, <1>11 DEF IInv, WaitTypeOK, CoreTypeOK, PCs, Contexts, switch
<1> QED BY <1>4, <1>9, <1>10, <1>12, <1>13, <1>14 DEF IInv, TypeOK

(* kill, up to its unlock.                                                 *)
LEMMA KillStep ==
  ASSUME Supported, IInv, NEW c \in Cores, Kill(c)
  PROVE  IInv'
<1> DEFINE t == RunPt[c]
<1>0. /\ ScheduleTypeOK /\ WaitTypeOK /\ CoreTypeOK /\ WaitingOnce
  BY DEF IInv, TypeOK
<1>1. Cores = {BootCore}
  BY DEF Kill, Supported
<1>2. /\ InThread(c) /\ DequeueThread(t, "DEAD")
      /\ pc' = [pc EXCEPT ![c] = "kill"] /\ UNCHANGED <<switch, resched>>
      /\ ctx' = ctx /\ UNCHANGED timer /\ bthreads' = bthreads /\ t \in Threads
  BY DEF Kill, Goto, InThread
<1>3. /\ ScheduleTypeOK' /\ OneRing' /\ CountsExact' /\ RunningHasOneCore'
      /\ Control' /\ BootRoot' /\ Stacks'
      /\ state[t] = "RUNNING"
      /\ state' = [state EXCEPT ![t] = "DEAD"]
  BY <1>1, <1>2, DequeueStep
<1>4. \A u \in Threads : state'[u] = IF u = t THEN "DEAD" ELSE state[u]
  BY <1>0, <1>3 DEF ScheduleTypeOK
<1>5. WaitingOnce' /\ WaitersByPriority'
  BY <1>2, <1>3, <1>4, WaitSame DEF IInv, timer
<1>6. /\ WaitTypeOK' /\ SleeperHasAlarm' /\ AlarmsDue' /\ CoreTypeOK' /\ Contexts'
  BY <1>0, <1>2 DEF IInv, WaitTypeOK, SleeperHasAlarm, AlarmsDue, CoreTypeOK, PCs,
                    Contexts, timer, switch
<1> QED BY <1>3, <1>5, <1>6 DEF IInv, TypeOK

(* kill frees the stack and the TCB.                                       *)
LEMMA KillFreeStep ==
  ASSUME Supported, IInv, NEW c \in Cores, KillFree(c)
  PROVE  IInv'
<1> DEFINE t == RunPt[c]
<1>0. /\ ScheduleTypeOK /\ WaitTypeOK /\ CoreTypeOK /\ WaitingOnce /\ OneRing /\ CountsExact
      /\ RunningHasOneCore /\ Control /\ Stacks /\ Contexts
      /\ BlackHole \notin Threads
  BY ConstantsAssumption DEF IInv, TypeOK, ConstantsAssumption
<1>1. /\ state' = [state EXCEPT ![t] = "FREE"]
      /\ RunPt' = [RunPt EXCEPT ![c] = BlackHole]
      /\ pc' = [pc EXCEPT ![c] = "killed"]
      /\ UNCHANGED <<next_tcb, prev_tcb, ThreadSchedule>>
      /\ UNCHANGED <<ActivePriorityCount, RunningPriorityCount>>
      /\ UNCHANGED <<bthreads, SleepSchedule, armed, timerIrq>>
      /\ UNCHANGED <<NextRunPt, pendsv, SP, ctx, resched>>
      /\ pc[c] = "kill"
  BY DEF KillFree, Goto, ring, counts, timer
<1>2. /\ t \in Threads /\ state[t] = "DEAD" /\ ~pendsv[c] /\ ~resched[c]
      /\ Cores = {BootCore} /\ \A d \in Cores : d = c
  BY <1>0, <1>1 DEF Control
<1>3. \A u \in Threads : state'[u] = IF u = t THEN "FREE" ELSE state[u]
  BY <1>0, <1>1 DEF ScheduleTypeOK
<1>4. \A p \in Levels : /\ InState(p, "ACTIVE")' = InState(p, "ACTIVE")
                        /\ InState(p, "RUNNING")' = InState(p, "RUNNING")
  BY <1>2, <1>3 DEF InState
<1>5. CountsExact'
  BY <1>0, <1>1, <1>4 DEF CountsExact
<1>6. OneRing'
  <2>1. \A p \in Levels : Scheduled(p)' = Scheduled(p)
    BY <1>4 DEF Scheduled
  <2> QED BY <1>0, <1>1, <2>1 DEF OneRing, RingLinks, Connected
<1>7. /\ pc'[c] = "killed" /\ RunPt'[c] = BlackHole
  BY <1>0, <1>1 DEF CoreTypeOK
<1>8. RunningHasOneCore'
  <2>1. \A u \in Threads : state'[u] # "RUNNING"
    <3> SUFFICES ASSUME NEW u \in Threads, state[u] = "RUNNING" PROVE FALSE
      BY <1>3
    <3>1. Assigned(c) = u
      BY <1>0, <1>2 DEF RunningHasOneCore
    <3> QED BY <3>1, <1>2 DEF Assigned
  <2> QED BY <2>1 DEF RunningHasOneCore
<1>9. Control' /\ BootRoot' /\ Stacks' /\ Contexts'
  <2>1. Control'
    BY <1>0, <1>1, <1>2, <1>7 DEF Control
  <2>2. BootRoot'
    BY <1>2, <1>7 DEF BootRoot
  <2>3. Stacks'
    BY <1>0, <1>2, <1>7 DEF Stacks
  <2>4. Contexts'
    BY <1>0, <1>1 DEF Contexts
  <2> QED BY <2>1, <2>2, <2>3, <2>4
<1>10. WaitingOnce' /\ WaitersByPriority'
  BY <1>1, <1>2, <1>3, WaitSame DEF IInv
<1>11. ScheduleTypeOK'
  BY <1>0, <1>1 DEF ScheduleTypeOK, ThreadStates
<1>12. WaitTypeOK' /\ SleeperHasAlarm' /\ AlarmsDue'
  BY <1>0, <1>1 DEF IInv, WaitTypeOK, SleeperHasAlarm, AlarmsDue
<1>13. CoreTypeOK'
  BY <1>0, <1>1 DEF CoreTypeOK, PCs
<1> QED BY <1>5, <1>6, <1>8, <1>9, <1>10, <1>11, <1>12, <1>13 DEF IInv, TypeOK

(* The calls of schedule().                                                *)
LEMMA CallScheduleStep ==
  ASSUME Supported, IInv, NEW c \in Cores,
         SysTick(c) \/ Yield(c) \/ Resched(c) \/ KillSchedule(c)
  PROVE  IInv'
<1>0. CoreTypeOK /\ Control
  BY DEF IInv, TypeOK
<1>1. CASE SysTick(c)
  <2>1. /\ Schedule(c) /\ ~pendsv[c] /\ pc[c] \in {"task", "yield"} /\ ~resched[c]
        /\ pc' = pc /\ resched' = resched
    BY <1>1 DEF SysTick, Ready
  <2>2. pc' = [pc EXCEPT ![c] = pc[c]] /\ resched' = [resched EXCEPT ![c] = FALSE]
    BY <1>0, <2>1 DEF CoreTypeOK
  <2>3. PICK l \in {"task", "yield"} : l = pc[c]
    BY <2>1
  <2> QED BY <2>1, <2>2, <2>3, ScheduleStep
<1>2. CASE Yield(c)
  <2>1. /\ Schedule(c) /\ ~pendsv[c] /\ pc[c] = "yield" /\ ~resched[c]
        /\ pc' = [pc EXCEPT ![c] = "task"] /\ resched' = resched
    BY <1>2 DEF Yield, Ready, Goto
  <2>2. resched' = [resched EXCEPT ![c] = FALSE]
    BY <1>0, <2>1 DEF CoreTypeOK
  <2> QED BY <2>1, <2>2, ScheduleStep
<1>3. CASE Resched(c)
  <2>1. /\ Schedule(c) /\ ~pendsv[c] /\ pc[c] \in {"task", "yield"}
        /\ pc' = pc /\ resched' = [resched EXCEPT ![c] = FALSE]
    BY <1>3, <1>0 DEF Resched, Control
  <2>2. pc' = [pc EXCEPT ![c] = pc[c]]
    BY <1>0, <2>1 DEF CoreTypeOK
  <2>3. PICK l \in {"task", "yield"} : l = pc[c]
    BY <2>1
  <2> QED BY <2>1, <2>2, <2>3, ScheduleStep
<1>4. CASE KillSchedule(c)
  <2>1. /\ Schedule(c) /\ pc[c] = "killed"
        /\ pc' = [pc EXCEPT ![c] = "task"] /\ resched' = resched
    BY <1>4 DEF KillSchedule, Goto
  <2>2. ~pendsv[c] /\ ~resched[c]
    BY <1>0, <2>1 DEF Control
  <2>3. resched' = [resched EXCEPT ![c] = FALSE]
    BY <1>0, <2>1, <2>2 DEF CoreTypeOK
  <2> QED BY <2>1, <2>2, <2>3, ScheduleStep
<1> QED BY <1>1, <1>2, <1>3, <1>4

(* pendSV_handler.                                                         *)
LEMMA PendSVStep ==
  ASSUME Supported, IInv, NEW c \in Cores, PendSV(c)
  PROVE  IInv'
<1> DEFINE t == NextRunPt[c]
           saved == IF RunPt[c] \in Threads THEN [ctx EXCEPT ![RunPt[c]] = pc[c]] ELSE ctx
           l == IF t \in Threads THEN saved[t] ELSE "task"
<1>0. /\ ScheduleTypeOK /\ WaitTypeOK /\ CoreTypeOK /\ WaitingOnce /\ OneRing /\ CountsExact
      /\ RunningHasOneCore /\ Control /\ Stacks /\ Contexts /\ BootRoot
      /\ BlackHole \notin Threads \cup {Idle, NULL}
  BY ConstantsAssumption DEF IInv, TypeOK, ConstantsAssumption
<1>1. /\ pendsv[c] /\ ~resched[c] /\ pc[c] \in {"task", "yield"}
      /\ pendsv' = [pendsv EXCEPT ![c] = FALSE]
      /\ ctx' = saved
      /\ pc' = [pc EXCEPT ![c] = l]
      /\ RunPt' = [RunPt EXCEPT ![c] = t]
      /\ SP' = [SP EXCEPT ![c] = t]
      /\ UNCHANGED <<next_tcb, prev_tcb, ThreadSchedule, state>>
      /\ UNCHANGED <<ActivePriorityCount, RunningPriorityCount>>
      /\ UNCHANGED <<bthreads, SleepSchedule, armed, timerIrq>>
      /\ UNCHANGED <<NextRunPt, resched>>
  BY DEF PendSV, Goto, ring, counts, timer
<1>2. t \in Threads \cup {Idle, NULL}
  BY <1>0 DEF CoreTypeOK
<1>3. saved \in [Threads -> {"task", "yield"}]
  BY <1>0, <1>1 DEF CoreTypeOK
<1>4. \A u \in Threads : saved[u] = "yield" => Cores = {BootCore}
  <2>1. pc[c] = "yield" => Cores = {BootCore}
    BY <1>0 DEF Control
  <2>2. \A u \in Threads : saved[u] = ctx[u] \/ (u = RunPt[c] /\ saved[u] = pc[c])
    BY <1>0 DEF CoreTypeOK
  <2> QED BY <2>1, <2>2, <1>0 DEF Contexts
<1>5. l \in {"task", "yield"} /\ (l = "yield" => Cores = {BootCore})
  BY <1>3, <1>4
<1>6. t \in Threads => state[t] = "RUNNING"
  BY <1>0, <1>1 DEF Control
<1> HIDE DEF t, saved, l
<1>7. /\ pc'[c] = l /\ RunPt'[c] = t /\ SP'[c] = t /\ pendsv'[c] = FALSE
      /\ \A d \in Cores : d # c => /\ pc'[d] = pc[d] /\ RunPt'[d] = RunPt[d]
                                   /\ SP'[d] = SP[d] /\ pendsv'[d] = pendsv[d]
  BY <1>0, <1>1 DEF CoreTypeOK
<1>8. \A d \in Cores : Assigned(d)' = Assigned(d)
  BY <1>1, <1>7 DEF Assigned, t
<1>9. RunningHasOneCore'
  BY <1>0, <1>1, <1>8 DEF RunningHasOneCore
<1>10. Control'
  <2> SUFFICES ASSUME NEW d \in Cores
        PROVE /\ pc'[d] \in {"off", "main", "boot"} => RunPt'[d] = NULL /\ ~pendsv'[d]
              /\ pendsv'[d] /\ NextRunPt'[d] \in Threads => state'[NextRunPt'[d]] = "RUNNING"
              /\ ~pendsv'[d] /\ pc'[d] = "task" /\ RunPt'[d] \in Threads => state'[RunPt'[d]] = "RUNNING"
              /\ pendsv'[d] \/ resched'[d] => pc'[d] \in {"task", "yield"}
              /\ ~ (pendsv'[d] /\ resched'[d])
              /\ pc'[d] \in {"yield", "kill", "killed"} => Cores = {BootCore}
              /\ pc'[d] = "kill" => RunPt'[d] \in Threads /\ state'[RunPt'[d]] = "DEAD"
              /\ pc'[d] = "killed" => RunPt'[d] = BlackHole
    BY DEF Control
  <2>1. CASE d = c
    BY <2>1, <1>1, <1>5, <1>6, <1>7
  <2>2. CASE d # c
    BY <2>2, <1>0, <1>1, <1>7 DEF Control
  <2> QED BY <2>1, <2>2
<1>11. BootRoot'
  <2>1. \A d \in Cores : pc'[d] \in {"off", "main", "boot"} => pc[d] \in {"off", "main", "boot"}
    BY <1>5, <1>7
  <2>2. \A p \in Levels : Scheduled(p)' = Scheduled(p)
    BY <1>1 DEF Scheduled, InState
  <2> QED BY <2>1, <2>2, <1>0, <1>1 DEF BootRoot
<1>12. Stacks'
  BY <1>0, <1>1, <1>2, <1>6, <1>7 DEF Stacks
<1>13. WaitingOnce' /\ WaitersByPriority'
  BY <1>1, WaitSame DEF IInv
<1>14. CoreTypeOK'
  BY <1>0, <1>1, <1>2, <1>3, <1>5 DEF CoreTypeOK, PCs
<1>15. Contexts'
  BY <1>1, <1>4 DEF Contexts
<1>16. ScheduleTypeOK' /\ OneRing' /\ CountsExact'
  <2>1. ScheduleTypeOK'
    BY <1>0, <1>1 DEF ScheduleTypeOK
  <2>2. \A p \in Levels : /\ InState(p, "ACTIVE")' = InState(p, "ACTIVE")
                          /\ InState(p, "RUNNING")' = InState(p, "RUNNING")
    BY <1>1 DEF InState
  <2>3. \A p \in Levels : Scheduled(p)' = Scheduled(p)
    BY <2>2 DEF Scheduled
  <2>4. OneRing'
    BY <1>0, <1>1, <2>3 DEF OneRing, RingLinks, Connected
  <2>5. CountsExact'
    BY <1>0, <1>1, <2>2 DEF CountsExact
  <2> QED BY <2>1, <2>4, <2>5
<1>17. WaitTypeOK' /\ SleeperHasAlarm' /\ AlarmsDue'
  BY <1>0, <1>1 DEF IInv, WaitTypeOK, SleeperHasAlarm, AlarmsDue
<1> QED BY <1>9, <1>10, <1>11, <1>12, <1>13, <1>14, <1>15, <1>16, <1>17 DEF IInv, TypeOK

(* The alarm interrupts.                                                   *)
LEMMA AlarmMatchStep ==
  ASSUME IInv, AlarmMatch
  PROVE  IInv'
<1>1. /\ armed /\ armed' = FALSE /\ timerIrq' = TRUE
      /\ UNCHANGED <<state, next_tcb, prev_tcb, ThreadSchedule>>
      /\ UNCHANGED <<ActivePriorityCount, RunningPriorityCount, bthreads, SleepSchedule>>
      /\ UNCHANGED <<RunPt, NextRunPt, pendsv, SP, pc, ctx, resched>>
  BY DEF AlarmMatch, ring, counts, switch, flow
<1>2. \A p \in Levels : /\ InState(p, "ACTIVE")' = InState(p, "ACTIVE")
                        /\ InState(p, "RUNNING")' = InState(p, "RUNNING")
                        /\ Scheduled(p)' = Scheduled(p)
  BY <1>1 DEF InState, Scheduled
<1>3. ScheduleTypeOK' /\ OneRing' /\ CountsExact'
  BY <1>1, <1>2 DEF IInv, TypeOK, ScheduleTypeOK, OneRing, RingLinks, Connected, CountsExact
<1>4. WaitTypeOK' /\ CoreTypeOK' /\ Contexts'
  BY <1>1 DEF IInv, TypeOK, WaitTypeOK, CoreTypeOK, Contexts
<1>5. RunningHasOneCore' /\ Control' /\ Stacks'
  BY <1>1 DEF IInv, RunningHasOneCore, Assigned, Control, Stacks
<1>6. BootRoot'
  BY <1>1, <1>2 DEF IInv, BootRoot
<1>7. WaitingOnce' /\ WaitersByPriority'
  BY <1>1, WaitSame DEF IInv
<1>8. SleeperHasAlarm' /\ AlarmsDue'
  <2>1. Len(SleepSchedule) >= 1 /\ SleepSchedule \in Seq(Threads)
    BY <1>1 DEF IInv, TypeOK, WaitTypeOK, AlarmsDue
  <2>2. SleepSchedule # <<>>
    BY <2>1
  <2> QED BY <1>1, <2>1, <2>2 DEF SleeperHasAlarm, AlarmsDue
<1> QED BY <1>3, <1>4, <1>5, <1>6, <1>7, <1>8 DEF IInv, TypeOK

(* main calls init_scheduler.                                              *)
LEMMA StartSchedulerStep ==
  ASSUME IInv, CPU0First, StartScheduler
  PROVE  IInv'
<1>0. CoreTypeOK /\ Control /\ BootCore \in Cores
  BY ConstantsAssumption DEF IInv, TypeOK, ConstantsAssumption
<1>1. /\ pc[BootCore] = "main" /\ pc' = [c \in Cores |-> "boot"]
      /\ UNCHANGED <<state, next_tcb, prev_tcb, ThreadSchedule>>
      /\ UNCHANGED <<ActivePriorityCount, RunningPriorityCount, bthreads, SleepSchedule>>
      /\ UNCHANGED <<RunPt, NextRunPt, pendsv, SP, armed, timerIrq, ctx, resched>>
  BY DEF StartScheduler, ring, counts, switch, timer
<1>2. \A p \in Levels : /\ InState(p, "ACTIVE")' = InState(p, "ACTIVE")
                        /\ InState(p, "RUNNING")' = InState(p, "RUNNING")
                        /\ Scheduled(p)' = Scheduled(p)
  BY <1>1 DEF InState, Scheduled
<1>3. ScheduleTypeOK' /\ OneRing' /\ CountsExact'
  BY <1>1, <1>2 DEF IInv, TypeOK, ScheduleTypeOK, OneRing, RingLinks, Connected, CountsExact
<1>4. WaitTypeOK' /\ CoreTypeOK' /\ Contexts'
  BY <1>1 DEF IInv, TypeOK, WaitTypeOK, CoreTypeOK, PCs, Contexts
<1>5. RunningHasOneCore'
  BY <1>1 DEF IInv, RunningHasOneCore, Assigned
<1>6. \A c \in Cores : /\ pc[c] \in {"off", "main"} /\ pc'[c] = "boot"
                      /\ RunPt[c] = NULL /\ ~pendsv[c] /\ ~resched[c]
  BY <1>0, <1>1 DEF CPU0First, Control
<1>7. Control'
  BY <1>1, <1>6, ConstantsAssumption DEF Control, ConstantsAssumption
<1>8. Stacks'
  BY <1>1, <1>6, ConstantsAssumption DEF IInv, Stacks, ConstantsAssumption
<1>9. BootRoot'
  BY <1>0, <1>1, <1>2 DEF IInv, BootRoot
<1>10. WaitingOnce' /\ WaitersByPriority'
  BY <1>1, WaitSame DEF IInv
<1>11. SleeperHasAlarm' /\ AlarmsDue'
  BY <1>1 DEF IInv, SleeperHasAlarm, AlarmsDue
<1> QED BY <1>3, <1>4, <1>5, <1>7, <1>8, <1>9, <1>10, <1>11 DEF IInv, TypeOK

(* The jump of a core into its first thread, or into the idle thread: what *)
(* does not depend on which.                                               *)
LEMMA LaunchStep ==
  ASSUME Supported, IInv, NEW c \in Cores, pc[c] = "boot",
         NEW t \in Threads \cup {Idle}, Launch(c, t),
         t \in Threads => state[t] = "ACTIVE" /\ state'[t] = "RUNNING",
         \A u \in Threads : u # t => state'[u] = state[u]
  PROVE  /\ WaitTypeOK' /\ CoreTypeOK' /\ Contexts' /\ RunningHasOneCore' /\ Control'
         /\ Stacks' /\ WaitingOnce' /\ WaitersByPriority' /\ SleeperHasAlarm' /\ AlarmsDue'
<1>0. /\ ScheduleTypeOK /\ WaitTypeOK /\ CoreTypeOK /\ RunningHasOneCore /\ Control
      /\ Stacks /\ Contexts /\ Idle \notin Threads \cup {BlackHole, NULL}
      /\ NULL \notin Threads /\ BlackHole \notin Threads
  BY ConstantsAssumption DEF IInv, TypeOK, ConstantsAssumption
<1>1. /\ pc' = [pc EXCEPT ![c] = "task"]
      /\ RunPt' = [RunPt EXCEPT ![c] = t]
      /\ SP' = [SP EXCEPT ![c] = t]
      /\ UNCHANGED <<bthreads, SleepSchedule, armed, timerIrq>>
      /\ UNCHANGED <<NextRunPt, pendsv, ctx, resched>>
  BY DEF Launch, Goto, timer
<1>2. RunPt[c] = NULL /\ ~pendsv[c] /\ ~resched[c]
  BY <1>0 DEF Control
<1>3. /\ pc'[c] = "task" /\ RunPt'[c] = t /\ SP'[c] = t
      /\ \A d \in Cores : d # c => pc'[d] = pc[d] /\ RunPt'[d] = RunPt[d] /\ SP'[d] = SP[d]
  BY <1>0, <1>1 DEF CoreTypeOK
<1>4. /\ Assigned(c) = NULL /\ Assigned(c)' = t
      /\ \A d \in Cores : d # c => Assigned(d)' = Assigned(d)
  BY <1>1, <1>2, <1>3 DEF Assigned
<1>5. \A d \in Cores : d # c /\ Assigned(d) \in Threads =>
        state[Assigned(d)] = "RUNNING" /\ Assigned(d) # t
  BY <1>0, OtherCoreRuns
<1>6. RunningHasOneCore'
  <2> SUFFICES ASSUME NEW u \in Threads, state'[u] = "RUNNING"
               PROVE  \E d \in Cores : Assigned(d)' = u /\ \A e \in Cores : Assigned(e)' = u => e = d
    BY DEF RunningHasOneCore
  <2>1. CASE u = t
    BY <2>1, <1>4, <1>5
  <2>2. CASE u # t
    <3>1. state[u] = "RUNNING"
      BY <2>2
    <3>2. PICK d \in Cores : Assigned(d) = u /\ \A e \in Cores : Assigned(e) = u => e = d
      BY <1>0, <3>1 DEF RunningHasOneCore
    <3> QED BY <2>2, <3>2, <1>0, <1>4
  <2> QED BY <2>1, <2>2
<1>7. Control'
  <2> SUFFICES ASSUME NEW d \in Cores
        PROVE /\ pc'[d] \in {"off", "main", "boot"} => RunPt'[d] = NULL /\ ~pendsv'[d]
              /\ pendsv'[d] /\ NextRunPt'[d] \in Threads => state'[NextRunPt'[d]] = "RUNNING"
              /\ ~pendsv'[d] /\ pc'[d] = "task" /\ RunPt'[d] \in Threads => state'[RunPt'[d]] = "RUNNING"
              /\ pendsv'[d] \/ resched'[d] => pc'[d] \in {"task", "yield"}
              /\ ~ (pendsv'[d] /\ resched'[d])
              /\ pc'[d] \in {"yield", "kill", "killed"} => Cores = {BootCore}
              /\ pc'[d] = "kill" => RunPt'[d] \in Threads /\ state'[RunPt'[d]] = "DEAD"
              /\ pc'[d] = "killed" => RunPt'[d] = BlackHole
    BY DEF Control
  <2>1. CASE d = c
    BY <2>1, <1>1, <1>2, <1>3
  <2>2. CASE d # c
    <3>1. pc[d] \notin {"yield", "kill", "killed"}
      BY <2>2, <1>0 DEF Control
    <3> QED BY <2>2, <3>1, <1>0, <1>1, <1>3 DEF Control
  <2> QED BY <2>1, <2>2
<1>8. \A u \in Threads, k \in {"FREE", "SLEEPING", "BLOCKED", "DEAD"} : state'[u] = k <=> state[u] = k
  OBVIOUS
<1>9. Stacks'
  BY <1>0, <1>1, <1>3, <1>8 DEF Stacks
<1>10. WaitingOnce' /\ WaitersByPriority'
  BY <1>1, <1>8, WaitSame DEF IInv
<1>11. WaitTypeOK' /\ SleeperHasAlarm' /\ AlarmsDue'
  BY <1>0, <1>1 DEF IInv, WaitTypeOK, SleeperHasAlarm, AlarmsDue
<1>12. CoreTypeOK' /\ Contexts'
  BY <1>0, <1>1 DEF CoreTypeOK, PCs, Contexts
<1> QED BY <1>6, <1>7, <1>9, <1>10, <1>11, <1>12

LEMMA LaunchIdleStep ==
  ASSUME Supported, IInv, NEW c \in Cores, LaunchIdle(c)
  PROVE  IInv'
<1>1. /\ pc[c] = "boot" /\ Launch(c, Idle)
      /\ UNCHANGED <<state, next_tcb, prev_tcb, ThreadSchedule>>
      /\ UNCHANGED <<ActivePriorityCount, RunningPriorityCount>>
      /\ pc' = [pc EXCEPT ![c] = "task"]
  BY DEF LaunchIdle, Launch, Goto, counts
<1>2. /\ WaitTypeOK' /\ CoreTypeOK' /\ Contexts' /\ RunningHasOneCore' /\ Control'
      /\ Stacks' /\ WaitingOnce' /\ WaitersByPriority' /\ SleeperHasAlarm' /\ AlarmsDue'
  <2>1. Idle \in Threads \cup {Idle} /\ Idle \notin Threads
    BY ConstantsAssumption DEF ConstantsAssumption
  <2> QED BY <1>1, <2>1, LaunchStep
<1>3. \A p \in Levels : /\ InState(p, "ACTIVE")' = InState(p, "ACTIVE")
                        /\ InState(p, "RUNNING")' = InState(p, "RUNNING")
                        /\ Scheduled(p)' = Scheduled(p)
  BY <1>1 DEF InState, Scheduled
<1>4. ScheduleTypeOK' /\ OneRing' /\ CountsExact'
  BY <1>1, <1>3 DEF IInv, TypeOK, ScheduleTypeOK, OneRing, RingLinks, Connected, CountsExact
<1>5. BootRoot'
  <2>1. \A d \in Cores : pc'[d] \in {"off", "main", "boot"} => pc[d] \in {"off", "main", "boot"}
    BY <1>1 DEF IInv, TypeOK, CoreTypeOK
  <2> QED BY <1>1, <1>3, <2>1 DEF IInv, BootRoot
<1> QED BY <1>2, <1>4, <1>5 DEF IInv, TypeOK

LEMMA LaunchThreadStep ==
  ASSUME Supported, IInv, NEW c \in Cores, NEW p \in Levels, LaunchThread(c, p)
  PROVE  IInv'
<1> DEFINE t == ThreadSchedule[p]
<1>0. /\ TwoCores /\ ScheduleTypeOK /\ CoreTypeOK /\ OneRing /\ CountsExact
      /\ RunningHasOneCore /\ Control /\ BootRoot /\ NULL \notin Threads
  BY SupportedTwoCores, ConstantsAssumption DEF IInv, TypeOK, ConstantsAssumption
<1>1. /\ pc[c] = "boot" /\ Launch(c, t)
      /\ IsHighest(p, ActivePriorityCount)
      /\ ThreadSchedule' = [ThreadSchedule EXCEPT ![p] = next_tcb[t]]
      /\ state' = Put(state, t, "RUNNING")
      /\ ActivePriorityCount' = Dec(ActivePriorityCount, p)
      /\ RunningPriorityCount' = Inc(RunningPriorityCount, p)
      /\ next_tcb' = next_tcb /\ prev_tcb' = prev_tcb
      /\ pc' = [pc EXCEPT ![c] = "task"]
  BY DEF LaunchThread, Launch, Goto, Put, Inc, Dec
<1>2. /\ state \in StateFcns
      /\ ActivePriorityCount \in CountFcns /\ RunningPriorityCount \in CountFcns
      /\ Counted(state, ActivePriorityCount, RunningPriorityCount)
  BY <1>0 DEF ScheduleTypeOK, StateFcns, CountFcns, CountsExact, Counted, InState, Members
<1>3. PICK a \in Scheduled(p) : state[a] = "ACTIVE"
  <2>1. ActivePriorityCount[p] # 0
    BY <1>1 DEF IsHighest
  <2>2. ~ \A u \in Threads : Priority[u] = p => state[u] # "ACTIVE"
    BY <1>2, <2>1, CountZero
  <2> QED BY <2>2 DEF Scheduled, InState
<1>4. Ring(next_tcb, prev_tcb, t, Scheduled(p)) /\ Scheduled(p) \subseteq Threads
  BY <1>0, OneRingIsRing DEF Scheduled, InState
<1>5. /\ t \in Scheduled(p) /\ t \in Threads /\ Priority[t] = p
      /\ next_tcb[t] \in Threads
      /\ Ring(next_tcb, prev_tcb, next_tcb[t], Scheduled(p))
  <2>1. t \in Scheduled(p) /\ NULL \notin Scheduled(p)
    BY <1>0, <1>3, <1>4 DEF Ring
  <2>2. t \in Threads /\ Priority[t] = p
    BY <2>1 DEF Scheduled, InState
  <2>3. next_tcb[t] \in Threads
    BY <1>4, <2>1 DEF Ring
  <2> HIDE DEF t
  <2>4. Ring(next_tcb, prev_tcb, next_tcb[t], Scheduled(p))
    BY <1>4, <2>1, RingAdvance
  <2> QED BY <2>1, <2>2, <2>3, <2>4
<1>6. state[t] = "ACTIVE"
  <2>1. state[t] \in {"ACTIVE", "RUNNING"}
    BY <1>5 DEF Scheduled, InState
  <2>2. state[t] # "RUNNING"
    <3> SUFFICES ASSUME state[t] = "RUNNING" PROVE FALSE
      OBVIOUS
    <3>1. t # NULL
      BY <1>0, <1>5
    <3>2. Scheduled(p) = {t}
      BY <1>0, <1>1, <3>1 DEF BootRoot
    <3> QED BY <3>2, <1>3
  <2> QED BY <2>1, <2>2
<1> HIDE DEF t
<1>7. /\ state' \in StateFcns
      /\ \A u \in Threads : state'[u] = IF u = t THEN "RUNNING" ELSE state[u]
  BY <1>1, <1>2, <1>5 DEF Put, StateFcns, ThreadStates
<1>8. /\ WaitTypeOK' /\ CoreTypeOK' /\ Contexts' /\ RunningHasOneCore' /\ Control'
      /\ Stacks' /\ WaitingOnce' /\ WaitersByPriority' /\ SleeperHasAlarm' /\ AlarmsDue'
  BY <1>1, <1>5, <1>6, <1>7, LaunchStep
<1>9. /\ Counted(state', ActivePriorityCount', RunningPriorityCount')
      /\ ActivePriorityCount' \in CountFcns /\ RunningPriorityCount' \in CountFcns
  BY <1>1, <1>2, <1>5, <1>6, CountRun
<1>10. CountsExact'
  BY <1>9 DEF CountsExact, Counted, InState, Members
<1>11. ScheduleTypeOK'
  BY <1>0, <1>1, <1>5, <1>7, <1>9 DEF ScheduleTypeOK, StateFcns, CountFcns
<1>12. \A q \in Levels : Scheduled(q)' = Scheduled(q)
  BY <1>6, <1>7 DEF Scheduled, InState
<1>13. \A q \in Levels : ThreadSchedule'[q] = IF q = p THEN next_tcb[t] ELSE ThreadSchedule[q]
  BY <1>0, <1>1 DEF ScheduleTypeOK
<1>14. OneRing'
  <2>1. ASSUME NEW q \in Levels
        PROVE  Ring(next_tcb', prev_tcb', ThreadSchedule'[q], Scheduled(q)')
    <3>1. Ring(next_tcb, prev_tcb, ThreadSchedule[q], Scheduled(q))
      BY <1>0, OneRingIsRing
    <3>2. CASE q = p
      BY <3>2, <1>1, <1>5, <1>12, <1>13
    <3>3. CASE q # p
      BY <3>1, <3>3, <1>1, <1>12, <1>13
    <3> QED BY <3>2, <3>3
  <2> QED BY <2>1 DEF OneRing, RingLinks, Connected, Ring
<1>15. BootRoot'
  <2> SUFFICES ASSUME NEW d \in Cores, pc'[d] \in {"off", "main", "boot"},
                      NEW q \in Levels, ThreadSchedule'[q] # NULL,
                      state'[ThreadSchedule'[q]] = "RUNNING"
               PROVE  Scheduled(q)' = {ThreadSchedule'[q]}
    BY DEF BootRoot
  <2>1. /\ d # c /\ Assigned(c) = NULL /\ Assigned(d) = NULL
        /\ \A e \in Cores : e = c \/ e = d
    <3>1. d # c /\ pc'[d] = pc[d]
      BY <1>0, <1>1 DEF CoreTypeOK
    <3>2. /\ RunPt[c] = NULL /\ ~pendsv[c] /\ RunPt[d] = NULL /\ ~pendsv[d]
      BY <3>1, <1>0, <1>1 DEF Control
    <3> QED BY <3>1, <3>2, <1>0 DEF Assigned, TwoCores
  <2>2. \A u \in Threads : state[u] # "RUNNING"
    BY <2>1, <1>0 DEF RunningHasOneCore
  <2>3. ThreadSchedule'[q] \in Threads
    BY <1>11 DEF ScheduleTypeOK
  <2>4. ThreadSchedule'[q] = t
    BY <1>7, <2>2, <2>3
  <2>5. q = p
    <3>1. t \in Scheduled(q)
      BY <1>12, <1>14, <2>4 DEF OneRing, RingLinks
    <3> QED BY <3>1, <1>5 DEF Scheduled, InState
  <2>6. next_tcb[t] = t
    BY <1>13, <2>4, <2>5
  <2>7. Scheduled(p) = {t}
    <3>1. Ring(next_tcb, prev_tcb, t, Scheduled(p))
      BY <1>5, <2>6
    <3> QED BY <3>1, <2>6, <1>5, RingAlone
  <2> QED BY <2>4, <2>5, <2>7, <1>12
<1> QED BY <1>8, <1>10, <1>11, <1>14, <1>15 DEF IInv, TypeOK

-----------------------------------------------------------------------------
(* The invariant is inductive.                                             *)

LEMMA InitInvariant ==
  ASSUME Init
  PROVE  IInv /\ CPU0First
<1>0. /\ NULL \notin Threads /\ Idle \notin Threads /\ BlackHole # NULL
      /\ BootCore \in Cores
  BY ConstantsAssumption DEF ConstantsAssumption
<1>1. /\ state = [t \in Threads |-> "FREE"]
      /\ ThreadSchedule = [p \in Levels |-> NULL]
      /\ bthreads = [s \in Sems |-> <<>>] /\ SleepSchedule = <<>>
      /\ armed = FALSE /\ timerIrq = FALSE
      /\ RunPt = [c \in Cores |-> NULL] /\ pendsv = [c \in Cores |-> FALSE]
      /\ resched = [c \in Cores |-> FALSE] /\ SP = [c \in Cores |-> NULL]
      /\ pc = [c \in Cores |-> IF c = BootCore THEN "main" ELSE "off"]
      /\ ctx = [t \in Threads |-> "task"]
      /\ ActivePriorityCount = [p \in Levels |-> 0]
      /\ RunningPriorityCount = [p \in Levels |-> 0]
  BY DEF Init
<1>2. ScheduleTypeOK /\ WaitTypeOK /\ CoreTypeOK
  <2>1. ScheduleTypeOK
    BY <1>0 DEF Init, ScheduleTypeOK, ThreadStates
  <2>2. WaitTypeOK
    <3> DEFINE none == <<>>
    <3>1. none \in Seq(Threads)
      OBVIOUS
    <3> HIDE DEF none
    <3>2. bthreads = [s \in Sems |-> none] /\ SleepSchedule = none
      BY <1>1 DEF none
    <3> QED BY <1>1, <3>1, <3>2 DEF WaitTypeOK
  <2>3. CoreTypeOK
    BY <1>0 DEF Init, CoreTypeOK, PCs
  <2> QED BY <2>1, <2>2, <2>3
<1>3. \A p \in Levels : InState(p, "ACTIVE") = {} /\ InState(p, "RUNNING") = {}
  BY <1>1 DEF InState
<1>4. \A p \in Levels : Scheduled(p) = {}
  BY <1>3 DEF Scheduled
<1>5. OneRing /\ BootRoot
  BY <1>1, <1>4 DEF OneRing, RingLinks, Connected, BootRoot
<1>6. CountsExact
  BY <1>1, <1>3, FS_EmptySet DEF CountsExact
<1>7. RunningHasOneCore
  BY <1>1 DEF RunningHasOneCore
<1>8. WaitingOnce /\ WaitersByPriority
  <2>1. Range(<<>>) = {} /\ IsInjective(<<>>) /\ DOMAIN <<>> = {}
    BY DEF Range, IsInjective
  <2> QED BY <1>1, <2>1 DEF WaitingOnce, WaitersByPriority
<1>9. SleeperHasAlarm /\ AlarmsDue /\ Contexts
  BY <1>1 DEF SleeperHasAlarm, AlarmsDue, Contexts
<1>10. Control /\ Stacks /\ CPU0First
  BY <1>0, <1>1 DEF Control, Stacks, CPU0First
<1> QED BY <1>2, <1>5, <1>6, <1>7, <1>8, <1>9, <1>10 DEF IInv, TypeOK

(* No core is back in main, or started but by CPU0.                        *)
LEMMA CPU0FirstStep ==
  ASSUME CoreTypeOK, CPU0First, [Next]_vars
  PROVE  CPU0First'
<1> DEFINE Moves(c, l) == pc[c] \notin {"off", "main"} /\ pc' = [pc EXCEPT ![c] = l]
           Others == PCs \ {"main"}
<1>1. \/ pc' = pc
      \/ pc' = [c \in Cores |-> "boot"]
      \/ \E c \in Cores, l \in Others : Moves(c, l)
  <2>1. CASE UNCHANGED vars
    BY <2>1 DEF vars, flow
  <2>2. CASE StartScheduler
    BY <2>2 DEF StartScheduler
  <2>3. CASE AlarmMatch \/ Unsleep
    BY <2>3 DEF AlarmMatch, Unsleep, flow
  <2>4. ASSUME NEW c \in Cores, CoreStep(c)
        PROVE  pc' = pc \/ \E l \in Others : Moves(c, l)
    <3>1. CASE \/ SysTick(c) \/ Resched(c)
               \/ \E t \in Threads : AddThread(c, t)
               \/ \E s \in Sems : SchedUnblock(c, s)
      BY <3>1 DEF SysTick, Resched, AddThread, SchedUnblock
    <3>2. CASE LaunchIdle(c) \/ \E p \in Levels : LaunchThread(c, p)
      <4>1. Moves(c, "task")
        BY <3>2 DEF LaunchIdle, LaunchThread, Launch, Goto
      <4> QED BY <4>1 DEF PCs
    <3>3. CASE Yield(c) \/ KillSchedule(c)
      <4>1. Moves(c, "task")
        BY <3>3 DEF Yield, KillSchedule, Goto
      <4> QED BY <4>1 DEF PCs
    <3>4. CASE (\E s \in Sems : SchedBlock(c, s)) \/ Sleep(c)
      <4>1. Moves(c, "yield")
        BY <3>4 DEF SchedBlock, Sleep, InThread, Goto
      <4> QED BY <4>1 DEF PCs
    <3>5. CASE Kill(c)
      <4>1. Moves(c, "kill")
        BY <3>5 DEF Kill, InThread, Goto
      <4> QED BY <4>1 DEF PCs
    <3>6. CASE KillFree(c)
      <4>1. Moves(c, "killed")
        BY <3>6 DEF KillFree, Goto
      <4> QED BY <4>1 DEF PCs
    <3>7. CASE PendSV(c)
      <4> DEFINE t == NextRunPt[c]
                 saved == IF RunPt[c] \in Threads THEN [ctx EXCEPT ![RunPt[c]] = pc[c]] ELSE ctx
                 l == IF t \in Threads THEN saved[t] ELSE "task"
      <4>1. pc[c] \in {"task", "yield"} /\ pc' = [pc EXCEPT ![c] = l]
        BY <3>7 DEF PendSV, Goto
      <4>2. l \in {"task", "yield"}
        BY <4>1 DEF CoreTypeOK
      <4> HIDE DEF l
      <4> QED BY <4>1, <4>2 DEF PCs
    <3> QED BY <2>4, <3>1, <3>2, <3>3, <3>4, <3>5, <3>6, <3>7 DEF CoreStep
  <2> QED BY <2>1, <2>2, <2>3, <2>4 DEF Next
<1>2. BootCore \in Cores
  BY ConstantsAssumption DEF ConstantsAssumption
<1>3. ASSUME NEW c \in Cores, NEW l \in Others, Moves(c, l) PROVE CPU0First'
  BY <1>2, <1>3 DEF CPU0First, CoreTypeOK
<1> QED BY <1>1, <1>2, <1>3 DEF CPU0First

LEMMA NextInvariant ==
  ASSUME Supported, IInv, CPU0First, [Next]_vars
  PROVE  IInv' /\ CPU0First'
<1>1. CPU0First'
  BY CPU0FirstStep DEF IInv, TypeOK
<1>2. CASE UNCHANGED vars
  <2>1. /\ UNCHANGED <<state, next_tcb, prev_tcb, ThreadSchedule>>
        /\ UNCHANGED <<ActivePriorityCount, RunningPriorityCount, bthreads, SleepSchedule>>
        /\ UNCHANGED <<RunPt, NextRunPt, pendsv, SP, armed, timerIrq, pc, ctx, resched>>
    BY <1>2 DEF vars, ring, counts, switch, flow, timer
  <2>2. TypeOK' /\ WaitersByPriority' /\ SleeperHasAlarm' /\ AlarmsDue' /\ Contexts'
    BY <2>1 DEF IInv, TypeOK, ScheduleTypeOK, WaitTypeOK, CoreTypeOK, WaitersByPriority,
                SleeperHasAlarm, AlarmsDue, Contexts
  <2>3. OneRing' /\ CountsExact' /\ BootRoot'
    <3>1. \A p \in Levels : /\ InState(p, "ACTIVE")' = InState(p, "ACTIVE")
                            /\ InState(p, "RUNNING")' = InState(p, "RUNNING")
                            /\ Scheduled(p)' = Scheduled(p)
      BY <2>1 DEF InState, Scheduled
    <3>2. OneRing'
      BY <2>1, <3>1 DEF IInv, OneRing, RingLinks, Connected
    <3>3. CountsExact'
      BY <2>1, <3>1 DEF IInv, CountsExact
    <3>4. BootRoot'
      BY <2>1, <3>1 DEF IInv, BootRoot
    <3> QED BY <3>2, <3>3, <3>4
  <2>4. RunningHasOneCore' /\ WaitingOnce' /\ Control' /\ Stacks'
    BY <2>1 DEF IInv, RunningHasOneCore, Assigned, WaitingOnce, Control, Stacks
  <2> QED BY <1>1, <2>2, <2>3, <2>4 DEF IInv
<1>3. CASE StartScheduler
  BY <1>1, <1>3, StartSchedulerStep
<1>4. CASE AlarmMatch
  BY <1>1, <1>4, AlarmMatchStep
<1>5. CASE Unsleep
  BY <1>1, <1>5, UnsleepStep
<1>6. ASSUME NEW c \in Cores, CoreStep(c) PROVE IInv'
  <2>1. CASE LaunchIdle(c)
    BY <2>1, LaunchIdleStep
  <2>2. CASE \E p \in Levels : LaunchThread(c, p)
    BY <2>2, LaunchThreadStep
  <2>3. CASE SysTick(c) \/ Yield(c) \/ Resched(c) \/ KillSchedule(c)
    BY <2>3, CallScheduleStep
  <2>4. CASE PendSV(c)
    BY <2>4, PendSVStep
  <2>5. CASE \E t \in Threads : AddThread(c, t)
    BY <2>5, AddThreadStep
  <2>6. CASE \E s \in Sems : SchedBlock(c, s)
    BY <2>6, SchedBlockStep
  <2>7. CASE \E s \in Sems : SchedUnblock(c, s)
    BY <2>7, SchedUnblockStep
  <2>8. CASE Sleep(c)
    BY <2>8, SleepStep
  <2>9. CASE Kill(c)
    BY <2>9, KillStep
  <2>10. CASE KillFree(c)
    BY <2>10, KillFreeStep
  <2> QED BY <1>6, <2>1, <2>2, <2>3, <2>4, <2>5, <2>6, <2>7, <2>8, <2>9, <2>10 DEF CoreStep
<1> QED BY <1>1, <1>2, <1>3, <1>4, <1>5, <1>6 DEF Next

(* The kernel's bookkeeping, on one core with every call and on two cores  *)
(* with threads that run and suspend, is consistent in every reachable     *)
(* state: the inductive invariant from which the rest follows.             *)
THEOREM Invariant ==
  ASSUME Supported
  PROVE  Spec => [](IInv /\ CPU0First)
<1>1. Init => IInv /\ CPU0First
  BY InitInvariant
<1>2. (IInv /\ CPU0First) /\ [Next]_vars => (IInv /\ CPU0First)'
  BY NextInvariant
<1> QED BY <1>1, <1>2, PTL DEF Spec

-----------------------------------------------------------------------------
(* What follows, for every number of threads, levels and semaphores.       *)

(* Every variable keeps its type; in particular the 16-bit counts of       *)
(* schedule.c never go below zero.                                         *)
THEOREM TypeCorrect ==
  ASSUME Supported
  PROVE  Spec => []TypeOK
<1>1. IInv => TypeOK
  BY DEF IInv
<1> QED BY <1>1, Invariant, PTL

(* Each level's list stays one doubly linked ring of exactly the ACTIVE    *)
(* and RUNNING threads, with the root in it (enqueue_thread,               *)
(* dequeue_thread, schedule, init_scheduler).                              *)
THEOREM RingsIntact ==
  ASSUME Supported
  PROVE  Spec => []OneRing
<1>1. IInv => OneRing
  BY DEF IInv
<1> QED BY <1>1, Invariant, PTL

(* The counts by which schedule() finds the level to run agree with the    *)
(* states of the threads.                                                  *)
THEOREM CountsCorrect ==
  ASSUME Supported
  PROVE  Spec => []CountsExact
<1>1. IInv => CountsExact
  BY DEF IInv
<1> QED BY <1>1, Invariant, PTL

(* A thread that is RUNNING has exactly one core (schedule, pendSV_handler,*)
(* init_scheduler).                                                        *)
THEOREM OneCorePerThread ==
  ASSUME Supported
  PROVE  Spec => []RunningHasOneCore
<1>1. IInv => RunningHasOneCore
  BY DEF IInv
<1> QED BY <1>1, Invariant, PTL

(* A thread that calls the kernel is in its ring, so dequeue_thread never  *)
(* follows a stale link.                                                   *)
THEOREM CallersRun ==
  ASSUME Supported
  PROVE  Spec => []CallerIsRunning
<1>1. IInv => CallerIsRunning
  BY DEF IInv, Control, CallerIsRunning, InThread, Ready
<1> QED BY <1>1, Invariant, PTL

(* A waiting thread is in one waiting list, once (sched_block,             *)
(* sched_unblock, sleep, unsleep).                                         *)
THEOREM WaitersInOneList ==
  ASSUME Supported
  PROVE  Spec => []WaitingOnce
<1>1. IInv => WaitingOnce
  BY DEF IInv
<1> QED BY <1>1, Invariant, PTL

(* The waiters of a semaphore stand in the order of their priorities.      *)
THEOREM WaitersSorted ==
  ASSUME Supported
  PROVE  Spec => []WaitersByPriority
<1>1. IInv => WaitersByPriority
  BY DEF IInv
<1> QED BY <1>1, Invariant, PTL

(* While a thread sleeps, its wake-up is armed or pending, and a wake-up   *)
(* finds a sleeper.                                                        *)
THEOREM SleepersAwaited ==
  ASSUME Supported
  PROVE  Spec => []SleeperHasAlarm
<1>1. IInv => SleeperHasAlarm
  BY DEF IInv
<1> QED BY <1>1, Invariant, PTL

(* A step in which PendSV becomes pending on core c is a schedule() of it. *)
LEMMA PendsvBySchedule ==
  ASSUME CoreTypeOK, Next, NEW c \in Cores, ~pendsv[c], pendsv'[c]
  PROVE  Schedule(c)
<1>1. CASE StartScheduler \/ AlarmMatch \/ Unsleep
  <2>1. pendsv' = pendsv
    BY <1>1 DEF StartScheduler, AlarmMatch, Unsleep, switch
  <2> QED BY <2>1
<1>2. ASSUME NEW d \in Cores, CoreStep(d) PROVE Schedule(c)
  <2>1. CASE SysTick(d) \/ Yield(d) \/ Resched(d) \/ KillSchedule(d)
    <3>1. Schedule(d)
      BY <2>1 DEF SysTick, Yield, Resched, KillSchedule
    <3>2. pendsv' = [pendsv EXCEPT ![d] = TRUE]
      BY <3>1 DEF Schedule
    <3>3. c = d
      BY <3>2 DEF CoreTypeOK
    <3> QED BY <3>1, <3>3
  <2>2. CASE PendSV(d)
    <3>1. pendsv' = [pendsv EXCEPT ![d] = FALSE]
      BY <2>2 DEF PendSV
    <3> QED BY <3>1 DEF CoreTypeOK
  <2>3. CASE \/ LaunchIdle(d) \/ \E p \in Levels : LaunchThread(d, p)
             \/ \E t \in Threads : AddThread(d, t)
             \/ \E s \in Sems : SchedBlock(d, s) \/ SchedUnblock(d, s)
             \/ Sleep(d) \/ Kill(d) \/ KillFree(d)
    <3>1. pendsv' = pendsv
      BY <2>3 DEF LaunchIdle, LaunchThread, Launch, AddThread, SchedBlock, SchedUnblock,
                  Sleep, Kill, KillFree, switch
    <3> QED BY <3>1
  <2> QED BY <1>2, <2>1, <2>2, <2>3 DEF CoreStep
<1> QED BY <1>1, <1>2 DEF Next

(* No ready thread has a higher priority than the one schedule() chooses.  *)
THEOREM ScheduleSelectsHighest ==
  ASSUME Supported
  PROVE  Spec => SelectsHighest
<1> DEFINE Choice == \A c \in Cores : ~pendsv[c] /\ pendsv'[c] =>
                       \A t \in Threads : state'[t] = "ACTIVE" =>
                         PriorityOf(NextRunPt'[c]) <= Priority[t]
<1>1. IInv /\ [Next]_vars => [Choice]_vars
  <2> SUFFICES ASSUME IInv, Next, NEW c \in Cores, ~pendsv[c], pendsv'[c],
                      NEW u \in Threads, state'[u] = "ACTIVE"
               PROVE  PriorityOf(NextRunPt'[c]) <= Priority[u]
    OBVIOUS
  <2>1. /\ TwoCores /\ ScheduleTypeOK /\ CoreTypeOK /\ OneRing /\ CountsExact
        /\ RunningHasOneCore
    BY SupportedTwoCores DEF IInv, TypeOK
  <2>2. Schedule(c)
    BY <2>1, PendsvBySchedule
  <2>3. PICK t \in Threads \cup {Idle} : Picked(c, t)
    BY <2>1, <2>2, ScheduleEffect
  <2>4. NextRunPt'[c] = t
    BY <2>1, <2>3 DEF Picked, CoreTypeOK
  <2> QED BY <2>3, <2>4 DEF Picked
<1> QED BY <1>1, Invariant, PTL DEF Spec, SelectsHighest

(* On one core, the memory add_thread allocates is never the stack that a  *)
(* core still executes on at the end of kill.                              *)
THEOREM StacksNotReused ==
  ASSUME Supported
  PROVE  Spec => NoLiveStackReused
<1> DEFINE Fresh == \A t \in Threads : state[t] = "FREE" /\ state'[t] # "FREE" =>
                      \A c \in Cores : SP[c] # t
<1>1. IInv /\ [Next]_vars => [Fresh]_vars
  <2> SUFFICES ASSUME IInv, Next, NEW t \in Threads, state[t] = "FREE",
                      NEW c \in Cores, SP[c] = t
               PROVE  state'[t] = "FREE"
    OBVIOUS
  <2>1. /\ ScheduleTypeOK /\ CoreTypeOK /\ CountsExact /\ Control /\ Stacks
        /\ TwoCores /\ OneRing /\ RunningHasOneCore
        /\ BlackHole # NULL /\ BlackHole \notin Threads
    BY SupportedTwoCores, ConstantsAssumption DEF IInv, TypeOK, ConstantsAssumption
  <2>2. /\ RunPt[c] = BlackHole /\ Cores = {BootCore}
        /\ pc[c] = "killed" \/ pendsv[c]
    BY <2>1 DEF Stacks
  <2>3. \A d \in Cores : /\ d = c /\ ~ Ready(d) /\ ~ InThread(d) /\ ~ resched[d]
                         /\ pc[d] \notin {"main", "boot", "kill"}
    BY <2>1, <2>2 DEF Control, Ready, InThread
  <2>4. BootCore \in Cores
    BY <2>2
  <2>5. CASE StartScheduler \/ AlarmMatch \/ Unsleep
    BY <2>3, <2>4, <2>5 DEF StartScheduler, AlarmMatch, Unsleep
  <2>6. CASE CoreStep(c)
    <3>1. CASE PendSV(c)
      BY <3>1 DEF PendSV
    <3>2. CASE KillSchedule(c)
      <4>1. ~pendsv[c] /\ Schedule(c)
        BY <3>2, <2>1 DEF KillSchedule, Control
      <4>2. PICK u \in Threads \cup {Idle} : Picked(c, u)
        BY <2>1, <4>1, ScheduleEffect
      <4>3. StateAfterPreempt(c)[t] = "FREE"
        BY <2>1, <2>2, Preempt
      <4> QED BY <4>2, <4>3 DEF Picked
    <3>3. CASE ~ PendSV(c) /\ ~ KillSchedule(c)
      BY <2>3, <2>6, <3>3 DEF CoreStep, LaunchIdle, LaunchThread, SysTick, Yield, Resched,
                             AddThread, SchedBlock, SchedUnblock, Sleep, Kill, KillFree
    <3> QED BY <3>1, <3>2, <3>3
  <2> QED BY <2>3, <2>5, <2>6 DEF Next
<1> QED BY <1>1, Invariant, PTL DEF Spec, NoLiveStackReused

-----------------------------------------------------------------------------
(* The order of a ring.                                                    *)

(* The sequence q lists the members S of a ring once each, from the root   *)
(* along the links.                                                        *)
Lists(q, nx, root, S) ==
  /\ q \in Seq(S)
  /\ \A t \in S : \E i \in 1 .. Len(q) : q[i] = t
  /\ \A i, j \in 1 .. Len(q) : q[i] = q[j] => i = j
  /\ \A i \in 1 .. Len(q) : q[i] = IF i = 1 THEN root ELSE nx[q[i - 1]]
  /\ S # {} => nx[q[Len(q)]] = root

LEMMA ListsLength ==
  ASSUME NEW nx, NEW root, NEW S, NEW q, Lists(q, nx, root, S)
  PROVE  /\ Len(q) \in Nat /\ Cardinality(S) = Len(q) /\ q \in [1 .. Len(q) -> S]
         /\ Range(q) = S /\ (S = {} <=> Len(q) = 0)
<1>1. Len(q) \in Nat /\ q \in [1 .. Len(q) -> S]
  BY DEF Lists
<1> DEFINE n == Len(q)
<1>2. IsFiniteSet(1 .. n) /\ Cardinality(1 .. n) = n
  BY <1>1, FS_Interval
<1>3. q \in Bijection(1 .. n, S)
  BY <1>1 DEF Lists, Bijection, Injection, Surjection, IsInjective
<1>4. ExistsBijection(1 .. n, S)
  BY <1>3 DEF ExistsBijection
<1>5. Cardinality(S) = n
  BY <1>2, <1>4, FS_Bijection
<1>6. Range(q) = S
  BY <1>1 DEF Lists, Range
<1>7. S = {} <=> n = 0
  BY <1>1 DEF Lists
<1> QED BY <1>1, <1>5, <1>6, <1>7

(* There is only one such sequence.                                        *)
LEMMA OrderIs ==
  ASSUME NEW nx, NEW root, NEW S, NEW q, Lists(q, nx, root, S)
  PROVE  OrderOf(nx, root, S) = q
<1> DEFINE n == Len(q)
           w == OrderOf(nx, root, S)
<1>1. n \in Nat /\ Cardinality(S) = n /\ q \in [1 .. n -> S]
  BY ListsLength
<1>2. \A i \in 1 .. n : q[i] = IF i = 1 THEN root ELSE nx[q[i - 1]]
  BY DEF Lists
<1>3. /\ w \in [1 .. n -> S]
      /\ \A i \in DOMAIN w : w[i] = IF i = 1 THEN root ELSE nx[w[i - 1]]
  <2> HIDE DEF n
  <2> QED BY <1>1, <1>2 DEF OrderOf
<1> HIDE DEF n, w
<1>4. \A i \in 1 .. n : w[i] = q[i]
  <2> DEFINE D == {i \in 1 .. n : w[i] # q[i]}
  <2> SUFFICES ASSUME D # {} PROVE FALSE
    OBVIOUS
  <2>1. PICK m \in D : \A k \in D : m <= k
    <3>1. D \in SUBSET Nat
      BY <1>1
    <3> HIDE DEF D
    <3> QED BY <3>1, LeastNat
  <2>2. m \in 1 .. n /\ w[m] # q[m]
    OBVIOUS
  <2>3. m # 1
    BY <1>2, <1>3, <2>2
  <2>4. m - 1 \in 1 .. n /\ m - 1 \notin D
    BY <1>1, <2>1, <2>2, <2>3
  <2>5. w[m - 1] = q[m - 1]
    BY <2>4
  <2> QED BY <1>2, <1>3, <2>2, <2>3, <2>5
<1> QED BY <1>1, <1>3, <1>4 DEF w

LEMMA ListsNothing ==
  ASSUME NEW nx, NEW root
  PROVE  Lists(<<>>, nx, root, {})
BY DEF Lists

(* Other links do not matter.                                              *)
LEMMA ListsSame ==
  ASSUME NEW nx, NEW root, NEW S, NEW q, Lists(q, nx, root, S),
         NEW nx2, \A u \in S : nx2[u] = nx[u]
  PROVE  Lists(q, nx2, root, S)
<1>1. Len(q) \in Nat /\ q \in [1 .. Len(q) -> S] /\ (S = {} <=> Len(q) = 0)
  BY ListsLength
<1>2. \A i \in 1 .. Len(q) : i # 1 => q[i - 1] \in S
  BY <1>1
<1>3. S # {} => q[Len(q)] \in S
  BY <1>1
<1> QED BY <1>2, <1>3 DEF Lists

(* A new thread in front of the root.                                      *)
LEMMA ListsEnter ==
  ASSUME NEW nx, NEW root, NEW S, NEW q, Lists(q, nx, root, S), NEW t, t \notin S,
         NEW nx2, nx2[t] = IF S = {} THEN t ELSE root,
         \A u \in S : nx2[u] = IF u = q[Len(q)] THEN t ELSE nx[u]
  PROVE  Lists(<<t>> \o q, nx2, t, S \cup {t})
<1> DEFINE n == Len(q)
           w == <<t>> \o q
           T == S \cup {t}
<1>1. n \in Nat /\ q \in [1 .. n -> S] /\ (S = {} <=> n = 0) /\ q \in Seq(T)
  <2>1. S \subseteq T /\ q \in Seq(S)
    BY DEF Lists
  <2> QED BY <2>1, ListsLength
<1>2. w \in Seq(T) /\ Len(w) = n + 1 /\ w[1] = t /\ \A i \in 2 .. n + 1 : w[i] = q[i - 1]
  <2>1. <<t>> \in Seq(T) /\ Len(<<t>>) = 1 /\ <<t>>[1] = t
    OBVIOUS
  <2> HIDE DEF T
  <2> QED BY <1>1, <2>1
<1> HIDE DEF n, w
<1>3. \A u \in T : \E i \in 1 .. Len(w) : w[i] = u
  <2>1. ASSUME NEW u \in S PROVE \E i \in 1 .. Len(w) : w[i] = u
    <3>1. PICK i \in 1 .. n : q[i] = u
      BY DEF Lists, n
    <3>2. i + 1 \in 2 .. n + 1 /\ i + 1 \in 1 .. Len(w) /\ i + 1 - 1 = i
      BY <1>1, <1>2
    <3> QED BY <1>2, <3>1, <3>2
  <2>2. 1 \in 1 .. Len(w)
    BY <1>1, <1>2
  <2> QED BY <1>2, <2>1, <2>2
<1>4. ASSUME NEW i \in 1 .. Len(w), NEW j \in 1 .. Len(w), w[i] = w[j]
      PROVE  i = j
  <2>1. \A k \in 2 .. n + 1 : k - 1 \in 1 .. n /\ w[k] \in S /\ w[k] = q[k - 1]
    BY <1>1, <1>2
  <2>2. CASE i = 1 \/ j = 1
    BY <1>1, <1>2, <1>4, <2>1, <2>2
  <2>3. CASE i # 1 /\ j # 1
    <3>1. i \in 2 .. n + 1 /\ j \in 2 .. n + 1
      BY <1>1, <1>2, <2>3
    <3>2. \A a, b \in 1 .. n : q[a] = q[b] => a = b
      BY DEF Lists, n
    <3>3. i - 1 \in 1 .. n /\ j - 1 \in 1 .. n /\ q[i - 1] = q[j - 1]
      BY <1>4, <2>1, <3>1
    <3>4. i - 1 = j - 1
      BY <3>2, <3>3
    <3> QED BY <3>1, <3>4
  <2> QED BY <2>2, <2>3
<1>5. ASSUME NEW i \in 1 .. Len(w)
      PROVE  w[i] = IF i = 1 THEN t ELSE nx2[w[i - 1]]
  <2>1. CASE i = 1
    BY <1>2, <2>1
  <2>2. CASE i = 2
    <3>1. S # {} /\ w[2] = q[1] /\ q[1] = root
      <4>1. n # 0 /\ 2 \in 2 .. n + 1 /\ 2 - 1 = 1 /\ 1 \in 1 .. n
        BY <1>1, <1>2, <2>2
      <4>2. S # {} /\ w[2] = q[1]
        BY <1>1, <1>2, <4>1
      <4> QED BY <4>1, <4>2 DEF Lists, n
    <3> QED BY <1>2, <2>2, <3>1
  <2>3. CASE i > 2
    <3>1. /\ i - 1 \in 2 .. n + 1 /\ i - 1 \in 1 .. n /\ i - 2 \in 1 .. n /\ i - 1 - 1 = i - 2
          /\ i \in 2 .. n + 1 /\ i - 1 # 1 /\ i - 2 # n /\ n \in 1 .. n
      BY <1>1, <1>2, <2>3
    <3>2. w[i] = q[i - 1] /\ w[i - 1] = q[i - 2] /\ q[i - 2] \in S
      BY <1>1, <1>2, <3>1
    <3>3. q[i - 1] = nx[q[i - 2]] /\ q[i - 2] # q[n]
      <4>1. /\ \A k \in 1 .. n : q[k] = IF k = 1 THEN root ELSE nx[q[k - 1]]
            /\ \A k, l \in 1 .. n : q[k] = q[l] => k = l
        BY DEF Lists, n
      <4> HIDE DEF n
      <4>2. q[i - 1] = nx[q[i - 1 - 1]]
        BY <3>1, <4>1
      <4>3. q[i - 2] # q[n]
        BY <3>1, <4>1
      <4> QED BY <3>1, <4>2, <4>3
    <3> QED BY <3>1, <3>2, <3>3 DEF n
  <2> QED BY <1>1, <1>2, <2>1, <2>2, <2>3
<1>6. nx2[w[Len(w)]] = t
  <2>1. CASE n = 0
    BY <1>1, <1>2, <2>1
  <2>2. CASE n # 0
    <3>1. n + 1 \in 2 .. n + 1 /\ n + 1 - 1 = n /\ n \in 1 .. n
      BY <1>1, <2>2
    <3>2. w[Len(w)] = q[n] /\ q[n] \in S
      BY <1>1, <1>2, <3>1
    <3> QED BY <3>2 DEF n
  <2> QED BY <2>1, <2>2
<1>7. Lists(w, nx2, t, T)
  <2> HIDE DEF T
  <2> QED BY <1>2, <1>3, <1>4, <1>5, <1>6 DEF Lists
<1> QED BY <1>7 DEF w

(* The root advances.                                                      *)
LEMMA ListsAdvance ==
  ASSUME NEW nx, NEW root, NEW S, NEW q, Lists(q, nx, root, S), S # {}
  PROVE  Lists(Append(Tail(q), Head(q)), nx, nx[root], S)
<1> DEFINE n == Len(q)
           w == Append(Tail(q), Head(q))
<1>1. n \in Nat \ {0} /\ q \in [1 .. n -> S] /\ q \in Seq(S) /\ q # <<>>
  BY ListsLength DEF Lists
<1>2. /\ w \in Seq(S) /\ Len(w) = n
      /\ \A i \in 1 .. n : w[i] = IF i = n THEN q[1] ELSE q[i + 1]
  <2>1. /\ Head(q) \in S /\ Head(q) = q[1] /\ Tail(q) \in Seq(S) /\ Len(Tail(q)) = n - 1
        /\ \A i \in 1 .. n - 1 : Tail(q)[i] = q[i + 1]
    BY <1>1
  <2> DEFINE u == Tail(q)
             h == Head(q)
  <2> HIDE DEF u, h, n
  <2>2. /\ Append(u, h) \in Seq(S) /\ Len(Append(u, h)) = n
        /\ \A i \in 1 .. n - 1 : Append(u, h)[i] = q[i + 1]
        /\ Append(u, h)[n] = h
    BY <1>1, <2>1 DEF u, h
  <2> QED BY <1>1, <2>1, <2>2 DEF u, h
<1>3. /\ \A t \in S : \E i \in 1 .. n : q[i] = t
      /\ \A i, j \in 1 .. n : q[i] = q[j] => i = j
      /\ \A i \in 1 .. n : q[i] = IF i = 1 THEN root ELSE nx[q[i - 1]]
      /\ nx[q[n]] = root
  BY DEF Lists
<1> HIDE DEF n, w
<1>4. ASSUME NEW t \in S PROVE \E i \in 1 .. n : w[i] = t
  <2>1. PICK i \in 1 .. n : q[i] = t
    BY <1>3
  <2>2. CASE i = 1
    BY <1>1, <1>2, <2>1, <2>2
  <2>3. CASE i # 1
    <3>1. i - 1 \in 1 .. n /\ i - 1 # n /\ i - 1 + 1 = i
      BY <1>1, <2>3
    <3> QED BY <1>2, <2>1, <3>1
  <2> QED BY <2>2, <2>3
<1>5. ASSUME NEW i \in 1 .. n, NEW j \in 1 .. n, w[i] = w[j] PROVE i = j
  <2> DEFINE f(k) == IF k = n THEN 1 ELSE k + 1
  <2>1. f(i) \in 1 .. n /\ f(j) \in 1 .. n /\ w[i] = q[f(i)] /\ w[j] = q[f(j)]
    BY <1>1, <1>2
  <2>2. f(i) = f(j)
    <3> HIDE DEF f
    <3> QED BY <1>3, <1>5, <2>1
  <2> QED BY <1>1, <2>2
<1>6. ASSUME NEW i \in 1 .. n PROVE w[i] = IF i = 1 THEN nx[root] ELSE nx[w[i - 1]]
  <2>1. q[1] = root /\ 1 \in 1 .. n /\ n \in 1 .. n
    BY <1>1, <1>3
  <2>2. CASE i = n
    <3>1. w[i] = root
      BY <1>2, <2>1, <2>2
    <3>2. CASE n = 1
      BY <1>3, <2>1, <2>2, <3>1, <3>2
    <3>3. CASE n # 1
      <4>1. n - 1 \in 1 .. n /\ n - 1 # n /\ n - 1 + 1 = n
        BY <1>1, <3>3
      <4>2. w[n - 1] = q[n]
        BY <1>2, <4>1
      <4> QED BY <1>3, <2>2, <3>1, <3>3, <4>2
    <3> QED BY <3>2, <3>3
  <2>3. CASE i # n
    <3>1. i + 1 \in 1 .. n /\ i + 1 # 1 /\ i + 1 - 1 = i
      BY <1>1, <2>3
    <3>2. w[i] = nx[q[i]]
      <4>1. w[i] = q[i + 1]
        BY <1>2, <2>3
      <4>2. q[i + 1] = nx[q[i + 1 - 1]]
        BY <1>3, <3>1
      <4> QED BY <3>1, <4>1, <4>2
    <3>3. CASE i = 1
      BY <2>1, <3>2, <3>3
    <3>4. CASE i # 1
      <4>1. i - 1 \in 1 .. n /\ i - 1 # n /\ i - 1 + 1 = i
        BY <1>1, <3>4
      <4> QED BY <1>2, <3>2, <3>4, <4>1
    <3> QED BY <3>3, <3>4
  <2> QED BY <2>2, <2>3
<1>7. nx[w[n]] = nx[root]
  BY <1>1, <1>2, <1>3
<1> QED BY <1>2, <1>4, <1>5, <1>6, <1>7 DEF Lists, w

(* A member leaves, and the root moves to the one after it.                *)
LEMMA ListsLeave ==
  ASSUME NEW nx, NEW root, NEW S, NEW q, Lists(q, nx, root, S), NEW i \in 1 .. Len(q),
         NEW nx2, NEW root2, S \ {q[i]} # {} => root2 = nx[q[i]],
         \A u \in S \ {q[i]} :
           nx2[u] = IF u = q[IF i = 1 THEN Len(q) ELSE i - 1] THEN nx[q[i]] ELSE nx[u]
  PROVE  Lists(SubSeq(q, i + 1, Len(q)) \o SubSeq(q, 1, i - 1), nx2, root2, S \ {q[i]})
<1> DEFINE n == Len(q)
           w == SubSeq(q, i + 1, n) \o SubSeq(q, 1, i - 1)
           T == S \ {q[i]}
           at(k) == IF k <= n - i THEN i + k ELSE k - (n - i)
           before == IF i = 1 THEN n ELSE i - 1
<1>1. n \in Nat \ {0} /\ i \in 1 .. n /\ q \in [1 .. n -> S] /\ q \in Seq(S)
  BY ListsLength DEF Lists
<1>2. /\ \A t \in S : \E k \in 1 .. n : q[k] = t
      /\ \A k, j \in 1 .. n : q[k] = q[j] => k = j
      /\ \A k \in 1 .. n : k # 1 => q[k] = nx[q[k - 1]]
      /\ nx[q[n]] = q[1]
  <2>1. 1 \in 1 .. n /\ S # {}
    BY <1>1
  <2> QED BY <2>1 DEF Lists
<1>3. /\ Len(w) = n - 1 /\ DOMAIN w = 1 .. n - 1 /\ w \in Seq(S)
      /\ \A k \in 1 .. n - 1 : w[k] = q[at(k)]
  <2>1. /\ SubSeq(q, i + 1, n) \in Seq(S) /\ Len(SubSeq(q, i + 1, n)) = n - i
        /\ \A k \in 1 .. n - i : SubSeq(q, i + 1, n)[k] = q[i + k]
    BY <1>1
  <2>2. /\ SubSeq(q, 1, i - 1) \in Seq(S) /\ Len(SubSeq(q, 1, i - 1)) = i - 1
        /\ \A k \in 1 .. i - 1 : SubSeq(q, 1, i - 1)[k] = q[k]
    BY <1>1
  <2> DEFINE a == SubSeq(q, i + 1, n)
             b == SubSeq(q, 1, i - 1)
  <2> HIDE DEF a, b, n
  <2>3. /\ a \o b \in Seq(S) /\ Len(a \o b) = n - 1
        /\ \A k \in 1 .. n - i : (a \o b)[k] = q[i + k]
        /\ \A k \in 1 .. n - 1 : ~(k <= n - i) => (a \o b)[k] = q[k - (n - i)]
    BY <1>1, <2>1, <2>2 DEF a, b
  <2> QED BY <1>1, <2>3 DEF a, b
<1> HIDE DEF n, w
<1>4. /\ \A k \in 1 .. n - 1 : at(k) \in 1 .. n /\ at(k) # i
      /\ \A k, j \in 1 .. n - 1 : at(k) = at(j) => k = j
      /\ \A m \in 1 .. n : m # i => \E k \in 1 .. n - 1 : at(k) = m
  <2>1. /\ \A k \in 1 .. n - 1 : at(k) \in 1 .. n /\ at(k) # i
        /\ \A k, j \in 1 .. n - 1 : at(k) = at(j) => k = j
    BY SMTT(30), <1>1
  <2>2. ASSUME NEW m \in 1 .. n, m # i PROVE \E k \in 1 .. n - 1 : at(k) = m
    <3>1. CASE m > i
      <4>1. m - i \in 1 .. n - 1 /\ at(m - i) = m
        BY <1>1, <3>1
      <4> HIDE DEF at
      <4> QED BY <4>1
    <3>2. CASE m < i
      <4>1. m + (n - i) \in 1 .. n - 1 /\ at(m + (n - i)) = m
        BY <1>1, <3>2
      <4> HIDE DEF at
      <4> QED BY <4>1
    <3> QED BY <1>1, <2>2, <3>1, <3>2
  <2> QED BY <2>1, <2>2
<1>5. \A k \in 1 .. n - 1 : w[k] \in T
  <2> HIDE DEF at
  <2> QED BY SMTT(30), <1>1, <1>2, <1>3, <1>4
<1>6. w \in Seq(T)
  <2> HIDE DEF T
  <2>1. w \in [1 .. n - 1 -> T] /\ n - 1 \in Nat
    BY <1>1, <1>3, <1>5
  <2> QED BY <2>1
<1>7. \A t \in T : \E k \in 1 .. n - 1 : w[k] = t
  <2> SUFFICES ASSUME NEW t \in T PROVE \E k \in 1 .. n - 1 : w[k] = t
    OBVIOUS
  <2>1. PICK m \in 1 .. n : q[m] = t
    BY <1>2
  <2>2. PICK k \in 1 .. n - 1 : at(k) = m
    BY <1>4, <2>1
  <2> HIDE DEF at
  <2> QED BY <1>3, <2>1, <2>2
<1>8. ASSUME NEW k \in 1 .. n - 1, NEW j \in 1 .. n - 1, w[k] = w[j] PROVE k = j
  <2>1. w[k] = q[at(k)] /\ w[j] = q[at(j)]
    BY <1>3
  <2>2. at(k) \in 1 .. n /\ at(j) \in 1 .. n
    BY <1>4
  <2>3. at(k) = at(j)
    <3> HIDE DEF at
    <3> QED BY <1>2, <1>8, <2>1, <2>2
  <2> QED BY <1>4, <2>3
<1>9. /\ \A k \in 1 .. n - 1 : k # 1 /\ at(k) # 1 => at(k - 1) = at(k) - 1
      /\ \A k \in 1 .. n - 1 : k # 1 /\ at(k) = 1 => at(k - 1) = n
      /\ \A k \in 1 .. n - 1 : k # n - 1 => at(k) # before
      /\ n # 1 => at(n - 1) = before
      /\ n # 1 /\ i # n => at(1) = i + 1
      /\ n # 1 /\ i = n => at(1) = 1
      /\ before \in 1 .. n
  BY <1>1
<1>10. T # {} <=> n # 1
  <2>1. T # {} => \E k \in 1 .. n - 1 : TRUE
    BY <1>7
  <2>2. n # 1 => 1 \in 1 .. n - 1
    BY <1>1
  <2> HIDE DEF T
  <2> QED BY <1>1, <1>5, <2>1, <2>2
<1>11. \A u \in T : nx2[u] = IF u = q[before] THEN nx[q[i]] ELSE nx[u]
  BY DEF n
<1>12. n # 1 => root2 = nx[q[i]]
  BY <1>10
<1>13. ASSUME NEW k \in 1 .. n - 1
       PROVE  w[k] = IF k = 1 THEN root2 ELSE nx2[w[k - 1]]
  <2>1. CASE k = 1
    <3>1. n # 1 /\ 1 \in 1 .. n - 1
      BY <1>1, <2>1
    <3>2. i # n => q[i + 1] = nx[q[i]]
      <4>1. i # n => i + 1 \in 1 .. n /\ i + 1 # 1 /\ i + 1 - 1 = i
        BY <1>1
      <4> QED BY <1>2, <4>1
    <3> HIDE DEF at, before
    <3> QED BY <1>2, <1>3, <1>9, <1>12, <2>1, <3>1, <3>2
  <2>2. CASE k # 1
    <3>1. k - 1 \in 1 .. n - 1 /\ k - 1 # n - 1
      BY <1>1, <2>2
    <3> HIDE DEF at, before
    <3>2. w[k - 1] \in T /\ w[k - 1] = q[at(k - 1)] /\ at(k - 1) # before /\ at(k - 1) \in 1 .. n
      BY <1>3, <1>4, <1>5, <1>9, <3>1
    <3>3. w[k - 1] # q[before]
      BY <1>2, <1>9, <3>2
    <3>4. nx2[w[k - 1]] = nx[q[at(k - 1)]]
      <4> HIDE DEF T
      <4> QED BY <1>11, <3>2, <3>3
    <3>5. nx[q[at(k - 1)]] = q[at(k)]
      <4>1. at(k) \in 1 .. n
        BY <1>4
      <4> QED BY <1>2, <1>9, <2>2, <4>1
    <3> QED BY <1>3, <2>2, <3>4, <3>5
  <2> QED BY <2>1, <2>2
<1>14. T # {} => nx2[w[n - 1]] = root2
  <2> SUFFICES ASSUME n # 1 PROVE nx2[w[n - 1]] = root2
    BY <1>10
  <2>1. n - 1 \in 1 .. n - 1
    BY <1>1
  <2> HIDE DEF at, before, T
  <2>2. w[n - 1] \in T /\ w[n - 1] = q[before]
    BY <1>3, <1>5, <1>9, <2>1
  <2> QED BY <1>11, <1>12, <2>2
<1>15. Lists(w, nx2, root2, T)
  <2> HIDE DEF T
  <2> QED BY <1>3, <1>6, <1>7, <1>8, <1>13, <1>14 DEF Lists
<1> QED BY <1>15 DEF w, n

-----------------------------------------------------------------------------
(* The ring of every level is in the order QueueOf finds.                  *)

Listed(p) == Lists(QueueOf(p), next_tcb, ThreadSchedule[p], Scheduled(p))

AllListed == \A p \in Levels : Listed(p)

LEMMA QueueThreads ==
  ASSUME NEW p, Listed(p)
  PROVE  LET q == QueueOf(p)
         IN  /\ Len(q) \in Nat /\ q \in [1 .. Len(q) -> Scheduled(p)]
             /\ q \in Seq(Scheduled(p)) /\ DOMAIN q = 1 .. Len(q)
             /\ Range(q) = Scheduled(p) /\ (Scheduled(p) = {} <=> Len(q) = 0)
<1> DEFINE q == QueueOf(p)
<1>1. Lists(q, next_tcb, ThreadSchedule[p], Scheduled(p))
  BY DEF Listed
<1> HIDE DEF q
<1>2. q \in Seq(Scheduled(p))
  BY <1>1 DEF Lists
<1>3. /\ Len(q) \in Nat /\ q \in [1 .. Len(q) -> Scheduled(p)]
      /\ Range(q) = Scheduled(p) /\ (Scheduled(p) = {} <=> Len(q) = 0)
  BY <1>1, ListsLength
<1> QED BY <1>2, <1>3 DEF q

LEMMA QueueIs ==
  ASSUME NEW p, NEW q, Lists(q, next_tcb', ThreadSchedule'[p], Scheduled(p)')
  PROVE  Listed(p)' /\ QueueOf(p)' = q
<1>1. OrderOf(next_tcb', ThreadSchedule'[p], Scheduled(p)') = q
  BY OrderIs
<1>2. QueueOf(p)' = q
  BY <1>1 DEF QueueOf
<1> QED BY <1>2 DEF Listed

LEMMA QueueSame ==
  ASSUME NEW p, Listed(p), Scheduled(p)' = Scheduled(p),
         ThreadSchedule'[p] = ThreadSchedule[p],
         \A u \in Scheduled(p) : next_tcb'[u] = next_tcb[u]
  PROVE  Listed(p)' /\ QueueOf(p)' = QueueOf(p)
<1>1. Lists(QueueOf(p), next_tcb', ThreadSchedule[p], Scheduled(p))
  BY ListsSame DEF Listed
<1> QED BY <1>1, QueueIs

(* What the refinement mapping shows to module RoundRobin.                 *)
Queues == [p \in Levels |-> QueueOf(p)]
Running == {t \in Threads : state[t] = "RUNNING"}

LEMMA QueueUpdate ==
  ASSUME NEW p \in Levels, NEW w,
         Listed(p)', QueueOf(p)' = w,
         \A q \in Levels : q # p => Listed(q)' /\ QueueOf(q)' = QueueOf(q)
  PROVE  AllListed' /\ Queues' = [Queues EXCEPT ![p] = w]
<1>1. AllListed'
  BY DEF AllListed
<1>2. Queues' = [q \in Levels |-> QueueOf(q)']
  BY DEF Queues
<1>3. [Queues EXCEPT ![p] = w] = [q \in Levels |-> IF q = p THEN w ELSE QueueOf(q)]
  BY DEF Queues
<1> QED BY <1>1, <1>2, <1>3

LEMMA QueuesSame ==
  ASSUME AllListed,
         \A p \in Levels : Scheduled(p)' = Scheduled(p),
         ThreadSchedule' = ThreadSchedule, next_tcb' = next_tcb
  PROVE  AllListed' /\ Queues' = Queues
<1>1. \A p \in Levels : Listed(p)' /\ QueueOf(p)' = QueueOf(p)
  BY QueueSame DEF AllListed
<1> QED BY <1>1 DEF AllListed, Queues

(* enqueue_thread.                                                         *)
LEMMA EnqueueQueues ==
  ASSUME ScheduleTypeOK, OneRing, AllListed,
         NEW t \in Threads, state[t] \notin {"ACTIVE", "RUNNING"},
         EnqueueThread(t)
  PROVE  AllListed' /\ RR!RRNext
<1> DEFINE p == Priority[t]
           root == ThreadSchedule[p]
           last == prev_tcb[root]
           S == Scheduled(p)
           q == QueueOf(p)
<1>0. p \in Levels /\ NULL \notin Threads
  BY ConstantsAssumption DEF ConstantsAssumption
<1>1. /\ state' = [state EXCEPT ![t] = "ACTIVE"]
      /\ ThreadSchedule' = [ThreadSchedule EXCEPT ![p] = t]
  BY DEF EnqueueThread
<1>2. /\ \A u \in Threads : state'[u] = IF u = t THEN "ACTIVE" ELSE state[u]
      /\ \A r \in Levels : ThreadSchedule'[r] = IF r = p THEN t ELSE ThreadSchedule[r]
  BY <1>0, <1>1 DEF ScheduleTypeOK
<1>3. \A r \in Levels :
        /\ Scheduled(r)' = IF r = p THEN Scheduled(r) \cup {t} ELSE Scheduled(r)
        /\ t \notin Scheduled(r)
        /\ Scheduled(r) \subseteq Threads
        /\ r # p => Scheduled(r) \cap S = {}
  BY <1>0, <1>2 DEF Scheduled, InState
<1>4. Lists(q, next_tcb, root, S) /\ Ring(next_tcb, prev_tcb, root, S)
  BY <1>0, OneRingIsRing DEF AllListed, Listed
<1>5. /\ Len(q) \in Nat /\ q \in [1 .. Len(q) -> S] /\ Range(q) = S
      /\ S = {} <=> Len(q) = 0
  BY <1>4, ListsLength
<1>6. root = NULL <=> S = {}
  BY <1>0, <1>3, <1>4 DEF Ring
<1>7. S # {} => root \in S /\ q[Len(q)] \in S /\ next_tcb[q[Len(q)]] = root
  <2> HIDE DEF S, q, root
  <2>1. S # {} => Len(q) \in 1 .. Len(q)
    BY <1>5
  <2>2. S # {} => root \in S /\ next_tcb[q[Len(q)]] = root
    BY <1>4, <1>6 DEF Ring, Lists
  <2> QED BY <1>5, <2>1, <2>2
<1>8. S # {} => last = q[Len(q)]
  BY <1>4, <1>7 DEF Ring
<1>9. /\ next_tcb'[t] = IF S = {} THEN t ELSE root
      /\ \A u \in S : next_tcb'[u] = IF u = q[Len(q)] THEN t ELSE next_tcb[u]
      /\ \A u \in Threads : u # t /\ u \notin S => next_tcb'[u] = next_tcb[u]
  <2>1. t \notin S /\ S \subseteq Threads
    BY <1>0, <1>3
  <2>2. CASE S = {}
    <3>1. next_tcb' = [next_tcb EXCEPT ![t] = t]
      BY <1>6, <2>2 DEF EnqueueThread
    <3> HIDE DEF S
    <3> QED BY <2>2, <3>1 DEF ScheduleTypeOK
  <2>3. CASE S # {}
    <3>1. next_tcb' = [next_tcb EXCEPT ![t] = root, ![last] = t]
      BY <1>6, <2>3 DEF EnqueueThread
    <3>2. last = q[Len(q)] /\ last \in S /\ last # t
      BY <1>7, <1>8, <2>1, <2>3
    <3> HIDE DEF S, q, root, last
    <3> QED BY <2>1, <2>3, <3>1, <3>2 DEF ScheduleTypeOK
  <2> QED BY <2>2, <2>3
<1>10. Listed(p)' /\ QueueOf(p)' = <<t>> \o q
  <2>1. t \notin S
    BY <1>0, <1>3
  <2>2. Lists(<<t>> \o q, next_tcb', t, S \cup {t})
    <3> HIDE DEF S, q, root
    <3> QED BY <1>4, <1>9, <2>1, ListsEnter
  <2>3. Lists(<<t>> \o q, next_tcb', ThreadSchedule'[p], Scheduled(p)')
    BY <1>0, <1>2, <1>3, <2>2
  <2> QED BY <2>3, QueueIs
<1>11. ASSUME NEW r \in Levels, r # p PROVE Listed(r)' /\ QueueOf(r)' = QueueOf(r)
  <2>1. \A u \in Scheduled(r) : next_tcb'[u] = next_tcb[u]
    BY <1>3, <1>9, <1>11
  <2> QED BY <1>2, <1>3, <1>11, <2>1, QueueSame DEF AllListed
<1>12. AllListed' /\ Queues' = [Queues EXCEPT ![p] = <<t>> \o q]
  BY <1>0, <1>10, <1>11, QueueUpdate
<1>13. Running' = Running
  BY <1>2 DEF Running
<1>14. Queues[p] = q /\ t \notin Range(q)
  BY <1>0, <1>3, <1>5 DEF Queues
<1>15. RR!Enter(t)
  BY <1>12, <1>13, <1>14 DEF RR!Enter, RR!Range, Range, Queues, Running
<1>16. RR!RRNext
  BY <1>15 DEF RR!RRNext
<1> QED BY <1>12, <1>16

(* dequeue_thread, called by the thread.                                   *)
LEMMA DequeueQueues ==
  ASSUME ScheduleTypeOK, OneRing, CountsExact, AllListed,
         NEW t \in Threads, state[t] = "RUNNING",
         NEW new \in ThreadStates, new \notin {"ACTIVE", "RUNNING"},
         DequeueThread(t, new)
  PROVE  AllListed' /\ RR!RRNext
<1> DEFINE p == Priority[t]
           after == next_tcb[t]
           before == prev_tcb[t]
           S == Scheduled(p)
           q == QueueOf(p)
<1>0. p \in Levels
  BY ConstantsAssumption DEF ConstantsAssumption
<1>1. state' = [state EXCEPT ![t] = new]
  BY DEF DequeueThread
<1>2. /\ \A u \in Threads : state'[u] = IF u = t THEN new ELSE state[u]
      /\ \A r \in Levels : r # p => ThreadSchedule'[r] = ThreadSchedule[r]
  BY <1>0, <1>1 DEF ScheduleTypeOK, DequeueThread
<1>3. /\ \A r \in Levels :
           /\ Scheduled(r)' = IF r = p THEN Scheduled(r) \ {t} ELSE Scheduled(r)
           /\ Scheduled(r) \subseteq Threads
           /\ r # p => Scheduled(r) \cap S = {}
      /\ t \in S
  BY <1>0, <1>2 DEF Scheduled, InState
<1>4. Lists(q, next_tcb, ThreadSchedule[p], S) /\ Ring(next_tcb, prev_tcb, ThreadSchedule[p], S)
  BY <1>0, OneRingIsRing DEF AllListed, Listed
<1>5. /\ Len(q) \in Nat /\ q \in [1 .. Len(q) -> S] /\ Range(q) = S /\ DOMAIN q = 1 .. Len(q)
  BY <1>4, ListsLength
<1>6. PICK i \in 1 .. Len(q) : q[i] = t
  BY <1>3, <1>4 DEF Lists
<1>7. before = q[IF i = 1 THEN Len(q) ELSE i - 1] /\ before \in S
  <2>1. (IF i = 1 THEN Len(q) ELSE i - 1) \in 1 .. Len(q)
    BY <1>5
  <2>2. next_tcb[q[IF i = 1 THEN Len(q) ELSE i - 1]] = t
    <3>1. i = 1 => t = ThreadSchedule[p] /\ next_tcb[q[Len(q)]] = ThreadSchedule[p]
      BY <1>3, <1>4, <1>6 DEF Lists
    <3>2. i # 1 => t = next_tcb[q[i - 1]]
      BY <1>4, <1>6 DEF Lists
    <3> QED BY <3>1, <3>2
  <2> HIDE DEF S, q
  <2>3. q[IF i = 1 THEN Len(q) ELSE i - 1] \in S
    BY <1>5, <2>1
  <2> QED BY <1>4, <2>2, <2>3 DEF Ring
<1>8. /\ S # {t} => /\ ThreadSchedule'[p] = after
                    /\ \A u \in S \ {t} : next_tcb'[u] = IF u = before THEN after ELSE next_tcb[u]
      /\ \A u \in Threads : u \notin S => next_tcb'[u] = next_tcb[u]
  <2>1. CASE S = {t}
    <3>1. next_tcb' = [next_tcb EXCEPT ![t] = NULL] \/ next_tcb' = [next_tcb EXCEPT ![before] = after, ![t] = NULL]
      BY DEF DequeueThread
    <3> HIDE DEF S
    <3> QED BY <1>3, <1>7, <2>1, <3>1 DEF ScheduleTypeOK
  <2>2. CASE S # {t}
    <3>1. ~ (ActivePriorityCount[p] = 0 /\ RunningPriorityCount[p] - 1 = 0)
      <4>1. PICK u \in S : u # t
        BY <1>3, <2>2
      <4>2. u \in Threads /\ Priority[u] = p /\ state'[u] \in {"ACTIVE", "RUNNING"}
        BY <1>2, <4>1 DEF Scheduled, InState
      <4>3. ScheduleTypeOK' /\ CountsExact'
        BY DequeueRing
      <4>4. Counted(state', ActivePriorityCount', RunningPriorityCount')
        BY <4>3 DEF CountsExact, Counted, InState, Members
      <4>5. /\ state' \in StateFcns /\ ActivePriorityCount' \in CountFcns
            /\ RunningPriorityCount' \in CountFcns
        BY <4>3 DEF ScheduleTypeOK, StateFcns, CountFcns
      <4>6. /\ ActivePriorityCount'[p] = 0 => state'[u] # "ACTIVE"
            /\ RunningPriorityCount'[p] = 0 => state'[u] # "RUNNING"
        BY <1>0, <4>2, <4>4, <4>5, CountZero
      <4>7. /\ ActivePriorityCount' = ActivePriorityCount
            /\ RunningPriorityCount'[p] = RunningPriorityCount[p] - 1
        BY <1>0 DEF DequeueThread, ScheduleTypeOK
      <4> QED BY <4>2, <4>6, <4>7
    <3>2. /\ ThreadSchedule' = [ThreadSchedule EXCEPT ![p] = after]
          /\ next_tcb' = [next_tcb EXCEPT ![before] = after, ![t] = NULL]
      BY <3>1 DEF DequeueThread
    <3>3. \A u \in Threads : next_tcb'[u] = IF u = t THEN NULL ELSE IF u = before THEN after ELSE next_tcb[u]
      <4> HIDE DEF after, before
      <4> QED BY <3>2 DEF ScheduleTypeOK
    <3>4. ThreadSchedule'[p] = after
      BY <1>0, <3>2 DEF ScheduleTypeOK
    <3> HIDE DEF S, before, after
    <3> QED BY <1>0, <1>3, <1>7, <3>3, <3>4 DEF S
  <2> QED BY <2>1, <2>2
<1> DEFINE w == SubSeq(q, i + 1, Len(q)) \o SubSeq(q, 1, i - 1)
<1>9. Listed(p)' /\ QueueOf(p)' = w
  <2>1. Lists(w, next_tcb', ThreadSchedule'[p], S \ {q[i]})
    <3>1. S \ {q[i]} # {} => ThreadSchedule'[p] = next_tcb[q[i]]
      BY <1>3, <1>6, <1>8
    <3>2. \A u \in S \ {q[i]} :
            next_tcb'[u] = IF u = q[IF i = 1 THEN Len(q) ELSE i - 1]
                           THEN next_tcb[q[i]] ELSE next_tcb[u]
      BY <1>3, <1>6, <1>7, <1>8
    <3> HIDE DEF S, q
    <3> QED BY <1>4, <3>1, <3>2, ListsLeave
  <2>2. Scheduled(p)' = S \ {q[i]}
    BY <1>0, <1>3, <1>6
  <2>3. Lists(w, next_tcb', ThreadSchedule'[p], Scheduled(p)')
    BY <2>1, <2>2
  <2> HIDE DEF w
  <2> QED BY <2>3, QueueIs
<1>10. ASSUME NEW r \in Levels, r # p PROVE Listed(r)' /\ QueueOf(r)' = QueueOf(r)
  <2>1. \A u \in Scheduled(r) : next_tcb'[u] = next_tcb[u]
    BY <1>3, <1>8, <1>10
  <2> QED BY <1>2, <1>3, <1>10, <2>1, QueueSame DEF AllListed
<1>11. AllListed' /\ Queues' = [Queues EXCEPT ![p] = w]
  <2> HIDE DEF w
  <2> QED BY <1>0, <1>9, <1>10, QueueUpdate
<1>12. Running' = Running \ {t} /\ t \in Running
  BY <1>2 DEF Running
<1>13. Queues[p] = q
  BY <1>0 DEF Queues
<1>14. RR!Leave(t)
  <2> HIDE DEF w, q
  <2>1. i \in DOMAIN Queues[p] /\ Queues[p][i] = t
    BY <1>5, <1>6, <1>13
  <2>2. w = SubSeq(Queues[p], i + 1, Len(Queues[p])) \o SubSeq(Queues[p], 1, i - 1)
    BY <1>13 DEF w
  <2>3. Queues' = [Queues EXCEPT ![p] = SubSeq(@, i + 1, Len(@)) \o SubSeq(@, 1, i - 1)]
    BY <1>11, <2>2
  <2> QED BY <1>12, <2>1, <2>3 DEF RR!Leave, Queues, Running
<1>15. RR!RRNext
  BY <1>14 DEF RR!RRNext
<1> QED BY <1>11, <1>15

(* The two ways a core reschedules: it has given up a thread or it has none.*)
LEMMA RescheduleIsNext ==
  ASSUME NEW r, RR!Reschedule(r), r = Running \/ \E t \in Running : r = Running \ {t}
  PROVE  RR!RRNext
<1>1. CASE r = Running
  <2>1. RR!Reschedule(Running)
    BY <1>1 DEF RR!Reschedule, RR!NoneWaits, RR!FirstWaits
  <2> QED BY <2>1 DEF RR!RRNext, Running
<1>2. CASE \E t \in Running : r = Running \ {t}
  <2>1. PICK t \in Running : r = Running \ {t}
    BY <1>2
  <2>2. RR!Reschedule(Running \ {t})
    BY <2>1 DEF RR!Reschedule, RR!NoneWaits, RR!FirstWaits
  <2> QED BY <2>1, <2>2 DEF RR!RRNext, Running
<1> QED BY <1>1, <1>2

(* schedule() and init_scheduler: a core gets the first thread of the      *)
(* highest level that is not in r, the threads that have a core.           *)
LEMMA TakeFirst ==
  ASSUME AllListed, NEW r, r = Running \/ (\E t \in Running : r = Running \ {t}),
         NEW p \in Levels, NEW i \in 1 .. Len(QueueOf(p)),
         \A u \in Levels : u < p => Scheduled(u) \subseteq r,
         QueueOf(p)[i] \notin r, \A j \in 1 .. i - 1 : QueueOf(p)[j] \in r,
         Running' = r \cup {QueueOf(p)[i]},
         \A u \in Levels : Scheduled(u)' = Scheduled(u),
         next_tcb' = next_tcb,
         ThreadSchedule \in [Levels -> Threads \cup {NULL}],
         ThreadSchedule' = IF i = 1
                           THEN [ThreadSchedule EXCEPT ![p] = next_tcb[ThreadSchedule[p]]]
                           ELSE ThreadSchedule
  PROVE  AllListed' /\ RR!RRNext
<1> DEFINE q == QueueOf(p)
           w == Append(Tail(q), Head(q))
<1>1. /\ \A u \in Levels : Queues[u] = QueueOf(u) /\ Range(QueueOf(u)) = Scheduled(u)
      /\ DOMAIN q = 1 .. Len(q)
  BY QueueThreads DEF AllListed, Queues
<1>3. AllListed' /\ Queues' = IF i = 1 THEN [Queues EXCEPT ![p] = w] ELSE Queues
  <2>1. CASE i = 1
    <3>1. Listed(p)' /\ QueueOf(p)' = w
      <4>1. Scheduled(p) # {}
        BY <2>1, QueueThreads DEF AllListed
      <4>2. Lists(w, next_tcb, next_tcb[ThreadSchedule[p]], Scheduled(p))
        BY <4>1, ListsAdvance DEF AllListed, Listed
      <4>3. ThreadSchedule'[p] = next_tcb[ThreadSchedule[p]]
        BY <2>1
      <4>4. Lists(w, next_tcb', ThreadSchedule'[p], Scheduled(p)')
        BY <4>2, <4>3
      <4> HIDE DEF w
      <4> QED BY <4>4, QueueIs
    <3>2. ASSUME NEW u \in Levels, u # p PROVE Listed(u)' /\ QueueOf(u)' = QueueOf(u)
      <4>1. ThreadSchedule'[u] = ThreadSchedule[u]
        BY <2>1, <3>2
      <4> QED BY <4>1, QueueSame DEF AllListed
    <3> HIDE DEF w
    <3> QED BY <2>1, <3>1, <3>2, QueueUpdate
  <2>2. CASE i # 1
    BY <2>2, QueuesSame
  <2> QED BY <2>1, <2>2
<1>4. \A u \in RR!Levels : u < p => RR!NoneWaits(u, r)
  BY <1>1 DEF RR!NoneWaits, RR!Levels, Levels, RR!Range, Range, Queues
<1>5. RR!FirstWaits(p, r, i)
  BY <1>1 DEF RR!FirstWaits, Queues
<1>6. p \in RR!Levels /\ i \in DOMAIN Queues[p] /\ Queues[p] = q
  BY <1>1 DEF RR!Levels, Levels
<1>7. Queues' = IF i = 1 THEN [Queues EXCEPT ![p] = Append(Tail(@), Head(@))] ELSE Queues
  BY <1>3, <1>6
<1>8. RR!Reschedule(r)
  BY <1>4, <1>5, <1>6, <1>7 DEF RR!Reschedule, Queues, Running
<1>9. RR!RRNext
  BY <1>8, RescheduleIsNext
<1> QED BY <1>3, <1>9

LEMMA TakeNone ==
  ASSUME AllListed, NEW r, r = Running \/ (\E t \in Running : r = Running \ {t}),
         \A u \in Levels : Scheduled(u) \subseteq r,
         Running' = r,
         \A u \in Levels : Scheduled(u)' = Scheduled(u),
         next_tcb' = next_tcb, ThreadSchedule' = ThreadSchedule
  PROVE  AllListed' /\ RR!RRNext
<1>1. \A u \in Levels : Queues[u] = QueueOf(u) /\ Range(QueueOf(u)) = Scheduled(u)
  BY QueueThreads DEF AllListed, Queues
<1>2. AllListed' /\ Queues' = Queues
  BY QueuesSame
<1>3. \A u \in RR!Levels : RR!NoneWaits(u, r)
  BY <1>1 DEF RR!NoneWaits, RR!Levels, Levels, RR!Range, Range, Queues
<1>4. RR!Reschedule(r)
  BY <1>2, <1>3 DEF RR!Reschedule, Queues, Running
<1>5. RR!RRNext
  BY <1>4, RescheduleIsNext
<1> QED BY <1>2, <1>5

(* The root of a level is the first thread in its queue.                   *)
LEMMA RootIsFirst ==
  ASSUME AllListed, NEW p \in Levels, Scheduled(p) # {}
  PROVE  LET q == QueueOf(p)
         IN  /\ Len(q) \in Nat \ {0} /\ 1 \in 1 .. Len(q) /\ q[1] = ThreadSchedule[p]
             /\ next_tcb[q[1]] # q[1] => 2 \in 1 .. Len(q) /\ q[2] = next_tcb[q[1]]
<1> DEFINE q == QueueOf(p)
<1>1. Len(q) \in Nat \ {0}
  BY QueueThreads DEF AllListed
<1>2. /\ \A i \in 1 .. Len(q) : q[i] = IF i = 1 THEN ThreadSchedule[p] ELSE next_tcb[q[i - 1]]
      /\ next_tcb[q[Len(q)]] = ThreadSchedule[p]
  BY DEF AllListed, Listed, Lists
<1> HIDE DEF q
<1>3. 1 \in 1 .. Len(q) /\ q[1] = ThreadSchedule[p]
  BY <1>1, <1>2
<1>4. ASSUME next_tcb[q[1]] # q[1] PROVE 2 \in 1 .. Len(q) /\ q[2] = next_tcb[q[1]]
  <2>1. Len(q) # 1
    BY <1>2, <1>3, <1>4
  <2>2. 2 \in 1 .. Len(q) /\ 2 # 1 /\ 2 - 1 = 1
    <3> DEFINE n == Len(q)
    <3>1. n \in Nat \ {0} /\ n # 1
      BY <1>1, <2>1
    <3> HIDE DEF n
    <3>2. 2 \in 1 .. n
      BY <3>1
    <3> QED BY <3>2 DEF n
  <2> QED BY <1>2, <2>2
<1> QED BY <1>1, <1>3, <1>4 DEF q

(* A level without ACTIVE threads has none that waits.                     *)
LEMMA NoneActive ==
  ASSUME NEW f \in StateFcns, NEW active \in CountFcns, NEW running \in CountFcns,
         Counted(f, active, running),
         \A u \in Threads : f[u] \in {"ACTIVE", "RUNNING"} <=> state[u] \in {"ACTIVE", "RUNNING"},
         NEW p \in Levels, active[p] = 0
  PROVE  Scheduled(p) \subseteq {t \in Threads : f[t] = "RUNNING"}
<1>1. \A u \in Threads : Priority[u] = p => f[u] # "ACTIVE"
  BY CountZero
<1> QED BY <1>1 DEF Scheduled, InState

LEMMA ScheduleQueues ==
  ASSUME TwoCores, ScheduleTypeOK, CoreTypeOK, OneRing, CountsExact, RunningHasOneCore,
         AllListed, NEW c \in Cores, ~pendsv[c], Schedule(c)
  PROVE  AllListed' /\ RR!RRNext
<1> DEFINE st == StateAfterPreempt(c)
           r == {t \in Threads : st[t] = "RUNNING"}
<1>1. /\ st \in StateFcns
      /\ ActiveAfterPreempt(c) \in CountFcns /\ RunningAfterPreempt(c) \in CountFcns
      /\ Counted(st, ActiveAfterPreempt(c), RunningAfterPreempt(c))
      /\ \A u \in Threads : st[u] \in {"ACTIVE", "RUNNING"} <=> state[u] \in {"ACTIVE", "RUNNING"}
  BY Preempt
<1>2. r = Running \/ \E t \in Running : r = Running \ {t}
  BY Preempt DEF Running
<1>3. AllListed' /\ RR!RRNext
  <2>1. next_tcb' = next_tcb /\ ThreadSchedule \in [Levels -> Threads \cup {NULL}]
    BY DEF Schedule, ScheduleTypeOK
  <2>2. CASE ScheduleIdle(c)
    <3>1. /\ state' = st /\ ThreadSchedule' = ThreadSchedule
          /\ \A u \in Levels : ActiveAfterPreempt(c)[u] = 0
      BY <2>2 DEF ScheduleIdle
    <3>2. \A u \in Levels : Scheduled(u) \subseteq r
      <4> HIDE DEF st
      <4> QED BY <1>1, <3>1, NoneActive
    <3>3. Running' = r /\ \A u \in Levels : Scheduled(u)' = Scheduled(u)
      BY <1>1, <3>1 DEF Running, Scheduled, InState
    <3> HIDE DEF r
    <3> QED BY <1>2, <2>1, <3>1, <3>2, <3>3, TakeNone
  <2>3. ASSUME NEW p \in Levels, SchedulePick(c, p) PROVE AllListed' /\ RR!RRNext
    <3> DEFINE root == ThreadSchedule[p]
               q == QueueOf(p)
    <3>1. PICK t \in Scheduled(p) :
              /\ st[t] = "ACTIVE"
              /\ NextRunPt' = [NextRunPt EXCEPT ![c] = t]
              /\ state' = Put(st, t, "RUNNING")
      BY <2>3, PickIsActive
    <3>2. root \in Scheduled(p) /\ root \in Threads /\ t \in Threads /\ Priority[t] = p
      BY <2>3, PickIsActive DEF Scheduled, InState
    <3>3. \A u \in Threads : state'[u] = IF u = t THEN "RUNNING" ELSE st[u]
      <4> HIDE DEF st
      <4> QED BY <1>1, <3>1, <3>2 DEF Put, StateFcns
    <3>4. t = IF st[root] = "RUNNING" THEN next_tcb[root] ELSE root
      <4>1. NextRunPt' = [NextRunPt EXCEPT ![c] = IF st[root] = "RUNNING" THEN next_tcb[root] ELSE root]
        BY <2>3 DEF SchedulePick
      <4> HIDE DEF st
      <4> QED BY <3>1, <4>1 DEF CoreTypeOK
    <3>5. ThreadSchedule' = IF st[root] = "RUNNING" THEN ThreadSchedule
                            ELSE [ThreadSchedule EXCEPT ![p] = next_tcb[root]]
      BY <2>3 DEF SchedulePick
    <3>6. \A u \in Levels : u < p => Scheduled(u) \subseteq r
      <4>1. \A u \in Levels : u < p => ActiveAfterPreempt(c)[u] = 0
        BY <2>3 DEF SchedulePick, IsHighest
      <4> HIDE DEF st
      <4> QED BY <1>1, <4>1, NoneActive
    <3>7. Running' = r \cup {t} /\ \A u \in Levels : Scheduled(u)' = Scheduled(u)
      BY <1>1, <3>1, <3>2, <3>3 DEF Running, Scheduled, InState
    <3>8. /\ 1 \in 1 .. Len(q) /\ q[1] = root
          /\ next_tcb[root] # root => 2 \in 1 .. Len(q) /\ q[2] = next_tcb[root]
      BY <3>2, RootIsFirst
    <3>9. t \notin r
      BY <3>1
    <3>10. CASE st[root] = "RUNNING"
      <4>1. t = next_tcb[root] /\ t # root
        BY <3>1, <3>4, <3>10
      <4>2. 2 \in 1 .. Len(q) /\ q[2] = t
        BY <3>8, <4>1
      <4>3. \A j \in 1 .. 2 - 1 : q[j] \in r
        BY <3>2, <3>8, <3>10
      <4>4. ThreadSchedule' = ThreadSchedule
        BY <3>5, <3>10
      <4> HIDE DEF r
      <4> QED BY <1>2, <2>1, <3>6, <3>7, <3>9, <4>2, <4>3, <4>4, TakeFirst
    <3>11. CASE st[root] # "RUNNING"
      <4>1. q[1] = t
        BY <3>4, <3>8, <3>11
      <4>2. ThreadSchedule' = [ThreadSchedule EXCEPT ![p] = next_tcb[root]]
        BY <3>5, <3>11
      <4>3. \A j \in 1 .. 1 - 1 : q[j] \in r
        OBVIOUS
      <4> HIDE DEF r
      <4> QED BY <1>2, <2>1, <3>6, <3>7, <3>8, <3>9, <4>1, <4>2, <4>3, TakeFirst
    <3> QED BY <3>10, <3>11
  <2> QED BY <2>2, <2>3 DEF Schedule
<1> QED BY <1>3

(* init_scheduler: the root is ACTIVE when its level has a thread that is. *)
LEMMA LaunchQueues ==
  ASSUME Supported, IInv, AllListed, NEW c \in Cores,
         LaunchIdle(c) \/ \E p \in Levels : LaunchThread(c, p)
  PROVE  AllListed' /\ RR!RRNext
<1>1. /\ ScheduleTypeOK /\ CoreTypeOK /\ OneRing /\ CountsExact /\ BootRoot
      /\ state \in StateFcns /\ ActivePriorityCount \in CountFcns
      /\ RunningPriorityCount \in CountFcns /\ NULL \notin Threads
      /\ Counted(state, ActivePriorityCount, RunningPriorityCount)
  BY ConstantsAssumption
     DEF IInv, TypeOK, ScheduleTypeOK, StateFcns, CountFcns, ConstantsAssumption,
         CountsExact, Counted, InState, Members
<1>2. next_tcb' = next_tcb /\ pc[c] = "boot"
  BY DEF LaunchIdle, LaunchThread, Launch
<1>3. ThreadSchedule \in [Levels -> Threads \cup {NULL}]
  BY <1>1 DEF ScheduleTypeOK
<1>4. AllListed' /\ RR!RRNext
  <2>1. CASE LaunchIdle(c)
    <3>1. /\ state' = state /\ ThreadSchedule' = ThreadSchedule
          /\ \A u \in Levels : ActivePriorityCount[u] = 0
      BY <2>1 DEF LaunchIdle
    <3>2. \A u \in Levels : Scheduled(u) \subseteq Running
      BY <1>1, <3>1, NoneActive DEF Running
    <3>3. Running' = Running /\ \A u \in Levels : Scheduled(u)' = Scheduled(u)
      BY <3>1 DEF Running, Scheduled, InState
    <3> HIDE DEF Running
    <3> QED BY <1>2, <3>1, <3>2, <3>3, TakeNone
  <2>2. ASSUME NEW p \in Levels, LaunchThread(c, p)
        PROVE  AllListed' /\ RR!RRNext
    <3> DEFINE t == ThreadSchedule[p]
               q == QueueOf(p)
    <3>1. /\ ThreadSchedule' = [ThreadSchedule EXCEPT ![p] = next_tcb[t]]
          /\ state' = [state EXCEPT ![t] = "RUNNING"]
          /\ ActivePriorityCount[p] # 0
          /\ \A u \in Levels : u < p => ActivePriorityCount[u] = 0
      BY <2>2 DEF LaunchThread, IsHighest
    <3>2. PICK a \in Threads : Priority[a] = p /\ state[a] = "ACTIVE"
      <4>1. ~ \A a \in Threads : Priority[a] = p => state[a] # "ACTIVE"
        BY <1>1, <3>1, CountZero
      <4> QED BY <4>1
    <3>3. a \in Scheduled(p) /\ t # NULL /\ t \in Scheduled(p) /\ t \in Threads
      <4>1. a \in Scheduled(p)
        BY <3>2 DEF Scheduled, InState
      <4> QED BY <1>1, <4>1 DEF OneRing, RingLinks, Scheduled, InState
    <3>4. state[t] = "ACTIVE"
      <4>1. state[t] # "RUNNING"
        BY <1>1, <1>2, <3>2, <3>3 DEF BootRoot
      <4> QED BY <3>3, <4>1 DEF Scheduled, InState
    <3>5. \A u \in Threads : state'[u] = IF u = t THEN "RUNNING" ELSE state[u]
      BY <3>1, <3>3, <1>1 DEF ScheduleTypeOK
    <3>6. Running' = Running \cup {t} /\ t \notin Running
      BY <3>3, <3>4, <3>5 DEF Running
    <3>7. \A u \in Levels : Scheduled(u)' = Scheduled(u)
      BY <3>3, <3>4, <3>5 DEF Scheduled, InState
    <3>8. \A u \in Levels : u < p => Scheduled(u) \subseteq Running
      BY <1>1, <3>1, NoneActive DEF Running
    <3>9. 1 \in 1 .. Len(q) /\ q[1] = t
      BY <3>3, RootIsFirst
    <3>10. \A j \in 1 .. 1 - 1 : q[j] \in Running
      OBVIOUS
    <3> HIDE DEF Running
    <3> QED BY <1>2, <1>3, <3>1, <3>6, <3>7, <3>8, <3>9, <3>10, TakeFirst
  <2> QED BY <2>1, <2>2
<1> QED BY <1>4

(* A step that is none of the schedule.                                    *)
LEMMA OtherQueues ==
  ASSUME AllListed, UNCHANGED ring,
         \A u \in Threads, k \in {"ACTIVE", "RUNNING"} : state'[u] = k <=> state[u] = k
  PROVE  AllListed' /\ UNCHANGED RR!rrVars
<1>1. /\ ThreadSchedule' = ThreadSchedule /\ next_tcb' = next_tcb
      /\ \A p \in Levels : Scheduled(p)' = Scheduled(p)
      /\ Running' = Running
  BY DEF ring, Running, Scheduled, InState
<1>2. AllListed' /\ Queues' = Queues
  BY <1>1, QueuesSame
<1> QED BY <1>1, <1>2 DEF RR!rrVars, Queues, Running

LEMMA InitQueues == Init => AllListed /\ RR!RRInit
<1> SUFFICES ASSUME Init PROVE AllListed /\ RR!RRInit
  OBVIOUS
<1>1. state = [t \in Threads |-> "FREE"]
  BY DEF Init
<1>2. \A p \in Levels : Scheduled(p) = {}
  BY <1>1 DEF Scheduled, InState
<1>3. ASSUME NEW p \in Levels PROVE Listed(p) /\ QueueOf(p) = <<>>
  <2>1. Lists(<<>>, next_tcb, ThreadSchedule[p], Scheduled(p))
    BY <1>2, ListsNothing
  <2>2. QueueOf(p) = <<>>
    BY <2>1, OrderIs DEF QueueOf
  <2> QED BY <2>1, <2>2 DEF Listed
<1>4. RR!RRInit
  BY <1>1, <1>3 DEF RR!RRInit, RR!Levels, Levels
<1> QED BY <1>3, <1>4 DEF AllListed

LEMMA NextQueues ==
  ASSUME Supported, IInv, AllListed, [Next]_vars
  PROVE  AllListed' /\ [RR!RRNext]_RR!rrVars
<1>1. /\ TwoCores /\ ScheduleTypeOK /\ WaitTypeOK /\ CoreTypeOK /\ OneRing /\ CountsExact
      /\ RunningHasOneCore /\ WaitingOnce /\ Control
  BY SupportedTwoCores DEF IInv, TypeOK
<1>2. CASE UNCHANGED vars \/ StartScheduler \/ AlarmMatch
  <2>1. UNCHANGED ring /\ state' = state
    BY <1>2 DEF vars, StartScheduler, AlarmMatch
  <2> QED BY <2>1, OtherQueues
<1>3. ASSUME NEW t \in Threads, state[t] \notin {"ACTIVE", "RUNNING"}, EnqueueThread(t)
      PROVE  AllListed' /\ RR!RRNext
  BY <1>1, <1>3, EnqueueQueues
<1>4. ASSUME NEW c \in Cores, NEW new \in ThreadStates, new \notin {"ACTIVE", "RUNNING"},
             InThread(c), DequeueThread(RunPt[c], new)
      PROVE  AllListed' /\ RR!RRNext
  <2>1. RunPt[c] \in Threads /\ state[RunPt[c]] = "RUNNING"
    BY <1>1, <1>4 DEF InThread, Ready, Control
  <2> DEFINE t == RunPt[c]
  <2>2. t \in Threads /\ state[t] = "RUNNING" /\ DequeueThread(t, new)
    BY <1>4, <2>1
  <2> HIDE DEF t
  <2> QED BY <1>1, <1>4, <2>2, DequeueQueues
<1>5. CASE Unsleep
  <2> DEFINE t == Head(SleepSchedule)
  <2>1. EnqueueThread(t) /\ SleepSchedule # <<>>
    BY <1>5 DEF Unsleep
  <2>2. t \in Range(SleepSchedule) /\ t \in Threads
    BY <1>1, <2>1, TakeWaiter DEF WaitTypeOK, WaitingOnce
  <2>3. state[t] = "SLEEPING"
    BY <1>1, <2>2 DEF WaitingOnce
  <2> HIDE DEF t
  <2> QED BY <1>3, <2>1, <2>2, <2>3
<1>6. ASSUME NEW c \in Cores, CoreStep(c) PROVE AllListed' /\ [RR!RRNext]_RR!rrVars
  <2>1. CASE LaunchIdle(c) \/ \E p \in Levels : LaunchThread(c, p)
    BY <2>1, LaunchQueues
  <2>2. CASE SysTick(c) \/ Yield(c) \/ Resched(c) \/ KillSchedule(c)
    <3>1. Schedule(c) /\ ~pendsv[c]
      BY <1>1, <2>2 DEF SysTick, Yield, Resched, KillSchedule, Ready, Control
    <3> QED BY <1>1, <3>1, ScheduleQueues
  <2>3. CASE PendSV(c)
    <3>1. UNCHANGED ring /\ state' = state
      BY <2>3 DEF PendSV
    <3> QED BY <3>1, OtherQueues
  <2>4. CASE \E t \in Threads : AddThread(c, t)
    BY <2>4, <1>3 DEF AddThread
  <2>5. ASSUME NEW s \in Sems, SchedBlock(c, s) PROVE AllListed' /\ RR!RRNext
    BY <2>5, <1>4 DEF SchedBlock, ThreadStates
  <2>6. ASSUME NEW s \in Sems, SchedUnblock(c, s) PROVE AllListed' /\ RR!RRNext
    <3> DEFINE t == Head(bthreads[s])
    <3>1. EnqueueThread(t) /\ bthreads[s] # <<>>
      BY <2>6 DEF SchedUnblock
    <3>2. t \in Range(bthreads[s]) /\ t \in Threads
      <4>1. bthreads[s] \in Seq(Threads) /\ IsInjective(bthreads[s])
        BY <1>1 DEF WaitTypeOK, WaitingOnce
      <4> QED BY <3>1, <4>1, TakeWaiter
    <3>3. state[t] = "BLOCKED"
      BY <1>1, <3>2 DEF WaitingOnce
    <3> HIDE DEF t
    <3> QED BY <1>3, <3>1, <3>2, <3>3
  <2>7. CASE Sleep(c)
    BY <2>7, <1>4 DEF Sleep, ThreadStates
  <2>8. CASE Kill(c)
    BY <2>8, <1>4 DEF Kill, ThreadStates
  <2>9. CASE KillFree(c)
    <3>1. /\ UNCHANGED ring /\ state' = [state EXCEPT ![RunPt[c]] = "FREE"]
          /\ RunPt[c] \in Threads /\ state[RunPt[c]] = "DEAD"
      BY <1>1, <2>9 DEF KillFree, Control
    <3>2. \A u \in Threads, k \in {"ACTIVE", "RUNNING"} : state'[u] = k <=> state[u] = k
      BY <1>1, <3>1 DEF ScheduleTypeOK
    <3> QED BY <3>1, <3>2, OtherQueues
  <2> QED BY <1>6, <2>1, <2>2, <2>3, <2>4, <2>5, <2>6, <2>7, <2>8, <2>9 DEF CoreStep
<1> QED BY <1>2, <1>3, <1>5, <1>6 DEF Next

(* The linked lists, roots and counts of schedule.c do what module         *)
(* RoundRobin says: one queue per level, from whose front the cores are    *)
(* given threads.                                                          *)
THEOREM SchedulerIsRoundRobin ==
  ASSUME Supported
  PROVE  Spec => ImplementsRoundRobin
<1>1. Init => AllListed /\ RR!RRInit
  BY InitQueues
<1>2. IInv /\ AllListed /\ [Next]_vars => AllListed' /\ [RR!RRNext]_RR!rrVars
  BY NextQueues
<1> QED BY <1>1, <1>2, Invariant, PTL DEF Spec, ImplementsRoundRobin, RR!RRSpec

-----------------------------------------------------------------------------
(* Semaphores.  Mutual exclusion and the conservation of tokens rest on    *)
(* the atomic regions of semaphore.c alone: they hold on any number of     *)
(* cores and whatever the scheduler does.                                  *)

Calls == {None} \cup ({"retry", "block"} \X Sems)

Signals == {None} \cup ({"check", "unblock", "leave"} \X Sems)

(* The variables of semaphore.c have their types.                          *)
SemLocal ==
  /\ value \in [Sems -> Nat]
  /\ held \in [Threads -> SUBSET Sems]
  /\ call \in [Threads -> Calls]
  /\ signal \in [Cores -> Signals]
  /\ counting \in Cores \cup {NULL}

(* Nobody waits for a semaphore it holds.                                  *)
NoSelfWait == \A t \in Threads, s \in Sems : Waiting(t, s) => s \notin held[t]

TokensAddUp ==
  \A s \in CountingSems : value[s] + Cardinality(Holders(s)) = InitialValue[s]

SemInv == SemLocal /\ NoSelfWait /\ BinaryMutex /\ TokensAddUp

-----------------------------------------------------------------------------
(* The holders of a semaphore, when one thread acquires or signals one.    *)

HoldersOf(h, s) == {t \in Threads : s \in h[t]}

Add(h, t, s) == [h EXCEPT ![t] = @ \cup {s}]
Del(h, t, s) == [h EXCEPT ![t] = @ \ {s}]

LEMMA HoldersFinite ==
  ASSUME NEW h, NEW s
  PROVE  IsFiniteSet(HoldersOf(h, s)) /\ Cardinality(HoldersOf(h, s)) \in Nat
<1>1. HoldersOf(h, s) \subseteq Threads
  BY DEF HoldersOf
<1>2. IsFiniteSet(HoldersOf(h, s))
  BY <1>1, ConstantsAssumption, FS_Subset
<1> QED BY <1>2, FS_CardinalityType

(* One thread more or less holds s; the holders of the others stay.        *)
LEMMA AcquireCounts ==
  ASSUME NEW h \in [Threads -> SUBSET Sems], NEW t \in Threads, NEW s \in Sems,
         s \notin h[t], NEW r \in Sems
  PROVE  Cardinality(HoldersOf(Add(h, t, s), r)) =
           IF r = s THEN Cardinality(HoldersOf(h, r)) + 1
                    ELSE Cardinality(HoldersOf(h, r))
<1> DEFINE g == Add(h, t, s)
<1>1. HoldersOf(g, r) = IF r = s THEN HoldersOf(h, r) \cup {t} ELSE HoldersOf(h, r)
  BY DEF HoldersOf, Add
<1>2. r = s => t \notin HoldersOf(h, r)
  BY DEF HoldersOf
<1>3. IsFiniteSet(HoldersOf(h, r))
  BY HoldersFinite
<1>4. Cardinality(HoldersOf(h, r) \cup {t}) =
        IF t \in HoldersOf(h, r) THEN Cardinality(HoldersOf(h, r))
                                 ELSE Cardinality(HoldersOf(h, r)) + 1
  BY <1>3, FS_AddElement
<1> QED BY <1>1, <1>2, <1>4

LEMMA SignalCounts ==
  ASSUME NEW h \in [Threads -> SUBSET Sems], NEW t \in Threads, NEW s \in Sems,
         s \in h[t], NEW r \in Sems
  PROVE  Cardinality(HoldersOf(Del(h, t, s), r)) =
           IF r = s THEN Cardinality(HoldersOf(h, r)) - 1
                    ELSE Cardinality(HoldersOf(h, r))
<1> DEFINE g == Del(h, t, s)
<1>1. HoldersOf(g, r) = IF r = s THEN HoldersOf(h, r) \ {t} ELSE HoldersOf(h, r)
  BY DEF HoldersOf, Del
<1>2. t \in HoldersOf(h, s)
  BY DEF HoldersOf
<1>3. IsFiniteSet(HoldersOf(h, r))
  BY HoldersFinite
<1>4. Cardinality(HoldersOf(h, r) \ {t}) =
        IF t \in HoldersOf(h, r) THEN Cardinality(HoldersOf(h, r)) - 1
                                 ELSE Cardinality(HoldersOf(h, r))
  BY <1>3, FS_RemoveElement
<1> QED BY <1>1, <1>2, <1>4

LEMMA SomeHolder ==
  ASSUME NEW h, NEW t \in Threads, NEW s, s \in h[t]
  PROVE  Cardinality(HoldersOf(h, s)) # 0
<1>1. t \in HoldersOf(h, s)
  BY DEF HoldersOf
<1> QED BY <1>1, HoldersFinite, FS_EmptySet

-----------------------------------------------------------------------------
(* The invariant is inductive.                                             *)

LEMMA SemInvInit == SemInit => SemInv
<1> SUFFICES ASSUME SemInit PROVE SemInv
  OBVIOUS
<1> USE SemaphoresAssumption
<1>1. SemLocal
  BY DEF SemInit, SemLocal, Calls, Signals
<1>2. NoSelfWait
  BY DEF SemInit, NoSelfWait
<1>3. \A s \in Sems : Holders(s) = {}
  BY DEF SemInit, Holders
<1>4. \A s \in Sems : Cardinality(Holders(s)) = 0
  BY <1>3, FS_EmptySet
<1>5. BinaryMutex
  BY <1>4 DEF SemInit, BinaryMutex
<1>6. TokensAddUp
  BY <1>4 DEF SemInit, TokensAddUp, CountingSems
<1> QED BY <1>1, <1>2, <1>5, <1>6 DEF SemInv

(* A step that leaves the semaphores and their users alone.                *)
LEMMA SemInvOther ==
  ASSUME SemInv, UNCHANGED <<value, held, call>>,
         signal' \in [Cores -> Signals], counting' \in Cores \cup {NULL}
  PROVE  SemInv'
<1>1. \A s : Holders(s)' = Holders(s)
  BY DEF Holders
<1>2. BinaryMutex' /\ TokensAddUp'
  BY <1>1 DEF SemInv, BinaryMutex, TokensAddUp
<1>3. SemLocal' /\ NoSelfWait'
  BY DEF SemInv, SemLocal, NoSelfWait, Waiting
<1> QED BY <1>2, <1>3 DEF SemInv

(* A thread begins or goes on to wait.                                     *)
LEMMA SemInvCall ==
  ASSUME SemInv, NEW t \in Threads, NEW s \in Sems, s \notin held[t],
         NEW l \in {"retry", "block"}, call' = [call EXCEPT ![t] = <<l, s>>],
         UNCHANGED <<value, held, signal, counting>>
  PROVE  SemInv'
<1>1. \A r : Holders(r)' = Holders(r)
  BY DEF Holders
<1>2. BinaryMutex' /\ TokensAddUp'
  BY <1>1 DEF SemInv, BinaryMutex, TokensAddUp
<1>3. SemLocal'
  BY DEF SemInv, SemLocal, Calls
<1>4. NoSelfWait'
  BY DEF SemInv, SemLocal, NoSelfWait, Waiting
<1> QED BY <1>2, <1>3, <1>4 DEF SemInv

(* A wait succeeds: the value goes down by what the holders go up.         *)
LEMMA SemInvAcquire ==
  ASSUME SemInv, NEW t \in Threads, NEW s \in Sems, s \notin held[t],
         NEW v \in Nat, value' = [value EXCEPT ![s] = v],
         s \in BinarySems => value[s] = 0 /\ v = 1,
         s \notin BinarySems => v + 1 = value[s],
         Acquire(t, s), UNCHANGED <<signal, counting>>
  PROVE  SemInv'
<1>0. SemLocal /\ NoSelfWait /\ BinaryMutex /\ TokensAddUp
  BY DEF SemInv
<1>1. SemLocal'
  BY <1>0 DEF SemLocal, Acquire, Calls
<1>2. NoSelfWait'
  BY <1>0 DEF SemLocal, Calls, NoSelfWait, Waiting, Acquire, None
<1>3. \A r \in Sems : Cardinality(Holders(r))' =
        IF r = s THEN Cardinality(Holders(r)) + 1 ELSE Cardinality(Holders(r))
  <2> SUFFICES ASSUME NEW r \in Sems
               PROVE  Cardinality(HoldersOf(held', r)) =
                        IF r = s THEN Cardinality(HoldersOf(held, r)) + 1
                                 ELSE Cardinality(HoldersOf(held, r))
    BY DEF Holders, HoldersOf
  <2>1. held \in [Threads -> SUBSET Sems] /\ held' = Add(held, t, s)
    BY <1>0 DEF SemLocal, Acquire, Add
  <2> QED BY <2>1, AcquireCounts
<1>4. \A r \in Sems : Cardinality(Holders(r)) \in Nat
  BY HoldersFinite DEF Holders, HoldersOf
<1>5. \A r \in Sems : value'[r] = IF r = s THEN v ELSE value[r]
  BY <1>0 DEF SemLocal
<1>6. BinaryMutex'
  BY <1>0, <1>3, <1>4, <1>5, SemaphoresAssumption DEF BinaryMutex
<1>7. TokensAddUp'
  BY <1>0, <1>3, <1>4, <1>5, SemaphoresAssumption DEF TokensAddUp, CountingSems, SemLocal
<1> QED BY <1>1, <1>2, <1>6, <1>7 DEF SemInv

(* A signal: the holder gives back one.                                    *)
LEMMA SemInvSignal ==
  ASSUME SemInv, NEW t \in Threads, NEW s \in Sems, s \in held[t],
         NEW v \in Nat, value' = [value EXCEPT ![s] = v],
         s \in BinarySems => v = 0,
         s \notin BinarySems => v = value[s] + 1,
         held' = [held EXCEPT ![t] = @ \ {s}], call' = call,
         signal' \in [Cores -> Signals], counting' \in Cores \cup {NULL}
  PROVE  SemInv'
<1>0. SemLocal /\ NoSelfWait /\ BinaryMutex /\ TokensAddUp
  BY DEF SemInv
<1>1. SemLocal'
  BY <1>0 DEF SemLocal
<1>2. NoSelfWait'
  BY <1>0 DEF SemLocal, NoSelfWait, Waiting
<1>3. \A r \in Sems : Cardinality(Holders(r))' =
        IF r = s THEN Cardinality(Holders(r)) - 1 ELSE Cardinality(Holders(r))
  <2> SUFFICES ASSUME NEW r \in Sems
               PROVE  Cardinality(HoldersOf(held', r)) =
                        IF r = s THEN Cardinality(HoldersOf(held, r)) - 1
                                 ELSE Cardinality(HoldersOf(held, r))
    BY DEF Holders, HoldersOf
  <2>1. held \in [Threads -> SUBSET Sems] /\ held' = Del(held, t, s)
    BY <1>0 DEF SemLocal, Del
  <2>2. Cardinality(HoldersOf(Del(held, t, s), r)) =
          IF r = s THEN Cardinality(HoldersOf(held, r)) - 1
                   ELSE Cardinality(HoldersOf(held, r))
    BY ONLY <2>1, SignalCounts, s \in held[t], t \in Threads, s \in Sems, r \in Sems, Zenon
  <2> QED BY <2>1, <2>2
<1>4. /\ \A r \in Sems : Cardinality(Holders(r)) \in Nat
      /\ Cardinality(Holders(s)) # 0
  BY HoldersFinite, SomeHolder DEF Holders, HoldersOf
<1>5. \A r \in Sems : value'[r] = IF r = s THEN v ELSE value[r]
  BY <1>0 DEF SemLocal
<1>6. BinaryMutex'
  BY <1>0, <1>3, <1>4, <1>5, SemaphoresAssumption DEF BinaryMutex
<1>7. TokensAddUp'
  BY <1>0, <1>3, <1>4, <1>5, SemaphoresAssumption DEF TokensAddUp, CountingSems, SemLocal
<1> QED BY <1>1, <1>2, <1>6, <1>7 DEF SemInv

(* Where the running thread can be in a wait or a signal.                  *)
LEMMA CallerIsThread ==
  ASSUME NEW c \in Cores, Caller(c)
  PROVE  RunPt[c] \in Threads /\ signal[c] = None
BY DEF Caller, InThread

LEMMA WaiterIsNoHolder ==
  ASSUME SemInv, NEW t \in Threads, NEW s \in Sems,
         Waits(t, s) \/ call[t] = <<"block", s>>
  PROVE  s \notin held[t]
BY DEF SemInv, NoSelfWait, Waits, Waiting

LEMMA SemInvWait ==
  ASSUME SemInv, NEW c \in Cores, Wait(c)
  PROVE  SemInv'
<1>0. SemLocal
  BY DEF SemInv
<1>1. PICK s \in Sems : BWait(c, s) \/ CWait(c, s)
  BY DEF Wait
<1> DEFINE t == RunPt[c]
<1>2. t \in Threads /\ Waits(t, s)
  BY <1>1, CallerIsThread DEF BWait, CWait
<1>3. s \notin held[t]
  BY <1>2, WaiterIsNoHolder
<1>4. UNCHANGED <<signal, counting>>
  BY <1>1 DEF BWait, CWait
<1> HIDE DEF t
<1>5. CASE MustBlock(t, s)
  <2>1. call' = [call EXCEPT ![t] = <<"block", s>>] /\ UNCHANGED <<value, held>>
    BY <1>5 DEF MustBlock
  <2> QED BY <1>2, <1>3, <1>4, <2>1, SemInvCall
<1>6. CASE BWait(c, s) /\ TestAndSet(s) /\ Acquire(t, s)
  <2>1. /\ s \in BinarySems /\ value[s] = 0
        /\ value' = [value EXCEPT ![s] = 1]
    BY <1>6 DEF BWait, TestAndSet
  <2> QED BY <1>2, <1>3, <1>4, <1>6, <2>1, SemInvAcquire
<1>7. CASE /\ CWait(c, s) /\ value[s] # 0 /\ Acquire(t, s)
           /\ value' = [value EXCEPT ![s] = @ - 1]
  <2> DEFINE v == value[s] - 1
  <2>1. s \notin BinarySems /\ v \in Nat /\ v + 1 = value[s]
    BY <1>0, <1>7 DEF CWait, CountingSems, SemLocal
  <2>2. value' = [value EXCEPT ![s] = v]
    BY <1>7
  <2> HIDE DEF v
  <2> QED BY <1>2, <1>3, <1>4, <1>7, <2>1, <2>2, SemInvAcquire
<1> QED BY <1>1, <1>5, <1>6, <1>7 DEF BWait, CWait, t

LEMMA SemInvBlock ==
  ASSUME SemInv, NEW c \in Cores, NEW s \in Sems, Block(c, s)
  PROVE  SemInv'
<1> DEFINE t == RunPt[c]
<1>1. t \in Threads /\ call[t] = <<"block", s>>
  BY CallerIsThread DEF Block
<1>2. s \notin held[t]
  BY <1>1, WaiterIsNoHolder
<1>3. /\ call' = [call EXCEPT ![t] = <<"retry", s>>]
      /\ UNCHANGED <<value, held, signal, counting>>
  BY DEF Block
<1> HIDE DEF t
<1> QED BY <1>1, <1>2, <1>3, SemInvCall

LEMMA SemInvSignals ==
  ASSUME SemInv, NEW c \in Cores, Signal(c)
  PROVE  SemInv'
<1>0. SemLocal
  BY DEF SemInv
<1>1. PICK s \in Sems : BSignal(c, s) \/ CSignal(c, s)
  BY DEF Signal
<1> DEFINE t == RunPt[c]
           v == IF s \in BinarySems THEN 0 ELSE value[s] + 1
<1>2. t \in Threads /\ s \in held[t]
  BY <1>1, CallerIsThread DEF BSignal, CSignal
<1>3. value' = [value EXCEPT ![s] = v]
  BY <1>1 DEF BSignal, CSignal, Clear, CountingSems
<1>4. v \in Nat /\ (s \in BinarySems => v = 0) /\ (s \notin BinarySems => v = value[s] + 1)
  BY <1>0 DEF SemLocal
<1>5. held' = [held EXCEPT ![t] = @ \ {s}] /\ call' = call
  BY <1>1 DEF BSignal, CSignal
<1>6. signal' = [signal EXCEPT ![c] = <<"check", s>>]
  BY <1>1 DEF BSignal, CSignal
<1>7. signal' \in [Cores -> Signals]
  BY <1>0, <1>6 DEF SemLocal, Signals
<1>8. counting' \in Cores \cup {NULL}
  BY <1>0, <1>1 DEF BSignal, CSignal, SemLocal
<1> HIDE DEF t, v
<1> QED BY <1>2, <1>3, <1>4, <1>5, <1>7, <1>8, SemInvSignal

LEMMA SemInvInSignal ==
  ASSUME SemInv, NEW c \in Cores, InSignal(c)
  PROVE  SemInv'
<1>0. SemLocal
  BY DEF SemInv
<1>1. PICK s \in Sems : Check(c, s) \/ Unblock(c, s) \/ LeaveSignal(c, s)
  BY DEF InSignal
<1>2. UNCHANGED <<value, held, call>>
  BY <1>1 DEF Check, Unblock, LeaveSignal
<1>3. signal' \in [Cores -> Signals]
  BY <1>0, <1>1 DEF Check, Unblock, LeaveSignal, SemLocal, Signals
<1>4. counting' \in Cores \cup {NULL}
  BY <1>0, <1>1 DEF Check, Unblock, LeaveSignal, SemLocal
<1> QED BY <1>2, <1>3, <1>4, SemInvOther

LEMMA SemInvNext == SemInv /\ [SemNext]_allVars => SemInv'
<1> SUFFICES ASSUME SemInv, [SemNext]_allVars PROVE SemInv'
  OBVIOUS
<1>1. CASE UNCHANGED semVars
  BY <1>1, SemInvOther DEF semVars, SemInv, SemLocal
<1>2. ASSUME NEW c \in Cores,
             Wait(c) \/ Signal(c) \/ InSignal(c) \/ \E s \in Sems : Block(c, s)
      PROVE  SemInv'
  BY <1>2, SemInvWait, SemInvSignals, SemInvInSignal, SemInvBlock
<1> QED BY <1>1, <1>2 DEF SemNext, allVars

(* The inductive invariant of semaphore.c: nobody waits for a semaphore it *)
(* holds, and values and holders agree.                                    *)
THEOREM SemaphoresInvariant == SemSpec => []SemInv
BY SemInvInit, SemInvNext, PTL DEF SemSpec

(* b_wait and b_signal make a mutex of a binary semaphore.                 *)
THEOREM MutualExclusion == SemSpec => []BinaryMutex
<1>1. SemInv => BinaryMutex
  BY DEF SemInv
<1> QED BY <1>1, SemaphoresInvariant, PTL

-----------------------------------------------------------------------------
(* Semaphores makes no step that Scheduler does not: the invariant of the  *)
(* scheduler holds under it.                                               *)

LEMMA CallsAreSteps == [SemNext]_allVars => [Next]_vars
<1> SUFFICES ASSUME [SemNext]_allVars PROVE [Next]_vars
  OBVIOUS
<1>1. CASE StartScheduler \/ UNCHANGED vars
  BY <1>1 DEF Next
<1>2. ASSUME NEW c \in Cores, Kernel(c) PROVE Next
  BY <1>2 DEF Kernel, Next, CoreStep
<1>3. ASSUME NEW c \in Cores, Wait(c) \/ Signal(c) PROVE UNCHANGED vars
  BY <1>3 DEF Wait, Signal, BWait, CWait, BSignal, CSignal
<1>4. ASSUME NEW c \in Cores, NEW s \in Sems, Block(c, s) PROVE Next
  BY <1>4 DEF Block, Next, CoreStep
<1>5. ASSUME NEW c \in Cores, InSignal(c) PROVE UNCHANGED vars \/ Next
  BY <1>5 DEF InSignal, Check, Unblock, LeaveSignal, Next, CoreStep
<1> QED BY <1>1, <1>2, <1>3, <1>4, <1>5 DEF SemNext, allVars

(* The threads that use semaphores use the scheduler as it is specified:   *)
(* whatever Spec implies holds with semaphores too.                        *)
THEOREM SemaphoresUseScheduler == SemSpec => Spec
<1>1. SemInit => Init
  BY DEF SemInit
<1> QED BY <1>1, CallsAreSteps, PTL DEF SemSpec, Spec

(* c_wait and c_signal neither lose nor invent a token.                    *)
THEOREM TokensAreConserved ==
  ASSUME Supported
  PROVE  SemSpec => []TokensConserved
<1>1. SemInv /\ TypeOK => TokensConserved
  BY DEF SemInv, SemLocal, Calls, Signals, TokensAddUp, TokensConserved, SemTypeOK
<1> QED BY <1>1, SemaphoresInvariant, SemaphoresUseScheduler, TypeCorrect, PTL

-----------------------------------------------------------------------------
(* A core in a signal is in its thread, and only a core in c_signal owns   *)
(* COUNTING_SEMA4.                                                         *)
Owns(c) ==
  /\ signal[c] # None => pc[c] = "task"
  /\ counting = c => \E l \in {"check", "unblock", "leave"}, s \in CountingSems :
                       signal[c] = <<l, s>>

InSignalMasked == SemLocal /\ \A c \in Cores : Owns(c)

LEMMA MaskedInit == SemInit => InSignalMasked
<1> SUFFICES ASSUME SemInit PROVE InSignalMasked
  OBVIOUS
<1>1. SemLocal
  BY SemInvInit DEF SemInv
<1>2. \A c \in Cores : Owns(c)
  BY SemaphoresAssumption DEF SemInit, Owns
<1> QED BY <1>1, <1>2 DEF InSignalMasked

LEMMA MaskedKernel ==
  ASSUME InSignalMasked, CoreTypeOK, NEW c \in Cores, Kernel(c), UNCHANGED semVars
  PROVE  InSignalMasked' /\ \A d \in Cores : counting = d => RunPt'[d] = RunPt[d]
<1>1. SemLocal'
  BY DEF InSignalMasked, SemLocal, semVars
<1>2. \/ UNCHANGED <<pc, RunPt>>
      \/ /\ signal[c] = None
         /\ \A d \in Cores \ {c} : pc'[d] = pc[d] /\ RunPt'[d] = RunPt[d]
  <2>1. CASE LaunchIdle(c) \/ \E p \in Levels : LaunchThread(c, p)
    <3>1. pc[c] = "boot" /\ \E t : /\ pc' = [pc EXCEPT ![c] = "task"]
                                   /\ RunPt' = [RunPt EXCEPT ![c] = t]
      BY <2>1 DEF LaunchIdle, LaunchThread, Launch, Goto
    <3> QED BY <3>1 DEF InSignalMasked, Owns, CoreTypeOK
  <2>2. CASE PendSV(c) /\ signal[c] = None
    <3>1. \E t, l : pc' = [pc EXCEPT ![c] = l] /\ RunPt' = [RunPt EXCEPT ![c] = t]
      BY <2>2 DEF PendSV, Goto
    <3> QED BY <2>2, <3>1 DEF CoreTypeOK
  <2>3. CASE Yield(c) /\ signal[c] = None
    BY <2>3 DEF Yield, Goto, Schedule, CoreTypeOK
  <2>4. CASE Sleep(c) /\ signal[c] = None
    BY <2>4 DEF Sleep, Goto, switch, CoreTypeOK
  <2>5. CASE SysTick(c) \/ Resched(c)
    BY <2>5 DEF SysTick, Resched, Schedule
  <2>6. CASE AlarmMatch \/ Unsleep \/ \E t \in Threads : AddThread(c, t)
    BY <2>6 DEF AlarmMatch, Unsleep, AddThread, switch, flow
  <2> QED BY <2>1, <2>2, <2>3, <2>4, <2>5, <2>6 DEF Kernel
<1>3. \A d \in Cores : Owns(d)'
  BY <1>2 DEF InSignalMasked, Owns, semVars, None
<1>4. \A d \in Cores : counting = d => RunPt'[d] = RunPt[d]
  BY <1>2 DEF InSignalMasked, Owns, None
<1> QED BY <1>1, <1>3, <1>4 DEF InSignalMasked

LEMMA MaskedCall ==
  ASSUME InSignalMasked, CoreTypeOK, SemInv, SemInv', NEW c \in Cores,
         Wait(c) \/ Signal(c) \/ InSignal(c) \/ \E s \in Sems : Block(c, s)
  PROVE  InSignalMasked' /\ RunPt' = RunPt
<1>1. SemLocal' /\ SemLocal
  BY DEF SemInv
<1>2. CASE Wait(c)
  <2>1. UNCHANGED <<pc, RunPt, signal, counting>>
    BY <1>2 DEF Wait, BWait, CWait, vars, switch, flow
  <2> QED BY <1>1, <2>1 DEF InSignalMasked, Owns
<1>3. ASSUME NEW s \in Sems, Block(c, s) PROVE InSignalMasked' /\ RunPt' = RunPt
  <2>1. /\ UNCHANGED <<RunPt, signal, counting>> /\ signal[c] = None
        /\ \A d \in Cores \ {c} : pc'[d] = pc[d]
    BY <1>3 DEF Block, SchedBlock, Caller, Goto, switch, CoreTypeOK
  <2> QED BY <1>1, <2>1 DEF InSignalMasked, Owns, None
<1>4. ASSUME NEW s \in Sems, BSignal(c, s) PROVE InSignalMasked' /\ RunPt' = RunPt
  <2>1. /\ UNCHANGED <<pc, RunPt, counting>> /\ signal[c] = None /\ pc[c] = "task"
        /\ signal' = [signal EXCEPT ![c] = <<"check", s>>]
    BY <1>4 DEF BSignal, Caller, InThread, vars, switch, flow
  <2> QED BY <1>1, <2>1 DEF InSignalMasked, Owns, SemLocal, None
<1>5. ASSUME NEW s \in Sems, CSignal(c, s) PROVE InSignalMasked' /\ RunPt' = RunPt
  <2>1. /\ UNCHANGED <<pc, RunPt>> /\ counting' = c /\ pc[c] = "task"
        /\ s \in CountingSems /\ signal' = [signal EXCEPT ![c] = <<"check", s>>]
    BY <1>5 DEF CSignal, Caller, InThread, vars, switch, flow
  <2> QED BY <1>1, <2>1 DEF InSignalMasked, Owns, SemLocal
<1>6. ASSUME NEW s \in Sems, Check(c, s) \/ Unblock(c, s)
      PROVE  InSignalMasked' /\ RunPt' = RunPt
  <2>1. /\ UNCHANGED <<pc, RunPt, counting>>
        /\ \E k, l \in {"check", "unblock", "leave"} :
             signal[c] = <<k, s>> /\ signal' = [signal EXCEPT ![c] = <<l, s>>]
    BY <1>6 DEF Check, Unblock, SchedUnblock, vars, switch, flow
  <2>2. PICK k, l \in {"check", "unblock", "leave"} :
          signal[c] = <<k, s>> /\ signal' = [signal EXCEPT ![c] = <<l, s>>]
    BY <2>1
  <2>3. signal'[c] = <<l, s>> /\ \A d \in Cores \ {c} : signal'[d] = signal[d]
    BY <1>1, <2>2 DEF SemLocal
  <2>4. pc[c] = "task" /\ (counting = c => s \in CountingSems)
    BY <2>2 DEF InSignalMasked, Owns, None
  <2>5. Owns(c)'
    BY <2>1, <2>3, <2>4 DEF Owns
  <2>6. \A d \in Cores \ {c} : Owns(d)'
    BY <2>1, <2>3 DEF InSignalMasked, Owns
  <2> QED BY <1>1, <2>1, <2>5, <2>6 DEF InSignalMasked
<1>7. ASSUME NEW s \in Sems, LeaveSignal(c, s) PROVE InSignalMasked' /\ RunPt' = RunPt
  <2>1. /\ UNCHANGED <<pc, RunPt>> /\ signal[c] = <<"leave", s>>
        /\ signal' = [signal EXCEPT ![c] = None]
        /\ counting' = IF s \in CountingSems THEN NULL ELSE counting
    BY <1>7 DEF LeaveSignal, vars, switch, flow
  <2>2. counting' # c
    BY <2>1, SemaphoresAssumption DEF InSignalMasked, Owns
  <2> QED BY <1>1, <2>1, <2>2, SemaphoresAssumption DEF InSignalMasked, Owns, SemLocal
<1> QED BY <1>2, <1>3, <1>4, <1>5, <1>6, <1>7 DEF Signal, InSignal

LEMMA MaskedNext ==
  ASSUME InSignalMasked, SemInv, SemInv', CoreTypeOK, CPU0First, [SemNext]_allVars
  PROVE  /\ InSignalMasked'
         /\ \A d \in Cores : counting = d => RunPt'[d] = RunPt[d]
<1>1. CASE UNCHANGED allVars
  BY <1>1 DEF allVars, semVars, vars, switch, flow, InSignalMasked, Owns, SemLocal
<1>2. CASE StartScheduler /\ UNCHANGED semVars
  <2>1. \A d \in Cores : signal[d] = None
    BY <1>2 DEF InSignalMasked, Owns, CPU0First, StartScheduler
  <2>2. UNCHANGED RunPt
    BY <1>2 DEF StartScheduler, switch
  <2>3. SemLocal'
    BY <1>2 DEF InSignalMasked, SemLocal, semVars
  <2>4. \A d \in Cores : Owns(d)'
    BY <1>2, <2>1 DEF InSignalMasked, Owns, semVars
  <2> QED BY <2>2, <2>3, <2>4 DEF InSignalMasked
<1>3. ASSUME NEW c \in Cores, Kernel(c) /\ UNCHANGED semVars
      PROVE  /\ InSignalMasked'
             /\ \A d \in Cores : counting = d => RunPt'[d] = RunPt[d]
  BY <1>3, MaskedKernel
<1>4. ASSUME NEW c \in Cores,
             Wait(c) \/ Signal(c) \/ InSignal(c) \/ \E s \in Sems : Block(c, s)
      PROVE  InSignalMasked' /\ RunPt' = RunPt
  BY <1>4, MaskedCall
<1> QED BY <1>1, <1>2, <1>3, <1>4 DEF SemNext

(* c_signal keeps COUNTING_SEMA4 across sched_unblock and schedule(), but  *)
(* its core does not switch threads before the unlock.                     *)
THEOREM NoSwitchWithSpinlock ==
  ASSUME Supported
  PROVE  SemSpec => SpinlockNotSwitched
<1> DEFINE J == InSignalMasked /\ SemInv /\ CoreTypeOK /\ CPU0First
           Stays == \A c \in Cores : counting = c => RunPt'[c] = RunPt[c]
<1>1. SemInit => InSignalMasked
  BY MaskedInit
<1>2. /\ InSignalMasked /\ SemInv /\ SemInv' /\ CoreTypeOK /\ CPU0First /\ [SemNext]_allVars
      => InSignalMasked' /\ Stays
  BY MaskedNext
<1>3. IInv => CoreTypeOK
  BY DEF IInv, TypeOK
<1> QED BY <1>1, <1>2, <1>3, SemaphoresInvariant, SemaphoresUseScheduler, Invariant, PTL
        DEF SemSpec, SpinlockNotSwitched

-----------------------------------------------------------------------------
(* Between the test of bthreads_root and sched_unblock of c_signal nobody  *)
(* takes the waiter, on any number of cores: they are under different locks*)
(* but both inside COUNTING_SEMA4, which every c_signal of every semaphore *)
(* takes.  A b_signal has no such lock around the two.                     *)

CountingFindsWaiter ==
  \A c \in Cores, s \in CountingSems : signal[c] = <<"unblock", s>> => bthreads[s] # <<>>

(* The core that is in a c_signal owns the lock. *)
CountingLocked ==
  \A c \in Cores, s \in CountingSems, l \in {"check", "unblock", "leave"} :
    signal[c] = <<l, s>> => counting = c

Finder ==
  /\ SemLocal /\ CountingLocked /\ CountingFindsWaiter
  /\ bthreads \in [Sems -> Seq(Threads)]

LEMMA FinderBlock ==
  ASSUME Finder, SemLocal', NEW c \in Cores, NEW s \in Sems, Block(c, s)
  PROVE  Finder'
<1>1. UNCHANGED <<signal, counting>>
  BY DEF Block
<1>2. PICK k \in BlockSlots(bthreads[s], Priority[RunPt[c]]) :
        bthreads' = [bthreads EXCEPT ![s] = InsertAt(@, k + 1, RunPt[c])]
  BY DEF Block, SchedBlock
<1> DEFINE list == bthreads[s]
           new == InsertAt(list, k + 1, RunPt[c])
<1>3. RunPt[c] \in Threads /\ list \in Seq(Threads) /\ k \in 0 .. Len(list)
  BY DEF Block, Caller, InThread, BlockSlots, Finder
<1>4. new = InsertAt(list, k + 1, RunPt[c]) /\ bthreads' = [bthreads EXCEPT ![s] = new]
  BY <1>2
<1> HIDE DEF list, new
<1>5. new \in Seq(Threads) /\ Linked(new, list, k, RunPt[c])
  BY <1>3, <1>4, InsertAtLinks
<1>6. new # <<>>
  BY <1>3, <1>5 DEF Linked
<1>7. /\ bthreads' \in [Sems -> Seq(Threads)]
      /\ \A r \in Sems : bthreads[r] # <<>> => bthreads'[r] # <<>>
  BY <1>4, <1>5, <1>6 DEF Finder
<1> QED BY <1>1, <1>7 DEF Finder, CountingLocked, CountingFindsWaiter, CountingSems

LEMMA FinderNext ==
  ASSUME Finder, SemLocal', [SemNext]_allVars
  PROVE  Finder'
<1>0. /\ SemLocal /\ CountingLocked /\ CountingFindsWaiter /\ NULL \notin Cores
      /\ bthreads \in [Sems -> Seq(Threads)]
  BY SemaphoresAssumption DEF Finder
<1>1. CASE UNCHANGED <<bthreads, signal, counting>>
  BY <1>1 DEF Finder, CountingLocked, CountingFindsWaiter
<1>2. ASSUME NEW c \in Cores, Kernel(c), UNCHANGED semVars
      PROVE  UNCHANGED <<bthreads, signal, counting>>
  <2>1. UNCHANGED bthreads
    BY <1>2 DEF Kernel, LaunchIdle, LaunchThread, Launch, AddThread, SysTick, Yield,
       PendSV, Resched, Schedule, Sleep, AlarmMatch, Unsleep
  <2> QED BY <1>2, <2>1 DEF semVars
<1>3. ASSUME NEW c \in Cores, Wait(c) PROVE UNCHANGED <<bthreads, signal, counting>>
  BY <1>3 DEF Wait, BWait, CWait, vars
<1>4. ASSUME NEW c \in Cores, NEW s \in Sems, Block(c, s) PROVE Finder'
  BY <1>4, FinderBlock
<1>5. ASSUME NEW c \in Cores, NEW s \in Sems, BSignal(c, s) PROVE Finder'
  <2>1. /\ s \notin CountingSems /\ UNCHANGED <<bthreads, counting>>
        /\ signal' = [signal EXCEPT ![c] = <<"check", s>>]
    BY <1>5 DEF BSignal, CountingSems, vars
  <2>2. \A d \in Cores, r \in CountingSems, l \in {"check", "unblock", "leave"} :
          signal'[d] = <<l, r>> => signal[d] = <<l, r>>
    BY <1>0, <2>1 DEF SemLocal
  <2> QED BY <2>1, <2>2 DEF Finder, CountingLocked, CountingFindsWaiter
<1>6. ASSUME NEW c \in Cores, NEW s \in Sems, CSignal(c, s) PROVE Finder'
  <2>1. /\ counting = NULL /\ counting' = c /\ UNCHANGED bthreads
        /\ signal' = [signal EXCEPT ![c] = <<"check", s>>]
    BY <1>6 DEF CSignal, vars
  <2>2. \A d \in Cores, r \in CountingSems, l \in {"check", "unblock", "leave"} :
          signal'[d] = <<l, r>> => d = c /\ l = "check"
    BY <1>0, <2>1 DEF SemLocal, CountingLocked
  <2> QED BY <2>1, <2>2 DEF Finder, CountingLocked, CountingFindsWaiter
<1>7. ASSUME NEW c \in Cores, NEW s \in Sems, Check(c, s) PROVE Finder'
  <2>1. /\ UNCHANGED <<bthreads, counting>> /\ signal[c] = <<"check", s>>
        /\ signal' = [signal EXCEPT ![c] =
             IF bthreads[s] # <<>> THEN <<"unblock", s>> ELSE <<"leave", s>>]
    BY <1>7 DEF Check, vars
  <2>2. /\ signal'[c] = IF bthreads[s] # <<>> THEN <<"unblock", s>> ELSE <<"leave", s>>
        /\ \A d \in Cores \ {c} : signal'[d] = signal[d]
    BY <1>0, <2>1 DEF SemLocal
  <2>3. \A d \in Cores, r \in CountingSems, l \in {"check", "unblock", "leave"} :
          signal'[d] = <<l, r>> =>
            \/ signal[d] = <<l, r>>
            \/ d = c /\ r = s /\ (l = "unblock" => bthreads[s] # <<>>)
    BY <2>2
  <2>4. CountingLocked'
    BY <1>0, <2>1, <2>3 DEF CountingLocked
  <2>5. CountingFindsWaiter'
    BY <1>0, <2>1, <2>3 DEF CountingFindsWaiter
  <2> QED BY <1>0, <2>1, <2>4, <2>5 DEF Finder
<1>8. ASSUME NEW c \in Cores, NEW s \in Sems, Unblock(c, s) PROVE Finder'
  <2>1. /\ counting' = counting /\ signal[c] = <<"unblock", s>>
        /\ signal' = [signal EXCEPT ![c] = <<"leave", s>>]
        /\ bthreads[s] # <<>>
        /\ bthreads' = [bthreads EXCEPT ![s] = Tail(@)]
    BY <1>8 DEF Unblock, SchedUnblock
  <2>2. signal'[c] = <<"leave", s>> /\ \A d \in Cores \ {c} : signal'[d] = signal[d]
    BY <1>0, <2>1 DEF SemLocal
  <2>3. CountingLocked'
    <3> SUFFICES ASSUME NEW d \in Cores, NEW r \in CountingSems,
                        NEW l \in {"check", "unblock", "leave"}, signal'[d] = <<l, r>>
                 PROVE  counting = d
      BY <2>1 DEF CountingLocked
    <3>1. CASE d = c
      <4>1. r = s
        BY <2>2, <3>1
      <4> QED BY <1>0, <2>1, <3>1, <4>1 DEF CountingLocked
    <3>2. CASE d # c
      BY <1>0, <2>2, <3>2 DEF CountingLocked
    <3> QED BY <3>1, <3>2
  <2>4. /\ \A r \in Sems \ {s} : bthreads'[r] = bthreads[r]
        /\ bthreads' \in [Sems -> Seq(Threads)]
    BY <1>0, <2>1
  <2>5. s \in CountingSems => counting = c
    BY <2>1 DEF Finder, CountingLocked
  <2>6. CountingFindsWaiter'
    <3> SUFFICES ASSUME NEW d \in Cores, NEW r \in CountingSems,
                        signal'[d] = <<"unblock", r>>
                 PROVE  bthreads'[r] # <<>>
      BY DEF CountingFindsWaiter
    <3>1. d # c
      BY <2>2
    <3>2. signal[d] = <<"unblock", r>>
      BY <2>2, <3>1
    <3>3. counting = d /\ bthreads[r] # <<>>
      BY <1>0, <3>2 DEF CountingLocked, CountingFindsWaiter
    <3>4. r # s
      BY <2>5, <3>1, <3>3
    <3> QED BY <2>4, <3>3, <3>4 DEF CountingSems
  <2> QED BY <2>3, <2>4, <2>6 DEF Finder
<1>9. ASSUME NEW c \in Cores, NEW s \in Sems, LeaveSignal(c, s) PROVE Finder'
  <2>1. /\ signal[c] = <<"leave", s>> /\ UNCHANGED bthreads
        /\ signal' = [signal EXCEPT ![c] = None]
        /\ counting' = IF s \in CountingSems THEN NULL ELSE counting
    BY <1>9 DEF LeaveSignal, vars
  <2>2. signal'[c] = None /\ \A d \in Cores \ {c} : signal'[d] = signal[d]
    BY <1>0, <2>1 DEF SemLocal
  <2>3. s \in CountingSems => counting = c
    BY <2>1 DEF Finder, CountingLocked
  <2>4. \A d \in Cores, r \in CountingSems, l \in {"check", "unblock", "leave"} :
          signal'[d] = <<l, r>> => d # c /\ signal[d] = <<l, r>> /\ counting = d
    <3> SUFFICES ASSUME NEW d \in Cores, NEW r \in CountingSems,
                        NEW l \in {"check", "unblock", "leave"}, signal'[d] = <<l, r>>
                 PROVE  d # c /\ signal[d] = <<l, r>> /\ counting = d
      OBVIOUS
    <3>1. d # c
      BY <2>2 DEF None
    <3>2. signal[d] = <<l, r>>
      BY <2>2, <3>1
    <3> QED BY <1>0, <3>1, <3>2 DEF CountingLocked
  <2>5. CountingLocked'
    BY <2>1, <2>3, <2>4 DEF CountingLocked
  <2>6. CountingFindsWaiter'
    BY <1>0, <2>1, <2>4 DEF CountingFindsWaiter
  <2> QED BY <1>0, <2>1, <2>5, <2>6 DEF Finder
<1>10. CASE UNCHANGED allVars \/ (StartScheduler /\ UNCHANGED semVars)
  BY <1>1, <1>10 DEF allVars, vars, semVars, StartScheduler
<1>11. ASSUME NEW c \in Cores, Wait(c) \/ Signal(c) \/ InSignal(c) PROVE Finder'
  BY <1>1, <1>3, <1>5, <1>6, <1>7, <1>8, <1>9, <1>11 DEF Signal, InSignal
<1> QED BY <1>1, <1>2, <1>4, <1>10, <1>11 DEF SemNext

(* sched_unblock takes the first waiter without a test.  When c_signal     *)
(* calls it, the waiter that c_signal has seen is still there, however many*)
(* cores signal and block at once.                                         *)
THEOREM CountingSignalFindsWaiter == SemSpec => []CountingFindsWaiter
<1>1. SemInit => Finder
  <2> SUFFICES ASSUME SemInit PROVE Finder
    OBVIOUS
  <2>1. SemLocal /\ \A c \in Cores : signal[c] = None
    BY SemInvInit DEF SemInit, SemInv
  <2>2. bthreads \in [Sems -> Seq(Threads)]
    BY DEF SemInit, Init
  <2>3. \A c \in Cores, s \in CountingSems, l \in {"check", "unblock", "leave"} :
          signal[c] # <<l, s>>
    BY <2>1 DEF None
  <2> QED BY <2>1, <2>2, <2>3 DEF Finder, CountingLocked, CountingFindsWaiter
<1>2. SemInv => SemLocal
  BY DEF SemInv
<1>3. Finder /\ SemLocal' /\ [SemNext]_allVars => Finder'
  BY FinderNext
<1>4. Finder => CountingFindsWaiter
  BY DEF Finder
<1> QED BY <1>1, <1>2, <1>3, <1>4, SemaphoresInvariant, PTL DEF SemSpec
=============================================================================

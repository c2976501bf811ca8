-------------------------------- MODULE Heap --------------------------------
(***************************************************************************)
(* os/heap.c: a buddy allocator whose free and used blocks are a binary    *)
(* tree stored in the array heap_tree.  Clients call malloc, free and      *)
(* heap_stats concurrently; each call works on the tree between            *)
(* b_wait(&heap_lock) and b_signal(&heap_lock), free reads the root before *)
(* it waits.  The walks over the tree are iterative: node i, the size of   *)
(* its block and the last node left upwards (skip) are all they remember.  *)
(* One iteration of a loop is one action.                                  *)
(*                                                                         *)
(* Sizes and addresses are in units of HEAP_SIZE_MIN, addresses relative to*)
(* heap_ptr.  heap_lock is taken and given back atomically (module         *)
(* Semaphores is about b_wait and b_signal).  A request larger than        *)
(* HEAP_SIZE returns NULL and changes nothing.                             *)
(***************************************************************************)
EXTENDS Integers, FiniteSets

CONSTANTS
  Clients,              \* the threads that use the heap
  HEAP_SIZE,            \* a power of two (in units: 1 << HEAP_TREE_LEVEL_CNT)
  Requests,             \* the sizes they pass to malloc
  BRANCH_NODE,          \* 0xFFFFFFFF
  NULL

(* Of its divisors, 1 alone is odd.                                        *)
PowerOfTwo(m) == \A d \in 2 .. m : m % d = 0 => d % 2 = 0

HEAP_TREE_NODE_CNT == 2 * HEAP_SIZE - 1
Nodes == 0 .. HEAP_TREE_NODE_CNT - 1
Addresses == 0 .. HEAP_SIZE - 1

ASSUME HeapAssumption ==
  /\ HEAP_SIZE \in Nat \ {0, 1} /\ PowerOfTwo(HEAP_SIZE)
  /\ Requests \subseteq 1 .. HEAP_SIZE
  /\ NULL # BRANCH_NODE
  /\ NULL \notin Addresses \cup Clients
  /\ BRANCH_NODE \notin Addresses

VARIABLES
  heap_tree,  \* of each node: NULL, BRANCH_NODE or the address of its block
  heap_lock,  \* the client between b_wait and b_signal, or NULL
  walk,       \* the locals of that client: i, block_size, skip, used
  pc,         \* where each client is
  call,       \* the call it is in, with its argument
  owned,      \* the blocks the application has got and not freed
  returned    \* what the last call returned, until the next call starts

vars == <<heap_tree, heap_lock, walk, pc, call, owned, returned>>

Nothing == [op |-> "none"]

(* The sizes of blocks. *)
Sizes == {m \in 1 .. HEAP_SIZE : PowerOfTwo(m)}

(* next_pow2: the smallest power of two that is not below n. *)
next_pow2(n) == CHOOSE m \in Sizes : n <= m /\ m < 2 * n

(* (i-1) / 2 in C: the parent of the root is the root. *)
Parent(i) == IF i = 0 THEN 0 ELSE (i - 1) \div 2
Left(i) == 2 * i + 1
Right(i) == 2 * i + 2

Leaf(n) == heap_tree[n] # NULL /\ heap_tree[n] # BRANCH_NODE

(* Mutant of Offset: no mask.                                              *)
OffsetUnmasked(i, block_size) == (i + 1) * block_size

(* The address of node i: ((i+1) * block_size) & HEAP_ADDR_MAX. *)
Offset(i, block_size) == (i + 1) * block_size % HEAP_SIZE

-----------------------------------------------------------------------------
(* Walks: the first node, one node up, one node down.                      *)

Root == [i |-> 0, block_size |-> HEAP_SIZE, skip |-> 0, used |-> 0]

Up(w) == [w EXCEPT !.skip = w.i, !.block_size = 2 * @, !.i = Parent(@)]

Down(w, child) == [w EXCEPT !.block_size = @ \div 2, !.i = child]

(* A walk never leaves the root: it ends there. *)
GoUp(w) == w.i # 0 /\ walk' = Up(w)

Step == UNCHANGED <<heap_lock, pc, call, owned, returned>>

Enter(c, op) ==
  /\ pc[c] = "enter" /\ call[c].op = op
  /\ heap_lock = NULL
  /\ heap_lock' = c
  /\ walk' = Root
  /\ pc' = [pc EXCEPT ![c] = "walk"]
  /\ UNCHANGED <<heap_tree, call, owned, returned>>

In(c, op) == pc[c] = "walk" /\ call[c].op = op

Start(c, location, newCall) ==
  /\ pc[c] = "idle"
  /\ pc' = [pc EXCEPT ![c] = location]
  /\ call' = [call EXCEPT ![c] = newCall]
  /\ returned' = <<>>
  /\ UNCHANGED <<heap_tree, heap_lock, walk>>

Return(c, result) ==
  /\ pc' = [pc EXCEPT ![c] = "idle"]
  /\ call' = [call EXCEPT ![c] = Nothing]
  /\ returned' = <<call[c].op, result>>

(* b_signal and return. *)
Leave(c, result) == heap_lock' = NULL /\ walk' = Root /\ Return(c, result)

-----------------------------------------------------------------------------
(* malloc, called with n units.                                            *)

StartMalloc(c, n) ==
  Start(c, "enter", [op |-> "malloc", size |-> n]) /\ UNCHANGED owned

Size(c) == next_pow2(call[c].size)

(* The node has the right size and is not free. *)
MallocTaken(c) ==
  /\ In(c, "malloc") /\ walk.block_size = Size(c)
  /\ heap_tree[walk.i] # NULL
  /\ walk' = Up(walk)
  /\ UNCHANGED heap_tree /\ Step

(* The node has the right size and is free: allocate it. *)
MallocFound(c) ==
  LET addr == Offset(walk.i, walk.block_size)
  IN  /\ In(c, "malloc") /\ walk.block_size = Size(c)
      /\ heap_tree[walk.i] = NULL
      /\ heap_tree' = [heap_tree EXCEPT ![walk.i] = addr]
      /\ owned' = owned \cup {[addr |-> addr, size |-> Size(c)]}
      /\ Leave(c, [addr |-> addr, size |-> Size(c)])

(* The node is too large: it becomes a branch and the walk goes on in a    *)
(* child that is neither a leaf nor visited, or else upwards.              *)
Above(c) ==
  /\ In(c, "malloc") /\ walk.block_size # Size(c)
  /\ heap_tree' = [heap_tree EXCEPT ![walk.i] = BRANCH_NODE]

Visited(n) == n = walk.skip

LeftDone == Leaf(Left(walk.i)) \/ Visited(Left(walk.i))
Exhausted == Visited(Right(walk.i)) \/ (LeftDone /\ Leaf(Right(walk.i)))

MallocDown(c) ==
  /\ Above(c)
  /\ ~ Exhausted
  /\ walk' = Down(walk, IF LeftDone THEN Right(walk.i) ELSE Left(walk.i))
  /\ Step

MallocUp(c) == Above(c) /\ Exhausted /\ GoUp(walk) /\ Step

(* Back at the root: NULL is returned. *)
MallocFails(c) ==
  Above(c) /\ Exhausted /\ walk.i = 0 /\ Leave(c, NULL) /\ UNCHANGED owned

-----------------------------------------------------------------------------
(* free, called with the address of a block, whose size is not known to    *)
(* the code, or with NULL.                                                 *)

NoBlock == [addr |-> NULL, size |-> 0]

StartFree(c, b) ==
  /\ owned' = owned \ {b}
  /\ Start(c, "free", [op |-> "free", block |-> b])

(* Is anything allocated?  Read without heap_lock. *)
FreeTest(c) ==
  /\ pc[c] = "free"
  /\ \/ /\ heap_tree[0] # NULL
        /\ pc' = [pc EXCEPT ![c] = "enter"]
        /\ UNCHANGED <<call, returned>>
     \/ heap_tree[0] = NULL /\ Return(c, 1)
  /\ UNCHANGED <<heap_tree, heap_lock, walk, owned>>

(* find_ptr: the walk, for the address, over the nodes that are not NULL. *)
Finding(c) == In(c, "free") /\ heap_tree[walk.i] # call[c].block.addr

LeftInvalid ==
  IF Left(walk.i) < HEAP_TREE_NODE_CNT
  THEN heap_tree[Left(walk.i)] = NULL \/ Visited(Left(walk.i))
  ELSE TRUE
RightInvalid ==
  IF Right(walk.i) <= HEAP_TREE_NODE_CNT THEN heap_tree[Right(walk.i)] = NULL ELSE TRUE
NoChild == Visited(Right(walk.i)) \/ (LeftInvalid /\ RightInvalid)

FindDown(c) ==
  /\ Finding(c)
  /\ ~ NoChild
  /\ walk' = Down(walk, IF LeftInvalid THEN Right(walk.i) ELSE Left(walk.i))
  /\ UNCHANGED heap_tree /\ Step

(* Mutant of FindUp: the walk does not remember where it comes from.       *)
FindUpForgets(c) ==
  /\ Finding(c) /\ NoChild /\ walk.i # 0
  /\ walk' = [Up(walk) EXCEPT !.skip = 0]
  /\ UNCHANGED heap_tree /\ Step

FindUp(c) == Finding(c) /\ NoChild /\ GoUp(walk) /\ UNCHANGED heap_tree /\ Step

(* find_ptr returns 0: at the root again, or the address is the root's.    *)
FreeFails(c) ==
  /\ In(c, "free") /\ walk.i = 0
  /\ NoChild \/ heap_tree[0] = call[c].block.addr
  /\ Leave(c, 1)
  /\ UNCHANGED <<heap_tree, owned>>

FreeFound(c) ==
  /\ In(c, "free") /\ walk.i # 0
  /\ heap_tree[walk.i] = call[c].block.addr
  /\ heap_tree' = [heap_tree EXCEPT ![walk.i] = NULL]
  /\ pc' = [pc EXCEPT ![c] = "coalesce"]
  /\ UNCHANGED <<heap_lock, walk, call, owned, returned>>

BothChildrenFree == heap_tree[Left(Parent(walk.i))] = NULL /\ heap_tree[Right(Parent(walk.i))] = NULL

(* Mutant of Coalesce: only the left child is tested.                      *)
CoalesceLeft(c) ==
  /\ pc[c] = "coalesce" /\ walk.i # 0
  /\ heap_tree[Left(Parent(walk.i))] = NULL
  /\ heap_tree' = [heap_tree EXCEPT ![Parent(walk.i)] = NULL]
  /\ walk' = Up(walk)
  /\ Step

(* Free the parent if both its children are free ... *)
Coalesce(c) ==
  /\ pc[c] = "coalesce" /\ walk.i # 0
  /\ BothChildrenFree
  /\ heap_tree' = [heap_tree EXCEPT ![Parent(walk.i)] = NULL]
  /\ walk' = Up(walk)
  /\ Step

(* ... up to the root or to a parent that is in use. *)
FreeReturns(c) ==
  /\ pc[c] = "coalesce"
  /\ walk.i = 0 \/ ~ BothChildrenFree
  /\ Leave(c, 0)
  /\ UNCHANGED <<heap_tree, owned>>

-----------------------------------------------------------------------------
(* heap_stats.                                                             *)

StartStats(c) ==
  Start(c, "enter", [op |-> "stats"]) /\ UNCHANGED owned

(* Mutant of AfterLeaf: the block is added after the step up.              *)
AfterLeafLate ==
  IF Leaf(walk.i) THEN [Up(walk) EXCEPT !.used = @ + Up(walk).block_size] ELSE walk

(* The first half of an iteration: a leaf is counted and left. *)
AfterLeaf ==
  IF Leaf(walk.i) THEN [Up(walk) EXCEPT !.used = @ + walk.block_size] ELSE walk

Unseen(w, n) == heap_tree[n] # NULL /\ n # w.skip

(* The second half, at the node reached. *)
StatsStep(c) ==
  LET w == AfterLeaf
      left == Left(w.i)
      right == Right(w.i)
      done == \/ walk.i = 0 /\ Leaf(0)
              \/ right = w.skip
              \/ ~ Unseen(w, left) /\ heap_tree[right] = NULL
  IN  /\ In(c, "stats")
      /\ \/ /\ ~ done
            /\ walk' = Down(w, IF Unseen(w, left) THEN left ELSE right)
            /\ Step
         \/ done /\ GoUp(w) /\ Step
         \/ done /\ w.i = 0 /\ Leave(c, w.used) /\ UNCHANGED owned
      /\ UNCHANGED heap_tree

-----------------------------------------------------------------------------
Init ==
  /\ heap_tree = [n \in Nodes |-> NULL]
  /\ heap_lock = NULL
  /\ walk = Root
  /\ pc = [c \in Clients |-> "idle"]
  /\ call = [c \in Clients |-> Nothing]
  /\ owned = {}
  /\ returned = <<>>

(* The iterations of the client in the critical section. *)
Working(c) ==
  \/ MallocTaken(c) \/ MallocFound(c) \/ MallocDown(c) \/ MallocUp(c) \/ MallocFails(c)
  \/ FindDown(c) \/ FindUp(c) \/ FreeFails(c) \/ FreeFound(c)
  \/ Coalesce(c) \/ FreeReturns(c)
  \/ StatsStep(c)

Next == \E c \in Clients :
  \/ \E n \in Requests : StartMalloc(c, n)
  \/ \E b \in owned \cup {NoBlock} : StartFree(c, b)
  \/ StartStats(c)
  \/ FreeTest(c)
  \/ \E op \in {"malloc", "free", "stats"} : Enter(c, op)
  \/ Working(c)

Spec == Init /\ [][Next]_vars

(* The client in the critical section is scheduled again and again. *)
FairSpec == Spec /\ WF_vars(\E c \in Clients : Working(c))
=============================================================================

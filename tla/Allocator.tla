----------------------------- MODULE Allocator -----------------------------
(***************************************************************************)
(* What the heap of os/heap.c promises its callers (heap.h), without the   *)
(* tree: memory is a row of HEAP_SIZE units, a call takes effect at once   *)
(* some time between its start and its return.                             *)
(***************************************************************************)
EXTENDS Integers, FiniteSets

CONSTANTS
  Clients,    \* the threads that use the heap
  HEAP_SIZE,  \* in units of HEAP_SIZE_MIN
  Requests,   \* the sizes passed to malloc
  NULL

VARIABLES
  pending,  \* the call a client is in
  owned,    \* the blocks handed out and not freed
  returned  \* what the last call returned, until the next call starts

vars == <<pending, owned, returned>>

(* "size will be rounded up to nearest power of two" *)
PowerOfTwo(m) == \A d \in 2 .. m : m % d = 0 => d % 2 = 0

Sizes == {m \in 1 .. HEAP_SIZE : PowerOfTwo(m)}

Rounded(n) == CHOOSE m \in Sizes : n <= m /\ m < 2 * n

Units(b) == b.addr .. b.addr + b.size - 1

(* The blocks of a size are aligned to it. *)
Aligned(n) == {b \in [addr : 0 .. HEAP_SIZE - 1, size : {n}] :
                 b.addr % n = 0 /\ b.addr + n <= HEAP_SIZE}

(* What free(NULL) is called with. *)
NoBlock == [addr |-> NULL, size |-> 0]

(* A block is in use until its free takes effect. *)
Used ==
  (owned \cup {pending[c].block : c \in {d \in Clients : pending[d].op = "free"}}) \ {NoBlock}

Fits(b) == \A u \in Used : Units(b) \cap Units(u) = {}

UsedUnits == Cardinality(UNION {Units(b) : b \in Used})

Nothing == [op |-> "none"]

Start(c, call) ==
  /\ pending[c] = Nothing
  /\ pending' = [pending EXCEPT ![c] = call]
  /\ returned' = <<>>

Return(c, op, result) ==
  /\ pending[c].op = op
  /\ pending' = [pending EXCEPT ![c] = Nothing]
  /\ returned' = <<op, result>>

StartMalloc(c, n) == Start(c, [op |-> "malloc", size |-> n]) /\ UNCHANGED owned

(* The call of free ends the client's ownership. *)
StartFree(c, b) == owned' = owned \ {b} /\ Start(c, [op |-> "free", block |-> b])

StartStats(c) == Start(c, [op |-> "stats"]) /\ UNCHANGED owned

(* malloc returns a free block, and NULL only if there is none of the size.*)
Malloc(c) ==
  /\ pending[c].op = "malloc"
  /\ LET free == {b \in Aligned(Rounded(pending[c].size)) : Fits(b)}
     IN  \/ \E b \in free : owned' = owned \cup {b} /\ Return(c, "malloc", b)
         \/ free = {} /\ Return(c, "malloc", NULL) /\ UNCHANGED owned

(* free of a block never fails, free(NULL) always does. *)
Free(c) ==
  /\ Return(c, "free", IF pending[c].block = NoBlock THEN 1 ELSE 0)
  /\ UNCHANGED owned

(* heap_stats: the units in use. *)
Stats(c) == Return(c, "stats", UsedUnits) /\ UNCHANGED owned

Init == pending = [c \in Clients |-> Nothing] /\ owned = {} /\ returned = <<>>

Next == \E c \in Clients :
  \/ \E n \in Requests : StartMalloc(c, n)
  \/ \E b \in owned \cup {NoBlock} : StartFree(c, b)
  \/ StartStats(c)
  \/ Malloc(c) \/ Free(c) \/ Stats(c)

Spec == Init /\ [][Next]_vars
=============================================================================

----------------------------- MODULE HeapProps -----------------------------
(***************************************************************************)
(* What the heap of module Heap promises.                                  *)
(***************************************************************************)
EXTENDS Heap

Blocks == [addr : Addresses, size : Sizes]
Walks == [i : Nodes, block_size : Sizes \cup {2 * HEAP_SIZE}, skip : Nodes,
          used : 0 .. HEAP_SIZE]
Calls ==
  {Nothing, [op |-> "stats"]} \cup [op : {"malloc"}, size : Requests]
    \cup [op : {"free"}, block : Blocks \cup {NoBlock}]
Results ==
  {<<>>} \cup ({"malloc"} \X (Blocks \cup {NULL})) \cup ({"free"} \X {0, 1})
    \cup ({"stats"} \X (0 .. HEAP_SIZE))

(* Every variable has its type; in particular no walk leaves heap_tree.    *)
HeapTypeOK ==
  /\ heap_tree \in [Nodes -> {NULL, BRANCH_NODE} \cup Addresses]
  /\ heap_lock \in Clients \cup {NULL}
  /\ walk \in Walks
  /\ pc \in [Clients -> {"idle", "free", "enter", "walk", "coalesce"}]
  /\ call \in [Clients -> Calls]
  /\ owned \subseteq Blocks
  /\ returned \in Results

Freeing == {call[c].block : c \in {d \in Clients : call[d].op = "free"}} \ {NoBlock}

(* The size of the block of node n: a level of the tree has HEAP_SIZE \div *)
(* m nodes of size m, and as many nodes but one come before it.            *)
BlockSize(n) ==
  CHOOSE m \in Sizes : HEAP_SIZE <= (n + 1) * m /\ (n + 1) * m < 2 * HEAP_SIZE

BlockOf(n) == [addr |-> heap_tree[n], size |-> BlockSize(n)]

(* Whenever no call works on it, the tree says exactly which memory is in  *)
(* use: its leaves are the blocks the application has, and its branches the*)
(* nodes above a leaf.  A branch without a leaf below (left by a malloc    *)
(* that failed, or a free that stopped too early) would be lost memory.    *)
TreeExact ==
  heap_lock = NULL =>
    /\ {BlockOf(n) : n \in {m \in Nodes : Leaf(m)}} = owned \cup Freeing
    /\ \A n \in Nodes :
         LET children == {Left(n), Right(n)} \cap Nodes
         IN  heap_tree[n] = BRANCH_NODE <=> \E k \in children : heap_tree[k] # NULL

(* The walks of malloc, find_ptr and heap_stats end, also in a full heap,  *)
(* and heap_lock is given back.                                            *)
WalksEnd == heap_lock # NULL ~> heap_lock = NULL

Allocator == INSTANCE Allocator WITH pending <- call

(* malloc fails only if no free block of the size exists, and gives out    *)
(* memory that is not in use; free gives back exactly its block, in one    *)
(* step for the other clients, and nothing for NULL; heap_stats counts the *)
(* memory in use.                                                          *)
ImplementsAllocator == Allocator!Spec
=============================================================================

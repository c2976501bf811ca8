----------------------------- MODULE HeapProofs -----------------------------
(***************************************************************************)
(* Proofs about the heap of module Heap: first the geometry of the tree,   *)
(* then its invariant, then the refinement of Allocator.                   *)
(***************************************************************************)
EXTENDS HeapProps, SharedLemmas, FiniteSetTheorems

-----------------------------------------------------------------------------
(* The sizes of blocks: powers of two.                                     *)

LEMMA SizesType ==
  /\ HEAP_SIZE \in Nat /\ HEAP_SIZE > 1 /\ HEAP_SIZE \in Sizes
  /\ Sizes \subseteq Nat \ {0}
BY HeapAssumption DEF Sizes

LEMMA HalfSize ==
  ASSUME NEW m \in Sizes, m # 1
  PROVE  \E h \in Sizes : m = 2 * h
<1>1. m \in Nat /\ m >= 2 /\ m <= HEAP_SIZE /\ HEAP_SIZE \in Nat
  BY SizesType DEF Sizes
<1>2. m % 2 = 0
  <2>1. m % m = 0
    BY <1>1
  <2> QED BY <1>1, <2>1 DEF Sizes, PowerOfTwo
<1>3. PICK h \in Nat : m = h * 2
  BY <1>1, <1>2, Multiple
<1>4. ASSUME NEW d \in 2 .. h, h % d = 0 PROVE d % 2 = 0
  <2>1. PICK q \in Nat : h = q * d
    BY <1>4, Multiple
  <2>2. m = (2 * q) * d
    BY <1>3, <2>1
  <2>3. m % d = 0
    BY <1>1, <2>2, Multiple
  <2> QED BY <1>3, <2>3 DEF Sizes, PowerOfTwo
<1> QED BY <1>1, <1>3, <1>4 DEF Sizes, PowerOfTwo

LEMMA DoubleSize ==
  ASSUME NEW h \in Sizes, 2 * h <= HEAP_SIZE
  PROVE  2 * h \in Sizes
<1>1. h \in Nat /\ h > 0
  BY SizesType
<1>2. ASSUME NEW d \in 2 .. 2 * h, (2 * h) % d = 0, d % 2 # 0 PROVE FALSE
  <2>1. PICK q \in Nat : 2 * h = q * d
    BY <1>1, <1>2, Multiple
  <2>2. PICK a \in Nat : d = a * 2 + 1
    <3>1. d % 2 \in 0 .. 1 /\ d \div 2 \in Nat /\ d = (d \div 2) * 2 + (d % 2)
      BY Division
    <3> QED BY <1>2, <3>1
  <2>3. q = 2 * (h - q * a)
    BY <1>1, <2>1, <2>2
  <2>4. PICK r \in Nat : q = 2 * r
    <3>1. h - q * a \in Int
      BY <1>1, <2>2
    <3>2. h - q * a >= 0
      BY <2>3, <3>1
    <3> QED BY <2>3, <3>1, <3>2
  <2>5. h = r * d
    BY <1>1, <2>1, <2>4
  <2>6. h % d = 0
    BY <1>1, <2>5, Multiple
  <2>7. r >= 1
    BY <1>1, <2>4, <2>5
  <2>8. d <= h
    BY <2>5, <2>7
  <2> QED BY <1>1, <1>2, <2>6, <2>8 DEF Sizes, PowerOfTwo
<1> QED BY <1>1, <1>2, SizesType DEF Sizes, PowerOfTwo

(* Between two sizes there is a factor of two at least.                    *)
LEMMA SizeGap ==
  ASSUME NEW a \in Sizes, NEW b \in Sizes, a < b
  PROVE  2 * a <= b
<1> DEFINE Bad == {x \in Sizes : \E y \in Sizes : x < y /\ y < 2 * x}
<1>1. SUFFICES ASSUME Bad # {} PROVE FALSE
  BY SizesType
<1>2. Bad \in SUBSET Nat
  BY SizesType
<1>3. PICK x \in Bad : \A z \in Bad : x <= z
  BY <1>1, <1>2, LeastNat
<1>4. PICK y \in Sizes : x < y /\ y < 2 * x
  BY <1>3
<1>5. x \in Nat \ {0} /\ y \in Nat \ {0} /\ x \in Sizes
  BY SizesType
<1>6. x # 1 /\ y # 1
  BY <1>4, <1>5
<1>7. PICK g \in Sizes : x = 2 * g
  BY <1>5, <1>6, HalfSize
<1>8. PICK h \in Sizes : y = 2 * h
  BY <1>6, HalfSize
<1>9. g \in Nat \ {0} /\ h \in Nat \ {0}
  BY SizesType
<1>10. g < h /\ h < 2 * g /\ g < x
  BY <1>4, <1>5, <1>7, <1>8, <1>9
<1>11. g \in Bad
  BY <1>10
<1> QED BY <1>3, <1>5, <1>9, <1>10, <1>11

-----------------------------------------------------------------------------
(* The geometry of the tree: node n stands for the units from Lo(n) to the *)
(* one before End(n).                                                      *)

Lo(n) == (n + 1) * BlockSize(n) - HEAP_SIZE
End(n) == Lo(n) + BlockSize(n)
Overlap(m, n) == Lo(m) < End(n) /\ Lo(n) < End(m)

(* m is the size of the blocks on the level of node n.                     *)
OnLevel(n, m) == HEAP_SIZE <= (n + 1) * m /\ (n + 1) * m < 2 * HEAP_SIZE

LEMMA NodesType == Nodes = 0 .. 2 * HEAP_SIZE - 2
BY SizesType DEF Nodes, HEAP_TREE_NODE_CNT

LEMMA ParentIs ==
  ASSUME NEW n \in Nodes, n # 0
  PROVE  /\ Parent(n) \in Nodes /\ Parent(n) < n
         /\ n = Left(Parent(n)) \/ n = Right(Parent(n))
<1>1. n \in Nat /\ n > 0 /\ n <= 2 * HEAP_SIZE - 2 /\ HEAP_SIZE \in Nat
  BY NodesType, SizesType
<1>2. PICK q \in Nat, r \in 0 .. 1 : n - 1 = q * 2 + r /\ (n - 1) \div 2 = q
  <2> DEFINE k == n - 1
  <2>1. k \in Nat
    BY <1>1
  <2> HIDE DEF k
  <2>2. k \div 2 \in Nat /\ k % 2 \in 0 .. 1 /\ k = (k \div 2) * 2 + (k % 2)
    BY <2>1, Division
  <2> QED BY <2>2 DEF k
<1>3. Parent(n) = q
  BY <1>2 DEF Parent
<1> QED BY <1>1, <1>2, <1>3, NodesType DEF Left, Right

LEMMA ChildParent ==
  ASSUME NEW n \in Nat
  PROVE  Parent(Left(n)) = n /\ Parent(Right(n)) = n
<1>1. (2 * n) \div 2 = n /\ (2 * n + 1) \div 2 = n
  OBVIOUS
<1>2. Left(n) - 1 = 2 * n /\ Right(n) - 1 = 2 * n + 1 /\ Left(n) # 0 /\ Right(n) # 0
  BY DEF Left, Right
<1> QED BY <1>1, <1>2 DEF Parent

LEMMA LevelUnique ==
  ASSUME NEW n \in Nodes, NEW a \in Sizes, NEW b \in Sizes, OnLevel(n, a), OnLevel(n, b)
  PROVE  a = b
<1>1. /\ n \in Nat /\ HEAP_SIZE \in Nat
      /\ a \in Nat /\ b \in Nat
  BY NodesType, SizesType
<1>2. ASSUME NEW x \in Sizes, NEW y \in Sizes, x < y, OnLevel(n, x), OnLevel(n, y)
      PROVE  FALSE
  <2>1. x \in Nat /\ y \in Nat
    BY SizesType
  <2>2. 2 * x <= y
    BY <1>2, SizeGap
  <2>3. (n + 1) * (2 * x) <= (n + 1) * y
    BY <1>1, <2>1, <2>2
  <2>4. (n + 1) * (2 * x) = 2 * ((n + 1) * x)
    BY <1>1, <2>1
  <2>5. (n + 1) * x \in Nat /\ (n + 1) * y \in Nat
    BY <1>1, <2>1
  <2> QED BY <1>1, <1>2, <2>3, <2>4, <2>5 DEF OnLevel
<1> QED BY <1>1, <1>2

(* Every size divides the size of the heap.                                *)
LEMMA SizeDivides ==
  ASSUME NEW m \in Sizes
  PROVE  \E q \in Nat : HEAP_SIZE = q * m
<1> DEFINE Bad == {x \in Sizes : ~ \E q \in Nat : HEAP_SIZE = q * x}
           Gaps == {HEAP_SIZE - x : x \in Bad}
<1>1. SUFFICES ASSUME Bad # {} PROVE FALSE
  OBVIOUS
<1>2. HEAP_SIZE \in Nat /\ \A x \in Sizes : x \in Nat \ {0} /\ x <= HEAP_SIZE
  BY SizesType DEF Sizes
<1>3. Gaps \in SUBSET Nat /\ Gaps # {}
  BY <1>1, <1>2
<1>4. PICK g \in Gaps : \A z \in Gaps : g <= z
  BY <1>3, LeastNat
<1>5. PICK x \in Bad : g = HEAP_SIZE - x
  BY <1>4
<1>6. x # HEAP_SIZE
  <2>1. HEAP_SIZE = 1 * HEAP_SIZE
    BY <1>2
  <2> QED BY <1>5, <2>1
<1>7. 2 * x <= HEAP_SIZE
  BY <1>2, <1>5, <1>6, SizeGap, SizesType
<1>8. 2 * x \in Sizes
  BY <1>5, <1>7, DoubleSize
<1>9. 2 * x \notin Bad
  <2>1. HEAP_SIZE - 2 * x < g
    BY <1>2, <1>5
  <2> HIDE DEF Bad
  <2>2. 2 * x \in Bad => HEAP_SIZE - 2 * x \in Gaps
    OBVIOUS
  <2>3. g \in Nat /\ HEAP_SIZE - 2 * x \in Nat
    BY <1>2, <1>3, <1>7, <1>8
  <2>4. HEAP_SIZE - 2 * x \in Gaps => g <= HEAP_SIZE - 2 * x
    BY <1>4
  <2> HIDE DEF Gaps
  <2> QED BY <2>1, <2>2, <2>3, <2>4
<1>10. PICK q \in Nat : HEAP_SIZE = q * (2 * x)
  BY <1>8, <1>9
<1>11. HEAP_SIZE = (2 * q) * x
  BY <1>2, <1>5, <1>10
<1> QED BY <1>5, <1>11

(* A node with the size 2h on its level has children with the size h.      *)
LEMMA LevelBelow ==
  ASSUME NEW n \in Nat, NEW h \in Sizes, 2 * h \in Sizes, OnLevel(n, 2 * h)
  PROVE  OnLevel(Left(n), h) /\ OnLevel(Right(n), h)
<1>1. HEAP_SIZE \in Nat /\ h \in Nat \ {0}
  BY SizesType
<1>2. /\ (Left(n) + 1) * h = (n + 1) * (2 * h)
      /\ (Right(n) + 1) * h = (n + 1) * (2 * h) + h
  BY <1>1 DEF Left, Right
<1>3. PICK q \in Nat : HEAP_SIZE = q * (2 * h)
  BY SizeDivides
<1>4. n + 1 < 2 * q
  <2>1. (n + 1) * (2 * h) < (2 * q) * (2 * h)
    BY <1>1, <1>3 DEF OnLevel
  <2> QED BY <1>1, <2>1
<1>5. (n + 1) * (2 * h) + 2 * h <= 2 * HEAP_SIZE
  <2>1. (n + 2) * (2 * h) <= (2 * q) * (2 * h)
    BY <1>1, <1>4
  <2> QED BY <1>1, <1>3, <2>1
<1>6. /\ HEAP_SIZE <= (n + 1) * (2 * h)
      /\ (n + 1) * (2 * h) \in Nat
  BY <1>1 DEF OnLevel
<1> QED BY <1>1, <1>2, <1>5, <1>6 DEF OnLevel

LEMMA LevelExists ==
  ASSUME NEW n \in Nodes
  PROVE  \E m \in Sizes : OnLevel(n, m)
<1> DEFINE Bad == {x \in Nodes : ~ \E m \in Sizes : OnLevel(x, m)}
<1>1. SUFFICES ASSUME Bad # {} PROVE FALSE
  OBVIOUS
<1>2. Bad \in SUBSET Nat
  BY NodesType
<1>3. PICK x \in Bad : \A z \in Bad : x <= z
  BY <1>1, <1>2, LeastNat
<1>4. x # 0
  <2>1. OnLevel(0, HEAP_SIZE)
    BY SizesType DEF OnLevel
  <2> QED BY <2>1, SizesType
<1>5. PICK m \in Sizes : OnLevel(Parent(x), m)
  BY <1>3, <1>4, ParentIs, NodesType, SizesType
<1>6. Parent(x) \in Nat /\ HEAP_SIZE \in Nat /\ x \in Nat /\ x <= 2 * HEAP_SIZE - 2
  BY <1>3, <1>4, ParentIs, NodesType, SizesType
<1>7. m # 1
  BY <1>4, <1>5, <1>6, ParentIs DEF OnLevel, Left, Right
<1>8. PICK h \in Sizes : m = 2 * h
  BY <1>7, HalfSize
<1>9. OnLevel(x, h)
  BY <1>4, <1>5, <1>6, <1>8, LevelBelow, ParentIs
<1> QED BY <1>9

LEMMA BlockSizeIs ==
  ASSUME NEW n \in Nodes
  PROVE  BlockSize(n) \in Sizes /\ OnLevel(n, BlockSize(n))
BY LevelExists DEF BlockSize, OnLevel

LEMMA BlockSizeUnique ==
  ASSUME NEW n \in Nodes, NEW m \in Sizes, OnLevel(n, m)
  PROVE  BlockSize(n) = m
BY BlockSizeIs, LevelUnique

(* The interval of a node lies in the heap.                                *)
LEMMA IntervalIs ==
  ASSUME NEW n \in Nodes
  PROVE  /\ BlockSize(n) \in Nat \ {0} /\ BlockSize(n) <= HEAP_SIZE
         /\ Lo(n) \in Nat /\ End(n) \in Nat
         /\ Lo(n) < End(n) /\ End(n) <= HEAP_SIZE
         /\ End(n) = Lo(n) + BlockSize(n)
         /\ Lo(n) \in Addresses
<1>1. /\ BlockSize(n) \in Sizes
      /\ BlockSize(n) \in Nat \ {0} /\ BlockSize(n) <= HEAP_SIZE
      /\ HEAP_SIZE \in Nat /\ n \in Nat
  BY BlockSizeIs, SizesType, NodesType DEF Sizes
<1> DEFINE m == BlockSize(n)
<1>2. PICK q \in Nat : HEAP_SIZE = q * m
  BY <1>1, SizeDivides
<1>3. HEAP_SIZE <= (n + 1) * m /\ (n + 1) * m < 2 * HEAP_SIZE /\ (n + 1) * m \in Nat
  BY <1>1, BlockSizeIs DEF OnLevel
<1>4. n + 1 < 2 * q
  <2>1. (n + 1) * m < (2 * q) * m
    BY <1>1, <1>2, <1>3
  <2> HIDE DEF m
  <2> QED BY <1>1, <2>1 DEF m
<1>5. (n + 1) * m + m <= 2 * HEAP_SIZE
  <2>1. (n + 2) * m <= (2 * q) * m
    BY <1>1, <1>4
  <2> QED BY <1>1, <1>2, <2>1
<1>6. Lo(n) = (n + 1) * m - HEAP_SIZE /\ End(n) = Lo(n) + m
  BY DEF Lo, End
<1> HIDE DEF m
<1> QED BY <1>1, <1>3, <1>5, <1>6 DEF m, Addresses

LEMMA RootIs ==
  0 \in Nodes /\ BlockSize(0) = HEAP_SIZE /\ Lo(0) = 0 /\ End(0) = HEAP_SIZE
<1>1. 0 \in Nodes /\ OnLevel(0, HEAP_SIZE) /\ HEAP_SIZE \in Nat
  BY NodesType, SizesType DEF OnLevel
<1>2. BlockSize(0) = HEAP_SIZE
  BY <1>1, BlockSizeUnique, SizesType
<1> QED BY <1>1, <1>2 DEF Lo, End

(* The children of a node halve its interval.                              *)
LEMMA ChildrenAre ==
  ASSUME NEW n \in Nodes, BlockSize(n) # 1
  PROVE  /\ Left(n) \in Nodes /\ Right(n) \in Nodes
         /\ Left(n) > n /\ Right(n) > n /\ Left(n) # Right(n)
         /\ BlockSize(Left(n)) = BlockSize(Right(n))
         /\ BlockSize(n) = 2 * BlockSize(Left(n))
         /\ BlockSize(Left(n)) = BlockSize(n) \div 2
         /\ Lo(Left(n)) = Lo(n) /\ End(Left(n)) = Lo(Right(n))
         /\ End(Right(n)) = End(n)
<1>1. n \in Nat /\ HEAP_SIZE \in Nat
  BY NodesType, SizesType
<1>2. PICK h \in Sizes : BlockSize(n) = 2 * h
  BY BlockSizeIs, HalfSize
<1>3. h \in Nat \ {0} /\ 2 * h \in Sizes /\ OnLevel(n, 2 * h)
  BY <1>2, BlockSizeIs, SizesType
<1>4. OnLevel(Left(n), h) /\ OnLevel(Right(n), h)
  BY <1>1, <1>3, LevelBelow
<1>5. Left(n) \in Nodes /\ Right(n) \in Nodes
  <2>1. (Right(n) + 1) * h < 2 * HEAP_SIZE /\ Right(n) \in Nat /\ Left(n) \in Nat
    BY <1>1, <1>4 DEF OnLevel, Left, Right
  <2>2. Right(n) + 1 <= (Right(n) + 1) * h
    BY <1>3, <2>1
  <2>3. Right(n) + 1 < 2 * HEAP_SIZE
    <3> DEFINE x == (Right(n) + 1) * h
    <3>1. x \in Nat /\ Right(n) + 1 <= x /\ x < 2 * HEAP_SIZE
      BY <1>3, <2>1, <2>2
    <3> HIDE DEF x
    <3> QED BY <1>1, <2>1, <3>1
  <2>4. Left(n) < Right(n)
    BY <1>1 DEF Left, Right
  <2> QED BY <1>1, <2>1, <2>3, <2>4, NodesType
<1>6. BlockSize(Left(n)) = h /\ BlockSize(Right(n)) = h
  BY <1>4, <1>5, BlockSizeUnique
<1>7. /\ Lo(n) = (n + 1) * (2 * h) - HEAP_SIZE
      /\ Lo(Left(n)) = (2 * n + 1 + 1) * h - HEAP_SIZE
      /\ Lo(Right(n)) = (2 * n + 2 + 1) * h - HEAP_SIZE
  BY <1>2, <1>6 DEF Lo, Left, Right
<1>8. Lo(Left(n)) = Lo(n) /\ Lo(Right(n)) = Lo(n) + h /\ Lo(n) \in Int
  BY <1>1, <1>3, <1>7
<1>9. (2 * h) \div 2 = h
  BY <1>3
<1>10. /\ End(n) = Lo(n) + 2 * h /\ End(Left(n)) = Lo(Left(n)) + h
       /\ End(Right(n)) = Lo(Right(n)) + h
  BY <1>2, <1>6 DEF End
<1>11. Left(n) > n /\ Right(n) > n /\ Left(n) # Right(n)
  BY <1>1 DEF Left, Right
<1> QED BY <1>2, <1>3, <1>5, <1>6, <1>8, <1>9, <1>10, <1>11

(* A node whose children are in the tree is larger than a unit.            *)
LEMMA HasChildren ==
  ASSUME NEW n \in Nodes, Left(n) \in Nodes \/ Right(n) \in Nodes
  PROVE  BlockSize(n) # 1
<1>1. n \in Nat /\ HEAP_SIZE \in Nat
  BY NodesType, SizesType
<1>2. 2 * n + 1 <= 2 * HEAP_SIZE - 2
  BY <1>1, NodesType DEF Left, Right
<1> QED BY <1>1, <1>2, BlockSizeIs DEF OnLevel

LEMMA ParentSize ==
  ASSUME NEW n \in Nodes, n # 0
  PROVE  /\ Parent(n) \in Nodes
         /\ BlockSize(Parent(n)) = 2 * BlockSize(n)
         /\ BlockSize(Parent(n)) # 1
         /\ Lo(Parent(n)) <= Lo(n) /\ End(n) <= End(Parent(n))
<1>1. Parent(n) \in Nodes /\ (n = Left(Parent(n)) \/ n = Right(Parent(n)))
  BY ParentIs
<1>2. BlockSize(Parent(n)) # 1
  BY <1>1, HasChildren
<1> QED BY <1>1, <1>2, ChildrenAre, IntervalIs

(* The address that malloc computes is that of the interval.               *)
LEMMA OffsetIs ==
  ASSUME NEW n \in Nodes
  PROVE  Offset(n, BlockSize(n)) = Lo(n)
<1> DEFINE x == (n + 1) * BlockSize(n)
<1>1. x = 1 * HEAP_SIZE + Lo(n) /\ Lo(n) \in 0 .. HEAP_SIZE - 1 /\ HEAP_SIZE \in Nat \ {0}
  <2>1. n \in Nat /\ BlockSize(n) \in Nat /\ HEAP_SIZE \in Nat \ {0}
    BY IntervalIs, NodesType, SizesType
  <2>2. x \in Nat /\ Lo(n) = x - HEAP_SIZE
    BY <2>1 DEF Lo
  <2>3. Lo(n) \in 0 .. HEAP_SIZE - 1
    BY IntervalIs DEF Addresses
  <2> QED BY <2>1, <2>2, <2>3
<1>2. (1 * HEAP_SIZE + Lo(n)) % HEAP_SIZE = Lo(n)
  BY <1>1, Remainder
<1> QED BY <1>1, <1>2 DEF Offset

(* Nodes of one level do not overlap.                                      *)
LEMMA LevelDisjoint ==
  ASSUME NEW m \in Nodes, NEW n \in Nodes, BlockSize(m) = BlockSize(n), m # n
  PROVE  ~ Overlap(m, n)
<1>1. m \in Nat /\ n \in Nat /\ HEAP_SIZE \in Nat
  BY NodesType, SizesType
<1>2. ASSUME NEW x \in Nodes, NEW y \in Nodes, BlockSize(x) = BlockSize(y), x < y
      PROVE  End(x) <= Lo(y)
  <2> DEFINE s == BlockSize(x)
  <2>1. s \in Nat /\ x \in Nat /\ y \in Nat
    BY NodesType, IntervalIs
  <2>2. Lo(x) = (x + 1) * s - HEAP_SIZE /\ Lo(y) = (y + 1) * s - HEAP_SIZE
    BY <1>2 DEF Lo
  <2>3. End(x) = Lo(x) + s
    BY DEF End
  <2> HIDE DEF s
  <2>4. (x + 2) * s <= (y + 1) * s
    BY <1>2, <2>1
  <2> QED BY <1>1, <2>1, <2>2, <2>3, <2>4
<1> QED BY <1>1, <1>2, IntervalIs DEF Overlap

(* Overlap is preserved on the way up to a node that is not larger.        *)
LEMMA OverlapUp ==
  ASSUME NEW m \in Nodes, NEW n \in Nodes, Overlap(m, n), m # 0
  PROVE  Overlap(Parent(m), n)
BY ParentSize, IntervalIs DEF Overlap

(* A node overlaps another one that is not larger only if it is the same   *)
(* one or overlaps its parent, which is not larger either.                 *)
LEMMA OverlapClimbs ==
  ASSUME NEW m \in Nodes, NEW n \in Nodes, Overlap(m, n),
         BlockSize(m) <= BlockSize(n), m # n
  PROVE  /\ m # 0 /\ Parent(m) \in Nodes /\ Parent(m) < m
         /\ BlockSize(Parent(m)) <= BlockSize(n)
         /\ Overlap(Parent(m), n)
<1>1. BlockSize(m) # BlockSize(n)
  BY LevelDisjoint
<1>2. /\ BlockSize(m) \in Nat /\ BlockSize(n) \in Nat /\ BlockSize(n) <= HEAP_SIZE
      /\ HEAP_SIZE \in Nat
  BY IntervalIs, SizesType
<1>3. BlockSize(m) < BlockSize(n)
  BY <1>1, <1>2
<1>4. m # 0
  BY <1>2, <1>3, RootIs
<1>5. 2 * BlockSize(m) <= BlockSize(n)
  BY <1>3, SizeGap, BlockSizeIs
<1> QED BY <1>4, <1>5, ParentSize, ParentIs, OverlapUp

-----------------------------------------------------------------------------
(* Trees.  A leaf holds the address of its interval, and what is above a   *)
(* leaf or a branch is a branch.                                           *)

IsLeaf(t, n) == t[n] # NULL /\ t[n] # BRANCH_NODE

TreeOK(t) ==
  /\ t \in [Nodes -> {NULL, BRANCH_NODE} \cup Addresses]
  /\ \A n \in Nodes : IsLeaf(t, n) => t[n] = Lo(n)
  /\ \A n \in Nodes : n # 0 /\ t[n] # NULL => t[Parent(n)] = BRANCH_NODE

(* The place of a node under a branch; the node itself may be free.        *)
Rooted(t, n) == n # 0 => t[Parent(n)] = BRANCH_NODE

HasChild(t, n) == \E k \in {Left(n), Right(n)} \cap Nodes : t[k] # NULL

BlockIn(t, n) == [addr |-> t[n], size |-> BlockSize(n)]

LeafBlocks(t) == {BlockIn(t, n) : n \in {m \in Nodes : IsLeaf(t, m)}}

(* Nothing but branches covers what is not free.                           *)
LEMMA CoverIsBranch ==
  ASSUME NEW t, TreeOK(t), NEW m \in Nodes, NEW n \in Nodes,
         t[m] # NULL, Overlap(m, n), BlockSize(m) <= BlockSize(n), m # n
  PROVE  t[n] = BRANCH_NODE
<1> DEFINE Bad == {x \in Nodes : /\ t[x] # NULL /\ Overlap(x, n)
                                 /\ BlockSize(x) <= BlockSize(n) /\ x # n}
<1>1. SUFFICES ASSUME t[n] # BRANCH_NODE PROVE FALSE
  OBVIOUS
<1>2. Bad \in SUBSET Nat /\ Bad # {}
  BY NodesType
<1>3. PICK x \in Bad : \A y \in Bad : x <= y
  BY <1>2, LeastNat
<1>4. /\ x # 0 /\ Parent(x) \in Nodes /\ Parent(x) < x
      /\ BlockSize(Parent(x)) <= BlockSize(n)
      /\ Overlap(Parent(x), n)
  BY <1>3, OverlapClimbs
<1>5. t[Parent(x)] = BRANCH_NODE
  BY <1>3, <1>4 DEF TreeOK
<1>6. Parent(x) \in Bad
  BY <1>1, <1>4, <1>5, HeapAssumption
<1>7. x \in Nat /\ Parent(x) \in Nat
  BY <1>3, <1>4, NodesType
<1> QED BY <1>3, <1>4, <1>6, <1>7

LEMMA OverlapSym ==
  ASSUME NEW m, NEW n, Overlap(m, n)
  PROVE  Overlap(n, m)
BY DEF Overlap

LEMMA LeavesDisjoint ==
  ASSUME NEW t, TreeOK(t), NEW m \in Nodes, NEW n \in Nodes,
         IsLeaf(t, m), IsLeaf(t, n), m # n
  PROVE  ~ Overlap(m, n)
<1>1. BlockSize(m) \in Nat /\ BlockSize(n) \in Nat
  BY IntervalIs
<1> QED BY <1>1, CoverIsBranch, OverlapSym DEF IsLeaf

LEMMA SameAddress ==
  ASSUME NEW t, TreeOK(t), NEW m \in Nodes, NEW n \in Nodes,
         IsLeaf(t, m), IsLeaf(t, n), t[m] = t[n]
  PROVE  m = n
<1>1. Lo(m) = Lo(n)
  BY DEF TreeOK
<1>2. Overlap(m, n)
  BY <1>1, IntervalIs DEF Overlap
<1> QED BY <1>2, LeavesDisjoint

(* The interval of a free node has no leaf.                                *)
LEMMA FreeIsClear ==
  ASSUME NEW t, TreeOK(t), NEW n \in Nodes, t[n] = NULL, Rooted(t, n),
         NEW m \in Nodes, IsLeaf(t, m)
  PROVE  ~ Overlap(m, n)
<1>1. SUFFICES ASSUME Overlap(m, n) PROVE FALSE
  OBVIOUS
<1>2. m # n /\ BlockSize(m) \in Nat /\ BlockSize(n) \in Nat
  BY IntervalIs DEF IsLeaf
<1>3. BlockSize(n) < BlockSize(m)
  BY <1>1, <1>2, CoverIsBranch, HeapAssumption DEF IsLeaf
<1>4. /\ n # 0 /\ Parent(n) \in Nodes
      /\ BlockSize(Parent(n)) <= BlockSize(m)
      /\ Overlap(Parent(n), m)
  BY <1>1, <1>2, <1>3, OverlapClimbs, OverlapSym
<1>5. t[Parent(n)] = BRANCH_NODE
  BY <1>4 DEF Rooted
<1> QED BY <1>4, <1>5, CoverIsBranch, HeapAssumption DEF IsLeaf

(* Below a node that is not free there is a leaf, if branches have         *)
(* children.                                                               *)
LEMMA LeafBelow ==
  ASSUME NEW t, TreeOK(t), NEW n \in Nodes, t[n] # NULL,
         \A x \in Nodes : t[x] = BRANCH_NODE => HasChild(t, x)
  PROVE  \E m \in Nodes : IsLeaf(t, m) /\ Lo(n) <= Lo(m) /\ End(m) <= End(n)
<1> DEFINE Within(x, m) == IsLeaf(t, m) /\ Lo(x) <= Lo(m) /\ End(m) <= End(x)
           Bad == {x \in Nodes : t[x] # NULL /\ ~ \E m \in Nodes : Within(x, m)}
           Ranks == {2 * HEAP_SIZE - x : x \in Bad}
<1>1. SUFFICES ASSUME Bad # {} PROVE FALSE
  OBVIOUS
<1>2. HEAP_SIZE \in Nat /\ \A x \in Nodes : x \in Nat /\ x < 2 * HEAP_SIZE
  BY SizesType, NodesType
<1>3. Ranks \in SUBSET Nat /\ Ranks # {}
  BY <1>1, <1>2
<1>4. PICK r \in Ranks : \A z \in Ranks : r <= z
  BY <1>3, LeastNat
<1>5. PICK x \in Bad : r = 2 * HEAP_SIZE - x
  BY <1>4
<1>6. x \in Nodes /\ Lo(x) <= Lo(x) /\ End(x) <= End(x)
  BY <1>5, IntervalIs
<1>7. t[x] = BRANCH_NODE
  BY <1>5, <1>6 DEF IsLeaf
<1>8. PICK k \in {Left(x), Right(x)} \cap Nodes : t[k] # NULL
  BY <1>6, <1>7 DEF HasChild
<1>9. BlockSize(x) # 1
  BY <1>6, <1>8, HasChildren
<1>10. k > x /\ Lo(x) <= Lo(k) /\ End(k) <= End(x)
  <2>1. /\ Left(x) \in Nodes /\ Right(x) \in Nodes
        /\ Left(x) > x /\ Right(x) > x
        /\ Lo(Left(x)) = Lo(x) /\ End(Left(x)) = Lo(Right(x))
        /\ End(Right(x)) = End(x)
    BY <1>6, <1>9, ChildrenAre
  <2> QED BY <1>6, <1>8, <2>1, IntervalIs
<1>11. k \notin Bad
  <2>1. 2 * HEAP_SIZE - k < r
    BY <1>2, <1>5, <1>6, <1>8, <1>10
  <2>2. k \in Bad => 2 * HEAP_SIZE - k \in Ranks
    OBVIOUS
  <2>3. 2 * HEAP_SIZE - k \in Ranks => r <= 2 * HEAP_SIZE - k
    BY <1>4
  <2> QED
    <3> HIDE DEF Bad, Ranks
    <3>1. r \in Nat /\ 2 * HEAP_SIZE - k \in Int
      BY <1>2, <1>3, <1>4, <1>8
    <3> QED BY <2>1, <2>2, <2>3, <3>1
<1>12. PICK m \in Nodes : Within(k, m)
  BY <1>8, <1>11
<1>13. Within(x, m)
  BY <1>6, <1>8, <1>10, <1>12, IntervalIs
<1> QED BY <1>5, <1>13

-----------------------------------------------------------------------------
(* How the tree changes.                                                   *)

Placed(u, t, n) == u = [t EXCEPT ![n] = Lo(n)]

(* A node becomes a leaf.                                                  *)
LEMMA AddLeaf ==
  ASSUME NEW t, TreeOK(t), NEW n \in Nodes, t[n] = NULL, Rooted(t, n),
         NEW u, Placed(u, t, n)
  PROVE  /\ TreeOK(u) /\ IsLeaf(u, n)
         /\ LeafBlocks(u) = LeafBlocks(t) \cup {[addr |-> Lo(n), size |-> BlockSize(n)]}
<1>1. /\ t \in [Nodes -> {NULL, BRANCH_NODE} \cup Addresses]
      /\ Lo(n) \in Addresses /\ Lo(n) # NULL /\ Lo(n) # BRANCH_NODE
  BY IntervalIs, HeapAssumption DEF TreeOK
<1>2. u \in [Nodes -> {NULL, BRANCH_NODE} \cup Addresses] /\ u[n] = Lo(n)
  BY <1>1 DEF Placed
<1>3. \A x \in Nodes : x # n => u[x] = t[x]
  BY <1>1 DEF Placed
<1>4. \A x \in Nodes : IsLeaf(u, x) <=> x = n \/ IsLeaf(t, x)
  BY <1>1, <1>2, <1>3 DEF IsLeaf
<1>5. \A x \in Nodes : IsLeaf(u, x) => u[x] = Lo(x)
  BY <1>2, <1>3, <1>4 DEF TreeOK
<1>6. ASSUME NEW x \in Nodes, x # 0, u[x] # NULL
      PROVE  u[Parent(x)] = BRANCH_NODE
  <2>1. t[Parent(x)] = BRANCH_NODE
    BY <1>3, <1>6 DEF TreeOK, Rooted
  <2>2. Parent(x) # n /\ Parent(x) \in Nodes
    BY <1>6, <2>1, ParentIs, HeapAssumption
  <2> QED BY <1>3, <2>1, <2>2
<1>7. \A x \in Nodes : IsLeaf(t, x) => BlockIn(u, x) = BlockIn(t, x)
  BY <1>3 DEF BlockIn, IsLeaf
<1>8. BlockIn(u, n) = [addr |-> Lo(n), size |-> BlockSize(n)]
  BY <1>2 DEF BlockIn
<1> QED BY <1>2, <1>4, <1>5, <1>6, <1>7, <1>8 DEF TreeOK, LeafBlocks

Branched(u, t, n) == u = [t EXCEPT ![n] = BRANCH_NODE]

(* A node that is not a leaf becomes a branch.                             *)
LEMMA SetBranch ==
  ASSUME NEW t, TreeOK(t), NEW n \in Nodes, ~ IsLeaf(t, n), Rooted(t, n),
         NEW u, Branched(u, t, n)
  PROVE  /\ TreeOK(u) /\ LeafBlocks(u) = LeafBlocks(t)
         /\ \A x \in Nodes : IsLeaf(u, x) <=> IsLeaf(t, x)
         /\ \A x \in Nodes : t[x] # NULL => u[x] = t[x]
         /\ \A x \in Nodes : x # n => u[x] = t[x]
         /\ u[n] = BRANCH_NODE
<1>1. t \in [Nodes -> {NULL, BRANCH_NODE} \cup Addresses]
  BY DEF TreeOK
<1>2. u \in [Nodes -> {NULL, BRANCH_NODE} \cup Addresses] /\ u[n] = BRANCH_NODE
  BY <1>1 DEF Branched
<1>3. \A x \in Nodes : x # n => u[x] = t[x]
  BY <1>1 DEF Branched
<1>4. \A x \in Nodes : IsLeaf(u, x) <=> IsLeaf(t, x)
  BY <1>1, <1>2, <1>3 DEF IsLeaf
<1>5. \A x \in Nodes : IsLeaf(u, x) => u[x] = Lo(x)
  BY <1>2, <1>3, <1>4 DEF TreeOK, IsLeaf
<1>6. ASSUME NEW x \in Nodes, x # 0, u[x] # NULL
      PROVE  u[Parent(x)] = BRANCH_NODE
  <2>1. t[Parent(x)] = BRANCH_NODE
    BY <1>3, <1>6 DEF TreeOK, Rooted
  <2> QED BY <1>2, <1>3, <1>6, <2>1, ParentIs
<1>7. \A x \in Nodes : IsLeaf(t, x) => BlockIn(u, x) = BlockIn(t, x)
  BY <1>3 DEF BlockIn, IsLeaf
<1>8. \A x \in Nodes : t[x] # NULL => u[x] = t[x]
  BY <1>2, <1>3 DEF IsLeaf
<1> QED BY <1>2, <1>3, <1>4, <1>5, <1>6, <1>7, <1>8 DEF TreeOK, LeafBlocks

(* A node without children becomes free.                                   *)
LEMMA SetFree ==
  ASSUME NEW t, TreeOK(t), NEW n \in Nodes, ~ HasChild(t, n),
         NEW u, u = [t EXCEPT ![n] = NULL]
  PROVE  /\ TreeOK(u) /\ u[n] = NULL
         /\ \A x \in Nodes : x # n => u[x] = t[x]
         /\ \A x \in Nodes : IsLeaf(u, x) <=> x # n /\ IsLeaf(t, x)
<1>1. t \in [Nodes -> {NULL, BRANCH_NODE} \cup Addresses]
  BY DEF TreeOK
<1>2. u \in [Nodes -> {NULL, BRANCH_NODE} \cup Addresses] /\ u[n] = NULL
  BY <1>1
<1>3. \A x \in Nodes : x # n => u[x] = t[x]
  BY <1>1
<1>4. \A x \in Nodes : IsLeaf(u, x) <=> x # n /\ IsLeaf(t, x)
  BY <1>1, <1>2, <1>3 DEF IsLeaf
<1>5. ASSUME NEW x \in Nodes, x # 0, u[x] # NULL
      PROVE  u[Parent(x)] = BRANCH_NODE
  <2>1. t[Parent(x)] = BRANCH_NODE /\ t[x] # NULL
    BY <1>2, <1>3, <1>5 DEF TreeOK
  <2>2. Parent(x) # n
    BY <1>5, <2>1, ParentIs DEF HasChild
  <2> QED BY <1>3, <1>5, <2>1, <2>2, ParentIs
<1> QED BY <1>2, <1>3, <1>4, <1>5 DEF TreeOK

(* Freeing a leaf removes its block, freeing a branch none.                *)
LEMMA BlocksLeft ==
  ASSUME NEW t, TreeOK(t), NEW n \in Nodes,
         NEW u, \A x \in Nodes : x # n => u[x] = t[x],
         \A x \in Nodes : IsLeaf(u, x) <=> x # n /\ IsLeaf(t, x)
  PROVE  LeafBlocks(u) = LeafBlocks(t) \ (IF IsLeaf(t, n) THEN {BlockIn(t, n)} ELSE {})
<1>1. \A x \in Nodes : IsLeaf(u, x) => BlockIn(u, x) = BlockIn(t, x)
  BY DEF BlockIn
<1>2. \A x, y \in Nodes : IsLeaf(t, x) /\ IsLeaf(t, y) /\ BlockIn(t, x) = BlockIn(t, y) => x = y
  BY SameAddress DEF BlockIn
<1> QED BY <1>1, <1>2 DEF LeafBlocks

-----------------------------------------------------------------------------
(* Walks.  A walk has either come up from a child, or down from above.     *)

IsWalk(w) == w \in Walks /\ w.block_size = BlockSize(w.i)

CameUp(w) == w.skip # 0 /\ Parent(w.skip) = w.i

(* All units below Reached have been passed.                                 *)
Reached(w) == IF CameUp(w) THEN End(w.skip) ELSE Lo(w.i)

(* A branch has a child, but for the one above the node where a walk is.   *)
BranchesOK(t, w) ==
  \A n \in Nodes : t[n] = BRANCH_NODE =>
    HasChild(t, n) \/ (w.i # 0 /\ n = Parent(w.i) /\ t[w.i] = NULL)

TreeInv(t, w) ==
  /\ TreeOK(t) /\ ~ IsLeaf(t, 0)
  /\ IsWalk(w) /\ Rooted(t, w.i)
  /\ BranchesOK(t, w)

SkipOK(t, w) ==
  \/ CameUp(w) /\ t[w.skip] # NULL
  \/ BlockSize(w.i) <= BlockSize(w.skip)

LEMMA WalkType ==
  ASSUME NEW w, IsWalk(w)
  PROVE  /\ w.i \in Nodes /\ w.skip \in Nodes /\ w.used \in 0 .. HEAP_SIZE
         /\ w.block_size = BlockSize(w.i)
BY DEF IsWalk, Walks

LEMMA CameUpSize ==
  ASSUME NEW w, IsWalk(w), CameUp(w)
  PROVE  /\ BlockSize(w.i) = 2 * BlockSize(w.skip) /\ BlockSize(w.i) # 1
         /\ w.skip = Left(w.i) \/ w.skip = Right(w.i)
         /\ ~ (BlockSize(w.i) <= BlockSize(w.skip))
BY WalkType, ParentSize, ParentIs, IntervalIs DEF CameUp

LEMMA CameUpIff ==
  ASSUME NEW w, IsWalk(w), w.skip = Left(w.i) \/ w.skip = Right(w.i)
  PROVE  CameUp(w)
<1>1. w.i \in Nat
  BY WalkType, NodesType
<1> QED BY <1>1, ChildParent DEF CameUp, Left, Right

LEMMA ReachedType ==
  ASSUME NEW w, IsWalk(w)
  PROVE  Reached(w) \in Nat /\ Lo(w.i) <= Reached(w) /\ Reached(w) <= End(w.i)
<1>1. CASE CameUp(w)
  BY <1>1, WalkType, ParentSize, IntervalIs DEF CameUp, Reached
<1>2. CASE ~ CameUp(w)
  BY <1>2, WalkType, IntervalIs DEF Reached
<1> QED BY <1>1, <1>2

LEMMA RootWalk ==
  /\ IsWalk(Root) /\ Root.i = 0 /\ ~ CameUp(Root) /\ Reached(Root) = 0
  /\ Root.used = 0 /\ Root.skip = 0
  /\ \A t : SkipOK(t, Root) /\ Rooted(t, 0)
<1>1. Root \in Walks
  BY RootIs, BlockSizeIs, SizesType DEF Root, Walks
<1>2. BlockSize(0) <= BlockSize(0)
  BY RootIs, IntervalIs
<1> QED BY <1>1, <1>2, RootIs DEF Root, IsWalk, CameUp, Reached, SkipOK, Rooted

LEMMA UpIs ==
  ASSUME NEW w, IsWalk(w), w.i # 0
  PROVE  /\ IsWalk(Up(w)) /\ CameUp(Up(w)) /\ Reached(Up(w)) = End(w.i)
         /\ Up(w).i = Parent(w.i) /\ Up(w).skip = w.i /\ Up(w).used = w.used
         /\ Up(w).block_size = 2 * w.block_size
<1>1. /\ w.i \in Nodes /\ Parent(w.i) \in Nodes
      /\ BlockSize(Parent(w.i)) = 2 * w.block_size
      /\ BlockSize(Parent(w.i)) \in Sizes
  BY WalkType, ParentSize, BlockSizeIs
<1>2. /\ Up(w).i = Parent(w.i) /\ Up(w).skip = w.i /\ Up(w).used = w.used
      /\ Up(w).block_size = 2 * w.block_size
  BY DEF IsWalk, Walks, Up
<1>3. Up(w) \in Walks
  <2>1. 2 * w.block_size \in Sizes \cup {2 * HEAP_SIZE}
    BY <1>1
  <2> QED BY <1>1, <2>1 DEF IsWalk, Walks, Up
<1> QED BY <1>1, <1>2, <1>3 DEF IsWalk, CameUp, Reached

LEMMA DownIs ==
  ASSUME NEW t, NEW w, IsWalk(w), SkipOK(t, w), BlockSize(w.i) # 1,
         NEW k, k = Left(w.i) \/ k = Right(w.i)
  PROVE  /\ IsWalk(Down(w, k)) /\ ~ CameUp(Down(w, k)) /\ Reached(Down(w, k)) = Lo(k)
         /\ Down(w, k).i = k /\ Down(w, k).skip = w.skip /\ Down(w, k).used = w.used
         /\ BlockSize(k) <= BlockSize(w.skip) /\ k \in Nodes /\ Parent(k) = w.i /\ k # 0
         /\ \A u : SkipOK(u, Down(w, k))
<1>1. /\ w.i \in Nodes /\ k \in Nodes
      /\ BlockSize(k) = w.block_size \div 2 /\ BlockSize(w.i) = 2 * BlockSize(k)
      /\ Parent(k) = w.i /\ k > w.i /\ BlockSize(k) \in Sizes
      /\ BlockSize(k) \in Nat
  <2>1. w.i \in Nodes /\ w.i \in Nat /\ w.block_size = BlockSize(w.i)
    BY WalkType, NodesType
  <2>2. k \in Nodes /\ k > w.i /\ BlockSize(k) = BlockSize(Left(w.i))
    BY <2>1, ChildrenAre
  <2>3. /\ BlockSize(k) = w.block_size \div 2
        /\ BlockSize(w.i) = 2 * BlockSize(k)
    BY <2>1, <2>2, ChildrenAre
  <2>4. Parent(k) = w.i
    BY <2>1, ChildParent
  <2> QED BY <2>1, <2>2, <2>3, <2>4, BlockSizeIs, IntervalIs
<1>2. /\ Down(w, k).i = k /\ Down(w, k).skip = w.skip
      /\ Down(w, k).used = w.used /\ Down(w, k).block_size = w.block_size \div 2
  BY DEF IsWalk, Walks, Down
<1>3. Down(w, k) \in Walks
  <2>1. w.block_size \div 2 \in Sizes
    BY <1>1
  <2> QED BY <1>1, <2>1 DEF IsWalk, Walks, Down
<1>4. IsWalk(Down(w, k))
  BY <1>1, <1>2, <1>3 DEF IsWalk
<1>5. w.skip \in Nodes /\ BlockSize(w.skip) \in Nat
  BY WalkType, IntervalIs
<1>6. BlockSize(k) <= BlockSize(w.skip)
  BY <1>1, <1>5, CameUpSize DEF SkipOK
<1>7. ~ CameUp(Down(w, k))
  BY <1>1, <1>2, <1>4, <1>6, CameUpSize
<1>8. k # 0
  BY <1>1, NodesType
<1> QED BY <1>1, <1>2, <1>4, <1>6, <1>7, <1>8 DEF Reached, SkipOK

-----------------------------------------------------------------------------
(* The walk of malloc for a block of size s: every place of that size that *)
(* it has passed is taken, at least in part.                               *)

Taken(t, n) == \E m \in Nodes : IsLeaf(t, m) /\ Overlap(m, n)

MallocOK(t, w, s) ==
  /\ SkipOK(t, w)
  /\ s \in Sizes /\ s <= BlockSize(w.i) /\ s <= BlockSize(w.skip)
  /\ ~ IsLeaf(t, w.i)
  /\ \A n \in Nodes : BlockSize(n) = s /\ End(n) <= Reached(w) => Taken(t, n)

(* LeftDone and Exhausted, for a tree and a walk.                          *)
LeftOver(t, w) == IsLeaf(t, Left(w.i)) \/ Left(w.i) = w.skip
Over(t, w) == Right(w.i) = w.skip \/ (LeftOver(t, w) /\ IsLeaf(t, Right(w.i)))

LEMMA MallocStarts ==
  ASSUME NEW t, NEW s \in Sizes, TreeInv(t, Root)
  PROVE  MallocOK(t, Root, s)
<1>1. s <= BlockSize(0)
  BY RootIs DEF Sizes
<1>2. \A n \in Nodes : ~ (End(n) <= 0)
  BY IntervalIs
<1> QED BY <1>1, <1>2, RootWalk DEF MallocOK, TreeInv

(* A place passed with a larger interval was taken, if the interval is a   *)
(* leaf.                                                                   *)
LEMMA PassLeaf ==
  ASSUME NEW t, NEW n \in Nodes, NEW k \in Nodes, IsLeaf(t, k),
         End(n) <= End(k), ~ (End(n) <= Lo(k))
  PROVE  Taken(t, n)
<1>1. Overlap(k, n)
  BY IntervalIs DEF Overlap
<1> QED BY <1>1 DEF Taken

LEMMA MallocSkips ==
  ASSUME NEW t, NEW w, NEW s, TreeInv(t, w), MallocOK(t, w, s),
         2 * s <= HEAP_SIZE, BlockSize(w.i) = s, t[w.i] # NULL
  PROVE  w.i # 0 /\ TreeInv(t, Up(w)) /\ MallocOK(t, Up(w), s)
<1>1. IsWalk(w) /\ w.i \in Nodes /\ w.skip \in Nodes /\ HEAP_SIZE \in Nat /\ s \in Nat \ {0}
  BY WalkType, SizesType, IntervalIs DEF TreeInv
<1>2. w.i # 0
  BY <1>1, RootIs
<1>3. /\ IsWalk(Up(w)) /\ CameUp(Up(w)) /\ Reached(Up(w)) = End(w.i)
      /\ Up(w).i = Parent(w.i) /\ Up(w).skip = w.i
  BY <1>1, <1>2, UpIs
<1>4. t[w.i] = BRANCH_NODE /\ t[Parent(w.i)] = BRANCH_NODE
  BY <1>2 DEF MallocOK, IsLeaf, TreeInv, Rooted
<1>5. \A n \in Nodes : t[n] = BRANCH_NODE => HasChild(t, n)
  BY DEF TreeInv, BranchesOK
<1>6. TreeInv(t, Up(w))
  <2>1. Rooted(t, Up(w).i)
    BY <1>1, <1>2, <1>3, <1>4, ParentIs, HeapAssumption DEF TreeInv, TreeOK, Rooted
  <2> QED BY <1>3, <1>5, <2>1 DEF TreeInv, BranchesOK
<1>7. Reached(w) = Lo(w.i)
  BY <1>1, CameUpSize DEF MallocOK, Reached
<1>8. ASSUME NEW n \in Nodes, BlockSize(n) = s, End(n) <= End(w.i)
      PROVE  Taken(t, n)
  <2>1. CASE n = w.i
    <3>1. PICK m \in Nodes : IsLeaf(t, m) /\ Lo(n) <= Lo(m) /\ End(m) <= End(n)
      BY <1>5, <2>1, LeafBelow DEF TreeInv
    <3> QED BY <3>1, IntervalIs DEF Taken, Overlap
  <2>2. CASE n # w.i
    <3>1. End(n) <= Lo(w.i)
      BY <1>1, <1>8, <2>2, LevelDisjoint, IntervalIs DEF Overlap
    <3> QED BY <1>7, <1>8, <3>1 DEF MallocOK
  <2> QED BY <2>1, <2>2
<1>9. MallocOK(t, Up(w), s)
  <2>1. s <= BlockSize(Parent(w.i)) /\ s <= BlockSize(w.i)
    BY <1>1, <1>2, ParentSize, IntervalIs
  <2>2. SkipOK(t, Up(w))
    BY <1>3 DEF SkipOK
  <2> QED BY <1>3, <1>4, <1>8, <2>1, <2>2 DEF MallocOK, IsLeaf
<1> QED BY <1>2, <1>6, <1>9

(* The block found overlaps none.                                          *)
LEMMA MallocTakes ==
  ASSUME NEW t, NEW w, NEW s, TreeInv(t, w), MallocOK(t, w, s),
         2 * s <= HEAP_SIZE, BlockSize(w.i) = s, t[w.i] = NULL,
         NEW u, Placed(u, t, w.i)
  PROVE  /\ TreeInv(u, Root)
         /\ LeafBlocks(u) = LeafBlocks(t) \cup {[addr |-> Lo(w.i), size |-> s]}
         /\ \A m \in Nodes : IsLeaf(t, m) => ~ Overlap(m, w.i)
<1>1. w.i \in Nodes /\ HEAP_SIZE \in Nat /\ s \in Nat \ {0}
  BY WalkType, SizesType, IntervalIs DEF TreeInv
<1>2. w.i # 0
  BY <1>1, RootIs
<1>3. TreeOK(t) /\ Rooted(t, w.i)
  BY DEF TreeInv
<1>4. /\ TreeOK(u) /\ IsLeaf(u, w.i)
      /\ LeafBlocks(u) = LeafBlocks(t) \cup {[addr |-> Lo(w.i), size |-> s]}
  BY <1>1, <1>3, AddLeaf
<1>5. \A m \in Nodes : IsLeaf(t, m) => ~ Overlap(m, w.i)
  BY <1>1, <1>3, FreeIsClear
<1>6. \A n \in Nodes : n # w.i => u[n] = t[n]
  BY <1>3 DEF TreeOK, Placed
<1>7. ~ IsLeaf(u, 0)
  BY <1>2, <1>6, RootIs DEF TreeInv, IsLeaf
<1>8. \A n \in Nodes : t[n] # NULL => u[n] # NULL
  BY <1>4, <1>6 DEF IsLeaf
<1>9. ASSUME NEW n \in Nodes, u[n] = BRANCH_NODE PROVE HasChild(u, n)
  <2>1. t[n] = BRANCH_NODE
    BY <1>4, <1>6, <1>9 DEF IsLeaf
  <2>2. CASE HasChild(t, n)
    BY <1>8, <2>2 DEF HasChild
  <2>3. CASE n = Parent(w.i)
    BY <1>1, <1>2, <1>4, <2>3, ParentIs DEF HasChild, IsLeaf
  <2> QED BY <2>1, <2>2, <2>3 DEF TreeInv, BranchesOK
<1>10. TreeInv(u, Root)
  BY <1>4, <1>7, <1>9, RootWalk DEF TreeInv, BranchesOK
<1> QED BY <1>4, <1>5, <1>10

(* The node of a larger block becomes a branch.                            *)
LEMMA MallocBranches ==
  ASSUME NEW t, NEW w, NEW s, TreeInv(t, w), MallocOK(t, w, s), BlockSize(w.i) # s,
         NEW u, Branched(u, t, w.i)
  PROVE  /\ TreeOK(u) /\ ~ IsLeaf(u, 0) /\ LeafBlocks(u) = LeafBlocks(t)
         /\ \A n \in Nodes : IsLeaf(u, n) <=> IsLeaf(t, n)
         /\ \A n \in Nodes : Taken(u, n) <=> Taken(t, n)
         /\ \A n \in Nodes : t[n] # NULL => u[n] = t[n]
         /\ \A n \in Nodes : n # w.i => u[n] = t[n]
         /\ u[w.i] = BRANCH_NODE /\ Rooted(u, w.i)
         /\ \A n \in Nodes : u[n] = BRANCH_NODE =>
              HasChild(u, n) \/ (n = w.i /\ t[w.i] = NULL)
         /\ w.i \in Nodes /\ BlockSize(w.i) # 1 /\ 2 * s <= BlockSize(w.i)
<1>1. TreeOK(t) /\ w.i \in Nodes /\ Rooted(t, w.i) /\ ~ IsLeaf(t, w.i) /\ IsWalk(w)
  BY WalkType DEF TreeInv, MallocOK
<1>2. /\ TreeOK(u) /\ LeafBlocks(u) = LeafBlocks(t)
      /\ \A x \in Nodes : IsLeaf(u, x) <=> IsLeaf(t, x)
      /\ \A x \in Nodes : t[x] # NULL => u[x] = t[x]
      /\ \A x \in Nodes : x # w.i => u[x] = t[x]
      /\ u[w.i] = BRANCH_NODE
  BY <1>1, SetBranch
<1>3. \A n \in Nodes : Taken(u, n) <=> Taken(t, n)
  BY <1>2 DEF Taken
<1>4. ~ IsLeaf(u, 0)
  BY <1>2, RootIs DEF TreeInv
<1>5. Rooted(u, w.i)
  <2>1. CASE w.i # 0
    BY <1>1, <1>2, <2>1, ParentIs, HeapAssumption DEF Rooted
  <2> QED BY <2>1 DEF Rooted
<1>6. ASSUME NEW n \in Nodes, u[n] = BRANCH_NODE
      PROVE  HasChild(u, n) \/ (n = w.i /\ t[w.i] = NULL)
  <2>1. ASSUME HasChild(t, n) PROVE HasChild(u, n)
    BY <1>2, <2>1 DEF HasChild
  <2>2. CASE w.i # 0 /\ n = Parent(w.i)
    <3>1. w.i \in {Left(n), Right(n)} \cap Nodes /\ u[w.i] # NULL
      BY <1>1, <1>2, <2>2, ParentIs, HeapAssumption
    <3> QED BY <3>1 DEF HasChild
  <2>3. CASE ~ (w.i # 0 /\ n = Parent(w.i))
    <3>1. CASE t[n] = BRANCH_NODE
      BY <2>1, <2>3, <3>1 DEF TreeInv, BranchesOK
    <3>2. CASE t[n] # BRANCH_NODE
      <4>1. n = w.i /\ t[n] = NULL
        BY <1>1, <1>2, <1>6, <3>2 DEF IsLeaf
      <4> QED BY <4>1
    <3> QED BY <3>1, <3>2
  <2> QED BY <2>2, <2>3
<1>7. s < BlockSize(w.i) /\ s \in Nat \ {0} /\ BlockSize(w.i) \in Nat
  BY <1>1, SizesType, IntervalIs DEF MallocOK
<1>8. 2 * s <= BlockSize(w.i)
  BY <1>1, <1>7, SizeGap, BlockSizeIs DEF MallocOK
<1>9. BlockSize(w.i) # 1
  BY <1>7
<1> QED BY <1>1, <1>2, <1>3, <1>4, <1>5, <1>6, <1>8, <1>9

(* What was passed together with the left child.                           *)
LEMMA PassLeft ==
  ASSUME NEW t, NEW w, NEW s, IsWalk(w), MallocOK(t, w, s), BlockSize(w.i) # 1,
         LeftOver(t, w),
         NEW n \in Nodes, BlockSize(n) = s, End(n) <= End(Left(w.i))
  PROVE  Taken(t, n)
<1>1. /\ w.i \in Nodes /\ Left(w.i) \in Nodes /\ Lo(Left(w.i)) = Lo(w.i)
      /\ Lo(w.i) <= Reached(w) /\ Reached(w) \in Nat /\ Lo(w.i) \in Nat /\ End(n) \in Nat
  BY WalkType, ChildrenAre, ReachedType, IntervalIs
<1>2. CASE End(n) <= Reached(w)
  BY <1>2 DEF MallocOK
<1>3. CASE IsLeaf(t, Left(w.i)) /\ ~ (End(n) <= Reached(w))
  <2>1. ~ (End(n) <= Lo(Left(w.i)))
    BY <1>1, <1>3
  <2> QED BY <1>1, <1>3, <2>1, PassLeaf
<1>4. CASE Left(w.i) = w.skip /\ ~ (End(n) <= Reached(w))
  BY <1>4, CameUpIff DEF Reached
<1> QED BY <1>2, <1>3, <1>4 DEF LeftOver

LEMMA MallocDownStep ==
  ASSUME NEW t, NEW w, NEW s, TreeInv(t, w), MallocOK(t, w, s), BlockSize(w.i) # s,
         ~ Over(t, w),
         NEW u, Branched(u, t, w.i),
         NEW k, k = IF LeftOver(t, w) THEN Right(w.i) ELSE Left(w.i)
  PROVE  /\ TreeInv(u, Down(w, k)) /\ MallocOK(u, Down(w, k), s)
         /\ LeafBlocks(u) = LeafBlocks(t)
<1>1. /\ TreeOK(u) /\ ~ IsLeaf(u, 0) /\ LeafBlocks(u) = LeafBlocks(t)
      /\ \A n \in Nodes : IsLeaf(u, n) <=> IsLeaf(t, n)
      /\ \A n \in Nodes : Taken(u, n) <=> Taken(t, n)
      /\ \A n \in Nodes : n # w.i => u[n] = t[n]
      /\ u[w.i] = BRANCH_NODE
      /\ \A n \in Nodes : u[n] = BRANCH_NODE =>
           HasChild(u, n) \/ (n = w.i /\ t[w.i] = NULL)
      /\ w.i \in Nodes /\ BlockSize(w.i) # 1 /\ 2 * s <= BlockSize(w.i)
  BY MallocBranches
<1>2. IsWalk(w) /\ SkipOK(t, w) /\ TreeOK(t) /\ (k = Left(w.i) \/ k = Right(w.i))
  BY DEF TreeInv, MallocOK
<1>3. /\ IsWalk(Down(w, k)) /\ Reached(Down(w, k)) = Lo(k)
      /\ Down(w, k).i = k /\ Down(w, k).skip = w.skip
      /\ k \in Nodes /\ Parent(k) = w.i /\ k # 0
      /\ SkipOK(u, Down(w, k))
  BY <1>1, <1>2, DownIs
<1>4. /\ BlockSize(w.i) = 2 * BlockSize(k) /\ Lo(Left(w.i)) = Lo(w.i)
      /\ Lo(Right(w.i)) = End(Left(w.i))
      /\ Lo(w.i) <= Reached(w) /\ Reached(w) \in Nat
      /\ BlockSize(k) \in Nat /\ s \in Nat /\ w.i # k
  <2>1. w.i < Left(w.i) /\ w.i < Right(w.i) /\ w.i \in Nat
    BY <1>1, ChildrenAre, NodesType
  <2>2. w.i # k
    BY <1>2, <2>1
  <2> QED BY <1>1, <1>2, <1>3, <2>2, ChildrenAre, ReachedType, IntervalIs, SizesType DEF MallocOK
<1>5. ~ IsLeaf(u, k)
  BY <1>1, <1>3 DEF Over, LeftOver
<1>6. ASSUME NEW n \in Nodes, BlockSize(n) = s, End(n) <= Lo(k)
      PROVE  Taken(u, n)
  <2>1. CASE LeftOver(t, w)
    <3>1. End(n) <= End(Left(w.i))
      BY <1>4, <1>6, <2>1
    <3> QED BY <1>1, <1>2, <1>6, <2>1, <3>1, PassLeft
  <2>2. CASE ~ LeftOver(t, w)
    <3>1. End(n) <= Reached(w)
      <4>1. End(n) <= Lo(w.i) /\ End(n) \in Nat /\ Lo(w.i) \in Nat
        BY <1>1, <1>4, <1>6, <2>2, IntervalIs
      <4> QED BY <1>4, <4>1
    <3> QED BY <1>1, <1>6, <3>1 DEF MallocOK
  <2> QED BY <2>1, <2>2
<1>7. MallocOK(u, Down(w, k), s)
  <2>1. s <= BlockSize(k)
    BY <1>1, <1>4
  <2> QED BY <1>3, <1>5, <1>6, <2>1 DEF MallocOK
<1>8. t[w.i] = NULL => u[k] = NULL
  BY <1>1, <1>2, <1>3, <1>4, HeapAssumption DEF TreeOK
<1>9. TreeInv(u, Down(w, k))
  <2>1. Rooted(u, k)
    BY <1>1, <1>3 DEF Rooted
  <2>2. BranchesOK(u, Down(w, k))
    BY <1>1, <1>3, <1>8 DEF BranchesOK
  <2> QED BY <1>1, <1>3, <2>1, <2>2 DEF TreeInv
<1> QED BY <1>1, <1>7, <1>9

(* When both children have been passed, the node was a branch before.      *)
LEMMA MallocPassed ==
  ASSUME NEW t, NEW w, NEW s, TreeInv(t, w), MallocOK(t, w, s), BlockSize(w.i) # s,
         Over(t, w),
         NEW u, Branched(u, t, w.i)
  PROVE  /\ u = t /\ t[w.i] = BRANCH_NODE
         /\ \A n \in Nodes : t[n] = BRANCH_NODE => HasChild(t, n)
         /\ \A n \in Nodes : BlockSize(n) = s /\ End(n) <= End(w.i) => Taken(t, n)
<1>1. /\ w.i \in Nodes /\ BlockSize(w.i) # 1
      /\ IsWalk(w) /\ TreeOK(t) /\ SkipOK(t, w)
  BY MallocBranches DEF TreeInv, MallocOK
<1>2. /\ Right(w.i) \in Nodes /\ Right(w.i) # 0 /\ Parent(Right(w.i)) = w.i
      /\ End(Right(w.i)) = End(w.i) /\ Lo(Right(w.i)) = End(Left(w.i))
      /\ Left(w.i) \in Nodes
  <2>1. w.i \in Nat
    BY <1>1, NodesType
  <2>2. Right(w.i) # 0
    BY <2>1 DEF Right
  <2> QED BY <1>1, <2>1, <2>2, ChildrenAre, ChildParent
<1>3. t[Right(w.i)] # NULL
  <2>1. CASE Right(w.i) = w.skip
    BY <1>1, <2>1, CameUpIff, CameUpSize DEF SkipOK
  <2>2. CASE IsLeaf(t, Right(w.i))
    BY <2>2 DEF IsLeaf
  <2> QED BY <2>1, <2>2 DEF Over
<1>4. t[w.i] = BRANCH_NODE
  BY <1>2, <1>3, <1>1 DEF TreeOK
<1>5. u = t
  BY <1>1, <1>4 DEF TreeOK, Branched
<1>6. \A n \in Nodes : t[n] = BRANCH_NODE => HasChild(t, n)
  BY <1>4, HeapAssumption DEF TreeInv, BranchesOK
<1>7. ASSUME NEW n \in Nodes, BlockSize(n) = s, End(n) <= End(w.i)
      PROVE  Taken(t, n)
  <2>1. CASE Right(w.i) = w.skip
    <3>1. Reached(w) = End(w.i)
      BY <1>1, <1>2, <2>1, CameUpIff DEF Reached
    <3> QED BY <1>7, <3>1 DEF MallocOK
  <2>2. CASE LeftOver(t, w) /\ IsLeaf(t, Right(w.i))
    <3>1. CASE End(n) <= End(Left(w.i))
      BY <1>1, <1>7, <2>2, <3>1, PassLeft
    <3>2. CASE ~ (End(n) <= End(Left(w.i)))
      BY <1>2, <1>7, <2>2, <3>2, PassLeaf
    <3> QED BY <3>1, <3>2
  <2> QED BY <2>1, <2>2 DEF Over
<1> QED BY <1>4, <1>5, <1>6, <1>7

LEMMA MallocUpStep ==
  ASSUME NEW t, NEW w, NEW s, TreeInv(t, w), MallocOK(t, w, s), BlockSize(w.i) # s,
         Over(t, w), w.i # 0,
         NEW u, Branched(u, t, w.i)
  PROVE  u = t /\ TreeInv(u, Up(w)) /\ MallocOK(u, Up(w), s)
<1>1. /\ u = t /\ t[w.i] = BRANCH_NODE
      /\ \A n \in Nodes : t[n] = BRANCH_NODE => HasChild(t, n)
      /\ \A n \in Nodes : BlockSize(n) = s /\ End(n) <= End(w.i) => Taken(t, n)
  BY MallocPassed
<1>2. IsWalk(w) /\ w.i \in Nodes /\ TreeOK(t) /\ w.i # 0
  BY WalkType DEF TreeInv
<1>3. /\ IsWalk(Up(w)) /\ CameUp(Up(w)) /\ Reached(Up(w)) = End(w.i)
      /\ Up(w).i = Parent(w.i) /\ Up(w).skip = w.i
  BY <1>2, UpIs
<1>4. t[Parent(w.i)] = BRANCH_NODE /\ Parent(w.i) \in Nodes
  BY <1>2, <1>1, ParentIs, HeapAssumption DEF TreeOK
<1>5. Rooted(t, Parent(w.i))
  BY <1>2, <1>4, HeapAssumption DEF TreeOK, Rooted
<1>6. TreeInv(t, Up(w))
  BY <1>1, <1>3, <1>5 DEF TreeInv, BranchesOK
<1>7. MallocOK(t, Up(w), s)
  <2>1. s <= BlockSize(w.i) /\ s \in Sizes /\ s \in Nat
    BY SizesType DEF MallocOK
  <2>2. s <= BlockSize(Parent(w.i))
    BY <1>2, <2>1, ParentSize, IntervalIs
  <2>3. SkipOK(t, Up(w))
    BY <1>1, <1>3, HeapAssumption DEF SkipOK
  <2> QED BY <1>1, <1>3, <1>4, <2>1, <2>2, <2>3 DEF MallocOK, IsLeaf
<1> QED BY <1>1, <1>6, <1>7

(* malloc fails if every place of the size overlaps a leaf.                *)
LEMMA MallocFailStep ==
  ASSUME NEW t, NEW w, NEW s, TreeInv(t, w), MallocOK(t, w, s), BlockSize(w.i) # s,
         Over(t, w), w.i = 0,
         NEW u, Branched(u, t, w.i)
  PROVE  /\ u = t /\ TreeInv(u, Root)
         /\ \A n \in Nodes : BlockSize(n) = s => Taken(t, n)
<1>1. /\ u = t
      /\ \A n \in Nodes : t[n] = BRANCH_NODE => HasChild(t, n)
      /\ \A n \in Nodes : BlockSize(n) = s /\ End(n) <= End(w.i) => Taken(t, n)
  BY MallocPassed
<1>2. \A n \in Nodes : End(n) <= End(0)
  BY RootIs, IntervalIs
<1>3. TreeInv(t, Root)
  BY <1>1, RootWalk DEF TreeInv, BranchesOK
<1> QED BY <1>1, <1>2, <1>3

-----------------------------------------------------------------------------
(* The walks of find_ptr and heap_stats, which do not change the tree.     *)

LEMMA QuietTree ==
  ASSUME NEW t, NEW w, TreeInv(t, w), w.i # 0 => t[w.i] # NULL
  PROVE  /\ \A n \in Nodes : t[n] = BRANCH_NODE => HasChild(t, n)
         /\ TreeInv(t, Root)
BY RootWalk DEF TreeInv, BranchesOK

LEMMA UpInv ==
  ASSUME NEW t, NEW w, TreeInv(t, w), w.i # 0, t[w.i] # NULL
  PROVE  /\ TreeInv(t, Up(w)) /\ SkipOK(t, Up(w))
         /\ Parent(w.i) \in Nodes /\ t[Parent(w.i)] = BRANCH_NODE
         /\ Up(w).i = Parent(w.i)
<1>1. IsWalk(w) /\ w.i \in Nodes /\ TreeOK(t)
  BY WalkType DEF TreeInv
<1>2. IsWalk(Up(w)) /\ CameUp(Up(w)) /\ Up(w).i = Parent(w.i) /\ Up(w).skip = w.i
  BY <1>1, UpIs
<1>3. t[Parent(w.i)] = BRANCH_NODE /\ Parent(w.i) \in Nodes
  BY <1>1, ParentIs DEF TreeOK
<1>4. Rooted(t, Parent(w.i))
  BY <1>1, <1>3, HeapAssumption DEF TreeOK, Rooted
<1>5. \A n \in Nodes : t[n] = BRANCH_NODE => HasChild(t, n)
  BY QuietTree
<1> QED BY <1>2, <1>3, <1>4, <1>5 DEF TreeInv, BranchesOK, SkipOK

LEMMA DownInv ==
  ASSUME NEW t, NEW w, TreeInv(t, w), SkipOK(t, w), w.i # 0 => t[w.i] # NULL,
         NEW k \in Nodes, k = Left(w.i) \/ k = Right(w.i), t[k] # NULL
  PROVE  /\ TreeInv(t, Down(w, k)) /\ SkipOK(t, Down(w, k))
         /\ Down(w, k).i = k /\ Down(w, k).used = w.used
         /\ Reached(Down(w, k)) = Lo(k)
         /\ t[w.i] = BRANCH_NODE
<1>1. IsWalk(w) /\ w.i \in Nodes /\ TreeOK(t)
  BY WalkType DEF TreeInv
<1>2. BlockSize(w.i) # 1
  BY <1>1, HasChildren
<1>3. /\ IsWalk(Down(w, k)) /\ Reached(Down(w, k)) = Lo(k)
      /\ Down(w, k).i = k /\ Down(w, k).used = w.used
      /\ Parent(k) = w.i /\ k # 0
      /\ SkipOK(t, Down(w, k))
  BY <1>1, <1>2, DownIs
<1>4. t[w.i] = BRANCH_NODE
  BY <1>1, <1>3 DEF TreeOK
<1>5. \A n \in Nodes : t[n] = BRANCH_NODE => HasChild(t, n)
  BY QuietTree
<1>6. Rooted(t, k)
  BY <1>3, <1>4 DEF Rooted
<1> QED BY <1>3, <1>4, <1>5, <1>6 DEF TreeInv, BranchesOK

LEMMA LeafAlone ==
  ASSUME NEW t, TreeOK(t), NEW n \in Nodes, t[n] # BRANCH_NODE
  PROVE  ~ HasChild(t, n)
<1>1. ASSUME NEW k \in Nodes, k = Left(n) \/ k = Right(n), t[k] # NULL PROVE FALSE
  <2>1. n \in Nat
    BY NodesType
  <2>2. Parent(k) = n /\ k # 0
    BY <1>1, <2>1, ChildParent DEF Left, Right
  <2> QED BY <1>1, <2>2 DEF TreeOK
<1> QED BY <1>1 DEF HasChild

-----------------------------------------------------------------------------
(* find_ptr: the block it looks for is not below Reached.                    *)

FindOK(t, w, b) ==
  /\ SkipOK(t, w)
  /\ w.i # 0 => t[w.i] # NULL
  /\ b # NoBlock => b.addr >= Reached(w)

(* LeftInvalid and NoChild, for a tree and a walk.                         *)
LeftOut(t, w) ==
  Left(w.i) < HEAP_TREE_NODE_CNT => t[Left(w.i)] = NULL \/ Left(w.i) = w.skip
RightOut(t, w) == Right(w.i) <= HEAP_TREE_NODE_CNT => t[Right(w.i)] = NULL
NoneLeft(t, w) == Right(w.i) = w.skip \/ (LeftOut(t, w) /\ RightOut(t, w))

LEMMA OutIs ==
  ASSUME NEW t, NEW w, IsWalk(w)
  PROVE  /\ LeftOut(t, w) <=>
              (Left(w.i) \in Nodes => t[Left(w.i)] = NULL \/ Left(w.i) = w.skip)
         /\ RightOut(t, w) <=> (Right(w.i) \in Nodes => t[Right(w.i)] = NULL)
<1>1. w.i \in Nat /\ HEAP_SIZE \in Nat
  BY WalkType, NodesType, SizesType
<1>2. /\ Left(w.i) < HEAP_TREE_NODE_CNT <=> Left(w.i) \in Nodes
      /\ Right(w.i) <= HEAP_TREE_NODE_CNT <=> Right(w.i) \in Nodes
  BY <1>1 DEF Nodes, HEAP_TREE_NODE_CNT, Left, Right
<1> QED BY <1>2 DEF LeftOut, RightOut

LEMMA FindStarts ==
  ASSUME NEW t, NEW b, b # NoBlock => b.addr \in Nat
  PROVE  FindOK(t, Root, b)
BY RootWalk DEF FindOK

LEMMA BlockHasNode ==
  ASSUME NEW t, TreeOK(t), NEW b \in LeafBlocks(t)
  PROVE  \E m \in Nodes : /\ IsLeaf(t, m) /\ b = BlockIn(t, m)
                          /\ b.addr = t[m] /\ b.addr = Lo(m) /\ b.size = BlockSize(m)
BY DEF LeafBlocks, BlockIn, TreeOK

(* A node that does not hold the block is passed by it, if it is free or a *)
(* leaf.                                                                   *)
LEMMA BlockBeyond ==
  ASSUME NEW t, TreeOK(t), NEW b \in LeafBlocks(t), NEW k \in Nodes, Rooted(t, k),
         t[k] # BRANCH_NODE, t[k] # b.addr, b.addr >= Lo(k)
  PROVE  b.addr >= End(k)
<1>1. PICK m \in Nodes : IsLeaf(t, m) /\ b.addr = t[m] /\ b.addr = Lo(m)
  BY BlockHasNode
<1>2. m # k
  BY <1>1
<1>3. ~ Overlap(m, k)
  BY <1>1, <1>2, LeavesDisjoint, FreeIsClear DEF IsLeaf
<1> QED BY <1>1, <1>3, IntervalIs DEF Overlap

(* What was passed together with the left child.                           *)
LEMMA FindLeft ==
  ASSUME NEW t, NEW w, NEW b, TreeInv(t, w), FindOK(t, w, b), b \in LeafBlocks(t),
         b # NoBlock, t[w.i] = BRANCH_NODE, BlockSize(w.i) # 1, LeftOut(t, w)
  PROVE  b.addr >= End(Left(w.i))
<1>1. /\ IsWalk(w) /\ w.i \in Nodes /\ TreeOK(t) /\ Left(w.i) \in Nodes
      /\ Lo(Left(w.i)) = Lo(w.i) /\ Lo(w.i) <= Reached(w) /\ Reached(w) \in Nat
      /\ Lo(w.i) \in Nat
  BY WalkType, ChildrenAre, ReachedType, IntervalIs DEF TreeInv
<1>2. b.addr \in Nat /\ b.addr # NULL
  BY <1>1, BlockHasNode, IntervalIs DEF IsLeaf
<1>3. CASE Left(w.i) = w.skip
  BY <1>1, <1>3, CameUpIff DEF FindOK, Reached
<1>4. CASE t[Left(w.i)] = NULL
  <2>1. Rooted(t, Left(w.i))
    BY <1>1, ChildParent, NodesType DEF Rooted
  <2>2. b.addr >= Lo(Left(w.i))
    BY <1>1, <1>2 DEF FindOK
  <2> QED BY <1>1, <1>2, <1>4, <2>1, <2>2, BlockBeyond, HeapAssumption
<1> QED BY <1>1, <1>3, <1>4, OutIs

LEMMA FindDownStep ==
  ASSUME NEW t, NEW w, NEW b, TreeInv(t, w), FindOK(t, w, b),
         b # NoBlock => b \in LeafBlocks(t),
         ~ NoneLeft(t, w),
         NEW k, k = IF LeftOut(t, w) THEN Right(w.i) ELSE Left(w.i)
  PROVE  TreeInv(t, Down(w, k)) /\ FindOK(t, Down(w, k), b)
<1>1. IsWalk(w) /\ w.i \in Nodes /\ TreeOK(t) /\ SkipOK(t, w)
  BY WalkType DEF TreeInv, FindOK
<1>2. k \in Nodes /\ (k = Left(w.i) \/ k = Right(w.i)) /\ t[k] # NULL
  BY <1>1, OutIs DEF NoneLeft
<1>3. /\ TreeInv(t, Down(w, k)) /\ SkipOK(t, Down(w, k))
      /\ Down(w, k).i = k /\ Reached(Down(w, k)) = Lo(k) /\ t[w.i] = BRANCH_NODE
  BY <1>1, <1>2, DownInv DEF FindOK
<1>4. BlockSize(w.i) # 1
  BY <1>1, <1>2, HasChildren
<1>5. ASSUME b # NoBlock PROVE b.addr >= Lo(k)
  <2>1. b.addr \in Nat /\ b.addr >= Reached(w)
    BY <1>1, <1>5, BlockHasNode, IntervalIs DEF FindOK
  <2>2. CASE LeftOut(t, w)
    <3>1. b.addr >= End(Left(w.i))
      BY <1>3, <1>4, <1>5, <2>2, FindLeft
    <3> QED BY <1>1, <1>4, <2>2, <3>1, ChildrenAre
  <2>3. CASE ~ LeftOut(t, w)
    <3>1. Lo(k) = Lo(w.i)
      BY <1>1, <1>4, <2>3, ChildrenAre
    <3> QED BY <1>1, <2>1, <3>1, ReachedType, IntervalIs
  <2> QED BY <2>2, <2>3
<1> QED BY <1>2, <1>3, <1>5 DEF FindOK

(* When both children have been passed, the node is.                       *)
LEMMA FindPassed ==
  ASSUME NEW t, NEW w, NEW b, TreeInv(t, w), FindOK(t, w, b), b \in LeafBlocks(t),
         b # NoBlock, NoneLeft(t, w), t[w.i] # b.addr
  PROVE  b.addr >= End(w.i)
<1>1. /\ IsWalk(w) /\ w.i \in Nodes /\ TreeOK(t) /\ Rooted(t, w.i)
      /\ Lo(w.i) <= Reached(w) /\ Reached(w) \in Nat /\ Lo(w.i) \in Nat
  BY WalkType, ReachedType, IntervalIs DEF TreeInv
<1>2. b.addr \in Nat /\ b.addr >= Reached(w) /\ b.addr # NULL
  BY <1>1, BlockHasNode, IntervalIs DEF FindOK, IsLeaf
<1>3. CASE t[w.i] # BRANCH_NODE
  <2>1. b.addr >= Lo(w.i)
    BY <1>1, <1>2
  <2> QED BY <1>1, <1>3, <2>1, BlockBeyond
<1>4. CASE t[w.i] = BRANCH_NODE
  <2>1. HasChild(t, w.i)
    BY <1>1, <1>4, QuietTree DEF FindOK
  <2>2. BlockSize(w.i) # 1
    BY <1>1, <2>1, HasChildren DEF HasChild
  <2>3. /\ Right(w.i) \in Nodes /\ End(Right(w.i)) = End(w.i)
        /\ Lo(Right(w.i)) = End(Left(w.i))
    BY <1>1, <2>2, ChildrenAre
  <2>4. CASE Right(w.i) = w.skip
    BY <1>1, <1>2, <2>3, <2>4, CameUpIff DEF Reached
  <2>5. CASE LeftOut(t, w) /\ RightOut(t, w)
    <3>1. b.addr >= Lo(Right(w.i))
      BY <1>4, <2>2, <2>3, <2>5, FindLeft
    <3>2. t[Right(w.i)] = NULL
      BY <1>1, <2>3, <2>5, OutIs
    <3>3. Rooted(t, Right(w.i))
      BY <1>1, <1>4, ChildParent, NodesType DEF Rooted
    <3> QED BY <1>1, <1>2, <2>3, <3>1, <3>2, <3>3, BlockBeyond, HeapAssumption
  <2> QED BY <2>4, <2>5 DEF NoneLeft
<1> QED BY <1>3, <1>4

LEMMA FindUpStep ==
  ASSUME NEW t, NEW w, NEW b, TreeInv(t, w), FindOK(t, w, b),
         b # NoBlock => b \in LeafBlocks(t),
         NoneLeft(t, w), t[w.i] # b.addr, w.i # 0
  PROVE  TreeInv(t, Up(w)) /\ FindOK(t, Up(w), b)
<1>1. IsWalk(w) /\ t[w.i] # NULL
  BY DEF TreeInv, FindOK
<1>2. /\ TreeInv(t, Up(w)) /\ SkipOK(t, Up(w))
      /\ t[Parent(w.i)] = BRANCH_NODE /\ Up(w).i = Parent(w.i)
  BY <1>1, UpInv
<1>3. Reached(Up(w)) = End(w.i)
  BY <1>1, UpIs
<1>4. b # NoBlock => b.addr >= End(w.i)
  BY FindPassed
<1> QED BY <1>2, <1>3, <1>4, HeapAssumption DEF FindOK

(* find_ptr does not fail to find a block.                                 *)
LEMMA FindSucceeds ==
  ASSUME NEW t, NEW w, NEW b, TreeInv(t, w), FindOK(t, w, b), b \in LeafBlocks(t),
         b # NoBlock, w.i = 0
  PROVE  ~ NoneLeft(t, w) /\ t[0] # b.addr
<1>1. PICK m \in Nodes : IsLeaf(t, m) /\ b.addr = t[m] /\ b.addr = Lo(m)
  BY BlockHasNode DEF TreeInv
<1>2. t[0] # b.addr
  BY <1>1 DEF TreeInv, IsLeaf
<1>3. ~ (b.addr >= End(0))
  BY <1>1, RootIs, IntervalIs
<1> QED BY <1>2, <1>3, FindPassed

-----------------------------------------------------------------------------
(* free: the node found becomes free, then the branches above it.          *)

(* SetFree, as a relation.                                                 *)
Freed(u, t, n) == u = [t EXCEPT ![n] = NULL]

LEMMA FreeStep ==
  ASSUME NEW t, NEW w, TreeInv(t, w), NEW n \in Nodes, ~ HasChild(t, n),
         NEW u, Freed(u, t, n)
  PROVE  /\ TreeOK(u) /\ u[n] = NULL /\ ~ IsLeaf(u, 0)
         /\ \A x \in Nodes : x # n => u[x] = t[x]
         /\ IsLeaf(t, n) => LeafBlocks(u) = LeafBlocks(t) \ {BlockIn(t, n)}
         /\ ~ IsLeaf(t, n) => LeafBlocks(u) = LeafBlocks(t)
         /\ \A x \in Nodes : u[x] = BRANCH_NODE /\ HasChild(t, x) =>
              HasChild(u, x) \/ (n # 0 /\ x = Parent(n))
<1>1. TreeOK(t) /\ ~ IsLeaf(t, 0)
  BY DEF TreeInv
<1>2. /\ TreeOK(u) /\ u[n] = NULL
      /\ \A x \in Nodes : x # n => u[x] = t[x]
      /\ \A x \in Nodes : IsLeaf(u, x) <=> x # n /\ IsLeaf(t, x)
  BY <1>1, SetFree DEF Freed
<1>3. LeafBlocks(u) = LeafBlocks(t) \ (IF IsLeaf(t, n) THEN {BlockIn(t, n)} ELSE {})
  BY <1>1, <1>2, BlocksLeft
<1>4. /\ IsLeaf(t, n) => LeafBlocks(u) = LeafBlocks(t) \ {BlockIn(t, n)}
      /\ ~ IsLeaf(t, n) => LeafBlocks(u) = LeafBlocks(t)
  BY <1>3
<1>5. ASSUME NEW x \in Nodes, HasChild(t, x)
      PROVE  HasChild(u, x) \/ (n # 0 /\ x = Parent(n))
  <2>1. PICK k \in {Left(x), Right(x)} \cap Nodes : t[k] # NULL
    BY <1>5 DEF HasChild
  <2>2. CASE k # n
    BY <1>2, <2>1, <2>2 DEF HasChild
  <2>3. CASE k = n
    <3>1. x \in Nat
      BY NodesType
    <3>2. Parent(k) = x /\ k # 0
      BY <2>1, <3>1, ChildParent DEF Left, Right
    <3> QED BY <2>3, <3>2
  <2> QED BY <2>2, <2>3
<1> QED BY <1>1, <1>2, <1>4, <1>5, RootIs

LEMMA FreeFoundStep ==
  ASSUME NEW t, NEW w, NEW b, TreeInv(t, w), FindOK(t, w, b),
         b = NoBlock \/ b \in LeafBlocks(t),
         w.i # 0, t[w.i] = b.addr,
         NEW u, Freed(u, t, w.i)
  PROVE  /\ b # NoBlock /\ b \in LeafBlocks(t)
         /\ TreeInv(u, w) /\ u[w.i] = NULL
         /\ LeafBlocks(u) = LeafBlocks(t) \ {b}
<1>1. IsWalk(w) /\ w.i \in Nodes /\ TreeOK(t) /\ Rooted(t, w.i) /\ t[w.i] # NULL
  BY WalkType DEF TreeInv, FindOK
<1>2. b # NoBlock /\ b \in LeafBlocks(t)
  BY <1>1 DEF NoBlock
<1>3. PICK m \in Nodes : IsLeaf(t, m) /\ b = BlockIn(t, m) /\ b.addr = t[m]
  BY <1>1, <1>2, BlockHasNode
<1>4. IsLeaf(t, w.i) /\ b = BlockIn(t, w.i)
  <2>1. IsLeaf(t, w.i)
    BY <1>3 DEF IsLeaf
  <2>2. m = w.i
    BY <1>1, <1>3, <2>1, SameAddress
  <2> QED BY <1>3, <2>1, <2>2
<1>5. ~ HasChild(t, w.i)
  BY <1>1, <1>4, LeafAlone DEF IsLeaf
<1>6. /\ TreeOK(u) /\ u[w.i] = NULL /\ ~ IsLeaf(u, 0)
      /\ \A x \in Nodes : x # w.i => u[x] = t[x]
      /\ LeafBlocks(u) = LeafBlocks(t) \ {b}
      /\ \A x \in Nodes : u[x] = BRANCH_NODE /\ HasChild(t, x) =>
           HasChild(u, x) \/ (w.i # 0 /\ x = Parent(w.i))
  BY <1>1, <1>4, <1>5, FreeStep
<1>7. Rooted(u, w.i)
  BY <1>1, <1>6, ParentIs, NodesType DEF Rooted
<1>8. \A x \in Nodes : t[x] = BRANCH_NODE => HasChild(t, x)
  BY <1>1, QuietTree
<1>9. BranchesOK(u, w)
  BY <1>6, <1>8, HeapAssumption DEF BranchesOK
<1> QED BY <1>1, <1>2, <1>6, <1>7, <1>9 DEF TreeInv

(* BothChildrenFree, for a tree and a node.                                *)
BothFree(t, n) == t[Left(n)] = NULL /\ t[Right(n)] = NULL

LEMMA CoalesceStep ==
  ASSUME NEW t, NEW w, TreeInv(t, w), t[w.i] = NULL, w.i # 0, BothFree(t, Parent(w.i)),
         NEW u, Freed(u, t, Parent(w.i))
  PROVE  /\ TreeInv(u, Up(w)) /\ u[Up(w).i] = NULL
         /\ LeafBlocks(u) = LeafBlocks(t)
<1> DEFINE p == Parent(w.i)
<1>1. IsWalk(w) /\ w.i \in Nodes /\ TreeOK(t) /\ p \in Nodes /\ t[p] = BRANCH_NODE
  BY WalkType, ParentIs DEF TreeInv, Rooted
<1>2. IsWalk(Up(w)) /\ Up(w).i = p
  BY <1>1, UpIs
<1>3. ~ HasChild(t, p) /\ ~ IsLeaf(t, p)
  BY <1>1 DEF HasChild, BothFree, IsLeaf
<1>4. /\ TreeOK(u) /\ u[p] = NULL /\ ~ IsLeaf(u, 0)
      /\ \A x \in Nodes : x # p => u[x] = t[x]
      /\ LeafBlocks(u) = LeafBlocks(t)
      /\ \A x \in Nodes : u[x] = BRANCH_NODE /\ HasChild(t, x) =>
           HasChild(u, x) \/ (p # 0 /\ x = Parent(p))
  <2>1. Freed(u, t, p)
    OBVIOUS
  <2> HIDE DEF p
  <2>2. /\ TreeOK(u) /\ u[p] = NULL /\ ~ IsLeaf(u, 0)
        /\ \A x \in Nodes : x # p => u[x] = t[x]
        /\ LeafBlocks(u) = LeafBlocks(t)
        /\ \A x \in Nodes : u[x] = BRANCH_NODE /\ HasChild(t, x) =>
             HasChild(u, x) \/ (p # 0 /\ x = Parent(p))
    BY <1>1, <1>3, <2>1, FreeStep
  <2> QED BY <2>2
<1>5. Rooted(u, p)
  <2>1. ASSUME p # 0 PROVE u[Parent(p)] = BRANCH_NODE
    <3>1. t[Parent(p)] = BRANCH_NODE /\ Parent(p) # p /\ Parent(p) \in Nodes
      BY <1>1, <2>1, ParentIs, NodesType, HeapAssumption DEF TreeOK
    <3> QED BY <1>4, <3>1
  <2> QED BY <2>1 DEF Rooted
<1>6. BranchesOK(u, Up(w))
  <2>1. SUFFICES ASSUME NEW x \in Nodes, u[x] = BRANCH_NODE
                 PROVE  HasChild(u, x) \/ (p # 0 /\ x = Parent(p))
    BY <1>2, <1>4 DEF BranchesOK
  <2>2. x # p /\ t[x] = BRANCH_NODE
    BY <1>4, <2>1, HeapAssumption
  <2>3. HasChild(t, x)
    BY <2>2 DEF TreeInv, BranchesOK
  <2> QED BY <1>4, <2>1, <2>3
<1> QED BY <1>2, <1>4, <1>5, <1>6 DEF TreeInv

LEMMA FreeEndStep ==
  ASSUME NEW t, NEW w, TreeInv(t, w), w.i = 0 \/ ~ BothFree(t, Parent(w.i))
  PROVE  TreeInv(t, Root)
<1>1. IsWalk(w) /\ w.i \in Nodes
  BY WalkType DEF TreeInv
<1>2. ASSUME w.i # 0 PROVE HasChild(t, Parent(w.i))
  <2>1. Left(Parent(w.i)) \in Nodes /\ Right(Parent(w.i)) \in Nodes
    BY <1>1, <1>2, ParentSize, ChildrenAre
  <2> QED BY <1>2, <2>1 DEF BothFree, HasChild
<1>3. \A n \in Nodes : t[n] = BRANCH_NODE => HasChild(t, n)
  BY <1>2 DEF TreeInv, BranchesOK
<1> QED BY <1>3, RootWalk DEF TreeInv, BranchesOK

-----------------------------------------------------------------------------
(* heap_stats: used counts the occupied units below Reached.                 *)

Occupied(t) ==
  {x \in Addresses : \E m \in Nodes : IsLeaf(t, m) /\ Lo(m) <= x /\ x < End(m)}

CountTo(t, x) == Cardinality({y \in Occupied(t) : y < x})

StatsOK(t, w) ==
  /\ SkipOK(t, w)
  /\ w.i # 0 => t[w.i] # NULL
  /\ w.used = CountTo(t, Reached(w))

LEMMA CountType ==
  ASSUME NEW t, NEW x \in Nat
  PROVE  /\ CountTo(t, x) \in 0 .. HEAP_SIZE
         /\ IsFiniteSet({y \in Occupied(t) : y < x})
<1> DEFINE S == {y \in Occupied(t) : y < x}
<1>1. S \in SUBSET (0 .. HEAP_SIZE - 1)
  BY DEF Occupied, Addresses
<1>2. IsFiniteSet(0 .. HEAP_SIZE - 1) /\ Cardinality(0 .. HEAP_SIZE - 1) = HEAP_SIZE
  BY SizesType, FS_Interval
<1> HIDE DEF S
<1>3. IsFiniteSet(S) /\ Cardinality(S) <= HEAP_SIZE
  BY <1>1, <1>2, FS_Subset
<1>4. Cardinality(S) \in Nat
  BY <1>3, FS_CardinalityType
<1> QED BY <1>3, <1>4, SizesType DEF S, CountTo

LEMMA CountZero ==
  ASSUME NEW t
  PROVE  CountTo(t, 0) = 0
<1>1. {y \in Occupied(t) : y < 0} = {}
  BY DEF Occupied, Addresses
<1> QED BY <1>1, FS_EmptySet DEF CountTo

(* A free node adds nothing to the count, a leaf its size.                 *)
LEMMA CountFree ==
  ASSUME NEW t, TreeOK(t), NEW k \in Nodes, t[k] = NULL, Rooted(t, k)
  PROVE  CountTo(t, End(k)) = CountTo(t, Lo(k))
<1>1. Lo(k) \in Nat /\ End(k) \in Nat /\ Lo(k) < End(k)
  BY IntervalIs
<1>2. ASSUME NEW y \in Occupied(t), y < End(k) PROVE y < Lo(k)
  <2>1. PICK m \in Nodes : IsLeaf(t, m) /\ Lo(m) <= y /\ y < End(m) /\ y \in Addresses
    BY <1>2 DEF Occupied
  <2>2. ~ Overlap(m, k)
    BY <2>1, FreeIsClear
  <2>3. y \in Nat /\ Lo(m) \in Nat /\ End(m) \in Nat
    BY <2>1, IntervalIs DEF Addresses
  <2> QED BY <1>1, <1>2, <2>1, <2>2, <2>3 DEF Overlap
<1>3. \A y \in Occupied(t) : y \in Nat
  BY DEF Occupied, Addresses
<1>4. {y \in Occupied(t) : y < End(k)} = {y \in Occupied(t) : y < Lo(k)}
  BY <1>1, <1>2, <1>3
<1> QED BY <1>4 DEF CountTo

LEMMA CountLeaf ==
  ASSUME NEW t, TreeOK(t), NEW k \in Nodes, IsLeaf(t, k)
  PROVE  CountTo(t, End(k)) = CountTo(t, Lo(k)) + BlockSize(k)
<1> DEFINE A == {y \in Occupied(t) : y < Lo(k)}
           B == Lo(k) .. End(k) - 1
           C == {y \in Occupied(t) : y < End(k)}
<1>1. /\ Lo(k) \in Nat /\ End(k) \in Nat /\ Lo(k) < End(k) /\ End(k) <= HEAP_SIZE
      /\ End(k) = Lo(k) + BlockSize(k) /\ BlockSize(k) \in Nat /\ HEAP_SIZE \in Nat
  BY IntervalIs, SizesType
<1>2. \A y \in Occupied(t) : y \in Nat
  BY DEF Occupied, Addresses
<1>3. \A y \in B : y \in Occupied(t)
  BY <1>1 DEF Occupied, Addresses
<1>4. C = A \cup B
  BY <1>1, <1>2, <1>3
<1>5. A \cap B = {}
  BY <1>1, <1>2
<1>6. IsFiniteSet(A)
  BY <1>1, CountType
<1>7. IsFiniteSet(B) /\ Cardinality(B) = BlockSize(k)
  <2> DEFINE a == Lo(k)
             b == End(k) - 1
  <2>1. a \in Int /\ b \in Int /\ a <= b /\ b - a + 1 = BlockSize(k)
    BY <1>1
  <2> HIDE DEF a, b
  <2>2. IsFiniteSet(a .. b) /\ Cardinality(a .. b) = b - a + 1
    BY <2>1, FS_Interval
  <2> QED BY <2>1, <2>2 DEF a, b
<1>8. CountTo(t, Lo(k)) = Cardinality(A) /\ CountTo(t, End(k)) = Cardinality(C)
  BY DEF CountTo
<1>9. Cardinality(A) \in Nat
  BY <1>6, FS_CardinalityType
<1> HIDE DEF A, B, C
<1>10. Cardinality(C) = Cardinality(A) + Cardinality(B) - Cardinality(A \cap B)
  BY <1>4, <1>6, <1>7, FS_Union
<1>11. Cardinality(A \cap B) = 0
  BY <1>5, FS_EmptySet
<1> QED BY <1>1, <1>7, <1>8, <1>9, <1>10, <1>11

LEMMA StatsStarts ==
  ASSUME NEW t
  PROVE  StatsOK(t, Root)
BY RootWalk, CountZero DEF StatsOK

(* The first half of an iteration at a leaf.                               *)
LEMMA StatsLeaf ==
  ASSUME NEW t, NEW w, TreeInv(t, w), StatsOK(t, w), IsLeaf(t, w.i),
         NEW v, v = [Up(w) EXCEPT !.used = @ + w.block_size]
  PROVE  /\ TreeInv(t, v) /\ StatsOK(t, v) /\ ~ IsLeaf(t, v.i)
<1>1. /\ IsWalk(w) /\ TreeOK(t) /\ w.i \in Nodes /\ w.i # 0 /\ t[w.i] # NULL
      /\ Rooted(t, w.i) /\ w.block_size = BlockSize(w.i)
      /\ ~ IsLeaf(t, 0)
  BY WalkType DEF TreeInv, IsLeaf
<1>2. /\ TreeInv(t, Up(w)) /\ SkipOK(t, Up(w))
      /\ t[Parent(w.i)] = BRANCH_NODE
      /\ \A n \in Nodes : t[n] = BRANCH_NODE => HasChild(t, n)
  BY <1>1, UpInv, QuietTree
<1>3. /\ IsWalk(Up(w)) /\ CameUp(Up(w)) /\ Reached(Up(w)) = End(w.i)
      /\ Up(w).i = Parent(w.i) /\ Up(w).skip = w.i /\ Up(w).used = w.used
  BY <1>1, UpIs
<1>4. Reached(w) = Lo(w.i)
  <2>1. ASSUME CameUp(w) PROVE FALSE
    <3>1. t[w.skip] # NULL /\ w.skip # 0 /\ Parent(w.skip) = w.i
      BY <1>1, <2>1, CameUpSize DEF StatsOK, SkipOK, CameUp
    <3> QED BY <1>1, <3>1, WalkType DEF TreeOK, IsLeaf
  <2> QED BY <2>1 DEF Reached
<1>5. w.used + w.block_size = CountTo(t, End(w.i))
  BY <1>1, <1>4, CountLeaf DEF StatsOK
<1>6. CountTo(t, End(w.i)) \in 0 .. HEAP_SIZE
  BY <1>1, IntervalIs, CountType
<1>7. Up(w) \in Walks
  BY <1>3 DEF IsWalk
<1>8. /\ v.i = Parent(w.i) /\ v.skip = w.i /\ v.used = CountTo(t, End(w.i))
      /\ v.block_size = Up(w).block_size
  BY <1>3, <1>5, <1>7 DEF Walks
<1>9. v \in Walks
  BY <1>3, <1>5, <1>6, <1>7 DEF Walks
<1>10. IsWalk(v) /\ Reached(v) = End(w.i) /\ CameUp(v)
  BY <1>3, <1>8, <1>9 DEF IsWalk, Reached, CameUp
<1>11. TreeInv(t, v)
  BY <1>2, <1>3, <1>8, <1>10 DEF TreeInv, BranchesOK
<1>12. StatsOK(t, v)
  BY <1>1, <1>2, <1>8, <1>10, HeapAssumption DEF StatsOK, SkipOK
<1> QED BY <1>2, <1>8, <1>11, <1>12 DEF IsLeaf

(* The second half at another node; Open is Unseen, and Closed is done.    *)
Open(t, w, n) == t[n] # NULL /\ n # w.skip
Closed(t, w) == Right(w.i) = w.skip \/ (~ Open(t, w, Left(w.i)) /\ t[Right(w.i)] = NULL)

LEMMA StatsHalf ==
  ASSUME NEW t, NEW w, TreeInv(t, w), StatsOK(t, w), ~ IsLeaf(t, w.i)
  PROVE  /\ IsWalk(w) /\ w.i \in Nodes /\ TreeOK(t) /\ BlockSize(w.i) # 1
         /\ t[w.i] = NULL => w.i = 0 /\ t[Left(w.i)] = NULL /\ t[Right(w.i)] = NULL
         /\ Rooted(t, w.i)
<1>1. IsWalk(w) /\ w.i \in Nodes /\ TreeOK(t) /\ Rooted(t, w.i)
  BY WalkType DEF TreeInv
<1>2. CASE w.i = 0
  <2>1. BlockSize(w.i) # 1
    BY <1>2, RootIs, SizesType
  <2>2. ASSUME t[w.i] = NULL PROVE t[Left(w.i)] = NULL /\ t[Right(w.i)] = NULL
    <3>1. Left(w.i) \in Nodes /\ Right(w.i) \in Nodes
      BY <1>1, <2>1, ChildrenAre
    <3>2. ~ HasChild(t, w.i)
      BY <1>1, <2>2, LeafAlone, HeapAssumption
    <3> QED BY <3>1, <3>2 DEF HasChild
  <2> QED BY <1>1, <1>2, <2>1, <2>2
<1>3. CASE w.i # 0
  <2>1. t[w.i] = BRANCH_NODE /\ t[w.i] # NULL
    BY <1>3 DEF StatsOK, IsLeaf
  <2>2. HasChild(t, w.i)
    BY <1>1, <2>1, QuietTree
  <2> QED BY <1>1, <2>1, <2>2, HasChildren DEF HasChild
<1> QED BY <1>2, <1>3

LEMMA StatsLeftPassed ==
  ASSUME NEW t, NEW w, TreeInv(t, w), StatsOK(t, w), ~ IsLeaf(t, w.i),
         t[w.i] = BRANCH_NODE, Right(w.i) # w.skip, ~ Open(t, w, Left(w.i))
  PROVE  w.used = CountTo(t, Lo(Right(w.i)))
<1>1. IsWalk(w) /\ w.i \in Nodes /\ TreeOK(t) /\ BlockSize(w.i) # 1
  BY StatsHalf
<1>2. /\ Left(w.i) \in Nodes /\ Lo(Left(w.i)) = Lo(w.i)
      /\ Lo(Right(w.i)) = End(Left(w.i))
  BY <1>1, ChildrenAre
<1>3. CASE Left(w.i) = w.skip
  BY <1>1, <1>2, <1>3, CameUpIff DEF StatsOK, Reached
<1>4. CASE Left(w.i) # w.skip
  <2>1. Reached(w) = Lo(Left(w.i))
    BY <1>1, <1>2, <1>4, CameUpSize DEF Reached
  <2>2. t[Left(w.i)] = NULL
    BY <1>4 DEF Open
  <2>3. Rooted(t, Left(w.i))
    BY <1>1, ChildParent, NodesType DEF Rooted
  <2> QED BY <1>1, <1>2, <2>1, <2>2, <2>3, CountFree DEF StatsOK
<1> QED BY <1>3, <1>4

LEMMA StatsDownStep ==
  ASSUME NEW t, NEW w, TreeInv(t, w), StatsOK(t, w), ~ IsLeaf(t, w.i), ~ Closed(t, w),
         NEW k, k = IF Open(t, w, Left(w.i)) THEN Left(w.i) ELSE Right(w.i)
  PROVE  TreeInv(t, Down(w, k)) /\ StatsOK(t, Down(w, k))
<1>1. IsWalk(w) /\ w.i \in Nodes /\ TreeOK(t) /\ BlockSize(w.i) # 1 /\ SkipOK(t, w)
  BY StatsHalf DEF StatsOK
<1>2. /\ Left(w.i) \in Nodes /\ Right(w.i) \in Nodes /\ Lo(Left(w.i)) = Lo(w.i)
  BY <1>1, ChildrenAre
<1>3. k \in Nodes /\ (k = Left(w.i) \/ k = Right(w.i)) /\ t[k] # NULL /\ Right(w.i) # w.skip
  BY <1>2 DEF Closed, Open
<1>4. /\ TreeInv(t, Down(w, k)) /\ SkipOK(t, Down(w, k))
      /\ Down(w, k).i = k /\ Down(w, k).used = w.used
      /\ Reached(Down(w, k)) = Lo(k) /\ t[w.i] = BRANCH_NODE
  BY <1>1, <1>3, DownInv DEF StatsOK
<1>5. w.used = CountTo(t, Lo(k))
  <2>1. CASE Open(t, w, Left(w.i))
    <3>1. ~ CameUp(w)
      BY <1>1, <1>3, <2>1, CameUpSize DEF Open
    <3> QED BY <1>2, <2>1, <3>1 DEF StatsOK, Reached
  <2>2. CASE ~ Open(t, w, Left(w.i))
    BY <1>3, <1>4, <2>2, StatsLeftPassed
  <2> QED BY <2>1, <2>2
<1> QED BY <1>3, <1>4, <1>5 DEF StatsOK

LEMMA StatsPassed ==
  ASSUME NEW t, NEW w, TreeInv(t, w), StatsOK(t, w), ~ IsLeaf(t, w.i), Closed(t, w)
  PROVE  w.used = CountTo(t, End(w.i))
<1>1. IsWalk(w) /\ w.i \in Nodes /\ TreeOK(t) /\ BlockSize(w.i) # 1 /\ Rooted(t, w.i)
  BY StatsHalf
<1>2. /\ Right(w.i) \in Nodes /\ End(Right(w.i)) = End(w.i)
  BY <1>1, ChildrenAre
<1>3. CASE t[w.i] = BRANCH_NODE
  <2>1. CASE Right(w.i) = w.skip
    BY <1>1, <1>2, <2>1, CameUpIff DEF StatsOK, Reached
  <2>2. CASE Right(w.i) # w.skip
    <3>1. ~ Open(t, w, Left(w.i)) /\ t[Right(w.i)] = NULL
      BY <2>2 DEF Closed
    <3>2. w.used = CountTo(t, Lo(Right(w.i)))
      BY <1>3, <2>2, <3>1, StatsLeftPassed
    <3>3. Rooted(t, Right(w.i))
      BY <1>1, <1>3, ChildParent, NodesType DEF Rooted
    <3> QED BY <1>1, <1>2, <3>1, <3>2, <3>3, CountFree
  <2> QED BY <2>1, <2>2
<1>4. CASE t[w.i] = NULL
  <2>1. w.i = 0 /\ t[Left(w.i)] = NULL /\ t[Right(w.i)] = NULL
    BY <1>4, StatsHalf
  <2>2. ~ CameUp(w)
    BY <1>1, <2>1, CameUpSize DEF StatsOK, SkipOK
  <2>3. Reached(w) = Lo(w.i)
    BY <2>2 DEF Reached
  <2> QED BY <1>1, <1>4, <2>3, CountFree DEF StatsOK
<1> QED BY <1>3, <1>4 DEF IsLeaf

LEMMA StatsUpStep ==
  ASSUME NEW t, NEW w, TreeInv(t, w), StatsOK(t, w), ~ IsLeaf(t, w.i), Closed(t, w),
         w.i # 0
  PROVE  TreeInv(t, Up(w)) /\ StatsOK(t, Up(w))
<1>1. IsWalk(w) /\ t[w.i] # NULL /\ w.used = CountTo(t, End(w.i))
  BY StatsPassed DEF TreeInv, StatsOK
<1>2. /\ TreeInv(t, Up(w)) /\ SkipOK(t, Up(w))
      /\ t[Parent(w.i)] = BRANCH_NODE /\ Up(w).i = Parent(w.i)
  BY <1>1, UpInv
<1>3. Reached(Up(w)) = End(w.i) /\ Up(w).used = w.used
  BY <1>1, UpIs
<1> QED BY <1>1, <1>2, <1>3, HeapAssumption DEF StatsOK

LEMMA StatsEnd ==
  ASSUME NEW t, NEW w, TreeInv(t, w), StatsOK(t, w), ~ IsLeaf(t, w.i), Closed(t, w),
         w.i = 0
  PROVE  w.used = Cardinality(Occupied(t)) /\ TreeInv(t, Root)
<1>1. w.used = CountTo(t, HEAP_SIZE)
  BY StatsPassed, RootIs
<1>2. {y \in Occupied(t) : y < HEAP_SIZE} = Occupied(t)
  BY SizesType DEF Occupied, Addresses
<1>3. TreeInv(t, Root)
  BY QuietTree
<1> QED BY <1>1, <1>2, <1>3 DEF CountTo

-----------------------------------------------------------------------------
(* The inductive invariant.                                                *)

(* malloc is never asked for more than half the heap: what find_ptr answers*)
(* for the root is also its answer for an address it does not find, so a   *)
(* block of the whole heap cannot be freed.                                *)
HalfRequests == \A n \in Requests : 2 * n <= HEAP_SIZE

Holds(c) == call[c].op = "free" /\ call[c].block # NoBlock

(* heap_lock is held by the client that walks, and every location belongs  *)
(* to its calls.                                                           *)
ControlOK ==
  /\ \A c \in Clients : pc[c] \in {"walk", "coalesce"} <=> heap_lock = c
  /\ heap_lock = NULL => walk = Root
  /\ \A c \in Clients : pc[c] = "idle" <=> call[c] = Nothing
  /\ \A c \in Clients : pc[c] = "free" => call[c].op = "free"
  /\ \A c \in Clients : pc[c] = "coalesce" => Holds(c) /\ heap_tree[walk.i] = NULL

(* The leaves are the blocks that clients own or are about to free.        *)
InTree(b) == \E c \in Clients : Holds(c) /\ pc[c] # "coalesce" /\ b = call[c].block

BlocksOK ==
  /\ \A c \in Clients : Holds(c) => call[c].block \notin owned
  /\ \A c, d \in Clients :
       Holds(c) /\ Holds(d) /\ c # d => call[c].block # call[d].block
  /\ \A b : b \in LeafBlocks(heap_tree) <=> b \in owned \/ InTree(b)

WalkOK ==
  /\ TreeInv(heap_tree, walk)
  /\ \A c \in Clients : In(c, "malloc") => MallocOK(heap_tree, walk, Size(c))
  /\ \A c \in Clients : In(c, "free") => FindOK(heap_tree, walk, call[c].block)
  /\ \A c \in Clients : In(c, "stats") => StatsOK(heap_tree, walk)

HeapInv == HeapTypeOK /\ ControlOK /\ BlocksOK /\ WalkOK

-----------------------------------------------------------------------------
(* What the types say of a call, and of sizes.                             *)

LEMMA CallType ==
  ASSUME HeapTypeOK, NEW c \in Clients
  PROVE  /\ call[c] \in Calls
         /\ call[c].op \in {"none", "malloc", "free", "stats"}
         /\ call[c].op = "none" <=> call[c] = Nothing
         /\ call[c].op = "malloc" => call[c].size \in Requests
         /\ call[c].op = "free" => call[c].block \in Blocks \cup {NoBlock}
<1>1. call[c] \in Calls
  BY DEF HeapTypeOK
<1> QED BY <1>1 DEF Calls, Nothing

LEMMA NoBlockIs ==
  NoBlock \notin Blocks /\ NoBlock.addr = NULL
BY HeapAssumption DEF NoBlock, Blocks

LEMMA RoundedIs ==
  ASSUME NEW n \in 1 .. HEAP_SIZE
  PROVE  next_pow2(n) \in Sizes /\ n <= next_pow2(n) /\ next_pow2(n) < 2 * n
<1>1. \E m \in Sizes : n <= m /\ m < 2 * n
  <2> DEFINE S == {m \in Sizes : n <= m}
  <2>1. S \in SUBSET Nat /\ S # {}
    <3>1. HEAP_SIZE \in S
      BY SizesType
    <3> QED BY <3>1, SizesType
  <2>2. PICK m \in S : \A k \in S : m <= k
    BY <2>1, LeastNat
  <2>3. CASE m = 1
    BY <2>2, <2>3
  <2>4. CASE m # 1
    <3>1. PICK h \in Sizes : m = 2 * h
      BY <2>2, <2>4, HalfSize
    <3>2. h \in Nat \ {0}
      BY SizesType
    <3>3. ~ (n <= h)
      BY <2>2, <3>1, <3>2
    <3> QED BY <2>2, <3>1, <3>2, <3>3
  <2> QED BY <2>3, <2>4
<1> QED BY <1>1 DEF next_pow2

LEMMA SizeType ==
  ASSUME HalfRequests, HeapTypeOK, NEW c \in Clients, call[c].op = "malloc"
  PROVE  Size(c) \in Sizes /\ 2 * Size(c) <= HEAP_SIZE
<1>1. call[c].size \in Requests
  BY CallType
<1>2. call[c].size \in 1 .. HEAP_SIZE /\ 2 * call[c].size <= HEAP_SIZE
  BY <1>1, HeapAssumption DEF HalfRequests
<1>3. Size(c) \in Sizes /\ Size(c) < 2 * call[c].size
  BY <1>2, RoundedIs DEF Size
<1>4. Size(c) # HEAP_SIZE /\ Size(c) \in Nat /\ Size(c) <= HEAP_SIZE
  BY <1>2, <1>3, SizesType DEF Sizes
<1>5. Size(c) < HEAP_SIZE
  BY <1>4, SizesType
<1> QED BY <1>3, <1>5, SizeGap, SizesType

-----------------------------------------------------------------------------
(* The invariant holds initially.                                          *)

LEMMA InitInv == Init => HeapInv
<1> SUFFICES ASSUME Init PROVE HeapInv
  OBVIOUS
<1> USE DEF Init
<1>1. TreeOK(heap_tree) /\ \A n \in Nodes : heap_tree[n] = NULL
  BY DEF TreeOK, IsLeaf
<1>2. \A n \in Nodes : ~ IsLeaf(heap_tree, n)
  BY <1>1 DEF IsLeaf
<1>3. TreeInv(heap_tree, Root)
  BY <1>1, <1>2, RootWalk, RootIs, HeapAssumption DEF TreeInv, BranchesOK
<1>4. HeapTypeOK
  <2>1. walk \in Walks
    BY RootWalk DEF IsWalk
  <2>2. heap_tree \in [Nodes -> {NULL, BRANCH_NODE} \cup Addresses]
    BY <1>1 DEF TreeOK
  <2>3. call \in [Clients -> Calls]
    BY DEF Calls
  <2> QED BY <2>1, <2>2, <2>3 DEF HeapTypeOK, Results
<1>5. \A c \in Clients : pc[c] = "idle" /\ call[c] = Nothing /\ call[c].op = "none"
  BY DEF Nothing
<1>6. ControlOK
  BY <1>5, HeapAssumption DEF ControlOK
<1>7. LeafBlocks(heap_tree) = {}
  BY <1>2 DEF LeafBlocks
<1>8. BlocksOK
  BY <1>5, <1>7 DEF BlocksOK, Holds, InTree
<1>9. WalkOK
  BY <1>3, <1>5 DEF WalkOK, In
<1> QED BY <1>4, <1>6, <1>8, <1>9 DEF HeapInv

-----------------------------------------------------------------------------
(* The invariant is kept.  First the kinds of steps.                       *)

(* Only one client walks.                                                  *)
LEMMA Alone ==
  ASSUME ControlOK, NEW c \in Clients, pc[c] \in {"walk", "coalesce"},
         NEW d \in Clients, d # c
  PROVE  pc[d] \notin {"walk", "coalesce"}
BY DEF ControlOK

(* A step of a walk.                                                       *)
LEMMA WalkStep ==
  ASSUME HeapInv, NEW c \in Clients, pc[c] = "walk", Step,
         TreeInv(heap_tree', walk'),
         LeafBlocks(heap_tree') = LeafBlocks(heap_tree),
         call[c].op = "malloc" => MallocOK(heap_tree', walk', Size(c)),
         call[c].op = "free" => FindOK(heap_tree', walk', call[c].block),
         call[c].op = "stats" => StatsOK(heap_tree', walk')
  PROVE  HeapInv'
<1> USE DEF Step
<1>1. \A d \in Clients : pc[d] \in {"walk", "coalesce"} => d = c
  BY Alone DEF HeapInv
<1>2. HeapTypeOK'
  BY DEF HeapInv, HeapTypeOK, TreeInv, TreeOK, IsWalk
<1>3. ControlOK'
  <2>1. heap_lock = c /\ c # NULL
    BY HeapAssumption DEF HeapInv, ControlOK
  <2>2. \A d \in Clients : pc[d] # "coalesce"
    BY <1>1
  <2> QED BY <2>1, <2>2 DEF HeapInv, ControlOK, Holds
<1>4. BlocksOK'
  BY DEF HeapInv, BlocksOK, Holds, InTree
<1>5. WalkOK'
  <2>1. \A d \in Clients : pc[d] = "walk" => d = c
    BY <1>1
  <2> QED BY <2>1 DEF WalkOK, In, Size
<1> QED BY <1>2, <1>3, <1>4, <1>5 DEF HeapInv

(* A step of a client outside the critical section, which keeps the heap.  *)
LEMMA OutsideStep ==
  ASSUME HeapInv, NEW c \in Clients, pc[c] \notin {"walk", "coalesce"},
         UNCHANGED <<heap_tree, heap_lock, walk>>,
         NEW location \in {"idle", "free", "enter"},
         pc' = [pc EXCEPT ![c] = location],
         NEW newCall \in Calls,
         call' = [call EXCEPT ![c] = newCall],
         location = "idle" <=> newCall = Nothing,
         location = "free" => newCall.op = "free",
         owned' \subseteq Blocks, returned' \in Results,
         BlocksOK'
  PROVE  HeapInv'
<1>1. /\ pc \in [Clients -> {"idle", "free", "enter", "walk", "coalesce"}]
      /\ call \in [Clients -> Calls]
  BY DEF HeapInv, HeapTypeOK
<1>2. /\ pc'[c] = location /\ call'[c] = newCall
      /\ \A d \in Clients : d # c => pc'[d] = pc[d] /\ call'[d] = call[d]
  BY <1>1
<1>3. HeapTypeOK'
  BY <1>1 DEF HeapInv, HeapTypeOK
<1>4. ControlOK'
  BY <1>2 DEF HeapInv, ControlOK, Holds
<1>5. WalkOK'
  <2>1. \A d \in Clients : pc'[d] = "walk" => d # c /\ pc[d] = "walk" /\ call'[d] = call[d]
    BY <1>2
  <2> QED BY <2>1 DEF HeapInv, WalkOK, In, Size
<1> QED BY <1>3, <1>4, <1>5 DEF HeapInv

(* A client leaves the critical section.                                   *)
LEMMA LeaveStep ==
  ASSUME HeapInv, NEW c \in Clients, pc[c] \in {"walk", "coalesce"},
         NEW result, Leave(c, result), <<call[c].op, result>> \in Results,
         TreeInv(heap_tree', Root), owned' \subseteq Blocks,
         \A d \in Clients : d # c /\ Holds(d) => call[d].block \notin owned',
         \A b : b \in LeafBlocks(heap_tree') <=>
                  b \in owned' \/ \E d \in Clients : d # c /\ Holds(d) /\ b = call[d].block
  PROVE  HeapInv'
<1>1. /\ pc \in [Clients -> {"idle", "free", "enter", "walk", "coalesce"}]
      /\ call \in [Clients -> Calls]
  BY DEF HeapInv, HeapTypeOK
<1>2. /\ pc' = [pc EXCEPT ![c] = "idle"] /\ call' = [call EXCEPT ![c] = Nothing]
      /\ heap_lock' = NULL /\ walk' = Root /\ returned' = <<call[c].op, result>>
  BY DEF Leave, Return
<1>3. /\ pc'[c] = "idle" /\ call'[c] = Nothing
      /\ \A d \in Clients : d # c => pc'[d] = pc[d] /\ call'[d] = call[d]
  BY <1>1, <1>2
<1>4. \A d \in Clients : pc'[d] \notin {"walk", "coalesce"}
  BY <1>3, Alone DEF HeapInv
<1>5. HeapTypeOK'
  <2>1. pc' \in [Clients -> {"idle", "free", "enter", "walk", "coalesce"}]
    BY <1>1, <1>2
  <2>2. call' \in [Clients -> Calls]
    BY <1>1, <1>2 DEF Calls
  <2>3. heap_tree' \in [Nodes -> {NULL, BRANCH_NODE} \cup Addresses]
    BY DEF TreeInv, TreeOK
  <2>4. walk' \in Walks
    BY <1>2, RootWalk DEF IsWalk
  <2> QED BY <1>2, <2>1, <2>2, <2>3, <2>4 DEF HeapTypeOK
<1>6. ControlOK'
  <2>1. \A d \in Clients : d # NULL
    BY HeapAssumption
  <2>2. \A d \in Clients : pc'[d] = "idle" <=> call'[d] = Nothing
    BY <1>3 DEF HeapInv, ControlOK
  <2>3. \A d \in Clients : pc'[d] = "free" => call'[d].op = "free"
    BY <1>3 DEF HeapInv, ControlOK
  <2> QED BY <1>2, <1>4, <2>1, <2>2, <2>3 DEF ControlOK
<1>7. ~ Holds(c)' /\ \A d \in Clients : d # c => (Holds(d)' <=> Holds(d))
  BY <1>3 DEF Holds, Nothing
<1>8. BlocksOK'
  <2>1. \A b : InTree(b)' <=> \E d \in Clients : d # c /\ Holds(d) /\ b = call[d].block
    BY <1>3, <1>4, <1>7 DEF InTree
  <2>2. \A d, e \in Clients :
          Holds(d)' /\ Holds(e)' /\ d # e => call'[d].block # call'[e].block
    BY <1>3, <1>7 DEF HeapInv, BlocksOK
  <2>3. \A d \in Clients : Holds(d)' => call'[d].block \notin owned'
    BY <1>3, <1>7
  <2> QED BY <2>1, <2>2, <2>3 DEF BlocksOK
<1>9. WalkOK'
  BY <1>2, <1>4 DEF WalkOK, In
<1> QED BY <1>5, <1>6, <1>8, <1>9 DEF HeapInv

-----------------------------------------------------------------------------
(* The client that walks: what it knows.                                   *)

LEMMA Walking ==
  ASSUME HeapInv, NEW c \in Clients, pc[c] \in {"walk", "coalesce"}
  PROVE  /\ TreeInv(heap_tree, walk) /\ TreeOK(heap_tree)
         /\ IsWalk(walk) /\ walk.i \in Nodes /\ walk.block_size = BlockSize(walk.i)
         /\ \A d \in Clients : d # c => pc[d] \notin {"walk", "coalesce"}
         /\ \A n : Leaf(n) <=> IsLeaf(heap_tree, n)
<1>1. TreeInv(heap_tree, walk) /\ IsWalk(walk) /\ TreeOK(heap_tree)
  BY DEF HeapInv, WalkOK, TreeInv
<1>2. \A d \in Clients : d # c => pc[d] \notin {"walk", "coalesce"}
  BY Alone DEF HeapInv
<1> QED BY <1>1, <1>2, WalkType DEF Leaf, IsLeaf

(* The blocks in the tree, for a client in the critical section.           *)
LEMMA OtherBlocks ==
  ASSUME HeapInv, NEW c \in Clients, pc[c] \in {"walk", "coalesce"}
  PROVE  \A b : b \in LeafBlocks(heap_tree) <=>
           \/ b \in owned
           \/ \E d \in Clients : d # c /\ Holds(d) /\ b = call[d].block
           \/ pc[c] = "walk" /\ Holds(c) /\ b = call[c].block
<1>1. \A d \in Clients : d # c => pc[d] \notin {"walk", "coalesce"}
  BY Walking
<1>2. \A b : InTree(b) <=>
           \/ \E d \in Clients : d # c /\ Holds(d) /\ b = call[d].block
           \/ pc[c] = "walk" /\ Holds(c) /\ b = call[c].block
  BY <1>1 DEF InTree
<1> QED BY <1>2 DEF HeapInv, BlocksOK

(* malloc.                                                                 *)

LEMMA MallocIn ==
  ASSUME HalfRequests, HeapInv, NEW c \in Clients, In(c, "malloc")
  PROVE  /\ pc[c] = "walk" /\ call[c].op = "malloc" /\ ~ Holds(c)
         /\ MallocOK(heap_tree, walk, Size(c))
         /\ Size(c) \in Sizes /\ 2 * Size(c) <= HEAP_SIZE
         /\ LeftDone <=> LeftOver(heap_tree, walk)
         /\ Exhausted <=> Over(heap_tree, walk)
<1>1. /\ pc[c] = "walk" /\ call[c].op = "malloc" /\ ~ Holds(c)
      /\ MallocOK(heap_tree, walk, Size(c))
  BY DEF In, Holds, HeapInv, WalkOK
<1>2. Size(c) \in Sizes /\ 2 * Size(c) <= HEAP_SIZE
  BY <1>1, SizeType DEF HeapInv
<1>3. LeftDone <=> LeftOver(heap_tree, walk)
  BY DEF LeftDone, LeftOver, Leaf, IsLeaf, Visited
<1>4. Exhausted <=> Over(heap_tree, walk)
  BY <1>3 DEF Exhausted, Over, Leaf, IsLeaf, Visited
<1> QED BY <1>1, <1>2, <1>3, <1>4

LEMMA MallocTakenInv ==
  ASSUME HalfRequests, HeapInv, NEW c \in Clients, MallocTaken(c)
  PROVE  HeapInv'
<1>1. /\ In(c, "malloc") /\ walk.block_size = Size(c) /\ heap_tree[walk.i] # NULL
      /\ walk' = Up(walk) /\ heap_tree' = heap_tree /\ Step
  BY DEF MallocTaken
<1>2. pc[c] = "walk" /\ call[c].op = "malloc"
  BY <1>1, MallocIn
<1>3. TreeInv(heap_tree', walk') /\ MallocOK(heap_tree', walk', Size(c))
  BY <1>1, <1>2, MallocIn, Walking, MallocSkips
<1> QED BY <1>1, <1>2, <1>3, WalkStep

(* The block that malloc finds.                                            *)
LEMMA MallocFoundIs ==
  ASSUME HalfRequests, HeapInv, NEW c \in Clients, MallocFound(c),
         NEW b, b = [addr |-> Lo(walk.i), size |-> Size(c)]
  PROVE  /\ b \in Blocks /\ BlockSize(walk.i) = Size(c)
         /\ owned' = owned \cup {b} /\ Leave(c, b)
         /\ TreeInv(heap_tree', Root)
         /\ LeafBlocks(heap_tree') = LeafBlocks(heap_tree) \cup {b}
         /\ \A m \in Nodes : IsLeaf(heap_tree, m) => ~ Overlap(m, walk.i)
         /\ b \notin LeafBlocks(heap_tree)
<1> DEFINE addr == Offset(walk.i, walk.block_size)
<1>1. /\ In(c, "malloc") /\ walk.block_size = Size(c) /\ heap_tree[walk.i] = NULL
      /\ heap_tree' = [heap_tree EXCEPT ![walk.i] = addr]
      /\ owned' = owned \cup {[addr |-> addr, size |-> Size(c)]}
      /\ Leave(c, [addr |-> addr, size |-> Size(c)])
  BY DEF MallocFound
<1>2. pc[c] = "walk" /\ Size(c) \in Sizes
  BY <1>1, MallocIn
<1>3. walk.i \in Nodes /\ walk.block_size = BlockSize(walk.i) /\ TreeInv(heap_tree, walk)
      /\ TreeOK(heap_tree)
  BY <1>2, Walking
<1>4. addr = Lo(walk.i)
  BY <1>3, OffsetIs
<1>5. Placed(heap_tree', heap_tree, walk.i)
  BY <1>1, <1>4 DEF Placed
<1>6. owned' = owned \cup {b} /\ Leave(c, b)
  BY <1>1, <1>4
<1>7. b \in Blocks
  BY <1>2, <1>3, IntervalIs DEF Blocks
<1> HIDE DEF addr
<1>8. /\ TreeInv(heap_tree', Root)
      /\ LeafBlocks(heap_tree') = LeafBlocks(heap_tree) \cup {b}
      /\ \A m \in Nodes : IsLeaf(heap_tree, m) => ~ Overlap(m, walk.i)
  <2>1. /\ TreeInv(heap_tree, walk) /\ MallocOK(heap_tree, walk, Size(c))
        /\ 2 * Size(c) <= HEAP_SIZE /\ BlockSize(walk.i) = Size(c)
        /\ heap_tree[walk.i] = NULL
    BY <1>1, <1>3, MallocIn
  <2>2. /\ TreeInv(heap_tree', Root)
        /\ LeafBlocks(heap_tree') =
             LeafBlocks(heap_tree) \cup {[addr |-> Lo(walk.i), size |-> Size(c)]}
        /\ \A m \in Nodes : IsLeaf(heap_tree, m) => ~ Overlap(m, walk.i)
    BY <1>5, <2>1, MallocTakes
  <2> QED BY <2>2
<1>9. b \notin LeafBlocks(heap_tree)
  <2>1. SUFFICES ASSUME b \in LeafBlocks(heap_tree) PROVE FALSE
    OBVIOUS
  <2>2. PICK m \in Nodes : IsLeaf(heap_tree, m) /\ Lo(m) = Lo(walk.i)
    BY <1>3, <2>1, BlockHasNode
  <2>3. Overlap(m, walk.i)
    BY <1>3, <2>2, IntervalIs DEF Overlap
  <2> QED BY <1>8, <2>2, <2>3
<1> QED BY <1>1, <1>3, <1>6, <1>7, <1>8, <1>9

LEMMA MallocFoundInv ==
  ASSUME HalfRequests, HeapInv, NEW c \in Clients, MallocFound(c)
  PROVE  HeapInv'
<1> DEFINE b == [addr |-> Lo(walk.i), size |-> Size(c)]
<1>1. /\ b \in Blocks /\ owned' = owned \cup {b} /\ Leave(c, b)
      /\ TreeInv(heap_tree', Root)
      /\ LeafBlocks(heap_tree') = LeafBlocks(heap_tree) \cup {b}
      /\ b \notin LeafBlocks(heap_tree)
  BY MallocFoundIs
<1>2. pc[c] = "walk" /\ call[c].op = "malloc" /\ ~ Holds(c)
  BY MallocIn DEF MallocFound
<1> HIDE DEF b
<1>3. \A x : x \in LeafBlocks(heap_tree) <=>
         \/ x \in owned
         \/ \E d \in Clients : d # c /\ Holds(d) /\ x = call[d].block
  BY <1>2, OtherBlocks
<1>4. owned' \subseteq Blocks
  BY <1>1 DEF HeapInv, HeapTypeOK
<1>5. <<call[c].op, b>> \in Results
  BY <1>1, <1>2 DEF Results
<1>6. \A d \in Clients : d # c /\ Holds(d) => call[d].block \notin owned'
  <2>1. \A d \in Clients : Holds(d) => call[d].block \notin owned
    BY DEF HeapInv, BlocksOK
  <2> QED BY <1>1, <1>3, <2>1
<1>7. \A x : x \in LeafBlocks(heap_tree') <=>
         x \in owned' \/ \E d \in Clients : d # c /\ Holds(d) /\ x = call[d].block
  BY <1>1, <1>3
<1> QED BY <1>1, <1>2, <1>4, <1>5, <1>6, <1>7, LeaveStep

LEMMA AboveIs ==
  ASSUME HalfRequests, HeapInv, NEW c \in Clients, Above(c)
  PROVE  /\ In(c, "malloc") /\ pc[c] = "walk" /\ call[c].op = "malloc" /\ ~ Holds(c)
         /\ TreeInv(heap_tree, walk) /\ MallocOK(heap_tree, walk, Size(c))
         /\ BlockSize(walk.i) # Size(c)
         /\ Branched(heap_tree', heap_tree, walk.i)
<1>1. /\ In(c, "malloc") /\ walk.block_size # Size(c)
      /\ heap_tree' = [heap_tree EXCEPT ![walk.i] = BRANCH_NODE]
  BY DEF Above
<1> QED BY <1>1, MallocIn, Walking DEF Branched

LEMMA MallocDownInv ==
  ASSUME HalfRequests, HeapInv, NEW c \in Clients, MallocDown(c)
  PROVE  HeapInv'
<1> DEFINE k == IF LeftDone THEN Right(walk.i) ELSE Left(walk.i)
<1>1. Above(c) /\ ~ Exhausted /\ walk' = Down(walk, k) /\ Step
  BY DEF MallocDown
<1>2. /\ In(c, "malloc") /\ pc[c] = "walk" /\ call[c].op = "malloc"
      /\ TreeInv(heap_tree, walk) /\ MallocOK(heap_tree, walk, Size(c))
      /\ BlockSize(walk.i) # Size(c)
      /\ Branched(heap_tree', heap_tree, walk.i)
  BY <1>1, AboveIs
<1>3. /\ ~ Over(heap_tree, walk)
      /\ k = IF LeftOver(heap_tree, walk) THEN Right(walk.i) ELSE Left(walk.i)
  BY <1>1, <1>2, MallocIn
<1> HIDE DEF k
<1>4. /\ TreeInv(heap_tree', Down(walk, k)) /\ MallocOK(heap_tree', Down(walk, k), Size(c))
      /\ LeafBlocks(heap_tree') = LeafBlocks(heap_tree)
  BY <1>2, <1>3, MallocDownStep
<1> QED BY <1>1, <1>2, <1>4, WalkStep

LEMMA MallocUpInv ==
  ASSUME HalfRequests, HeapInv, NEW c \in Clients, MallocUp(c)
  PROVE  HeapInv'
<1>1. Above(c) /\ Exhausted /\ walk.i # 0 /\ walk' = Up(walk) /\ Step
  BY DEF MallocUp, GoUp
<1>2. /\ In(c, "malloc") /\ pc[c] = "walk" /\ call[c].op = "malloc"
      /\ TreeInv(heap_tree, walk) /\ MallocOK(heap_tree, walk, Size(c))
      /\ BlockSize(walk.i) # Size(c)
      /\ Branched(heap_tree', heap_tree, walk.i)
  BY <1>1, AboveIs
<1>3. Over(heap_tree, walk)
  BY <1>1, <1>2, MallocIn
<1>4. /\ heap_tree' = heap_tree
      /\ TreeInv(heap_tree', Up(walk)) /\ MallocOK(heap_tree', Up(walk), Size(c))
  BY <1>1, <1>2, <1>3, MallocUpStep
<1> QED BY <1>1, <1>2, <1>4, WalkStep

LEMMA MallocFailsInv ==
  ASSUME HalfRequests, HeapInv, NEW c \in Clients, MallocFails(c)
  PROVE  /\ HeapInv'
         /\ \A n \in Nodes : BlockSize(n) = Size(c) => Taken(heap_tree, n)
<1>1. Above(c) /\ Exhausted /\ walk.i = 0 /\ Leave(c, NULL) /\ owned' = owned
  BY DEF MallocFails
<1>2. /\ In(c, "malloc") /\ pc[c] = "walk" /\ call[c].op = "malloc" /\ ~ Holds(c)
      /\ TreeInv(heap_tree, walk) /\ MallocOK(heap_tree, walk, Size(c))
      /\ BlockSize(walk.i) # Size(c)
      /\ Branched(heap_tree', heap_tree, walk.i)
  BY <1>1, AboveIs
<1>3. Over(heap_tree, walk)
  BY <1>1, <1>2, MallocIn
<1>4. /\ heap_tree' = heap_tree /\ TreeInv(heap_tree', Root)
      /\ \A n \in Nodes : BlockSize(n) = Size(c) => Taken(heap_tree, n)
  BY <1>1, <1>2, <1>3, MallocFailStep
<1>5. <<call[c].op, NULL>> \in Results
  BY <1>2 DEF Results
<1>6. \A d \in Clients : Holds(d) => call[d].block \notin owned'
  BY <1>1 DEF HeapInv, BlocksOK
<1>7. \A x : x \in LeafBlocks(heap_tree') <=>
         x \in owned' \/ \E d \in Clients : d # c /\ Holds(d) /\ x = call[d].block
  BY <1>1, <1>2, <1>4, OtherBlocks
<1>8. owned' \subseteq Blocks
  BY <1>1 DEF HeapInv, HeapTypeOK
<1> QED BY <1>1, <1>2, <1>4, <1>5, <1>6, <1>7, <1>8, LeaveStep

(* free.                                                                   *)

LEMMA FreeIn ==
  ASSUME HeapInv, NEW c \in Clients, In(c, "free")
  PROVE  /\ pc[c] = "walk" /\ call[c].op = "free"
         /\ TreeInv(heap_tree, walk)
         /\ FindOK(heap_tree, walk, call[c].block)
         /\ call[c].block = NoBlock \/ call[c].block \in LeafBlocks(heap_tree)
         /\ LeftInvalid <=> LeftOut(heap_tree, walk)
         /\ NoChild <=> NoneLeft(heap_tree, walk)
<1>1. /\ pc[c] = "walk" /\ call[c].op = "free"
      /\ FindOK(heap_tree, walk, call[c].block) /\ TreeInv(heap_tree, walk)
  BY DEF In, HeapInv, WalkOK
<1>2. call[c].block = NoBlock \/ call[c].block \in LeafBlocks(heap_tree)
  BY <1>1, OtherBlocks DEF Holds
<1>3. LeftInvalid <=> LeftOut(heap_tree, walk)
  BY DEF LeftInvalid, LeftOut, Visited
<1>4. NoChild <=> NoneLeft(heap_tree, walk)
  BY <1>3 DEF NoChild, RightInvalid, RightOut, NoneLeft, Visited
<1> QED BY <1>1, <1>2, <1>3, <1>4

LEMMA FindDownInv ==
  ASSUME HeapInv, NEW c \in Clients, FindDown(c)
  PROVE  HeapInv'
<1> DEFINE k == IF LeftInvalid THEN Right(walk.i) ELSE Left(walk.i)
<1>1. In(c, "free") /\ ~ NoChild /\ walk' = Down(walk, k) /\ heap_tree' = heap_tree /\ Step
  BY DEF FindDown, Finding
<1>2. /\ pc[c] = "walk" /\ call[c].op = "free"
      /\ ~ NoneLeft(heap_tree, walk)
      /\ k = IF LeftOut(heap_tree, walk) THEN Right(walk.i) ELSE Left(walk.i)
  BY <1>1, FreeIn
<1> HIDE DEF k
<1>3. TreeInv(heap_tree, Down(walk, k)) /\ FindOK(heap_tree, Down(walk, k), call[c].block)
  BY <1>1, <1>2, FreeIn, FindDownStep
<1> QED BY <1>1, <1>2, <1>3, WalkStep

LEMMA FindUpInv ==
  ASSUME HeapInv, NEW c \in Clients, FindUp(c)
  PROVE  HeapInv'
<1>1. /\ In(c, "free") /\ heap_tree[walk.i] # call[c].block.addr /\ NoChild
      /\ walk.i # 0 /\ walk' = Up(walk) /\ heap_tree' = heap_tree /\ Step
  BY DEF FindUp, Finding, GoUp
<1>2. pc[c] = "walk" /\ call[c].op = "free" /\ NoneLeft(heap_tree, walk)
  BY <1>1, FreeIn
<1>3. TreeInv(heap_tree, Up(walk)) /\ FindOK(heap_tree, Up(walk), call[c].block)
  BY <1>1, <1>2, FreeIn, FindUpStep
<1> QED BY <1>1, <1>2, <1>3, WalkStep

(* Only free(NULL) fails.                                                  *)
LEMMA FreeFailsInv ==
  ASSUME HeapInv, NEW c \in Clients, FreeFails(c)
  PROVE  HeapInv' /\ call[c].block = NoBlock
<1>1. /\ In(c, "free") /\ walk.i = 0
      /\ NoChild \/ heap_tree[0] = call[c].block.addr
      /\ Leave(c, 1) /\ heap_tree' = heap_tree /\ owned' = owned
  BY DEF FreeFails
<1>2. pc[c] = "walk" /\ call[c].op = "free"
  BY <1>1, FreeIn
<1>3. call[c].block = NoBlock
  BY <1>1, FreeIn, FindSucceeds
<1>4. TreeInv(heap_tree', Root)
  BY <1>1, FreeIn, QuietTree
<1>5. <<call[c].op, 1>> \in Results
  BY <1>2 DEF Results
<1>6. \A d \in Clients : Holds(d) => call[d].block \notin owned'
  BY <1>1 DEF HeapInv, BlocksOK
<1>7. \A x : x \in LeafBlocks(heap_tree') <=>
         x \in owned' \/ \E d \in Clients : d # c /\ Holds(d) /\ x = call[d].block
  BY <1>1, <1>2, <1>3, OtherBlocks DEF Holds
<1>8. owned' \subseteq Blocks
  BY <1>1 DEF HeapInv, HeapTypeOK
<1> QED BY <1>1, <1>2, <1>3, <1>4, <1>5, <1>6, <1>7, <1>8, LeaveStep

(* Between the block and its buddies' branches, the client coalesces.      *)
LEMMA FreeFoundInv ==
  ASSUME HeapInv, NEW c \in Clients, FreeFound(c)
  PROVE  HeapInv'
<1> DEFINE b == call[c].block
<1>1. /\ In(c, "free") /\ walk.i # 0 /\ heap_tree[walk.i] = call[c].block.addr
      /\ heap_tree' = [heap_tree EXCEPT ![walk.i] = NULL]
      /\ pc' = [pc EXCEPT ![c] = "coalesce"]
      /\ heap_lock' = heap_lock /\ walk' = walk /\ call' = call
      /\ owned' = owned /\ returned' = returned
  BY DEF FreeFound
<1>2. /\ pc[c] = "walk" /\ call[c].op = "free" /\ TreeInv(heap_tree, walk)
      /\ FindOK(heap_tree, walk, b) /\ (b = NoBlock \/ b \in LeafBlocks(heap_tree))
  BY <1>1, FreeIn
<1>3. Freed(heap_tree', heap_tree, walk.i)
  BY <1>1 DEF Freed
<1>4. /\ b # NoBlock /\ b \in LeafBlocks(heap_tree)
      /\ TreeInv(heap_tree', walk) /\ heap_tree'[walk.i] = NULL
      /\ LeafBlocks(heap_tree') = LeafBlocks(heap_tree) \ {b}
  <2>1. heap_tree[walk.i] = b.addr
    BY <1>1
  <2> HIDE DEF b
  <2> QED BY <1>1, <1>2, <1>3, <2>1, FreeFoundStep
<1>5. pc \in [Clients -> {"idle", "free", "enter", "walk", "coalesce"}]
  BY DEF HeapInv, HeapTypeOK
<1>6. pc'[c] = "coalesce" /\ \A d \in Clients : d # c => pc'[d] = pc[d]
  BY <1>1, <1>5
<1>7. \A d \in Clients : d # c => pc[d] \notin {"walk", "coalesce"}
  BY <1>2, Walking
<1>8. HeapTypeOK'
  BY <1>1, <1>4, <1>5 DEF HeapInv, HeapTypeOK, TreeInv, TreeOK
<1>9. ControlOK'
  <2>1. heap_lock = c /\ c # NULL
    BY <1>2, HeapAssumption DEF HeapInv, ControlOK
  <2>2. Holds(c)'
    BY <1>1, <1>2, <1>4 DEF Holds
  <2>3. \A d \in Clients : pc'[d] = "idle" <=> call'[d] = Nothing
    BY <1>1, <1>2, <1>6 DEF HeapInv, ControlOK
  <2>4. \A d \in Clients : pc'[d] = "free" => call'[d].op = "free"
    BY <1>1, <1>6 DEF HeapInv, ControlOK
  <2> QED BY <1>1, <1>4, <1>6, <1>7, <2>1, <2>2, <2>3, <2>4 DEF ControlOK
<1>10. BlocksOK'
  <2>1. Holds(c) /\ \A d \in Clients : Holds(d)' <=> Holds(d)
    BY <1>1, <1>2, <1>4 DEF Holds
  <2>2. \A x : InTree(x)' <=> \E d \in Clients : d # c /\ Holds(d) /\ x = call[d].block
    BY <1>1, <1>6, <1>7, <2>1 DEF InTree
  <2>3. \A d \in Clients : Holds(d) => call[d].block \notin owned
    BY DEF HeapInv, BlocksOK
  <2>4. \A d, e \in Clients : Holds(d) /\ Holds(e) /\ d # e => call[d].block # call[e].block
    BY DEF HeapInv, BlocksOK
  <2>5. \A x : x \in LeafBlocks(heap_tree) <=>
           \/ x \in owned
           \/ \E d \in Clients : d # c /\ Holds(d) /\ x = call[d].block
           \/ x = b
    BY <1>2, <2>1, OtherBlocks
  <2>6. \A x : x \in LeafBlocks(heap_tree') <=>
           x \in owned \/ \E d \in Clients : d # c /\ Holds(d) /\ x = call[d].block
    BY <1>4, <2>1, <2>3, <2>4, <2>5
  <2> QED BY <1>1, <2>1, <2>2, <2>3, <2>4, <2>6 DEF BlocksOK
<1>11. WalkOK'
  BY <1>1, <1>4, <1>6, <1>7 DEF WalkOK, In
<1> QED BY <1>8, <1>9, <1>10, <1>11 DEF HeapInv

LEMMA CoalesceInv ==
  ASSUME HeapInv, NEW c \in Clients, Coalesce(c)
  PROVE  HeapInv'
<1>1. /\ pc[c] = "coalesce" /\ walk.i # 0
      /\ BothFree(heap_tree, Parent(walk.i))
      /\ heap_tree' = [heap_tree EXCEPT ![Parent(walk.i)] = NULL]
      /\ walk' = Up(walk) /\ Step
  BY DEF Coalesce, BothChildrenFree, BothFree
<1>2. /\ TreeInv(heap_tree, walk) /\ heap_tree[walk.i] = NULL /\ heap_lock = c
      /\ \A d \in Clients : d # c => pc[d] \notin {"walk", "coalesce"}
  BY <1>1, Walking DEF HeapInv, ControlOK
<1>3. Freed(heap_tree', heap_tree, Parent(walk.i))
  BY <1>1 DEF Freed
<1>4. /\ TreeInv(heap_tree', Up(walk)) /\ heap_tree'[Up(walk).i] = NULL
      /\ LeafBlocks(heap_tree') = LeafBlocks(heap_tree)
  BY <1>1, <1>2, <1>3, CoalesceStep
<1> USE DEF Step
<1>5. HeapTypeOK'
  BY <1>1, <1>4 DEF HeapInv, HeapTypeOK, TreeInv, TreeOK, IsWalk
<1>6. ControlOK'
  <2>1. c # NULL
    BY HeapAssumption
  <2> QED BY <1>1, <1>2, <1>4, <2>1 DEF HeapInv, ControlOK, Holds
<1>7. BlocksOK'
  BY <1>1, <1>4 DEF HeapInv, BlocksOK, Holds, InTree
<1>8. WalkOK'
  BY <1>1, <1>2, <1>4 DEF WalkOK, In
<1> QED BY <1>5, <1>6, <1>7, <1>8 DEF HeapInv

LEMMA FreeReturnsInv ==
  ASSUME HeapInv, NEW c \in Clients, FreeReturns(c)
  PROVE  HeapInv' /\ Holds(c)
<1>1. /\ pc[c] = "coalesce"
      /\ walk.i = 0 \/ ~ BothFree(heap_tree, Parent(walk.i))
      /\ Leave(c, 0) /\ heap_tree' = heap_tree /\ owned' = owned
  BY DEF FreeReturns, BothChildrenFree, BothFree
<1>2. Holds(c) /\ call[c].op = "free"
  BY <1>1 DEF HeapInv, ControlOK, Holds
<1>3. TreeInv(heap_tree', Root)
  BY <1>1, Walking, FreeEndStep
<1>4. <<call[c].op, 0>> \in Results
  BY <1>2 DEF Results
<1>5. \A d \in Clients : Holds(d) => call[d].block \notin owned'
  BY <1>1 DEF HeapInv, BlocksOK
<1>6. \A x : x \in LeafBlocks(heap_tree') <=>
         x \in owned' \/ \E d \in Clients : d # c /\ Holds(d) /\ x = call[d].block
  BY <1>1, OtherBlocks
<1>7. owned' \subseteq Blocks
  BY <1>1 DEF HeapInv, HeapTypeOK
<1> QED BY <1>1, <1>2, <1>3, <1>4, <1>5, <1>6, <1>7, LeaveStep

(* heap_stats: the second half of an iteration starts at AfterLeaf.        *)
LEMMA StatsIn ==
  ASSUME HeapInv, NEW c \in Clients, In(c, "stats"),
         NEW w, w = AfterLeaf
  PROVE  /\ pc[c] = "walk" /\ call[c].op = "stats" /\ ~ Holds(c)
         /\ TreeInv(heap_tree, w) /\ StatsOK(heap_tree, w) /\ ~ IsLeaf(heap_tree, w.i)
         /\ ~ Leaf(0)
         /\ \A n : Unseen(w, n) <=> Open(heap_tree, w, n)
<1>1. /\ pc[c] = "walk" /\ call[c].op = "stats" /\ ~ Holds(c)
      /\ TreeInv(heap_tree, walk) /\ StatsOK(heap_tree, walk)
  BY DEF In, Holds, HeapInv, WalkOK
<1>2. Leaf(walk.i) <=> IsLeaf(heap_tree, walk.i)
  BY DEF Leaf, IsLeaf
<1>3. TreeInv(heap_tree, w) /\ StatsOK(heap_tree, w) /\ ~ IsLeaf(heap_tree, w.i)
  <2>1. CASE Leaf(walk.i)
    <3>1. w = [Up(walk) EXCEPT !.used = @ + walk.block_size]
      BY <2>1 DEF AfterLeaf
    <3> QED BY <1>1, <1>2, <2>1, <3>1, StatsLeaf
  <2>2. CASE ~ Leaf(walk.i)
    BY <1>1, <1>2, <2>2 DEF AfterLeaf
  <2> QED BY <2>1, <2>2
<1>4. ~ Leaf(0)
  BY <1>1 DEF Leaf, IsLeaf, TreeInv
<1>5. \A n : Unseen(w, n) <=> Open(heap_tree, w, n)
  BY DEF Unseen, Open
<1> QED BY <1>1, <1>3, <1>4, <1>5

StatsDone(w) ==
  \/ walk.i = 0 /\ Leaf(0)
  \/ Right(w.i) = w.skip
  \/ ~ Unseen(w, Left(w.i)) /\ heap_tree[Right(w.i)] = NULL

LEMMA StatsStepIs ==
  ASSUME HeapInv, NEW c \in Clients, StatsStep(c), NEW w, w = AfterLeaf,
         NEW k, k = IF Open(heap_tree, w, Left(w.i)) THEN Left(w.i) ELSE Right(w.i)
  PROVE  /\ In(c, "stats") /\ heap_tree' = heap_tree
         /\ \/ ~ Closed(heap_tree, w) /\ walk' = Down(w, k) /\ Step
            \/ Closed(heap_tree, w) /\ w.i # 0 /\ walk' = Up(w) /\ Step
            \/ Closed(heap_tree, w) /\ w.i = 0 /\ Leave(c, w.used) /\ owned' = owned
<1>1. /\ In(c, "stats") /\ heap_tree' = heap_tree
      /\ \/ /\ ~ StatsDone(w)
            /\ walk' = Down(w, IF Unseen(w, Left(w.i)) THEN Left(w.i) ELSE Right(w.i))
            /\ Step
         \/ StatsDone(w) /\ w.i # 0 /\ walk' = Up(w) /\ Step
         \/ StatsDone(w) /\ w.i = 0 /\ Leave(c, w.used) /\ owned' = owned
  BY DEF StatsStep, StatsDone, GoUp
<1>2. Unseen(w, Left(w.i)) <=> Open(heap_tree, w, Left(w.i))
  BY <1>1, StatsIn
<1>3. StatsDone(w) <=> Closed(heap_tree, w)
  BY <1>1, <1>2, StatsIn DEF StatsDone, Closed
<1> QED BY <1>1, <1>2, <1>3

LEMMA StatsStepInv ==
  ASSUME HeapInv, NEW c \in Clients, StatsStep(c)
  PROVE  HeapInv'
<1> DEFINE w == AfterLeaf
           k == IF Open(heap_tree, w, Left(w.i)) THEN Left(w.i) ELSE Right(w.i)
<1>1. /\ In(c, "stats") /\ heap_tree' = heap_tree
      /\ \/ ~ Closed(heap_tree, w) /\ walk' = Down(w, k) /\ Step
         \/ Closed(heap_tree, w) /\ w.i # 0 /\ walk' = Up(w) /\ Step
         \/ Closed(heap_tree, w) /\ w.i = 0 /\ Leave(c, w.used) /\ owned' = owned
  BY StatsStepIs
<1>2. /\ pc[c] = "walk" /\ call[c].op = "stats" /\ ~ Holds(c)
      /\ TreeInv(heap_tree, w) /\ StatsOK(heap_tree, w) /\ ~ IsLeaf(heap_tree, w.i)
  BY <1>1, StatsIn
<1>3. k = IF Open(heap_tree, w, Left(w.i)) THEN Left(w.i) ELSE Right(w.i)
  OBVIOUS
<1> HIDE DEF w, k
<1>4. CASE ~ Closed(heap_tree, w) /\ walk' = Down(w, k) /\ Step
  <2>1. TreeInv(heap_tree, Down(w, k)) /\ StatsOK(heap_tree, Down(w, k))
    BY <1>2, <1>3, <1>4, StatsDownStep
  <2> QED BY <1>1, <1>2, <1>4, <2>1, WalkStep
<1>5. CASE Closed(heap_tree, w) /\ w.i # 0 /\ walk' = Up(w) /\ Step
  <2>1. TreeInv(heap_tree, Up(w)) /\ StatsOK(heap_tree, Up(w))
    BY <1>2, <1>5, StatsUpStep
  <2> QED BY <1>1, <1>2, <1>5, <2>1, WalkStep
<1>6. CASE Closed(heap_tree, w) /\ w.i = 0 /\ Leave(c, w.used) /\ owned' = owned
  <2>1. TreeInv(heap_tree', Root)
    BY <1>1, <1>2, <1>6, StatsEnd
  <2>2. <<call[c].op, w.used>> \in Results
    <3>1. w.used \in 0 .. HEAP_SIZE
      BY <1>2, WalkType DEF TreeInv
    <3> QED BY <1>2, <3>1 DEF Results
  <2>3. \A d \in Clients : Holds(d) => call[d].block \notin owned'
    BY <1>6 DEF HeapInv, BlocksOK
  <2>4. \A x : x \in LeafBlocks(heap_tree') <=>
           x \in owned' \/ \E d \in Clients : d # c /\ Holds(d) /\ x = call[d].block
    BY <1>1, <1>2, <1>6, OtherBlocks
  <2>5. owned' \subseteq Blocks
    BY <1>6 DEF HeapInv, HeapTypeOK
  <2> QED BY <1>2, <1>6, <2>1, <2>2, <2>3, <2>4, <2>5, LeaveStep
<1> QED BY <1>1, <1>4, <1>5, <1>6

(* Calls start, and enter the critical section.                            *)

LEMMA SameBlocks ==
  ASSUME HeapInv, UNCHANGED <<heap_tree, owned>>,
         \A d \in Clients : Holds(d)' <=> Holds(d),
         \A d \in Clients : Holds(d) => call'[d] = call[d],
         \A d \in Clients : pc'[d] = "coalesce" <=> pc[d] = "coalesce"
  PROVE  BlocksOK'
<1>1. \A x : InTree(x)' <=> InTree(x)
  BY DEF InTree
<1> QED BY <1>1 DEF HeapInv, BlocksOK

LEMMA IdleIs ==
  ASSUME HeapInv, NEW c \in Clients, pc[c] = "idle"
  PROVE  call[c] = Nothing /\ ~ Holds(c)
<1>1. call[c] = Nothing
  BY DEF HeapInv, ControlOK
<1> QED BY <1>1 DEF Holds, Nothing

LEMMA StartInv ==
  ASSUME HeapInv, NEW c \in Clients, NEW newCall \in Calls, newCall.op \in {"malloc", "stats"},
         Start(c, "enter", newCall), owned' = owned
  PROVE  HeapInv'
<1>1. /\ pc[c] = "idle" /\ pc' = [pc EXCEPT ![c] = "enter"]
      /\ call' = [call EXCEPT ![c] = newCall] /\ returned' = <<>>
      /\ UNCHANGED <<heap_tree, heap_lock, walk>>
  BY DEF Start
<1>2. /\ pc \in [Clients -> {"idle", "free", "enter", "walk", "coalesce"}]
      /\ call \in [Clients -> Calls] /\ owned \subseteq Blocks
  BY DEF HeapInv, HeapTypeOK
<1>3. /\ pc'[c] = "enter" /\ call'[c] = newCall
      /\ \A d \in Clients : d # c => pc'[d] = pc[d] /\ call'[d] = call[d]
  BY <1>1, <1>2
<1>4. ~ Holds(c) /\ ~ Holds(c)'
  BY <1>1, <1>3, IdleIs DEF Holds
<1>5. BlocksOK'
  <2>1. \A d \in Clients : Holds(d)' <=> Holds(d)
    BY <1>3, <1>4 DEF Holds
  <2>2. \A d \in Clients : pc'[d] = "coalesce" <=> pc[d] = "coalesce"
    BY <1>1, <1>3
  <2> QED BY <1>1, <1>3, <1>4, <2>1, <2>2, SameBlocks
<1>6. newCall # Nothing
  BY DEF Nothing
<1>7. returned' \in Results
  BY <1>1 DEF Results
<1>8. pc[c] \notin {"walk", "coalesce"} /\ owned' \subseteq Blocks
  BY <1>1, <1>2
<1> QED BY <1>1, <1>5, <1>6, <1>7, <1>8, OutsideStep

LEMMA StartMallocInv ==
  ASSUME HeapInv, NEW c \in Clients, NEW n \in Requests, StartMalloc(c, n)
  PROVE  HeapInv'
<1>1. [op |-> "malloc", size |-> n] \in Calls
  BY DEF Calls
<1> QED BY <1>1, StartInv DEF StartMalloc

LEMMA StartStatsInv ==
  ASSUME HeapInv, NEW c \in Clients, StartStats(c)
  PROVE  HeapInv'
<1>1. [op |-> "stats"] \in Calls
  BY DEF Calls
<1> QED BY <1>1, StartInv DEF StartStats

LEMMA StartFreeInv ==
  ASSUME HeapInv, NEW c \in Clients, NEW b \in owned \cup {NoBlock}, StartFree(c, b)
  PROVE  HeapInv'
<1> DEFINE newCall == [op |-> "free", block |-> b]
<1>1. /\ pc[c] = "idle" /\ pc' = [pc EXCEPT ![c] = "free"]
      /\ call' = [call EXCEPT ![c] = newCall] /\ returned' = <<>>
      /\ UNCHANGED <<heap_tree, heap_lock, walk>>
      /\ owned' = owned \ {b}
  BY DEF StartFree, Start
<1>2. /\ pc \in [Clients -> {"idle", "free", "enter", "walk", "coalesce"}]
      /\ call \in [Clients -> Calls] /\ owned \subseteq Blocks
  BY DEF HeapInv, HeapTypeOK
<1>3. newCall \in Calls /\ newCall.op = "free" /\ newCall.block = b /\ newCall # Nothing
  BY <1>2 DEF Calls, Nothing
<1> HIDE DEF newCall
<1>4. /\ pc'[c] = "free" /\ call'[c] = newCall
      /\ \A d \in Clients : d # c => pc'[d] = pc[d] /\ call'[d] = call[d]
  BY <1>1, <1>2
<1>5. /\ ~ Holds(c) /\ (Holds(c)' <=> b # NoBlock)
      /\ \A d \in Clients : d # c => (Holds(d)' <=> Holds(d))
  BY <1>1, <1>3, <1>4, IdleIs DEF Holds
<1>6. BlocksOK'
  <2>1. NoBlock \notin owned
    BY <1>2, NoBlockIs
  <2>2. \A x : InTree(x)' <=> InTree(x) \/ (b # NoBlock /\ x = b)
    BY <1>3, <1>4, <1>5 DEF InTree
  <2>3. \A d \in Clients : Holds(d) => call[d].block \notin owned
    BY DEF HeapInv, BlocksOK
  <2>4. \A d, e \in Clients :
          Holds(d)' /\ Holds(e)' /\ d # e => call'[d].block # call'[e].block
    BY <1>3, <1>4, <1>5, <2>3 DEF HeapInv, BlocksOK
  <2>5. \A d \in Clients : Holds(d)' => call'[d].block \notin owned'
    BY <1>1, <1>3, <1>4, <1>5, <2>3
  <2>6. \A x : x \in LeafBlocks(heap_tree)' <=> x \in owned' \/ InTree(x)'
    BY <1>1, <2>1, <2>2 DEF HeapInv, BlocksOK
  <2> QED BY <2>4, <2>5, <2>6 DEF BlocksOK
<1>7. returned' \in Results
  BY <1>1 DEF Results
<1>8. pc[c] \notin {"walk", "coalesce"} /\ owned' \subseteq Blocks
  BY <1>1, <1>2
<1> QED BY <1>1, <1>3, <1>6, <1>7, <1>8, OutsideStep

(* The root is NULL only if no block is in use, so the test without        *)
(* heap_lock makes free fail for free(NULL) only.                          *)
LEMMA RootClear ==
  ASSUME NEW t, TreeOK(t), t[0] = NULL
  PROVE  LeafBlocks(t) = {}
<1>1. ASSUME NEW b \in LeafBlocks(t) PROVE FALSE
  <2>1. PICK m \in Nodes : IsLeaf(t, m)
    BY <1>1, BlockHasNode
  <2>2. ~ Overlap(m, 0)
    BY <2>1, RootIs, RootWalk, FreeIsClear
  <2> QED BY <2>2, RootIs, IntervalIs DEF Overlap
<1> QED BY <1>1

LEMMA FreeTestInv ==
  ASSUME HeapInv, NEW c \in Clients, FreeTest(c)
  PROVE  /\ HeapInv'
         /\ heap_tree[0] = NULL => call[c].block = NoBlock
<1>1. /\ pc[c] = "free" /\ UNCHANGED <<heap_tree, heap_lock, walk>> /\ owned' = owned
  BY DEF FreeTest
<1>2. /\ pc \in [Clients -> {"idle", "free", "enter", "walk", "coalesce"}]
      /\ call \in [Clients -> Calls] /\ owned \subseteq Blocks /\ returned \in Results
      /\ pc[c] \notin {"walk", "coalesce"} /\ call[c] \in Calls
      /\ call[c].op = "free" /\ call[c] # Nothing
  BY <1>1 DEF HeapInv, HeapTypeOK, ControlOK, Nothing
<1>3. ASSUME heap_tree[0] = NULL PROVE ~ Holds(c) /\ call[c].block = NoBlock
  <2>1. LeafBlocks(heap_tree) = {}
    BY <1>3, RootClear DEF HeapInv, WalkOK, TreeInv
  <2> QED BY <1>1, <1>2, <2>1 DEF HeapInv, BlocksOK, InTree, Holds
<1>4. CASE heap_tree[0] # NULL
  <2>1. pc' = [pc EXCEPT ![c] = "enter"] /\ call' = call /\ returned' = returned
    BY <1>4 DEF FreeTest
  <2>2. call' = [call EXCEPT ![c] = call[c]]
    BY <1>2, <2>1
  <2>3. BlocksOK'
    BY <1>1, <1>2, <2>1, SameBlocks DEF Holds
  <2> QED BY <1>1, <1>2, <1>4, <2>1, <2>2, <2>3, OutsideStep
<1>5. CASE heap_tree[0] = NULL
  <2>1. /\ pc' = [pc EXCEPT ![c] = "idle"] /\ call' = [call EXCEPT ![c] = Nothing]
        /\ returned' = <<call[c].op, 1>>
    BY <1>5 DEF FreeTest, Return
  <2>2. /\ pc'[c] = "idle" /\ call'[c] = Nothing
        /\ \A d \in Clients : d # c => pc'[d] = pc[d] /\ call'[d] = call[d]
    BY <1>2, <2>1
  <2>3. ~ Holds(c) /\ ~ Holds(c)'
    BY <1>3, <1>5, <2>2 DEF Holds, Nothing
  <2>4. BlocksOK'
    <3>1. \A d \in Clients : Holds(d)' <=> Holds(d)
      BY <2>2, <2>3 DEF Holds
    <3>2. \A d \in Clients : pc'[d] = "coalesce" <=> pc[d] = "coalesce"
      BY <1>1, <2>2
    <3> QED BY <1>1, <2>2, <2>3, <3>1, <3>2, SameBlocks
  <2>5. returned' \in Results /\ Nothing \in Calls
    BY <1>2, <2>1 DEF Results, Calls
  <2> QED BY <1>1, <1>2, <1>3, <1>5, <2>1, <2>4, <2>5, OutsideStep
<1> QED BY <1>4, <1>5

LEMMA EnterInv ==
  ASSUME HalfRequests, HeapInv, NEW c \in Clients, NEW op, Enter(c, op)
  PROVE  HeapInv'
<1>1. /\ pc[c] = "enter" /\ heap_lock = NULL /\ heap_lock' = c /\ walk' = Root
      /\ pc' = [pc EXCEPT ![c] = "walk"]
      /\ UNCHANGED <<heap_tree, call, owned, returned>>
  BY DEF Enter
<1>2. pc \in [Clients -> {"idle", "free", "enter", "walk", "coalesce"}]
  BY DEF HeapInv, HeapTypeOK
<1>3. pc'[c] = "walk" /\ \A d \in Clients : d # c => pc'[d] = pc[d]
  BY <1>1, <1>2
<1>4. walk = Root /\ \A d \in Clients : pc[d] \notin {"walk", "coalesce"}
  BY <1>1, HeapAssumption DEF HeapInv, ControlOK
<1>5. HeapTypeOK'
  BY <1>1, <1>2, <1>4 DEF HeapInv, HeapTypeOK
<1>6. ControlOK'
  <2>1. c # NULL
    BY HeapAssumption
  <2>2. \A d \in Clients : pc'[d] = "idle" <=> call'[d] = Nothing
    BY <1>1, <1>3 DEF HeapInv, ControlOK
  <2>3. \A d \in Clients : pc'[d] = "free" => call'[d].op = "free"
    BY <1>1, <1>3 DEF HeapInv, ControlOK
  <2> QED BY <1>1, <1>3, <1>4, <2>1, <2>2, <2>3 DEF ControlOK
<1>7. BlocksOK'
  BY <1>1, <1>3, <1>4, SameBlocks DEF Holds
<1>8. TreeInv(heap_tree, Root)
  BY <1>4 DEF HeapInv, WalkOK
<1>9. WalkOK'
  <2>1. ASSUME call[c].op = "malloc" PROVE MallocOK(heap_tree, Root, Size(c))
    BY <1>8, <2>1, SizeType, MallocStarts DEF HeapInv
  <2>2. ASSUME call[c].op = "free" PROVE FindOK(heap_tree, Root, call[c].block)
    <3>1. call[c].block # NoBlock => call[c].block.addr \in Nat
      BY <2>2, CallType DEF HeapInv, Blocks, Addresses
    <3> QED BY <3>1, FindStarts
  <2>3. StatsOK(heap_tree, Root)
    BY StatsStarts
  <2>4. \A d \in Clients : pc'[d] = "walk" => d = c
    BY <1>3, <1>4
  <2> QED BY <1>1, <1>8, <2>1, <2>2, <2>3, <2>4 DEF WalkOK, In, Size
<1> QED BY <1>5, <1>6, <1>7, <1>9 DEF HeapInv

-----------------------------------------------------------------------------
(* The theorems.                                                           *)

LEMMA NextInv ==
  ASSUME HalfRequests, HeapInv, [Next]_vars
  PROVE  HeapInv'
<1>1. CASE UNCHANGED vars
  BY <1>1 DEF vars, HeapInv, HeapTypeOK, ControlOK, BlocksOK, WalkOK, Holds, InTree, In, Size
<1>2. CASE Next
  <2>1. PICK c \in Clients :
          \/ \E n \in Requests : StartMalloc(c, n)
          \/ \E b \in owned \cup {NoBlock} : StartFree(c, b)
          \/ StartStats(c)
          \/ FreeTest(c)
          \/ \E op \in {"malloc", "free", "stats"} : Enter(c, op)
          \/ Working(c)
    BY <1>2 DEF Next
  <2>2. CASE \E n \in Requests : StartMalloc(c, n)
    BY <2>2, StartMallocInv
  <2>3. CASE \E b \in owned \cup {NoBlock} : StartFree(c, b)
    BY <2>3, StartFreeInv
  <2>4. CASE StartStats(c)
    BY <2>4, StartStatsInv
  <2>5. CASE FreeTest(c)
    BY <2>5, FreeTestInv
  <2>6. CASE \E op \in {"malloc", "free", "stats"} : Enter(c, op)
    BY <2>6, EnterInv
  <2>7. CASE Working(c)
    BY <2>7, MallocTakenInv, MallocFoundInv, MallocDownInv, MallocUpInv, MallocFailsInv,
       FindDownInv, FindUpInv, FreeFailsInv, FreeFoundInv, CoalesceInv, FreeReturnsInv,
       StatsStepInv DEF Working
  <2> QED BY <2>1, <2>2, <2>3, <2>4, <2>5, <2>6, <2>7
<1> QED BY <1>1, <1>2

(* Every variable has its type: no walk of malloc, find_ptr or heap_stats  *)
(* (os/heap.c) leaves heap_tree.                                           *)
THEOREM HeapTypes ==
  ASSUME HalfRequests
  PROVE  Spec => []HeapTypeOK
<1>1. HeapInv => HeapTypeOK
  BY DEF HeapInv
<1> QED BY <1>1, InitInv, NextInv, PTL DEF Spec

(* Between the calls the leaves are exactly the blocks in use, and the     *)
(* branches the nodes above them: no walk of malloc leaves a branch behind,*)
(* and free gives back all the memory it can (os/heap.c).                  *)
THEOREM HeapTree ==
  ASSUME HalfRequests
  PROVE  Spec => []TreeExact
<1>1. ASSUME HeapInv PROVE TreeExact
  <2>1. SUFFICES ASSUME heap_lock = NULL
                 PROVE  /\ LeafBlocks(heap_tree) = owned \cup Freeing
                        /\ \A n \in Nodes :
                             heap_tree[n] = BRANCH_NODE <=> HasChild(heap_tree, n)
    BY DEF TreeExact, LeafBlocks, BlockOf, BlockIn, Leaf, IsLeaf, HasChild
  <2>2. /\ walk = Root /\ \A c \in Clients : pc[c] \notin {"walk", "coalesce"}
        /\ TreeInv(heap_tree, walk) /\ TreeOK(heap_tree)
    BY <1>1, <2>1, HeapAssumption DEF HeapInv, ControlOK, WalkOK, TreeInv
  <2>3. \A x : x \in LeafBlocks(heap_tree) <=> x \in owned \cup Freeing
    <3>1. \A x : x \in Freeing <=> \E c \in Clients : Holds(c) /\ x = call[c].block
      BY DEF Freeing, Holds
    <3>2. \A x : InTree(x) <=> x \in Freeing
      BY <2>2, <3>1 DEF InTree
    <3> QED BY <1>1, <3>2 DEF HeapInv, BlocksOK
  <2>4. ASSUME NEW n \in Nodes, heap_tree[n] = BRANCH_NODE PROVE HasChild(heap_tree, n)
    BY <2>2, <2>4, RootWalk, QuietTree
  <2>5. ASSUME NEW n \in Nodes, HasChild(heap_tree, n) PROVE heap_tree[n] = BRANCH_NODE
    BY <2>2, <2>5, LeafAlone
  <2> QED BY <2>3, <2>4, <2>5
<1> QED BY <1>1, InitInv, NextInv, PTL DEF Spec

UnitsOf(b) == b.addr .. b.addr + b.size - 1

(* No unit of the heap belongs to two blocks that clients own.             *)
NoSharing == \A a, b \in owned : a # b => UnitsOf(a) \cap UnitsOf(b) = {}

(* malloc (os/heap.c) never hands out memory that is in use.               *)
THEOREM HeapNotShared ==
  ASSUME HalfRequests
  PROVE  Spec => []NoSharing
<1>1. ASSUME HeapInv PROVE NoSharing
  <2>1. SUFFICES ASSUME NEW a \in owned, NEW b \in owned, a # b
                 PROVE  UnitsOf(a) \cap UnitsOf(b) = {}
    BY DEF NoSharing
  <2>2. TreeOK(heap_tree) /\ a \in LeafBlocks(heap_tree) /\ b \in LeafBlocks(heap_tree)
    BY <1>1 DEF HeapInv, BlocksOK, WalkOK, TreeInv
  <2>3. PICK m \in Nodes : IsLeaf(heap_tree, m) /\ a = BlockIn(heap_tree, m)
                           /\ a.addr = Lo(m) /\ a.size = BlockSize(m)
    BY <2>2, BlockHasNode
  <2>4. PICK n \in Nodes : IsLeaf(heap_tree, n) /\ b = BlockIn(heap_tree, n)
                           /\ b.addr = Lo(n) /\ b.size = BlockSize(n)
    BY <2>2, BlockHasNode
  <2>5. ~ Overlap(m, n)
    BY <2>1, <2>2, <2>3, <2>4, LeavesDisjoint
  <2> QED BY <2>3, <2>4, <2>5, IntervalIs DEF Overlap, UnitsOf
<1> QED BY <1>1, InitInv, NextInv, PTL DEF Spec

-----------------------------------------------------------------------------
(* The refinement of Allocator.                                            *)

LEMMA SameSizes ==
  \A n : Allocator!Rounded(n) = next_pow2(n)
<1>1. Allocator!Sizes = Sizes
  BY DEF Allocator!Sizes, Allocator!PowerOfTwo, Sizes, PowerOfTwo
<1> QED BY <1>1 DEF Allocator!Rounded, next_pow2

(* While a client walks, the leaves are the blocks in use.                 *)
LEMMA UsedIs ==
  ASSUME HeapInv, NEW c \in Clients, pc[c] = "walk"
  PROVE  Allocator!Used = LeafBlocks(heap_tree)
<1>1. \A d \in Clients : pc[d] # "coalesce"
  BY Alone DEF HeapInv
<1>2. \A x : InTree(x) <=> \E d \in Clients : Holds(d) /\ x = call[d].block
  BY <1>1 DEF InTree
<1>3. NoBlock \notin owned /\ Allocator!NoBlock = NoBlock
  BY NoBlockIs DEF HeapInv, HeapTypeOK, Allocator!NoBlock, NoBlock
<1>4. \A x : x \in Allocator!Used <=>
         x # NoBlock /\ (x \in owned \/ \E d \in Clients : call[d].op = "free" /\ x = call[d].block)
  BY <1>3 DEF Allocator!Used
<1>5. \A x : x \in Allocator!Used <=>
         x \in owned \/ \E d \in Clients : Holds(d) /\ x = call[d].block
  BY <1>3, <1>4 DEF Holds
<1>6. \A x : x \in LeafBlocks(heap_tree) <=> x \in owned \/ InTree(x)
  BY DEF HeapInv, BlocksOK
<1>7. \A x : x \in Allocator!Used <=> x \in LeafBlocks(heap_tree)
  BY <1>2, <1>5, <1>6
<1> QED BY <1>7

LEMMA UnitsAre ==
  ASSUME NEW n \in Nodes, NEW b, b.addr = Lo(n), b.size = BlockSize(n)
  PROVE  \A x : x \in Allocator!Units(b) <=> x \in Int /\ Lo(n) <= x /\ x < End(n)
BY IntervalIs DEF Allocator!Units

LEMMA OverlapUnits ==
  ASSUME NEW m \in Nodes, NEW a, a.addr = Lo(m), a.size = BlockSize(m),
         NEW n \in Nodes, NEW b, b.addr = Lo(n), b.size = BlockSize(n)
  PROVE  Allocator!Units(a) \cap Allocator!Units(b) = {} <=> ~ Overlap(m, n)
<1>1. /\ Lo(m) \in Nat /\ End(m) \in Nat /\ Lo(n) \in Nat /\ End(n) \in Nat
      /\ Lo(m) < End(m) /\ Lo(n) < End(n)
  BY IntervalIs
<1>2. ASSUME Overlap(m, n) PROVE Allocator!Units(a) \cap Allocator!Units(b) # {}
  <2>1. CASE Lo(m) <= Lo(n)
    <3>1. Lo(n) \in Allocator!Units(a) /\ Lo(n) \in Allocator!Units(b)
      BY <1>1, <1>2, <2>1, UnitsAre DEF Overlap
    <3> QED BY <3>1
  <2>2. CASE Lo(n) <= Lo(m)
    <3>1. Lo(m) \in Allocator!Units(a) /\ Lo(m) \in Allocator!Units(b)
      BY <1>1, <1>2, <2>2, UnitsAre DEF Overlap
    <3> QED BY <3>1
  <2> QED BY <1>1, <2>1, <2>2
<1>3. ASSUME NEW x, x \in Allocator!Units(a), x \in Allocator!Units(b) PROVE Overlap(m, n)
  <2>1. x \in Int /\ Lo(m) <= x /\ x < End(m) /\ Lo(n) <= x /\ x < End(n)
    BY <1>3, UnitsAre
  <2> QED BY <1>1, <2>1 DEF Overlap
<1> QED BY <1>2, <1>3

(* Every node is an aligned block of its size, and the other way round.    *)
LEMMA NodeAligned ==
  ASSUME NEW n \in Nodes
  PROVE  [addr |-> Lo(n), size |-> BlockSize(n)] \in Allocator!Aligned(BlockSize(n))
<1> DEFINE s == BlockSize(n)
<1>1. /\ s \in Nat \ {0} /\ s \in Sizes /\ Lo(n) \in Nat /\ Lo(n) + s <= HEAP_SIZE
      /\ n \in Nat /\ HEAP_SIZE \in Nat /\ Lo(n) = (n + 1) * s - HEAP_SIZE
      /\ Lo(n) \in 0 .. HEAP_SIZE - 1
  <2>1. s \in Nat \ {0} /\ s \in Sizes /\ n \in Nat /\ HEAP_SIZE \in Nat
    BY IntervalIs, BlockSizeIs, NodesType, SizesType
  <2>2. Lo(n) \in Nat /\ Lo(n) + s <= HEAP_SIZE /\ Lo(n) \in Addresses
    BY IntervalIs
  <2>3. Lo(n) = (n + 1) * s - HEAP_SIZE
    BY DEF Lo
  <2> QED BY <2>1, <2>2, <2>3 DEF Addresses
<1>2. PICK q \in Nat : HEAP_SIZE = q * s
  BY <1>1, SizeDivides
<1> HIDE DEF s
<1>3. Lo(n) = (n + 1 - q) * s
  BY <1>1, <1>2
<1>4. n + 1 - q >= 0
  BY <1>1, <1>3
<1>5. Lo(n) % s = 0
  <2>1. n + 1 - q \in Nat
    BY <1>1, <1>2, <1>4
  <2> QED BY <1>1, <1>3, <2>1, Multiple
<1> QED BY <1>1, <1>5 DEF Allocator!Aligned, s

LEMMA AlignedNode ==
  ASSUME NEW s \in Sizes, NEW b \in Allocator!Aligned(s)
  PROVE  \E n \in Nodes : BlockSize(n) = s /\ b.addr = Lo(n) /\ b.size = s
<1>1. /\ b.addr \in 0 .. HEAP_SIZE - 1 /\ b.size = s /\ b.addr % s = 0
      /\ s \in Nat \ {0} /\ HEAP_SIZE \in Nat /\ HEAP_SIZE > 1
  BY SizesType DEF Allocator!Aligned
<1>2. PICK q \in Nat : HEAP_SIZE = q * s
  BY SizeDivides
<1>3. PICK r \in Nat : b.addr = r * s
  <2>1. b.addr \in Nat
    BY <1>1
  <2> QED BY <1>1, <2>1, Multiple
<1> DEFINE n == q + r - 1
<1>4. q >= 1 /\ n \in Nat /\ (n + 1) * s = HEAP_SIZE + b.addr
  <2>1. q >= 1
    BY <1>1, <1>2
  <2> QED BY <1>1, <1>2, <1>3, <2>1
<1>5. OnLevel(n, s)
  BY <1>1, <1>4 DEF OnLevel
<1> HIDE DEF n
<1>6. n \in Nodes
  <2>1. n + 1 <= (n + 1) * s
    BY <1>1, <1>4
  <2>2. n + 1 <= HEAP_SIZE + b.addr
    BY <1>4, <2>1
  <2> QED BY <1>1, <1>4, <2>2, NodesType
<1>7. BlockSize(n) = s
  BY <1>5, <1>6, BlockSizeUnique
<1>8. Lo(n) = b.addr
  BY <1>1, <1>4, <1>7 DEF Lo
<1> QED BY <1>1, <1>6, <1>7, <1>8

(* The units of the blocks in use are the occupied ones.                   *)
LEMMA OccupiedIs ==
  ASSUME NEW t, TreeOK(t)
  PROVE  UNION {Allocator!Units(b) : b \in LeafBlocks(t)} = Occupied(t)
<1>1. ASSUME NEW b \in LeafBlocks(t), NEW x \in Allocator!Units(b) PROVE x \in Occupied(t)
  <2>1. PICK m \in Nodes : IsLeaf(t, m) /\ b.addr = Lo(m) /\ b.size = BlockSize(m)
    BY BlockHasNode
  <2>2. x \in Int /\ Lo(m) <= x /\ x < End(m)
    BY <2>1, UnitsAre
  <2>3. x \in Addresses
    BY <2>1, <2>2, IntervalIs, SizesType DEF Addresses
  <2> QED BY <2>1, <2>2, <2>3 DEF Occupied
<1>2. ASSUME NEW x \in Occupied(t)
      PROVE  \E b \in LeafBlocks(t) : x \in Allocator!Units(b)
  <2>1. PICK m \in Nodes : IsLeaf(t, m) /\ Lo(m) <= x /\ x < End(m)
    BY DEF Occupied
  <2>2. x \in Int
    BY DEF Occupied, Addresses
  <2>3. /\ BlockIn(t, m) \in LeafBlocks(t)
        /\ BlockIn(t, m).addr = Lo(m) /\ BlockIn(t, m).size = BlockSize(m)
    BY <2>1 DEF LeafBlocks, BlockIn, TreeOK
  <2>4. x \in Allocator!Units(BlockIn(t, m))
    BY <2>1, <2>2, <2>3, UnitsAre
  <2> QED BY <2>3, <2>4
<1> QED BY <1>1, <1>2

LEMMA ReturnIs ==
  ASSUME NEW c \in Clients, NEW op, NEW result, call[c].op = op, Leave(c, result)
  PROVE  Allocator!Return(c, op, result)
BY DEF Leave, Return, Allocator!Return, Nothing, Allocator!Nothing

LEMMA MallocFoundMaps ==
  ASSUME HalfRequests, HeapInv, NEW c \in Clients, MallocFound(c)
  PROVE  Allocator!Malloc(c)
<1> DEFINE b == [addr |-> Lo(walk.i), size |-> Size(c)]
<1>1. /\ BlockSize(walk.i) = Size(c) /\ owned' = owned \cup {b} /\ Leave(c, b)
      /\ \A m \in Nodes : IsLeaf(heap_tree, m) => ~ Overlap(m, walk.i)
  BY MallocFoundIs
<1>2. pc[c] = "walk" /\ call[c].op = "malloc"
  BY MallocIn DEF MallocFound
<1>3. walk.i \in Nodes /\ TreeOK(heap_tree)
  BY <1>2, Walking
<1>4. b \in Allocator!Aligned(Allocator!Rounded(call[c].size))
  BY <1>1, <1>3, NodeAligned, SameSizes DEF Size
<1>5. b.addr = Lo(walk.i) /\ b.size = BlockSize(walk.i)
  BY <1>1
<1> HIDE DEF b
<1>6. Allocator!Fits(b)
  <2>1. SUFFICES ASSUME NEW u \in LeafBlocks(heap_tree)
                 PROVE  Allocator!Units(b) \cap Allocator!Units(u) = {}
    BY <1>2, UsedIs DEF Allocator!Fits
  <2>2. PICK m \in Nodes : IsLeaf(heap_tree, m) /\ u.addr = Lo(m) /\ u.size = BlockSize(m)
    BY <1>3, BlockHasNode
  <2>3. ~ Overlap(walk.i, m)
    BY <1>1, <2>2, OverlapSym
  <2> QED BY <1>3, <1>5, <2>2, <2>3, OverlapUnits
<1>7. Allocator!Return(c, "malloc", b)
  BY <1>1, <1>2, ReturnIs
<1> QED BY <1>1, <1>2, <1>4, <1>6, <1>7 DEF Allocator!Malloc

LEMMA MallocFailsMaps ==
  ASSUME HalfRequests, HeapInv, NEW c \in Clients, MallocFails(c)
  PROVE  Allocator!Malloc(c)
<1>1. /\ Above(c) /\ Leave(c, NULL) /\ owned' = owned
      /\ \A n \in Nodes : BlockSize(n) = Size(c) => Taken(heap_tree, n)
  BY MallocFailsInv DEF MallocFails
<1>2. pc[c] = "walk" /\ call[c].op = "malloc" /\ Size(c) \in Sizes
  BY <1>1, AboveIs, MallocIn
<1>3. TreeOK(heap_tree)
  BY <1>2, Walking
<1>4. ASSUME NEW b \in Allocator!Aligned(Allocator!Rounded(call[c].size)) PROVE ~ Allocator!Fits(b)
  <2>1. b \in Allocator!Aligned(Size(c))
    BY <1>4, SameSizes DEF Size
  <2>2. PICK n \in Nodes : BlockSize(n) = Size(c) /\ b.addr = Lo(n) /\ b.size = Size(c)
    BY <1>2, <2>1, AlignedNode
  <2>3. PICK m \in Nodes : IsLeaf(heap_tree, m) /\ Overlap(m, n)
    BY <1>1, <2>2 DEF Taken
  <2> DEFINE u == BlockIn(heap_tree, m)
  <2>4. u \in LeafBlocks(heap_tree) /\ u.addr = Lo(m) /\ u.size = BlockSize(m)
    BY <1>3, <2>3 DEF LeafBlocks, BlockIn, TreeOK
  <2> HIDE DEF u
  <2>5. Allocator!Units(b) \cap Allocator!Units(u) # {}
    BY <2>2, <2>3, <2>4, OverlapSym, OverlapUnits
  <2> QED BY <1>2, <2>4, <2>5, UsedIs DEF Allocator!Fits
<1>5. Allocator!Return(c, "malloc", NULL)
  BY <1>1, <1>2, ReturnIs
<1> QED BY <1>1, <1>2, <1>4, <1>5 DEF Allocator!Malloc

LEMMA FreeMaps ==
  ASSUME HeapInv, NEW c \in Clients, FreeFails(c) \/ FreeReturns(c)
  PROVE  Allocator!Free(c)
<1>1. CASE FreeFails(c)
  <2>1. Leave(c, 1) /\ owned' = owned /\ call[c].op = "free" /\ call[c].block = NoBlock
    BY <1>1, FreeFailsInv DEF FreeFails, In
  <2>2. Allocator!Return(c, "free", 1)
    BY <2>1, ReturnIs
  <2> QED BY <2>1, <2>2 DEF Allocator!Free, Allocator!NoBlock, NoBlock
<1>2. CASE FreeReturns(c)
  <2>1. Leave(c, 0) /\ owned' = owned /\ call[c].op = "free" /\ call[c].block # NoBlock
    BY <1>2, FreeReturnsInv DEF FreeReturns, Holds
  <2>2. Allocator!Return(c, "free", 0)
    BY <2>1, ReturnIs
  <2> QED BY <2>1, <2>2 DEF Allocator!Free, Allocator!NoBlock, NoBlock
<1> QED BY <1>1, <1>2

LEMMA StatsMaps ==
  ASSUME HeapInv, NEW c \in Clients, StatsStep(c)
  PROVE  UNCHANGED <<call, owned, returned>> \/ Allocator!Stats(c)
<1> DEFINE w == AfterLeaf
<1>1. /\ In(c, "stats")
      /\ \/ Step
         \/ Closed(heap_tree, w) /\ w.i = 0 /\ Leave(c, w.used) /\ owned' = owned
  BY StatsStepIs
<1>2. /\ pc[c] = "walk" /\ call[c].op = "stats"
      /\ TreeInv(heap_tree, w) /\ StatsOK(heap_tree, w) /\ ~ IsLeaf(heap_tree, w.i)
  BY <1>1, StatsIn
<1> HIDE DEF w
<1>3. CASE Step
  BY <1>3 DEF Step
<1>4. CASE Closed(heap_tree, w) /\ w.i = 0 /\ Leave(c, w.used) /\ owned' = owned
  <2>1. w.used = Cardinality(Occupied(heap_tree))
    BY <1>2, <1>4, StatsEnd
  <2>2. Allocator!UsedUnits = Cardinality(Occupied(heap_tree))
    <3>1. \A S : Allocator!Cardinality(S) = Cardinality(S)
      BY DEF Allocator!Cardinality, Cardinality
    <3>2. UNION {Allocator!Units(b) : b \in Allocator!Used} = Occupied(heap_tree)
      BY <1>2, UsedIs, OccupiedIs DEF TreeInv
    <3> QED BY <3>1, <3>2 DEF Allocator!UsedUnits
  <2>3. Allocator!Return(c, "stats", w.used)
    BY <1>2, <1>4, ReturnIs
  <2> QED BY <1>4, <2>1, <2>2, <2>3 DEF Allocator!Stats
<1> QED BY <1>1, <1>3, <1>4

LEMMA WorkingMaps ==
  ASSUME HalfRequests, HeapInv, NEW c \in Clients, Working(c)
  PROVE  UNCHANGED <<call, owned, returned>> \/ Allocator!Next
<1>1. CASE MallocTaken(c) \/ MallocDown(c) \/ MallocUp(c) \/ FindDown(c) \/ FindUp(c)
           \/ Coalesce(c)
  BY <1>1 DEF MallocTaken, MallocDown, MallocUp, FindDown, FindUp, Coalesce, Step
<1>2. CASE FreeFound(c)
  BY <1>2 DEF FreeFound
<1>3. CASE MallocFound(c) \/ MallocFails(c)
  BY <1>3, MallocFoundMaps, MallocFailsMaps DEF Allocator!Next
<1>4. CASE FreeFails(c) \/ FreeReturns(c)
  BY <1>4, FreeMaps DEF Allocator!Next
<1>5. CASE StatsStep(c)
  BY <1>5, StatsMaps DEF Allocator!Next
<1> QED BY <1>1, <1>2, <1>3, <1>4, <1>5 DEF Working

LEMMA StartMaps ==
  ASSUME HeapInv, NEW c \in Clients, NEW location, NEW newCall, Start(c, location, newCall)
  PROVE  Allocator!Start(c, newCall)
<1>1. pc[c] = "idle" /\ call' = [call EXCEPT ![c] = newCall] /\ returned' = <<>>
  BY DEF Start
<1>2. call[c] = Nothing
  BY <1>1, IdleIs
<1> QED BY <1>1, <1>2 DEF Allocator!Start, Allocator!Nothing, Nothing

LEMMA NextMaps ==
  ASSUME HalfRequests, HeapInv, [Next]_vars
  PROVE  [Allocator!Next]_Allocator!vars
<1>1. CASE UNCHANGED vars
  BY <1>1 DEF vars, Allocator!vars
<1>2. CASE Next
  <2>1. PICK c \in Clients :
          \/ \E n \in Requests : StartMalloc(c, n)
          \/ \E b \in owned \cup {NoBlock} : StartFree(c, b)
          \/ StartStats(c)
          \/ FreeTest(c)
          \/ \E op \in {"malloc", "free", "stats"} : Enter(c, op)
          \/ Working(c)
    BY <1>2 DEF Next
  <2>2. CASE \E n \in Requests : StartMalloc(c, n)
    <3>1. PICK n \in Requests : StartMalloc(c, n)
      BY <2>2
    <3>2. Allocator!StartMalloc(c, n)
      BY <3>1, StartMaps DEF StartMalloc, Allocator!StartMalloc
    <3> QED BY <3>2 DEF Allocator!Next
  <2>3. CASE \E b \in owned \cup {NoBlock} : StartFree(c, b)
    <3>1. PICK b \in owned \cup {NoBlock} : StartFree(c, b)
      BY <2>3
    <3>2. Allocator!StartFree(c, b)
      BY <3>1, StartMaps DEF StartFree, Allocator!StartFree
    <3> QED BY <3>2 DEF Allocator!Next, Allocator!NoBlock, NoBlock
  <2>4. CASE StartStats(c)
    <3>1. Allocator!StartStats(c)
      BY <2>4, StartMaps DEF StartStats, Allocator!StartStats
    <3> QED BY <3>1 DEF Allocator!Next
  <2>5. CASE FreeTest(c)
    <3>1. CASE heap_tree[0] # NULL
      BY <2>5, <3>1 DEF FreeTest, Allocator!vars
    <3>2. CASE heap_tree[0] = NULL
      <4>1. /\ call[c].op = "free" /\ call[c].block = NoBlock
            /\ call' = [call EXCEPT ![c] = Nothing] /\ returned' = <<call[c].op, 1>>
            /\ owned' = owned
        BY <2>5, <3>2, FreeTestInv DEF FreeTest, Return, HeapInv, ControlOK
      <4>2. Allocator!Free(c)
        BY <4>1 DEF Allocator!Free, Allocator!Return, Allocator!NoBlock, NoBlock,
           Allocator!Nothing, Nothing
      <4> QED BY <4>2 DEF Allocator!Next
    <3> QED BY <3>1, <3>2
  <2>6. CASE \E op \in {"malloc", "free", "stats"} : Enter(c, op)
    BY <2>6 DEF Enter, Allocator!vars
  <2>7. CASE Working(c)
    BY <2>7, WorkingMaps DEF Allocator!vars
  <2> QED BY <2>1, <2>2, <2>3, <2>4, <2>5, <2>6, <2>7
<1> QED BY <1>1, <1>2

(* The calls of malloc, free and heap_stats (os/heap.c), each a long walk  *)
(* over the tree, have the effect that Allocator promises, at one instant. *)
THEOREM HeapImplementsAllocator ==
  ASSUME HalfRequests
  PROVE  Spec => ImplementsAllocator
<1>1. Init => Allocator!Init
  BY DEF Init, Allocator!Init, Nothing, Allocator!Nothing
<1>2. HeapInv /\ [Next]_vars => [Allocator!Next]_Allocator!vars
  BY NextMaps
<1> QED BY <1>1, <1>2, InitInv, NextInv, PTL DEF Spec, ImplementsAllocator, Allocator!Spec
=============================================================================

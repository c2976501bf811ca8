------------------------------- MODULE MCHeap -------------------------------
(* Small heaps for module Heap.                                            *)
EXTENDS HeapProps

CONSTANTS x, y

MCClients == {x, y}
=============================================================================

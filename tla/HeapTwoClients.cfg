\* A heap of eight units, two clients, requests of at most half the heap.
CONSTANTS
  x = x  y = y
  Clients <- MCClients
  HEAP_SIZE = 8
  Requests = {1, 3}
  BRANCH_NODE = BRANCH_NODE
  NULL = NULL
SPECIFICATION FairSpec
INVARIANTS HeapTypeOK TreeExact
PROPERTIES ImplementsAllocator WalksEnd

\* Two producers, two consumers, a fifo of two elements with three indices.
CONSTANTS
  p1 = p1  p2 = p2  c1 = c1  c2 = c2  v1 = v1  v2 = v2
  Producers <- MCProducers
  Consumers <- MCConsumers
  Values <- MCValues
  fifo_size = 2
  element_size = 1
  sizeof_FIFO_t = 1
  room = 3
  NULL = NULL
SPECIFICATION Spec
INVARIANTS SemaphoresCount
PROPERTIES ImplementsQueue
SYMMETRY MCSymmetry

\* One core, three threads of two priorities, a mutex and a pool of two resources.
CONSTANTS
  a = a  b = b  c = c  h = h  mutex = mutex  pool = pool
  Cores = {0}
  BootCore = 0
  Threads = {a, b, h}
  LevelCount = 2
  Priority <- MCPriority
  Sleepers = {h}
  Mortals = {}
  Sems = {mutex, pool}
  BinarySems = {mutex}
  Nested <- MCNested
  InitialValue <- MCInitial
  Idle = Idle
  BlackHole = BlackHole
  NULL = NULL
SPECIFICATION LoopingSemSpec
INVARIANTS BinaryMutex TokensConserved
PROPERTIES SpinlockNotSwitched SomebodyAcquires

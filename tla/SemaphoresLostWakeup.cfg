\* One core, two threads of one priority and a mutex.
CONSTANTS
  a = a  b = b  c = c  h = h  mutex = mutex  pool = pool
  Cores = {0}
  BootCore = 0
  Threads = {a, b}
  LevelCount = 2
  Priority <- MCPriority
  Sleepers = {}
  Mortals = {}
  Sems = {mutex}
  BinarySems = {mutex}
  Nested = {}
  InitialValue <- MCInitial
  Idle = Idle
  BlackHole = BlackHole
  NULL = NULL
SPECIFICATION FairSemSpec
PROPERTIES WaitAcquires

\* Both cores, threads that only run and suspend.
CONSTANTS
  h1 = h1  h2 = h2  l1 = l1  l2 = l2
  Cores = {0, 1}
  BootCore = 0
  Threads <- MCThreads
  LevelCount = 2
  Priority <- MCPriority
  Sleepers = {}
  Mortals = {}
  Sems = {}
  Idle = Idle
  BlackHole = BlackHole
  NULL = NULL
SPECIFICATION Spec
INVARIANTS OneCorePerStack

\* CPU0 alone (init_scheduler(1, false)), threads that use every call.
CONSTANTS
  h1 = h1  h2 = h2  l1 = l1  l2 = l2
  Cores = {0}
  BootCore = 0
  Threads <- MCThreads
  LevelCount = 2
  Priority <- MCPriority
  Sleepers = {h1, l1}
  Mortals = {h2, l2}
  Sems = {s}
  Idle = Idle
  BlackHole = BlackHole
  NULL = NULL
SPECIFICATION Spec
INVARIANTS TypeOK OneRing CountsExact WaitingOnce CallerIsRunning WaitersByPriority SleeperHasAlarm
PROPERTIES NoLiveStackReused ImplementsRoundRobin

\* Both cores (init_scheduler(1, true)), threads that only run and suspend: threadthrash of main.c, with more threads of the
\* top level than there are cores.
CONSTANTS
  h1 = h1  h2 = h2  l1 = l1  l2 = l2
  Cores = {0, 1}
  BootCore = 0
  Threads <- MCThreads
  LevelCount = 2
  Priority <- MCThree
  Sleepers = {}
  Mortals = {}
  Sems = {}
  Idle = Idle
  BlackHole = BlackHole
  NULL = NULL
SPECIFICATION FairSpec
INVARIANTS RunningHasOneCore
PROPERTIES SelectsHighest ImplementsRoundRobin TopIsNotStarved

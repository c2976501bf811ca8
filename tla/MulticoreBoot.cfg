\* A mailbox of four words in each direction: CPU0 may find four from before, and
\* the ROM has at most three of them to read.
CONSTANTS
  vt = vt  sp = sp  entry = entry  ms = ms  junk = junk
  vector_table = vt
  CPU1_STACK_TOP = sp
  initial_pc1 = entry
  timeslice = ms
  Depth = 4
  Leftover = 3
  Junk = junk
  NULL = NULL
SPECIFICATION Spec
INVARIANTS StartsInKernel LeavesInStep
PROPERTIES Cpu1Starts

\* Three tasks that may be added at any time and in any order, a timer of 30
\* ticks, and handlers that end within a tick of the alarm.
CONSTANTS
  t1 = t1  t2 = t2  t3 = t3
  Tasks = {t1, t2, t3}
  period <- MCPeriod
  Wrap = 30
  Delay = 1
  Grid = 6
  NULL = NULL
SPECIFICATION Spec
INVARIANTS RingIntact FirstIsRoot ApartTasksOnTime
PROPERTIES TasksKeepRunning

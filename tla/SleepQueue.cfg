\* Three threads that sleep for 3 or 7 ticks of a timer of 20.
CONSTANTS
  t1 = t1  t2 = t2  t3 = t3
  Threads = {t1, t2, t3}
  Durations = {3, 7}
  Slack = 1
  Wrap = 20
  Delay = 1
  NULL = NULL
SPECIFICATION Spec
INVARIANTS AlarmHasSleeper WakesInTime
PROPERTIES SleepsLongEnough

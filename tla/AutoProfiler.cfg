\* Up to three starts, with two stops at a time and sessions in between.
SPECIFICATION ProfilerFairSpec
CONSTANTS
  Timers = {t1, t2, t3, t4, t5}
  Sessions = {s1, s2}
  Stops = {c1, c2}
  MaxStarts = 3
  Null = Null
INVARIANTS
  OneSessionAtATime
  LoopNeverDies
  OneTimerOrSession
PROPERTIES
  StopLeavesNothing
  StopTerminates

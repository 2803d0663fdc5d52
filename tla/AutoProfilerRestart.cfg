\* Started again while a session is in flight.
SPECIFICATION ProfilerFairSpec
CONSTANTS
  Timers = {t1, t2, t3, t4, t5}
  Sessions = {s1, s2}
  Stops = {c1, c2}
  MaxStarts = 2
  Null = Null
PROPERTIES
  NoSessionAfterStop

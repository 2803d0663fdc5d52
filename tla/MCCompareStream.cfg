SPECIFICATION FairStreamSpec
\* A comparison ends with its final line.
CHECK_DEADLOCK FALSE
CONSTANTS
  Sizes <- MCSizes
  FetchConcurrency = 0
INVARIANTS
  BarCountsEveryProfile
PROPERTIES
  LinesComeInTurn
  StreamEnds

SPECIFICATION Spec
CONSTANTS
  Nodes = {"f1", "g", "f2", "idle"}
  IdleNodes = {"idle"}
  FnOf <- MCFnOf
  Parent <- MCParent
  Labels = {"a", "b"}
  BusySamples <- MCBusySamples
  Threshold = 2
  StackDepth = 2
  TopLimit = 2
  MaxSamples = 5
  MaxProfiles = 2
  Foreign = "foreign"
  NoLabel = ""
  None = "none"
INVARIANTS
  RollupMatchesRuns
  BlameAddsUp
  WorstStallsKept
CHECK_DEADLOCK FALSE

\* Two request goroutines of both kinds, one group, two windows, a
\* membership change; liveness under FairSpec.
SPECIFICATION FairSpec
CONSTANTS
  Requests = {r1, r2}
  Groups = {g1}
  Windows = {"all", "late"}
  WholeGroup = "all"
  Modes = {"getOrBuild", "buildPlan"}
  Samples <- MCSamples
  EmptySample = "empty"
  Sigs <- MCSigs
  MaxVersion = 1
  Sampled <- MCSampled
  Sig <- MCSig
  None = None
INVARIANTS
  FreshAnswer
  SingleFlight
PROPERTIES
  BuildOnlyWhenCold
  EveryCallAnswered

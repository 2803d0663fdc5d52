SPECIFICATION Spec
CONSTANTS
  Urls <- MCUrls
  UrlKind <- MCUrlKind
  PackageOf <- MCPackageOf
  Batches <- MCBatches
  MaxStitchDepth = 1
  NoProfile = NoProfile
INVARIANTS
  ActiveIsPath
  InclusiveTimeOnce
  EdgesCarryTotals
  TimePartitions
  StitchMovesTime
  FiltersAgree
  DrilldownsAgree
  RegressionIsShown
CHECK_DEADLOCK FALSE

\* Two processes sharing a directory, one with two goroutines, and two crashes.
SPECIFICATION FairSpec
CONSTANTS
  Procs = {"p", "q"}
  Workers = {"a", "b", "c"}
  ProcOf <- TwoProcs
  Keys = {k1}
  Chunks = 2
  Inodes = {i1, i2, i3, i4, i5, i6}
  MaxCrashes = 2
  None = None
INVARIANTS
  FetchedOnce
PROPERTIES
  BlobStaysWhole
  BlobSparesFetch
  ImplementsMemo
  EveryCallReturns

\* One request of each kind over eight objects that get stored at any time: any
\* of them before it, two while it is served.
SPECIFICATION Spec
CONSTANTS
  Objects <- MCObjects
  Path <- MCPath
  Ts <- MCTs
  Conforms <- MCConforms
  Hash <- MCHash
  Upload = 2
  SampleSize = 1
  Requests <- MCRequests
  MaxArrivals = 2
INVARIANTS
  LatestIsNotOlder
  SeesWhatWasStored
  SampleIsStable
  ResponseListsWhatItMerged
  BrowseShowsEveryBuild
CHECK_DEADLOCK FALSE

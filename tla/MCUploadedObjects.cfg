\* Uploads of one or two files of two names to one group, one reader, a cache
\* directory and a restart.
SPECIFICATION Spec
CONSTANTS
  Groups = {g1}
  Names = {"x", "p"}
  Contents = {"a", "long"}
  SizeOf <- MCSizeOf
  Readers = {r1}
  MaxBatch = 2
  MaxFiles = 3
  MaxRestarts = 1
  None = None
INVARIANTS
  SnapshotsStayValid
  SeparateUploadsAreKept
  AggregatesWhatThisRunUploaded

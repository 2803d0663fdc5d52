\* One file per upload, a cache directory, a restart.
SPECIFICATION Spec
CONSTANTS
  Groups = {g1}
  Names = {"x"}
  Contents = {"a", "b"}
  SizeOf <- MCSizeOf
  Readers = {r1}
  MaxBatch = 1
  MaxFiles = 2
  MaxRestarts = 1
  None = None
INVARIANTS
  AggregatesWhatWasUploaded

\* Uploads of up to two files: a Raw key is handed out twice.
SPECIFICATION Spec
CONSTANTS
  Groups = {g1}
  Names = {"x", "p"}
  Contents = {"a", "long"}
  SizeOf <- MCSizeOf
  Readers = {r1}
  MaxBatch = 2
  MaxFiles = 4
  MaxRestarts = 0
  None = None
INVARIANTS
  UploadsAreKept

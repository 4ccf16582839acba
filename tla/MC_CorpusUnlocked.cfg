SPECIFICATION Spec
CONSTANTS
  Docs = {d1, d2}
  Versions = {"a", "b", "c", "r"}
  ChunksOf <- MCChunksOf
  LongTexts = {"x", "y"}
  Procs = {"i", "e"}
  Kind <- MCKind
  Model = "m1"
  Dim = "dim1"
  OldModel = "m0"
  OldDim = "dim0"
  Batch = 2
  MaxRow = 4
  MaxDone = 2
  LockHonoured = FALSE
  InitialSpaces = {"current"}
  AllowForce = FALSE
INVARIANTS VectorDescribesChunk

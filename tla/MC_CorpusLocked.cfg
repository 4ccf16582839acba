SPECIFICATION FairSpec
CONSTANTS
  Docs = {d1, d2}
  Versions = {"a", "b", "c", "r"}
  ChunksOf <- MCChunksOf
  LongTexts = {"x", "y"}
  Procs = {"i", "e", "u"}
  Kind <- MCKind
  Model = "m1"
  Dim = "dim1"
  OldModel = "m0"
  OldDim = "dim1"
  Batch = 2
  MaxRow = 5
  MaxDone = 6
  LockHonoured = TRUE
  InitialSpaces = {"none", "old"}
  AllowForce = TRUE
INVARIANTS TypeOK VectorDescribesChunk ChunksFollowDocument ReadyIsComplete ProgressInRange
PROPERTIES EmbedEnds ImplementsIndex

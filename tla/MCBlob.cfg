CONSTANTS
  h1 = h1
  h2 = h2
  Holders <- MCHolders
  Creator = h1
  Writers = {h1}
  Sizes = {0, 1, 2}
  ChunkLens = {0, 1, 2}
  MaxStreams = 3
  MaxShares = 1
  DebugBuild = TRUE
  FileMayFail = FALSE
SPECIFICATION Spec
CHECK_DEADLOCK FALSE
INVARIANTS
  TypeOK
  RefCntIsOwners
  TempFileErased
  CompleteMeansWritten

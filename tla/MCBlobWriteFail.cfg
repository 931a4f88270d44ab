CONSTANTS
  h1 = h1
  h2 = h2
  Holders <- MCHolders
  Creator = h1
  Writers = {h1}
  Sizes = {0, 2}
  ChunkLens = {0, 1, 2}
  MaxStreams = 2
  MaxShares = 1
  DebugBuild = TRUE
  FileMayFail = TRUE
SPECIFICATION Spec
CHECK_DEADLOCK FALSE
INVARIANT
  CompleteMeansWritten

CONSTANTS
  s1 = s1
  h1 = h1
  h2 = h2
  h3 = h3
  h4 = h4
  h5 = h5
  Streams <- MCStreams
  Handles <- MCHandles
  Capacity = 2
  ReaderQueueSize = 1
  WriterQueueSize = 1
  Ids = {1}
  MsgLens = {1, 3}
  MaxMsgs = 2
  ChunkLens = {1, 3}
  MaxWritten = 3
  MaxCalls = 2
  MaxDisconnects = 1
  DebugBuild = FALSE
  DisconnectAnytime = FALSE
  NoPacket = NoPacket
  NoFiber = NoFiber
SYMMETRY MCSymmetry
SPECIFICATION Spec
INVARIANTS
  TypeOK
  PacketsAccountedFor
  ReadsFollowMessage
  FlushedIsFragmentation

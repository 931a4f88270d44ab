CONSTANTS
  c1 = c1
  c2 = c2
  Callers <- MCCallers
  MaxProcessors = 2
  PacketsCnt = 4
  WriterQueueSize = 1
  ReaderQueueSize = 1
  MaxCalls = 3
  ResponseTimeouts = FALSE
  SocketMayFail = TRUE
  Stop = Stop
  NoFiber = NoFiber
SPECIFICATION FairSpec
INVARIANTS
  TypeOK
  PacketsConserved
  ProcessStreamReturnsDrained
PROPERTIES
  StopReturns
  EveryCallReturns

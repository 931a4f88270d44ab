CONSTANTS
  ClientMethods = {1, 2, 3, 4}
  ServerMethods = {1, 3, 4}
  ReqLen <- MCReqLen
  RespLen <- MCRespLen
  PacketCap = 2

SPECIFICATION FairSpec

\* One call per stream: once both sides have returned nothing is left to do.
CHECK_DEADLOCK FALSE

INVARIANTS
  TypeOK
  ServerDataFreed

PROPERTIES
  CallChannelRefined
  ServedCallSucceeds

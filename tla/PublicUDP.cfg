\* All entries without accept_udp; two mappings, two sources with it.
CONSTANTS
  Value <- MCValue
  Setups <- MCSetups
  Sources = {s1, s2}
  Backends = {b1, b2}
  MaxSent = 2
  SocketBuf = 2
  PipeCap = 1
  NoBackend = NoBackend
  NoSource = NoSource
SPECIFICATION FairSpec
INVARIANTS
  MappingsAsMeant
  BackendsAccounted
PROPERTIES
  LoopServes
  ServerComesUp
CHECK_DEADLOCK FALSE

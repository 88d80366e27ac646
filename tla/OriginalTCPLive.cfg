\* One request at a time under one fault: what must happen in the end.
CONSTANTS
  Conns = {c1, c2, c3}
  Requests = {r1}
  Clients = {k1}
  Authorized = {k1}
  PoolSize = 0
  WorkersCap = 1
  MaxFaults = 1
  MaxPings = 0
  MaxBacklog = 0
  NoConn = NoConn
  NoReq = NoReq
SPECIFICATION FairSpec
PROPERTIES
  RequestSettles
  HandshakeSettles
  DeadControlDropped
  Reconnects

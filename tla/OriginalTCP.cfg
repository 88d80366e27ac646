\* One client, two requests, one fault anywhere.
CONSTANTS
  Conns = {c1, c2, c3, c4}
  Requests = {r1, r2}
  Clients = {k1}
  Authorized = {k1}
  PoolSize = 1
  WorkersCap = 2
  MaxFaults = 1
  MaxPings = 0
  MaxBacklog = 0
  NoConn = NoConn
  NoReq = NoReq
SPECIFICATION Spec
SYMMETRY Symmetry
INVARIANTS
  TypeOK
  WorkerHeldOnce
  WelcomeIsKept
  ControlTracked
  TargetOfHolder
PROPERTIES
  ImplementsHandoff

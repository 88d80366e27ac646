\* Two loops of the client, one of them refused, and two requests.
CONSTANTS
  Conns = {c1, c2, c3}
  Requests = {r1, r2}
  Loops = {w1, w2}
  Admitted = {w1}
  WorkersCap = 1
  MaxFaults = 1
  NoConn = NoConn
  NoReq = NoReq
SPECIFICATION FairSpec
INVARIANTS
  TargetOfHolder
  NoneLeaked
PROPERTIES
  ImplementsHandoff
  RequestSettles
  WorkersGetTurns
  ClientStops

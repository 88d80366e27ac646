\* A second client whose token is not the server's; room for all workers of the
\* first, and a request while the worker of an earlier one is still to be dialled.
CONSTANTS
  Conns = {c1, c2, c3, c4}
  Requests = {r1}
  Clients = {k1, k2}
  Authorized = {k1}
  PoolSize = 1
  WorkersCap = 3
  MaxFaults = 1
  MaxPings = 1
  MaxBacklog = 1
  NoConn = NoConn
  NoReq = NoReq
SPECIFICATION Spec
SYMMETRY Symmetry
INVARIANTS
  ControlIsAuthentic
  WorkerOnTheWay

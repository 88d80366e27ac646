\* Two session loops the server admits, one it refuses, a request at a time.
CONSTANTS
  Conns = {c1, c2, c3}
  Requests = {r1}
  Loops = {w1, w2, w3}
  Admitted = {w1, w2}
  MaxFaults = 1
  NoConn = NoConn
SPECIFICATION FairSpec
INVARIANTS
  TypeOK
  NoneForgotten
  RoundRobin
PROPERTIES
  RequestSettles
  SessionsReturn

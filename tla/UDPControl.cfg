\* Two addresses, one of which may have been closed and be back.
CONSTANTS
  Addrs = {a1, a2}
  Conns = {c1, c2, c3}
  InCap = 1
  AcceptCap = 1
  a1 = a1
  a2 = a2
  MaxPackets <- MCMaxPackets
  NoConn = NoConn
  NoAddr = NoAddr
SPECIFICATION FairSpec
INVARIANTS
  Registered
  GapFree
PROPERTIES
  LoopServes
  StopsWhenIdle
CHECK_DEADLOCK FALSE

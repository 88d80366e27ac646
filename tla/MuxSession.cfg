\* Two streams the server writes on, every channel of one: overflows of readCh
\* and of acceptCh, closes that cross, a session that ends by a panic.
CONSTANTS
  MaxStreams = 2
  MaxChunks <- LongAndShort
  Writers = {"server"}
  Cancelled = {}
  ReadCap = 1
  AcceptCap = 1
  NetCap = 1
SPECIFICATION Spec
INVARIANTS
  TypeOK
  InOrder
  NothingLost
  TablesAgree
\* Both sessions end and nobody dials again in this module.
CHECK_DEADLOCK FALSE

\* One stream; a chunk arrives while its user closes it.
CONSTANTS
  MaxStreams = 1
  MaxChunks <- OneChunk
  Writers = {"server"}
  Cancelled = {}
  ReadCap = 1
  AcceptCap = 1
  NetCap = 1
SPECIFICATION Spec
INVARIANTS
  NeverPanics
CHECK_DEADLOCK FALSE

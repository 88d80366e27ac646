\* One stream written from both ends over a connection that holds one frame,
\* either context cancelled at any time; readCh has room for what is written.
CONSTANTS
  MaxStreams = 1
  MaxChunks <- OneChunk
  Writers = {"server", "client"}
  Cancelled = {"server", "client"}
  ReadCap = 1
  AcceptCap = 1
  NetCap = 1
SPECIFICATION FairSpec
PROPERTIES
  CloseArrives
  BothEnd
  StreamsEnd
\* Both sessions end and nobody dials again in this module.
CHECK_DEADLOCK FALSE

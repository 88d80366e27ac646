\* Every kind; a tunnel is full with the first of two chunks.
CONSTANTS
  Kinds <- MCKinds
  MaxChunks <- MCMaxChunks
  TunCap = 1
SPECIFICATION FairSpec
INVARIANTS
  NothingCutOff
PROPERTIES
  RelayEnds
CHECK_DEADLOCK FALSE

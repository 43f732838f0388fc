SPECIFICATION FairSpec
CONSTANTS
  MemSize = 8
  MAX_SPRS = 3
  Blocks <- MCBlocks
  MaxBlocks = 2
INVARIANTS BlocksExact ClientInformed
PROPERTIES TransferEnds

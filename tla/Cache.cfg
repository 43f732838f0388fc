SPECIFICATION Spec
CONSTANTS
  Blocks = {0, 1, 2, 3}
  Watched = 0
  NWays = {1, 2, 4}
  UStates = 2
INVARIANTS CacheExact
PROPERTIES LastKept

SPECIFICATION Spec
CONSTANTS
  MinLarge = 4
  StateChunk = 3
  Page = 8
  Granularity = 16
  MmapThreshold = 14
  TrimThreshold = 21
  MaxChecks = 2
  Memory = 64
  Requests = {3, 13, 27}
  MaxBlocks = 2
INVARIANTS MallocStateChecked EveryChunkOwned FootprintExact
PROPERTY ImplementsHeap
CHECK_DEADLOCK FALSE

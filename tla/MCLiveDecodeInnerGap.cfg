CONSTANTS
  Capacity = 2
  Slice = 1
  HoldMax = 1
  MaxChunk = 2
  MaxSkip = 1
  MaxPos = 5
  MaxFailures = 0
SPECIFICATION Spec
INVARIANT InnerGapsAccounted

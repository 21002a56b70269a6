CONSTANTS
  Capacity = 2
  Slice = 1
  HoldMax = 1
  MaxChunk = 3
  MaxSkip = 1
  MaxPos = 4
  MaxFailures = 1
SPECIFICATION Spec
INVARIANTS
  TypeOK
  CountersMatch
  OuterSingleEpoch
  OuterGapsAccounted
  DrainedAtJoin
PROPERTIES
  JobsLeave
  ShutdownEnds

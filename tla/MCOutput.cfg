CONSTANTS
  Burst = 3
  ConfigMax = 2
  StartPackets = 4
  Nals = {{}, {"sps", "pps"}, {"vps"}, {"idr"}}
  MaxPackets = 6
  MaxFailures = 2
  Hold = 1
  Retry = 1
  MaxAge = 2
  MaxFaults = 1
SPECIFICATION OutputSpec
CHECK_DEADLOCK FALSE
INVARIANTS
  TypeOK
  WrittenIsKept
  WholeUnlessShared
  SessionCountsJobs
  LockShownIsEarned
PROPERTIES
  OpensOnFreshTables
  ReplaysOnlyUnbroken
  LiveStaysOpen
  FileImplements

CONSTANTS
  SoftFailLimit = 4
  HardFailLimit = 2
  HardFailBlocks = 2
  MinPending = 3
  Sizes = {1, 2}
  MaxBlocks = 2
  MaxPending = 4
  MaxFailures = 2
  Memory = 2
  TapsX <- MCTapsX
  TapsY <- MCTapsY
  ByteBits = 4
  Cells = 12
  Block = 4
  Perm <- MCPerm
  Rates = {"1/2", "2/3", "5/6"}
  TracebackBytes <- MCTraceback
  Payloads <- MCPayloads
  BadCells <- MCBadCells
  SliceSymbols = 2
  Branches = 2
  Depth = 2
  Period = 3
  Correctable = 1
  MinBacklog = 18
  MinRsOk = 2
  MinSyncOk = 3
  MinSyncOnly = 4
  ProbeBlocks = 3
  ScanBlocks = 5
  JobSizes = {7, 22}
  BadAt = {0, 3}
  Losses = {0, 6}
  Stops = {1, 99}
  Starts = {4, 5, 10}
  MaxByte = 58
  FieldSize = 8
  Reduce = 3
  ParityLen = 4
  RsLen = 6
  Messages <- MCMessages
  MaxWrong = 3
SPECIFICATION FecSpec
INVARIANTS
  TypeOK
  DeadCadenceGivenUp
  NoCadenceNoFailures
  BytesAreSent
  BlocksRestored
PROPERTIES
  OnlyDeadCadenceGivenUp
  RightPackets
  OnceInOrder
CHECK_DEADLOCK FALSE

CONSTANTS
  Retry = 2
  MaxAge = 3
  LockLoss = 1
  Stale = 2
  NoFrameLimit = 2
SPECIFICATION WatchdogSpec
PROPERTY WatchdogRestarts

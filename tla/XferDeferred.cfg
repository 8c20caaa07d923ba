CONSTANTS
  r1 = r1
  r2 = r2
  p1 = p1
  p2 = p2
  Reqs <- TwoReqs
  Packets <- TwoPackets
  NoReq = NoReq
  Critical <- NoneCritical
  Transfers <- SomeTransfers
  PageSize = 2
  HwMaxXferLen = 3
  MaximumTransferLength = 4
  LocalMinWorkingSetTransferPackets = 1
  MaxNumberOfIoRetries = 1
  ClassMaxInterleavePerCriticalIo = 1
SPECIFICATION FairSpec
CHECK_DEADLOCK FALSE
INVARIANT
  DeferredUntilFreed

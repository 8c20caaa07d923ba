CONSTANTS
  r1 = r1
  r2 = r2
  r3 = r3
  Reqs <- TwoReqs
  NoReq = NoReq
  Ring = Ring
  BufSize = 2
  NewSize = 3
  MaxLen = 2
  MaxChars = 3
  Modes <- AllModes
  ErrorAbort = TRUE
SPECIFICATION FairSpec
INVARIANTS
  TypeOK
  RefCountTrue
  CompletedForGood
  QueueServed
PROPERTIES
  KeepsStream
  EventuallyCompleted

CONSTANTS
  f1 = f1
  f2 = f2
  r1 = r1
  r2 = r2
  r3 = r3
  Files <- OneFile
  Reqs <- TwoReqs
  NoFile = NoFile
  NoReq = NoReq
  MaxData = 1
SPECIFICATION FairSpec
PROPERTIES
  EventuallyCompleted
  EventuallyUnloaded

\* Two handles, two IRPs
CONSTANTS
  f1 = f1
  f2 = f2
  r1 = r1
  r2 = r2
  r3 = r3
  Files <- TwoFiles
  Reqs <- TwoReqs
  NoFile = NoFile
  NoReq = NoReq
  Dpc = Dpc
  MaxData = 1
SPECIFICATION FairSpec
PROPERTIES
  KeepsContract
  EventuallyCompleted
  EventuallyClosed

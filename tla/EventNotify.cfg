\* One handle, two IRPs
CONSTANTS
  f1 = f1
  f2 = f2
  r1 = r1
  r2 = r2
  r3 = r3
  Files <- OneFile
  Reqs <- TwoReqs
  NoFile = NoFile
  NoOwner = NoOwner
SPECIFICATION FairSpec
INVARIANTS
  TypeOK
  OwnedIrpNotCancellable
  NoUseAfterFree
  ListIntact
  AssertsHold
  CleanupLeavesOnlyFired
  EventReferenceBalanced
  FileContextAlive
PROPERTIES
  KeepsContract
  EventuallyCompleted
  EventuallyFreed

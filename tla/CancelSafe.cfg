\* Two handles, two IRPs
CONSTANTS
  f1 = f1
  f2 = f2
  r1 = r1
  r2 = r2
  r3 = r3
  Files <- TwoFiles
  Reqs <- TwoReqs
  NoFile = NoFile
  NoReq = NoReq
  MaxData = 1
SYMMETRY Symmetry
SPECIFICATION Spec
INVARIANTS
  TypeOK
  NoLostWakeup
PROPERTIES
  KeepsContract

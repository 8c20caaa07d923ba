\* One connection, with the listening socket: four operation contexts
CONSTANTS
  c1 = c1
  c2 = c2
  Conns <- OneConn
  Listener = Listener
  MaxSignals = 1
  AcceptHoldsSocket = TRUE
SPECIFICATION FairSpec
INVARIANTS
  TypeOK
  OpsNotShared
  NoUseAfterFree
  NoLostWakeup
PROPERTIES
  CallsOnOpenSocket
  EventuallyFreed
  EventuallyUnloaded

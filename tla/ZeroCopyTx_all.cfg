SPECIFICATION Spec
CONSTANTS
  Db <- MCDb
  Requests <- AllRequests
  ChunkSize = 3
  Hwm = 2
INVARIANTS
  NoDanglingMessage
  ClosedOnce
  HintLiveWhileUsed
  RangeDelivered
  IInv
  OpenOnlyWhenCut
PROPERTIES
  EventuallyClosed
  ImplementsLease

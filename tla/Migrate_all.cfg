SPECIFICATION FairSpec
CONSTANTS
  Dir <- Dirs
  Items <- MCItems
  Builds <- MCBuilds
  RawDir <- MCRawDirs
  ChunkLength = 2
  MaxDeaths = 2
  Tables <- AllTables
INVARIANTS
  IInv
  NeverTwice
  MoveFinishes
  LossBound
  OrderKept
  MovedAsNamed
PROPERTIES
  ImplementsRelocate
  EventuallyMoved
CHECK_DEADLOCK FALSE

SPECIFICATION Spec
CONSTANTS
  b1 = b1
  b2 = b2
  b3 = b3
  NoOne = NoOne
  Builder <- MCBuilder
  Items <- MCItems
  Input <- MCInput
  IsRaw <- MCIsRaw
  MaxFails = 3
INVARIANTS
  WholeRuns
  IInv
PROPERTY
  EveryRunEnds
CHECK_DEADLOCK FALSE

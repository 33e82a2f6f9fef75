SPECIFICATION Spec
CONSTANTS
  NumChunks = 2
  Count <- TwoChunks
INVARIANT
  FutureEofDefined

SPECIFICATION Spec
CONSTANTS
  NumChunks = 3
  Count <- ThreeChunks
INVARIANTS
  IInv
  NoSpuriousAbort
  NoStaleChunk
  PhasedDefined
PROPERTIES
  AgainMeansMissing
  EndsOrStalls
  ImplementsStream

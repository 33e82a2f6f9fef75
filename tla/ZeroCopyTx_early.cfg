SPECIFICATION Spec
CONSTANTS
  Db <- MCDb
  Requests <- SingleRequests
  ChunkSize = 2
  Hwm = 2
INVARIANT
  SentFromLiveTxn

SPECIFICATION Spec
CONSTANTS
  t1 = t1
  t2 = t2
  NoRequest = NoRequest
  NoMsg = NoMsg
  NoThread = NoThread
  Thread <- Threads
  NumChunks = 3
  ChunkLength = 3
  Frames <- ShortChunks
  Stored <- AllChunks
  Unreadable <- NoChunk
  Broken <- NoChunk
  FrameHwm = 2
  Env <- Envs
  EnvOf <- OwnEnv
  Moving <- FirstOfBlock
INVARIANTS
  RightChunk
  NothingLeftOver
PROPERTY
  EveryFetchEnds
CHECK_DEADLOCK FALSE

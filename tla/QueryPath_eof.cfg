SPECIFICATION Spec
CONSTANTS
  t1 = t1
  t2 = t2
  NoRequest = NoRequest
  NoMsg = NoMsg
  NoThread = NoThread
  Thread <- Threads
  NumChunks = 2
  ChunkLength = 2
  Frames <- FullChunks
  Stored <- AllChunks
  Unreadable <- NoChunk
  Broken <- NoChunk
  FrameHwm = 2
  Env <- Envs
  EnvOf <- OwnEnv
  Moving <- FirstOfBlock
PROPERTY
  EofOfCurrentChunk
CHECK_DEADLOCK FALSE

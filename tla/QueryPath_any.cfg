SPECIFICATION Spec
CONSTANTS
  t1 = t1
  t2 = t2
  NoRequest = NoRequest
  NoMsg = NoMsg
  NoThread = NoThread
  Thread <- Threads
  NumChunks = 5
  ChunkLength = 2
  Frames <- MixedChunks
  Stored <- AllButLast
  Unreadable <- SecondChunk
  Broken <- FourthChunk
  FrameHwm = 2
  Env <- Envs
  EnvOf <- SharedEnv
  Moving <- NoFrame
INVARIANTS
  IInv
  SlotAligned
  OwnChunks
CHECK_DEADLOCK FALSE

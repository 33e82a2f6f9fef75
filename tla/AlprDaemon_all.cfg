SPECIFICATION Spec
CONSTANTS
  cam1 = cam1
  cam2 = cam2
  w1 = w1
  w2 = w2
  w3 = w3
  Camera <- MCCamera
  Worker <- MCWorker
  CameraOf <- MCCameraOf
  MaxFrames <- MCMaxFrames
  MaxFaults = 2
INVARIANTS
  IInv
  FreshFrames
  LostOnlyAsReported
PROPERTY
  EveryResultPosted
CHECK_DEADLOCK FALSE

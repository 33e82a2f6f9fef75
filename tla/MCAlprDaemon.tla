--------------------------- MODULE MCAlprDaemon ---------------------------
(* Instance of AlprDaemon for TLC: one camera with two analysis threads, *)
(* one with one.                                                          *)
EXTENDS AlprDaemon, TLC

CONSTANTS cam1, cam2, w1, w2, w3

MCCamera == {cam1, cam2}
MCWorker == {w1, w2, w3}
MCCameraOf == (w1 :> cam1) @@ (w2 :> cam1) @@ (w3 :> cam2)
MCMaxFrames == (cam1 :> 2) @@ (cam2 :> 1)
=============================================================================

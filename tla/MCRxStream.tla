----------------------------- MODULE MCRxStream -----------------------------
(* Instances of RxStream for TLC: chunks of one to three frames. *)
EXTENDS RxStream, TLC

ThreeChunks == (0 :> 2) @@ (1 :> 1) @@ (2 :> 3)
TwoChunks == (0 :> 2) @@ (1 :> 2)
=============================================================================

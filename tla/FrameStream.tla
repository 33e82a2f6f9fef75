----------------------------- MODULE FrameStream -----------------------------
(***************************************************************************)
(* What a consumer of a stream is promised: the frames of chunk 0, then    *)
(* those of chunk 1, and so on, each frame once, none skipped, and the end *)
(* of the stream only after the last frame of the last chunk.              *)
(***************************************************************************)
EXTENDS Naturals

CONSTANTS
  NumChunks,  (* chunks of the stream, numbered from 0 *)
  Count,      (* Count[c]: frames of chunk c           *)
  NoFrame     (* out before the first frame            *)

VARIABLES
  next,       (* <<chunk, frame>>: the frame to be revealed next *)
  out,        (* the frame revealed last                         *)
  ended       (* the consumer was told that the stream is over   *)

streamVars == <<next, out, ended>>

Successor(p) ==
  IF p[2] + 1 < Count[p[1]] THEN <<p[1], p[2] + 1>> ELSE <<p[1] + 1, 0>>

StreamInit ==
  /\ next = <<0, 0>>
  /\ out = NoFrame
  /\ ended = FALSE

Reveal ==
  /\ ~ended
  /\ next[1] < NumChunks
  /\ out' = next
  /\ next' = Successor(next)
  /\ UNCHANGED ended

End ==
  /\ ~ended
  /\ next = <<NumChunks, 0>>
  /\ ended' = TRUE
  /\ UNCHANGED <<next, out>>

StreamNext == Reveal \/ End

StreamSpec == StreamInit /\ [][StreamNext]_streamVars
=============================================================================

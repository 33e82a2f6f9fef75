----------------------------- MODULE FifoServer -----------------------------
(***************************************************************************)
(* What the run-time scheduler amounts to: requests are carried out in the *)
(* order in which they were accepted, each exactly once.                   *)
(***************************************************************************)
EXTENDS Sequences, Naturals

CONSTANT Request

VARIABLES
  accepted,   (* every request accepted, in order           *)
  started     (* every request handed to its server, in order *)

fifoVars == <<accepted, started>>

FifoInit == accepted = <<>> /\ started = <<>>

AcceptOne ==
  /\ accepted' \in Seq(Request)
  /\ Len(accepted') = Len(accepted) + 1
  /\ accepted = SubSeq(accepted', 1, Len(accepted))
  /\ UNCHANGED started

StartNext ==
  /\ Len(started) < Len(accepted)
  /\ started' = Append(started, accepted[Len(started) + 1])
  /\ UNCHANGED accepted

FifoSpec == FifoInit /\ [][AcceptOne \/ StartNext]_fifoVars
=============================================================================

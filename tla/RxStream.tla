------------------------------ MODULE RxStream ------------------------------
(***************************************************************************)
(* A stream on its way to its consumer through RxManager.                  *)
(*                                                                         *)
(* The frames of a chunk travel over one socket and arrive in order, its   *)
(* end marker last; chunks travel over different sockets (one decoder      *)
(* each) and interleave freely; the chunk end marker takes the path of     *)
(* neither (decode-serv.cpp passes it through) and may overtake them all.  *)
(***************************************************************************)
EXTENDS RxManager

CONSTANT Count  (* Count[c]: frames of chunk c *)

ASSUME StreamAssumption == Count \in [ChunkSeqs -> Nat \ {0}]

VARIABLES
  sender,      (* who numbers the frames: "raw", the senders of the database,    *)
               (* or "decoder"                                                   *)
  phased,      (* the consumer starts when everything has been received, as in   *)
               (* test-sink-profiling.cpp; otherwise it polls                    *)
  arrived,     (* items of each chunk that have arrived, its end marker included *)
  eofArrived   (* the chunk end marker has arrived                               *)

vars == <<rxVars, sender, phased, arrived, eofArrived>>

TypeOK ==
  /\ RxTypeOK
  /\ sender \in {"raw", "decoder"}
  /\ phased \in BOOLEAN
  /\ arrived \in [ChunkSeqs -> Nat]
  /\ eofArrived \in BOOLEAN

Init ==
  /\ RxInit
  /\ sender \in {"raw", "decoder"}
  /\ phased \in BOOLEAN
  /\ arrived = [c \in ChunkSeqs |-> 0]
  /\ eofArrived = FALSE

(* The number of a chunk's first frame: the senders from the database count *)
(* the records they have sent, a decoder gives FFmpeg's frame_number, which *)
(* is 1 for the first.                                                      *)
FirstFrame == IF sender = "raw" THEN 0 ELSE 1

ReceiveFrame(c) ==
  /\ arrived[c] < Count[c]
  /\ DepositAFrame(c, FirstFrame + arrived[c])
  /\ arrived' = [arrived EXCEPT ![c] = @ + 1]
  /\ UNCHANGED <<sender, phased, eofArrived>>

(* The end marker's number: the record count, or the decoder's              *)
(* frame_number + 1, in either case the number after the last frame's.      *)
ReceiveFrameEof(c) ==
  /\ arrived[c] = Count[c]
  /\ DepositFrameEof(c, FirstFrame + Count[c])
  /\ arrived' = [arrived EXCEPT ![c] = @ + 1]
  /\ UNCHANGED <<sender, phased, eofArrived>>

ReceiveChunkEof ==
  /\ ~eofArrived
  /\ DepositChunkEof(NumChunks)
  /\ eofArrived' = TRUE
  /\ UNCHANGED <<sender, phased, arrived>>

(* Mutant: the end markers of the chunks are not waited for. *)
AllFramesArrived == eofArrived /\ \A c \in ChunkSeqs : arrived[c] >= Count[c]

AllArrived == eofArrived /\ \A c \in ChunkSeqs : arrived[c] = Count[c] + 1

Retrieve ==
  /\ phased => AllArrived
  /\ ret # "eof"
  /\ RetrieveAFrame
  /\ UNCHANGED <<sender, phased, arrived, eofArrived>>

Receive == ReceiveChunkEof \/ \E c \in ChunkSeqs : ReceiveFrame(c) \/ ReceiveFrameEof(c)

(* The consumer was told that the stream is over, or the process is gone. *)
Stopped ==
  /\ status = "abort" \/ (ret = "eof" /\ AllArrived)
  /\ UNCHANGED vars

Next == Receive \/ Retrieve \/ Stopped

Spec == Init /\ [][Next]_vars /\ WF_vars(Receive) /\ WF_vars(Retrieve)

-----------------------------------------------------------------------------
(* The inductive invariant, for either numbering. *)

FramesArrived(c) == IF arrived[c] <= Count[c] THEN arrived[c] ELSE Count[c]

Passed(c) == c < wmChunk

(* The map holds exactly what has arrived and the watermark has not passed. *)
MapInv ==
  \A c \in ChunkSeqs :
    /\ arrived[c] <= Count[c] + 1
    /\ c \in present <=> arrived[c] > 0 /\ ~Passed(c)
    /\ frames[c] = IF Passed(c) THEN {} ELSE FrameAt(c)..(FramesArrived(c) - 1)
    /\ eofF[c] = IF arrived[c] = Count[c] + 1 /\ ~Passed(c) THEN Count[c] ELSE -1

(* The watermark is inside the stream and never beyond what has arrived. *)
WatermarkInv ==
  /\ wmChunk <= NumChunks
  /\ wmChunk = NumChunks => wmFrame = 0
  /\ wmChunk < NumChunks => wmFrame <= FramesArrived(wmChunk)
  /\ \A c \in ChunkSeqs : Passed(c) => arrived[c] = Count[c] + 1

EofInv ==
  /\ eofC = IF eofArrived THEN NumChunks ELSE -1
  /\ ret = "eof" => wmChunk = NumChunks /\ eofArrived

RawInv ==
  /\ TypeOK /\ sender = "raw"
  /\ status = "ok" => MapInv /\ WatermarkInv /\ EofInv

(* Of a stream numbered from 1 the map holds all that has arrived: the     *)
(* watermark waits at frame 0, and nothing is ever passed.                 *)
HeldInv ==
  \A c \in ChunkSeqs :
    /\ arrived[c] <= Count[c] + 1
    /\ c \in present <=> arrived[c] > 0
    /\ frames[c] = 1..FramesArrived(c)
    /\ eofF[c] = IF arrived[c] = Count[c] + 1 THEN Count[c] + 1 ELSE -1

(* The consumer is given nothing, but the end of a stream without chunks.  *)
NothingRevealed ==
  /\ out = NoFrame
  /\ ret # "ok" /\ (ret = "eof" => NumChunks = 0)

DecoderInv ==
  /\ TypeOK /\ sender = "decoder"
  /\ status = "ok" /\ ~ub
  /\ wmChunk = 0 /\ wmFrame = 0
  /\ HeldInv /\ EofInv /\ NothingRevealed

IInv == RawInv \/ DecoderInv

-----------------------------------------------------------------------------
(* None of the assertions of DepositAFrame, DepositADesc and               *)
(* RetrieveAFrame fires on a well-formed stream, however chunks interleave *)
(* and whenever the consumer asks; only the read of an empty map stops it. *)
NoSpuriousAbort == status = "abort" => ub

(* A chunk whose frames have all been retrieved leaves the map for good:   *)
(* nothing that arrives later makes an entry the consumer never visits.    *)
NoStaleChunk == status = "ok" => \A c \in present : c >= wmChunk

(* VS_ERR_AGAIN is only returned when what the consumer needs next really  *)
(* has not arrived: no frame that is there is ever overlooked.  For frames *)
(* as the database's senders number them; a decoder's are all overlooked.  *)
NeededHasArrived ==
  \/ \E c \in ChunkSeqs : c = wmChunk' /\ wmFrame' < Count[c] /\ arrived[c] > wmFrame'
  \/ \E c \in ChunkSeqs : c = wmChunk' /\ wmFrame' = Count[c] /\ arrived[c] > Count[c]
  \/ wmChunk' = NumChunks /\ eofArrived
AgainMeansMissing ==
  [][Retrieve /\ sender = "raw" /\ ret' = "again" => ~NeededHasArrived]_vars

(* A consumer that keeps asking is given the end of a stream numbered from *)
(* 0, unless the empty map was read.  Of one numbered from 1, as decoders  *)
(* number their frames, it is told "again" for ever, although everything   *)
(* has arrived (RxManager's watermark starts at 0 and moves by one).       *)
EndsOrStalls ==
  /\ <>(sender = "decoder" \/ ret = "eof" \/ ub)
  /\ <>[](sender = "raw" \/ (AllArrived /\ ret = "again"))

(* A decoder's frames never reach the consumer. *)
DecodedNeverRevealed == sender = "decoder" => NothingRevealed

(* The stream as its consumer sees it: where the next frame is. *)
NextFrame ==
  IF wmChunk < NumChunks /\ wmFrame = Count[wmChunk]
    THEN <<wmChunk + 1, 0>> ELSE <<wmChunk, wmFrame>>
Stream == INSTANCE FrameStream WITH next <- NextFrame, ended <- (ret = "eof")
ImplementsStream == Stream!StreamSpec

(* Stated by RxManager.h: "next frame has not arrived yet. wm may point to *)
(* a future eof_f": an end marker may arrive after every frame of its      *)
(* chunk has been retrieved, and depositing it is well defined.            *)
FutureEofDefined == ~ub

(* That is so for a consumer that waits until all has arrived: by then     *)
(* there is no end marker left to deposit.                                 *)
PhasedDefined == phased => FutureEofDefined

(* Why: such a consumer leaves the watermark where it is until then.       *)
PhasedInv == PhasedDefined /\ (phased /\ ~AllArrived => wmChunk = 0 /\ wmFrame = 0)
=============================================================================

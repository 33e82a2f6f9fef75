------------------------------ MODULE RxManager ------------------------------
(***************************************************************************)
(* The receiver's frame manager (class RxManager, RxManager.h): frames and *)
(* end markers are deposited in the order they arrive, and retrieved in    *)
(* stream order.                                                           *)
(*                                                                         *)
(* The map "chunks" of the class is three variables here: present is its   *)
(* key set, frames[c] the key set of the frame map of chunk c and eofF[c]  *)
(* its eof_f.  A frame is known by its pair of sequence numbers.           *)
(***************************************************************************)
EXTENDS Integers

CONSTANT NumChunks  (* chunk sequence numbers are 0..NumChunks-1 *)

ASSUME NumChunksAssumption == NumChunks \in Nat

ChunkSeqs == 0..(NumChunks - 1)

VARIABLES
  present,   (* chunks that have an entry in the map                        *)
  frames,    (* frames received and not yet retrieved, by chunk             *)
  eofF,      (* number of the frame end marker of a chunk, -1: not received *)
  eofC,      (* number of the chunk end marker, -1: not received            *)
  wmChunk,   (* watermarks: the next frame the consumer shall read          *)
  wmFrame,
  status,    (* "ok", or "abort" after an xzl_bug_on or a crash             *)
  ub,        (* the key of the last frame of an empty map was read          *)
  ret,       (* what RetrieveAFrame returned last                           *)
  out        (* the frame it returned last                                  *)

mapVars == <<present, frames, eofF, eofC>>
wmVars == <<wmChunk, wmFrame>>
rxVars == <<present, frames, eofF, eofC, wmChunk, wmFrame, status, ub, ret, out>>

NoFrame == <<-1, -1>>

RxTypeOK ==
  /\ present \subseteq ChunkSeqs
  /\ frames \in [ChunkSeqs -> SUBSET Nat]
  /\ eofF \in [ChunkSeqs -> Nat \union {-1}]
  /\ eofC \in Nat \union {-1}
  /\ wmChunk \in Nat
  /\ wmFrame \in Nat
  /\ status \in {"ok", "abort"}
  /\ ub \in BOOLEAN
  /\ ret \in {"none", "ok", "again", "eof"}
  /\ out \in (Nat \X Nat) \union {NoFrame}

RxInit ==
  /\ present = {}
  /\ frames = [c \in ChunkSeqs |-> {}]
  /\ eofF = [c \in ChunkSeqs |-> -1]
  /\ eofC = -1
  /\ wmChunk = 0
  /\ wmFrame = 0
  /\ status = "ok"
  /\ ub = FALSE
  /\ ret = "none"
  /\ out = NoFrame

(* xzl_bug_on: the process stops here. *)
BugOn ==
  /\ status' = "abort"
  /\ UNCHANGED <<mapVars, wmVars, ret, out>>

-----------------------------------------------------------------------------
(* Mutant: the chunk before the chunk end marker is refused as well. *)
FrameRefusedOffByOne(c, f) ==
  \/ c \notin present /\ eofC >= 0 /\ c + 1 >= eofC
  \/ c \in present /\ eofF[c] >= 0 /\ f >= eofF[c]
  \/ c \in present /\ f \in frames[c]

(* "exceed chunk eof", "exceed frame eof?", "dup frames?" *)
FrameRefused(c, f) ==
  \/ c \notin present /\ eofC >= 0 /\ c >= eofC
  \/ c \in present /\ eofF[c] >= 0 /\ f >= eofF[c]
  \/ c \in present /\ f \in frames[c]

DepositAFrame(c, f) ==
  /\ status = "ok"
  /\ IF FrameRefused(c, f)
       THEN BugOn
       ELSE /\ present' = present \union {c}
            /\ frames' = [frames EXCEPT ![c] = @ \union {f}]
            /\ UNCHANGED <<eofF, eofC, wmVars, status, ret, out>>
  /\ UNCHANGED ub

(* DepositADesc, TYPE_CHUNK_EOF. *)
DepositChunkEof(c) ==
  /\ status = "ok"
  /\ IF eofC >= 0 \/ \E d \in present : c <= d
       THEN BugOn
       ELSE eofC' = c /\ UNCHANGED <<present, frames, eofF, wmVars, status, ret, out>>
  /\ UNCHANGED ub

AcceptFrameEof(c, f) ==
  /\ eofF' = [eofF EXCEPT ![c] = f]
  /\ UNCHANGED <<present, frames, eofC, wmVars, status, ret, out>>

(* DepositADesc, TYPE_DECODED_FRAME_EOF and TYPE_RAW_FRAME_EOF.  When all  *)
(* frames received so far have been retrieved, rbegin() of the empty map   *)
(* is dereferenced: the process crashes, or compares with an arbitrary     *)
(* number.                                                                 *)
DepositFrameEof(c, f) ==
  /\ status = "ok"
  /\ IF c \notin present \/ eofF[c] >= 0
       THEN BugOn /\ UNCHANGED ub
     ELSE IF frames[c] = {}
       THEN ub' = TRUE /\ (BugOn \/ AcceptFrameEof(c, f))
     ELSE /\ IF \E g \in frames[c] : f <= g THEN BugOn ELSE AcceptFrameEof(c, f)
          /\ UNCHANGED ub

-----------------------------------------------------------------------------
(* The frame the watermark stands at once it has come to chunk c. *)
FrameAt(c) == IF c = wmChunk THEN wmFrame ELSE 0

(* Mutants: a chunk counts as drained as soon as no frame of it is left, or *)
(* only when the watermark has passed its end marker.                      *)
DrainedLate(c) == c # eofC /\ c \in present /\ eofF[c] >= 0 /\ eofF[c] < FrameAt(c)
DrainedEarly(c) == c # eofC /\ c \in present /\ frames[c] = {}

(* The watermark stands at the frame end marker of chunk c. *)
Drained(c) == c # eofC /\ c \in present /\ eofF[c] = FrameAt(c)

(* Mutant: the frame number is not reset when the watermark changes chunk. *)
MoveWatermarkNoReset(c, w) == wmChunk' = c /\ wmFrame' = wmFrame + 1

MoveWatermark(c, w) == wmChunk' = c /\ wmFrame' = w

(* Mutant: a passed chunk stays in the map. *)
EraseNothing(c) == UNCHANGED <<present, eofF>>

(* chunks.erase for the chunks the watermark has passed. *)
EraseBefore(c) ==
  /\ present' = present \ (wmChunk..(c - 1))
  /\ eofF' = [d \in ChunkSeqs |-> IF d \in wmChunk..(c - 1) THEN -1 ELSE eofF[d]]

(* The frames left when chunks before c are erased and f of c is taken. *)
FramesLeft(c, taken) ==
  [d \in ChunkSeqs |->
     IF d \in wmChunk..(c - 1) THEN {} ELSE IF d = c THEN frames[d] \ taken ELSE frames[d]]

(* Return without a frame, the watermark at chunk c. *)
ReturnNothing(c, code) ==
  /\ EraseBefore(c)
  /\ frames' = FramesLeft(c, {})
  /\ MoveWatermark(c, FrameAt(c))
  /\ ret' = code
  /\ UNCHANGED <<eofC, status, out>>

ReturnFrame(c) ==
  /\ EraseBefore(c)
  /\ frames' = FramesLeft(c, {FrameAt(c)})
  /\ MoveWatermark(c, FrameAt(c) + 1)
  /\ ret' = "ok"
  /\ out' = <<c, FrameAt(c)>>
  /\ UNCHANGED <<eofC, status>>

(* RetrieveAFrame: "goto again" passes every drained chunk, then returns   *)
(* VS_ERR_EOF_CHUNKS, VS_ERR_AGAIN or the frame at the watermark.          *)
RetrieveAt(c) ==
  IF c = eofC
    THEN IF FrameAt(c) # 0 THEN BugOn ELSE ReturnNothing(c, "eof")
  ELSE IF c \notin present
    THEN IF FrameAt(c) # 0 THEN BugOn ELSE ReturnNothing(c, "again")
  ELSE IF FrameAt(c) \notin frames[c]
    THEN ReturnNothing(c, "again")
  ELSE ReturnFrame(c)

RetrieveAFrame ==
  /\ status = "ok"
  /\ \E c \in wmChunk..(NumChunks + 1) :
       /\ \A d \in wmChunk..(c - 1) : Drained(d)
       /\ ~Drained(c)
       /\ RetrieveAt(c)
  /\ UNCHANGED ub
=============================================================================

------------------------------- MODULE QueryNet -------------------------------
(***************************************************************************)
(* What the processes of a query share: the parameters of the store and    *)
(* the ZeroMQ sockets between the sink, the source and the decoder.  A     *)
(* PUSH/PULL socket is a sequence; a desc and the data sent after it are   *)
(* one item, as the parts of one message arrive together.                  *)
(***************************************************************************)
EXTENDS Integers, Sequences

CONSTANTS
  Thread,       (* the OpenMP threads of the sink                             *)
  NumChunks,    (* chunks of the video, numbered from 0                       *)
  ChunkLength,  (* CHUNK_LENGTH: frames per chunk, as the sink counts them    *)
  Frames,       (* Frames[c]: frames the decoder makes of chunk c             *)
  Stored,       (* the chunks that have a record in the database              *)
  Unreadable,   (* the chunks in which the decoder finds no video stream      *)
  Broken,       (* the chunks whose file it cannot open, or has no streams    *)
  FrameHwm,     (* high-water mark of the decoder's socket to a thread        *)
  NoRequest,    (* the scheduler awaits no answer                             *)
  NoMsg,        (* a null pointer in the prefetch buffer                      *)
  NoThread      (* the block has not been dealt                               *)

Chunks == 0..(NumChunks - 1)

Request == [tid : Thread, chunk : Chunks]

(* A decoded frame, or the desc that ends a chunk. *)
FrameItem(c, i) == [kind |-> "frame", chunk |-> c, idx |-> i]
EofItem(c) == [kind |-> "eof", chunk |-> c, idx |-> 0]
Item == [kind : {"frame", "eof"}, chunk : Chunks, idx : Nat]

ASSUME NoneAssumption ==
  NoRequest \notin Request /\ NoMsg \notin Item /\ NoThread \notin Thread

ASSUME StoreAssumption ==
  /\ NumChunks \in Nat
  /\ ChunkLength \in Nat \ {0}
  /\ Frames \in [Chunks -> 0..ChunkLength]
  /\ Stored \subseteq Chunks
  /\ Unreadable \subseteq Chunks /\ Broken \subseteq Chunks
  /\ Unreadable \intersect Broken = {}
  /\ FrameHwm \in Nat \ {0}

VARIABLES
  request,  (* the request the scheduler has forwarded and awaits an answer to *)
  chunkQ,   (* chunks on their way from the source to the decoder              *)
  frameQ    (* frameQ[t]: items on their way from the decoder to thread t      *)


NetTypeOK ==
  /\ request \in Request \union {NoRequest}
  /\ chunkQ \in Seq(Request)
  /\ frameQ \in [Thread -> Seq(Item)]

NetInit ==
  /\ request = NoRequest
  /\ chunkQ = <<>>
  /\ frameQ = [t \in Thread |-> <<>>]
=============================================================================

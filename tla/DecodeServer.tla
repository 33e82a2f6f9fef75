----------------------------- MODULE DecodeServer -----------------------------
(***************************************************************************)
(* The decoder (decode-serv.cpp, decode_one_file of mydecoder.cpp): one    *)
(* chunk at a time, whose frames and end marker go to the socket of the    *)
(* sink thread named by the chunk's tid.                                   *)
(***************************************************************************)
EXTENDS QueryNet

VARIABLES
  decoding,  (* the chunk received last                                    *)
  next       (* number of its frame to be sent next, -1: no chunk in hand  *)

decoderVars == <<decoding, next>>

DecoderTypeOK ==
  /\ decoding \in Request \union {NoRequest}
  /\ next \in Nat \union {-1}
  /\ next # -1 => decoding \in Request

DecoderInit == decoding = NoRequest /\ next = -1

(* recv_one_chunk_tofile, and the start of the thread that decodes. *)
ReceiveChunk ==
  /\ next = -1
  /\ chunkQ # <<>>
  /\ decoding' = Head(chunkQ)
  /\ chunkQ' = Tail(chunkQ)
  /\ next' = 0
  /\ UNCHANGED <<request, frameQ>>

(* A blocking send to the thread's socket. *)
CanSend(t) == Len(frameQ[t]) < FrameHwm

Send(t, item) == CanSend(t) /\ frameQ' = [frameQ EXCEPT ![t] = Append(@, item)]

(* avformat_open_input and avformat_find_stream_info are asserted to       *)
(* succeed: at a broken file the decoder's process ends, and with it all   *)
(* its steps.                                                              *)
Readable(c) == c \notin Unreadable \union Broken

(* decode_write_hw sends a decoded frame. *)
SendFrame ==
  /\ next # -1
  /\ Readable(decoding.chunk)
  /\ next < Frames[decoding.chunk]
  /\ Send(decoding.tid, FrameItem(decoding.chunk, next))
  /\ next' = next + 1
  /\ UNCHANGED <<request, chunkQ, decoding>>

(* Mutant: the end marker is only sent after a chunk of full length. *)
SendEofIfFull(t, c) ==
  IF Frames[c] < ChunkLength THEN UNCHANGED frameQ ELSE Send(t, EofItem(c))

SendEof(t, c) == Send(t, EofItem(c))

(* send_decoded_eof, then the thread is joined. *)
EndChunk ==
  /\ next # -1
  /\ Readable(decoding.chunk)
  /\ next = Frames[decoding.chunk]
  /\ SendEof(decoding.tid, decoding.chunk)
  /\ next' = -1
  /\ UNCHANGED <<request, chunkQ, decoding>>

(* av_find_best_stream fails: return -1, and main does not look at it. *)
GiveUpChunk ==
  /\ next # -1
  /\ decoding.chunk \in Unreadable
  /\ next' = -1
  /\ UNCHANGED <<request, chunkQ, frameQ, decoding>>

Decoder == ReceiveChunk \/ SendFrame \/ EndChunk \/ GiveUpChunk
=============================================================================

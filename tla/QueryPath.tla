------------------------------ MODULE QueryPath ------------------------------
(***************************************************************************)
(* A query: the threads of the sink fetch the full-size frames they need   *)
(* through the scheduler, the source and the decoder.                      *)
(***************************************************************************)
EXTENDS SourceServer, DecodeServer, SinkPrefetch

netVars == <<request, chunkQ, frameQ>>
vars == <<netVars, sourceVars, decoderVars, sinkVars>>

TypeOK == NetTypeOK /\ SourceTypeOK /\ DecoderTypeOK /\ SinkTypeOK

Init == NetInit /\ SourceInit /\ DecoderInit /\ SinkInit

SourceStep == Source /\ UNCHANGED <<decoderVars, sinkVars>>

IoStep == (\E e \in Env : CloseTxn(e)) /\ UNCHANGED <<decoderVars, sinkVars>>

DecoderStep == Decoder /\ UNCHANGED <<sourceVars, sinkVars>>

SinkStep(t) == SinkThread(t) /\ UNCHANGED <<sourceVars, decoderVars>>

SchedulerStep(t) == Forward(t) /\ UNCHANGED <<sourceVars, decoderVars>>

Next ==
  \/ SourceStep \/ IoStep \/ DecoderStep
  \/ \E t \in Thread : SinkStep(t) \/ SchedulerStep(t)

(* Every process and thread runs; the scheduler serves its clients in turn. *)
Fairness ==
  /\ WF_vars(SourceStep) /\ WF_vars(DecoderStep)
  /\ \A t \in Thread : WF_vars(SinkStep(t)) /\ SF_vars(SchedulerStep(t))

Spec == Init /\ [][Next]_vars /\ Fairness

-----------------------------------------------------------------------------
(* The inductive invariant. *)

(* The slot the next item of thread t goes to. *)
Pos(t) == IF pc[t] = "fetch" THEN iter[t] ELSE 0

(* The number of the frame the decoder has come to, if it is t's. *)
DecoderPos(t) == IF next > 0 /\ decoding.tid = t THEN next ELSE 0

(* The number of the frame that may come after an item. *)
After(item) == IF item.kind = "frame" THEN item.idx + 1 ELSE 0
Numbered(item, n) == item.kind = "frame" => item.idx = n

(* The items in a socket are numbered without a gap from the slot the      *)
(* thread has come to up to the frame the decoder has come to.  Only after *)
(* the last frame of a full chunk does the thread start again before the   *)
(* decoder does, and then the item between them is an end marker.          *)
Linked(q, from, to) ==
  /\ \A k \in 1..Len(q) : q[k].kind = "frame" => q[k].idx < ChunkLength
  /\ \A k \in 1..(Len(q) - 1) : Numbered(q[k + 1], After(q[k]))
  /\ q # <<>> => Numbered(q[1], from) /\ After(q[Len(q)]) = to
  /\ q = <<>> => to = from \/ (to = ChunkLength /\ from = 0)

FlowInv ==
  /\ \A t \in Thread : Linked(frameQ[t], Pos(t), DecoderPos(t))
  /\ \A t \in Thread : pc[t] = "fetch" => iter[t] < ChunkLength
  /\ next > 0 => Readable(decoding.chunk) /\ next <= Frames[decoding.chunk]

(* A block is worked on by its owner, and whatever is under way for a      *)
(* thread is of a block it owns.                                           *)
Owned(r) == r # NoRequest => owner[r.chunk] = r.tid

OwnerInv ==
  /\ \A t \in Thread : pc[t] \in {"look", "wait", "fetch", "use"} =>
       \E c \in Chunks :
         owner[c] = t /\ c * ChunkLength <= j[t] /\ j[t] < c * ChunkLength + ChunkLength
  /\ Owned(request) /\ Owned(serving) /\ Owned(decoding)
  /\ \A i \in 1..Len(chunkQ) : Owned(chunkQ[i])

-----------------------------------------------------------------------------
(* A frame sits in the slot of its own number, even when end markers have  *)
(* been left behind by earlier fetches.                                    *)
SlotAligned ==
  \A t \in Thread, i \in Slots : buf[t][i] # NoMsg => buf[t][i].idx = i

(* A thread is only ever given frames of the blocks it was dealt.          *)
OwnChunks ==
  \A t \in Thread :
    /\ \A i \in Slots : buf[t][i] # NoMsg => owner[buf[t][i].chunk] = t
    /\ \A i \in 1..Len(frameQ[t]) : owner[frameQ[t][i].chunk] = t

IInv == TypeOK /\ FlowInv /\ OwnerInv /\ SlotAligned /\ OwnChunks

(* The frame used for frame j is frame j: of the chunk that holds it.      *)
RightChunk ==
  \A t \in Thread :
    pc[t] = "use" /\ Wanted(t) # NoMsg => Wanted(t).chunk = ChunkOf(j[t])

(* Between two fetches nothing of the last one is still on its way.        *)
OnItsWay(t, r) == r # NoRequest /\ r.tid = t
NothingLeftOver ==
  \A t \in Thread : pc[t] \notin {"wait", "fetch"} =>
    /\ frameQ[t] = <<>>
    /\ ~OnItsWay(t, request)
    /\ source = "serve" => ~OnItsWay(t, serving)
    /\ next # -1 => ~OnItsWay(t, decoding)
    /\ \A i \in 1..Len(chunkQ) : ~OnItsWay(t, chunkQ[i])

(* Why: one thing at most is under way for a thread, and only while it is  *)
(* fetching: its request, the chunk, or the frames of the chunk.  Until    *)
(* the chunk is decoded no item of it has been sent.                       *)
Fresh(t) == pc[t] = "fetch" /\ iter[t] = 0 /\ frameQ[t] = <<>>
Served(t) == source = "serve" /\ OnItsWay(t, serving)
Queued(t) == \E i \in 1..Len(chunkQ) : OnItsWay(t, chunkQ[i])
Decoded(t) == next # -1 /\ OnItsWay(t, decoding)

OneUnderWay(t) ==
  /\ OnItsWay(t, request) =>
       Fresh(t) /\ request.chunk = ChunkOf(j[t]) /\ ~Served(t) /\ ~Queued(t) /\ ~Decoded(t)
  /\ Served(t) => Fresh(t) /\ serving.chunk = ChunkOf(j[t]) /\ ~Queued(t) /\ ~Decoded(t)
  /\ \A i \in 1..Len(chunkQ) : OnItsWay(t, chunkQ[i]) =>
       /\ Fresh(t) /\ chunkQ[i].chunk = ChunkOf(j[t]) /\ ~Decoded(t)
       /\ \A k \in 1..Len(chunkQ) : OnItsWay(t, chunkQ[k]) => k = i
  /\ Decoded(t) =>
       /\ pc[t] = "fetch" /\ decoding.chunk = ChunkOf(j[t])
       /\ iter[t] + Len(frameQ[t]) = next /\ next <= Frames[decoding.chunk]

(* What is in the socket of a thread is the rest of the chunk it fetches,  *)
(* and the item after the last frame is the end marker.                    *)
RestOfChunk(t) ==
  /\ pc[t] # "fetch" => frameQ[t] = <<>>
  /\ \A k \in 1..Len(frameQ[t]) :
       /\ frameQ[t][k].chunk = ChunkOf(j[t])
       /\ frameQ[t][k].kind = "eof" <=> iter[t] + k = Frames[frameQ[t][k].chunk] + 1
       /\ iter[t] + k <= Frames[frameQ[t][k].chunk] + 1

LoneInv == \A t \in Thread : OneUnderWay(t) /\ RestOfChunk(t)

(* It takes chunks that are shorter than the sink allows for: the fetch of *)
(* a full one ends at its last frame and leaves the end marker behind.     *)
AllShort == \A c \in Chunks : Frames[c] < ChunkLength

(* Why the frame used is the right one: blocks are dealt in order, a       *)
(* thread fetches at the first frame of each block, and what a fetch finds *)
(* in the buffer is of the one chunk fetched before, all overwritten.      *)
StartOf(c) == c * ChunkLength
Start(t) == StartOf(ChunkOf(j[t]))

DealtInv ==
  \A c, d \in Chunks : d < c /\ owner[c] # NoThread => owner[d] # NoThread

StatusOk(t) ==
  /\ \/ status[t] = -ChunkLength - 1
     \/ \E c \in Chunks : owner[c] = t /\ status[t] = StartOf(c)
  /\ pc[t] \in {"wait", "fetch"} => j[t] = Start(t) /\ status[t] < Start(t)
  /\ pc[t] = "look" =>
       \/ j[t] = Start(t) /\ status[t] < Start(t)
       \/ j[t] > Start(t) /\ status[t] = Start(t)
  /\ pc[t] = "use" => status[t] = Start(t)

BufferOk(t) ==
  \A i \in Slots : buf[t][i] # NoMsg =>
    /\ i < Frames[buf[t][i].chunk]
    /\ IF pc[t] = "fetch" /\ i < iter[t]
         THEN buf[t][i].chunk = ChunkOf(j[t])
         ELSE StartOf(buf[t][i].chunk) = status[t]

RightInv == DealtInv /\ \A t \in Thread : StatusOk(t) /\ BufferOk(t)

(* It takes motion at the first frame of every block, and no chunk more    *)
(* than one frame shorter than an earlier one: the end marker clears one   *)
(* slot beyond the frames, and later slots keep what they hold.            *)
StartsMove == \A c \in Chunks : StartOf(c) \in Moving
BarelyShorter == \A c, d \in Chunks : c <= d => Frames[c] <= Frames[d] + 1

(* A thread that has asked for a chunk goes on in the end, unless the      *)
(* source has aborted.                                                     *)
EveryFetchEnds ==
  \A t \in Thread : pc[t] = "wait" ~> pc[t] = "use" \/ source = "abort"

(* Stated by vs-types.h of TYPE_DECODED_FRAME_EOF, "end of the current     *)
(* chunk": the end marker that ends a fetch is that of the chunk fetched.  *)
EofOfCurrentChunk ==
  [][\A t \in Thread :
       ReceiveItem(t) /\ Head(frameQ[t]).kind = "eof"
         => Head(frameQ[t]).chunk = ChunkOf(j[t])]_vars
=============================================================================

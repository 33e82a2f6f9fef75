--------------------------- MODULE QueryPath_proofs ---------------------------
(***************************************************************************)
(* Proofs about QueryPath: for any number of threads and chunks, whatever  *)
(* the lengths of the chunks and however the fetches go, frames keep to    *)
(* their slots and threads to their chunks.                                *)
(***************************************************************************)
EXTENDS QueryPath, TLAPS

-----------------------------------------------------------------------------
(* Chunks and the frames they hold. *)

LEMMA SmallMultiple ==
  ASSUME NEW k \in Int, NEW m \in Int, NEW n \in Nat \ {0},
         k * n < m * n + n, m * n < k * n + n
  PROVE  k = m
<1>1. CASE k > m
  <2>1. k * n >= (m + 1) * n
    BY <1>1
  <2>2. (m + 1) * n = m * n + n
    OBVIOUS
  <2> QED BY <2>1, <2>2
<1>2. CASE k < m
  <2>1. m * n >= (k + 1) * n
    BY <1>2
  <2>2. (k + 1) * n = k * n + n
    OBVIOUS
  <2> QED BY <2>1, <2>2
<1> QED BY <1>1, <1>2

LEMMA ChunkOfFrame ==
  ASSUME NEW n \in Nat, NEW c \in Nat, ChunkLength \in Nat \ {0},
         c * ChunkLength <= n, n < c * ChunkLength + ChunkLength
  PROVE  ChunkOf(n) = c
<1> DEFINE d == n \div ChunkLength
<1>1. d \in Int /\ d * ChunkLength <= n /\ n < d * ChunkLength + ChunkLength
  OBVIOUS
<1>2. d = c
  <2> HIDE DEF d
  <2> QED BY <1>1, SmallMultiple
<1> QED BY <1>2 DEF ChunkOf

LEMMA NextFrameInChunk ==
  ASSUME NEW n \in Nat, NEW c \in Nat, ChunkLength \in Nat \ {0},
         c * ChunkLength <= n, n < c * ChunkLength + ChunkLength,
         (n + 1) % ChunkLength # 0
  PROVE  n + 1 < c * ChunkLength + ChunkLength
<1> SUFFICES ASSUME n + 1 = c * ChunkLength + ChunkLength PROVE FALSE
  <2>1. c * ChunkLength \in Nat
    OBVIOUS
  <2> QED BY <2>1
<1>1. n + 1 = (c + 1) * ChunkLength
  OBVIOUS
<1>2. ((c + 1) * ChunkLength) % ChunkLength = 0
  OBVIOUS
<1> QED BY <1>1, <1>2

(* The chunk a thread works in is one that it owns. *)
LEMMA OwnChunkOf ==
  ASSUME TypeOK, OwnerInv, NEW t \in Thread, pc[t] \in {"look", "wait", "fetch", "use"}
  PROVE  ChunkOf(j[t]) \in Chunks /\ owner[ChunkOf(j[t])] = t
<1>1. PICK c \in Chunks :
        owner[c] = t /\ c * ChunkLength <= j[t] /\ j[t] < c * ChunkLength + ChunkLength
  BY DEF OwnerInv
<1>2. j[t] \in Nat /\ c \in Nat /\ ChunkLength \in Nat \ {0}
  BY StoreAssumption DEF TypeOK, SinkTypeOK, Chunks
<1>3. ChunkOf(j[t]) = c
  BY <1>1, <1>2, ChunkOfFrame
<1> QED BY <1>1, <1>3

-----------------------------------------------------------------------------
(* Requests and items. *)

LEMMA RequestParts ==
  ASSUME NEW r \in Request
  PROVE  r.tid \in Thread /\ r.chunk \in Chunks /\ r # NoRequest
BY NoneAssumption DEF Request

LEMMA RequestMade ==
  ASSUME NEW t \in Thread, NEW c \in Chunks
  PROVE  /\ [tid |-> t, chunk |-> c] \in Request
         /\ [tid |-> t, chunk |-> c].tid = t /\ [tid |-> t, chunk |-> c].chunk = c
BY DEF Request

LEMMA ItemParts ==
  ASSUME NEW m \in Item
  PROVE  /\ m.kind \in {"frame", "eof"} /\ m.chunk \in Chunks /\ m.idx \in Nat
         /\ m # NoMsg
BY NoneAssumption DEF Item

LEMMA ItemsMade ==
  ASSUME NEW c \in Chunks, NEW n \in Nat
  PROVE  /\ FrameItem(c, n) \in Item /\ EofItem(c) \in Item
         /\ FrameItem(c, n).kind = "frame" /\ EofItem(c).kind = "eof"
         /\ FrameItem(c, n).chunk = c /\ EofItem(c).chunk = c
         /\ FrameItem(c, n).idx = n
BY DEF Item, FrameItem, EofItem

(* A sequence taken apart and put together. *)
LEMMA Popped ==
  ASSUME NEW S, NEW q \in Seq(S), q # <<>>
  PROVE  /\ Head(q) \in S /\ Head(q) = q[1] /\ Tail(q) \in Seq(S)
         /\ Len(q) \in Nat \ {0} /\ Len(Tail(q)) = Len(q) - 1
         /\ \A k \in 1..Len(Tail(q)) : Tail(q)[k] = q[k + 1]
OBVIOUS

LEMMA Pushed ==
  ASSUME NEW S, NEW q \in Seq(S), NEW x \in S
  PROVE  /\ Append(q, x) \in Seq(S) /\ Append(q, x) # <<>>
         /\ Len(q) \in Nat /\ Len(Append(q, x)) = Len(q) + 1
         /\ \A k \in 1..Len(q) : Append(q, x)[k] = q[k]
         /\ Append(q, x)[Len(q) + 1] = x
OBVIOUS

(* The next iteration, with or without a new frame. *)
LEMMA ContinueMoves ==
  ASSUME NEW t \in Thread, Continue(t)
  PROVE  \/ pc' = [pc EXCEPT ![t] = "idle"] /\ j' = j
         \/ /\ pc' = [pc EXCEPT ![t] = "look"] /\ j' = [j EXCEPT ![t] = @ + 1]
            /\ (j[t] + 1) % ChunkLength # 0
BY DEF Continue, Goto

-----------------------------------------------------------------------------
(* The first state. *)
LEMMA InitInv == Init => IInv
<1> SUFFICES ASSUME Init PROVE IInv
  OBVIOUS
<1> USE DEF Init, NetInit, SourceInit, DecoderInit, SinkInit
<1>1. TypeOK
  BY StoreAssumption DEF TypeOK, NetTypeOK, SourceTypeOK, DecoderTypeOK, SinkTypeOK
<1>2. FlowInv
  BY DEF FlowInv, Linked, Pos, DecoderPos
<1>3. OwnerInv
  BY DEF OwnerInv, Owned
<1>4. SlotAligned /\ OwnChunks
  BY DEF SlotAligned, OwnChunks
<1> QED BY <1>1, <1>2, <1>3, <1>4 DEF IInv

-----------------------------------------------------------------------------
(* The variables keep their types. *)
LEMMA TypePreserved == IInv /\ [Next]_vars => TypeOK'
<1> SUFFICES ASSUME TypeOK, FlowInv, OwnerInv, [Next]_vars PROVE TypeOK'
  BY DEF IInv
<1> USE DEF TypeOK, NetTypeOK, SourceTypeOK, DecoderTypeOK, SinkTypeOK,
            netVars, sourceVars, decoderVars, sinkVars
<1>1. CASE SourceStep
  <2>1. CASE AnswerRequest
    BY <1>1, <2>1 DEF SourceStep, AnswerRequest
  <2>2. CASE ServeChunk
    <3>1. serving \in Request /\ EnvOf[serving.tid] \in Env
      BY <2>2, EnvAssumption, RequestParts DEF ServeChunk
    <3>2. chunkQ' = chunkQ \/ chunkQ' = Append(chunkQ, serving)
      BY <2>2 DEF ServeChunk, SendChunk
    <3>3. chunkQ' \in Seq(Request)
      <4>1. Append(chunkQ, serving) \in Seq(Request)
        BY <3>1, Pushed
      <4> QED BY <3>2, <4>1
    <3>4. source' \in {"recv", "abort"}
      BY <2>2 DEF ServeChunk
    <3>5. alive' = alive \/ alive' = alive \union {EnvOf[serving.tid]}
      BY <2>2 DEF ServeChunk
    <3> QED BY <1>1, <2>2, <3>1, <3>3, <3>4, <3>5 DEF SourceStep, ServeChunk
  <2> QED BY <1>1, <2>1, <2>2 DEF SourceStep, Source
<1>2. CASE IoStep
  BY <1>2 DEF IoStep, CloseTxn
<1>3. CASE DecoderStep
  <2>1. CASE ReceiveChunk
    BY <1>3, <2>1, Popped DEF DecoderStep, ReceiveChunk
  <2>2. ASSUME SendFrame \/ EndChunk
        PROVE  decoding \in Request /\ decoding.tid \in Thread /\ decoding.chunk \in Chunks
               /\ next \in Nat
    BY <2>2, RequestParts DEF SendFrame, EndChunk
  <2>3. CASE SendFrame
    <3>1. FrameItem(decoding.chunk, next) \in Item
      BY <2>2, <2>3, ItemsMade
    <3> QED BY <1>3, <2>2, <2>3, <3>1 DEF DecoderStep, SendFrame, Send
  <2>4. CASE EndChunk
    <3>1. EofItem(decoding.chunk) \in Item
      BY <2>2, <2>4, ItemsMade
    <3> QED BY <1>3, <2>2, <2>4, <3>1 DEF DecoderStep, EndChunk, SendEof, Send
  <2>5. CASE GiveUpChunk
    BY <1>3, <2>5 DEF DecoderStep, GiveUpChunk
  <2> QED BY <1>3, <2>1, <2>3, <2>4, <2>5 DEF DecoderStep, Decoder
<1>4. ASSUME NEW t \in Thread, SinkStep(t) PROVE TypeOK'
  <2> USE DEF Goto
  <2>1. CASE TakeBlock(t)
    <3>1. \A c \in Chunks : c * ChunkLength \in Nat
      BY StoreAssumption DEF Chunks
    <3> QED BY <1>4, <2>1, <3>1 DEF SinkStep, TakeBlock
  <2>2. CASE NoBlockLeft(t)
    BY <1>4, <2>2 DEF SinkStep, NoBlockLeft
  <2>3. CASE SkipFrame(t) \/ UseFrame(t)
    <3>1. \/ pc' = [pc EXCEPT ![t] = "idle"] /\ j' = j
          \/ pc' = [pc EXCEPT ![t] = "look"] /\ j' = [j EXCEPT ![t] = @ + 1]
      <4>1. Continue(t)
        BY <2>3 DEF SkipFrame, UseFrame
      <4> QED BY <4>1, ContinueMoves
    <3>2. pc' \in [Thread -> {"idle", "look", "wait", "fetch", "use", "done"}]
      BY <3>1
    <3>3. j' \in [Thread -> Nat]
      <4>1. j[t] + 1 \in Nat
        OBVIOUS
      <4> QED BY <3>1, <4>1
    <3> QED BY <1>4, <2>3, <3>2, <3>3 DEF SinkStep, SkipFrame, UseFrame
  <2>4. CASE AskForChunk(t)
    BY <1>4, <2>4 DEF SinkStep, AskForChunk
  <2>5. CASE UseBuffered(t)
    BY <1>4, <2>5 DEF SinkStep, UseBuffered
  <2>6. CASE ReceiveItem(t)
    <3> DEFINE item == Head(frameQ[t])
    <3>1. item \in Item /\ Tail(frameQ[t]) \in Seq(Item)
      BY <2>6, Popped DEF ReceiveItem
    <3>2. iter[t] \in Slots /\ iter[t] + 1 \in 0..ChunkLength
      BY <2>6, StoreAssumption DEF ReceiveItem, FlowInv, Slots
    <3>3. buf' \in [Thread -> [Slots -> Item \union {NoMsg}]]
      <4>1. buf' = [buf EXCEPT ![t][iter[t]] = IF item.kind = "frame" THEN item ELSE NoMsg]
        BY <2>6 DEF ReceiveItem, Store
      <4> HIDE DEF item
      <4> QED BY <3>1, <3>2, <4>1
    <3>4. /\ iter' = [iter EXCEPT ![t] = @ + 1]
          /\ frameQ' = [frameQ EXCEPT ![t] = Tail(@)]
          /\ UNCHANGED <<request, chunkQ, j, owner, sourceVars, decoderVars>>
          /\ pc' = [pc EXCEPT ![t] = "use"] \/ pc' = pc
          /\ status' = [status EXCEPT ![t] = j[t]] \/ status' = status
      BY <1>4, <2>6 DEF SinkStep, ReceiveItem
    <3> QED BY <3>1, <3>2, <3>3, <3>4
  <2> QED BY <1>4, <2>1, <2>2, <2>3, <2>4, <2>5, <2>6 DEF SinkStep, SinkThread
<1>5. ASSUME NEW t \in Thread, SchedulerStep(t) PROVE TypeOK'
  <2>1. [tid |-> t, chunk |-> ChunkOf(j[t])] \in Request
    BY <1>5, OwnChunkOf, RequestMade DEF SchedulerStep, Forward
  <2> QED BY <1>5, <2>1, StoreAssumption DEF SchedulerStep, Forward, Goto
<1>6. CASE UNCHANGED vars
  BY <1>6 DEF vars
<1> QED BY <1>1, <1>2, <1>3, <1>4, <1>5, <1>6 DEF Next

-----------------------------------------------------------------------------
(* The items of a socket keep their numbers. *)

LEMMA LinkedAppend ==
  ASSUME NEW q \in Seq(Item), NEW x \in Item, NEW from \in Nat, NEW to \in Nat,
         Linked(q, from, to), Numbered(x, to), x.kind = "frame" => to < ChunkLength
  PROVE  Linked(Append(q, x), from, After(x))
<1> DEFINE r == Append(q, x)
<1>1. /\ r # <<>> /\ Len(q) \in Nat /\ Len(r) = Len(q) + 1
      /\ \A k \in 1..Len(q) : r[k] = q[k]
      /\ r[Len(q) + 1] = x
  BY Pushed
<1> HIDE DEF r
<1>2. \A k \in 1..Len(r) : r[k].kind = "frame" => r[k].idx < ChunkLength
  BY <1>1 DEF Linked, Numbered
<1>3. ASSUME NEW k \in 1..(Len(r) - 1) PROVE Numbered(r[k + 1], After(r[k]))
  <2>1. CASE k = Len(q)
    BY <1>1, <2>1 DEF Linked
  <2>2. CASE k < Len(q)
    <3>1. r[k] = q[k] /\ r[k + 1] = q[k + 1] /\ k \in 1..(Len(q) - 1)
      BY <1>1, <2>2
    <3> QED BY <3>1 DEF Linked
  <2> QED BY <1>1, <2>1, <2>2
<1>4. Numbered(r[1], from)
  <2>1. CASE q = <<>>
    <3>1. r[1] = x
      BY <1>1, <2>1
    <3> QED BY <2>1, <3>1 DEF Linked, Numbered
  <2>2. CASE q # <<>>
    <3>1. r[1] = q[1]
      BY <1>1, <2>2
    <3> QED BY <2>2, <3>1 DEF Linked
  <2> QED BY <2>1, <2>2
<1>5. After(r[Len(r)]) = After(x)
  BY <1>1
<1> QED BY <1>1, <1>2, <1>3, <1>4, <1>5 DEF Linked, r

LEMMA LinkedTail ==
  ASSUME NEW q \in Seq(Item), q # <<>>, NEW from \in Nat, NEW to \in Nat,
         Linked(q, from, to), from < ChunkLength, ChunkLength \in Nat,
         NEW nextSlot,
         nextSlot = IF q[1].kind = "eof" \/ from + 1 = ChunkLength THEN 0 ELSE from + 1
  PROVE  Linked(Tail(q), nextSlot, to)
<1> DEFINE r == Tail(q)
<1>1. /\ r \in Seq(Item) /\ Len(q) \in Nat \ {0} /\ Len(r) = Len(q) - 1
      /\ \A k \in 1..Len(r) : r[k] = q[k + 1]
  BY Popped
<1> HIDE DEF r
<1>2. q[1] \in Item /\ q[1].kind \in {"frame", "eof"}
  BY <1>1, ItemParts
<1>3. After(q[1]) = IF q[1].kind = "eof" THEN 0 ELSE from + 1
  BY <1>2 DEF Linked, Numbered, After
<1>4. \A k \in 1..Len(r) : r[k].kind = "frame" => r[k].idx < ChunkLength
  BY <1>1 DEF Linked
<1>5. ASSUME NEW k \in 1..(Len(r) - 1) PROVE Numbered(r[k + 1], After(r[k]))
  <2>1. r[k] = q[k + 1] /\ r[k + 1] = q[k + 2] /\ k + 1 \in 1..(Len(q) - 1)
    BY <1>1
  <2>2. (k + 1) + 1 = k + 2
    BY <1>1
  <2> QED BY <2>1, <2>2 DEF Linked
<1>6. CASE r = <<>>
  <2>1. After(q[1]) = to
    <3>1. Len(r) = 0
      BY <1>6
    <3>2. Len(q) = 1
      BY <1>1, <3>1
    <3> QED BY <3>2 DEF Linked
  <2>2. to = nextSlot \/ (to = ChunkLength /\ nextSlot = 0)
    BY <1>2, <1>3, <2>1
  <2> QED BY <1>4, <1>5, <1>6, <2>2 DEF Linked, r
<1>7. CASE r # <<>>
  <2>1. Len(r) \in Nat \ {0}
    BY <1>1, <1>7
  <2>2. r[1] = q[2] /\ r[Len(r)] = q[Len(q)]
    BY <1>1, <2>1
  <2>3. Numbered(r[1], After(q[1])) /\ After(r[Len(r)]) = to
    <3>1. 1 \in 1..(Len(q) - 1) /\ 1 + 1 = 2
      BY <1>1, <2>1
    <3> QED BY <2>2, <3>1 DEF Linked
  <2>4. r[1].kind = "frame" => r[1].idx < ChunkLength
    BY <1>4, <2>1
  <2>5. Numbered(r[1], nextSlot)
    BY <1>3, <2>3, <2>4 DEF Numbered
  <2> QED BY <1>4, <1>5, <1>7, <2>3, <2>5 DEF Linked, r
<1> QED BY <1>6, <1>7

(* Positions are numbers. *)
LEMMA Positions ==
  ASSUME TypeOK, NEW t \in Thread
  PROVE  Pos(t) \in Nat /\ DecoderPos(t) \in Nat /\ frameQ[t] \in Seq(Item)
BY StoreAssumption DEF TypeOK, NetTypeOK, DecoderTypeOK, SinkTypeOK, Pos, DecoderPos

(* Frames arrive in order: the sockets stay linked through every step. *)
LEMMA FlowPreserved == IInv /\ [Next]_vars => FlowInv'
<1> SUFFICES ASSUME TypeOK, FlowInv, [Next]_vars PROVE FlowInv'
  BY DEF IInv
<1> USE DEF netVars, sourceVars, decoderVars, sinkVars
<1>1. ASSUME UNCHANGED <<frameQ, decoding, next>>,
             \A u \in Thread : Pos(u)' = Pos(u),
             \A u \in Thread : pc'[u] = "fetch" => iter'[u] < ChunkLength
      PROVE  FlowInv'
  BY <1>1 DEF FlowInv, DecoderPos
<1>2. ASSUME UNCHANGED <<frameQ, decoding, next, pc, iter>> PROVE FlowInv'
  BY <1>2 DEF FlowInv, Pos, DecoderPos
<1>3. CASE SourceStep
  BY <1>2, <1>3 DEF SourceStep, Source, AnswerRequest, ServeChunk
<1>4. CASE IoStep
  BY <1>2, <1>4 DEF IoStep, CloseTxn
<1>5. CASE DecoderStep
  <2> DEFINE c == decoding.chunk
  <2>0. PICK t : t = decoding.tid
    OBVIOUS
  <2>1. UNCHANGED <<pc, iter>> /\ \A u \in Thread : Pos(u)' = Pos(u)
    BY <1>5 DEF DecoderStep, Pos
  <2>2. ASSUME frameQ' = frameQ, next <= 0, next' <= 0, next' \in Int PROVE FlowInv'
    <3>1. \A u \in Thread : DecoderPos(u) = 0 /\ DecoderPos(u)' = 0
      BY <2>2 DEF DecoderPos, TypeOK, DecoderTypeOK
    <3> QED BY <2>1, <2>2, <3>1 DEF FlowInv, TypeOK, DecoderTypeOK
  <2>3. CASE ReceiveChunk
    BY <2>2, <2>3 DEF ReceiveChunk
  <2>4. CASE GiveUpChunk
    <3>1. next <= 0
      BY <2>4 DEF GiveUpChunk, FlowInv, Readable, TypeOK, DecoderTypeOK
    <3> QED BY <2>2, <2>4, <3>1 DEF GiveUpChunk
  <2>5. ASSUME next # -1 PROVE /\ t \in Thread /\ c \in Chunks /\ next \in Nat
                               /\ DecoderPos(t) = next /\ Frames[c] \in 0..ChunkLength
    BY <2>0, <2>5, RequestParts, StoreAssumption DEF TypeOK, DecoderTypeOK, DecoderPos
  <2>6. ASSUME NEW x \in Item, t \in Thread, Send(t, x), decoding' = decoding,
               Numbered(x, DecoderPos(t)), x.kind = "frame" => DecoderPos(t) < ChunkLength,
               DecoderPos(t)' = After(x),
               \A u \in Thread : u # t => DecoderPos(u)' = DecoderPos(u)
        PROVE  \A u \in Thread : Linked(frameQ[u], Pos(u), DecoderPos(u))'
    <3>1. frameQ' = [frameQ EXCEPT ![t] = Append(@, x)]
      BY <2>6 DEF Send
    <3>2. frameQ'[t] = Append(frameQ[t], x) /\ \A u \in Thread : u # t => frameQ'[u] = frameQ[u]
      BY <2>6, <3>1 DEF TypeOK, NetTypeOK
    <3>3. Linked(Append(frameQ[t], x), Pos(t), After(x))
      BY <2>6, LinkedAppend, Positions DEF FlowInv
    <3>4. TAKE u \in Thread
    <3>5. CASE u = t
      <4>1. Linked(frameQ'[t], Pos(t)', DecoderPos(t)')
        BY <2>1, <2>6, <3>2, <3>3
      <4> QED BY <3>5, <4>1
    <3>6. CASE u # t
      <4>1. Linked(frameQ'[u], Pos(u)', DecoderPos(u)')
        BY <2>1, <2>6, <3>2, <3>6 DEF FlowInv
      <4> QED BY <4>1
    <3> QED BY <3>5, <3>6
  <2>7. CASE SendFrame
    <3> DEFINE x == FrameItem(c, next)
    <3>1. next # -1 /\ Readable(c) /\ next < Frames[c] /\ Send(t, x)
          /\ next' = next + 1 /\ decoding' = decoding
      BY <2>0, <2>7 DEF SendFrame
    <3>2. x \in Item /\ x.kind = "frame" /\ x.idx = next
      BY <2>5, <3>1, ItemsMade
    <3>3. next < ChunkLength
      BY <2>5, <3>1, StoreAssumption
    <3>4. DecoderPos(t)' = After(x) /\ \A u \in Thread : u # t => DecoderPos(u)' = DecoderPos(u)
      BY <2>0, <2>5, <3>1, <3>2 DEF DecoderPos, After
    <3>5. Numbered(x, DecoderPos(t)) /\ DecoderPos(t) < ChunkLength
      BY <2>5, <3>1, <3>2, <3>3 DEF Numbered
    <3> HIDE DEF x
    <3>6. \A u \in Thread : Linked(frameQ[u], Pos(u), DecoderPos(u))'
      BY <2>5, <2>6, <3>1, <3>2, <3>4, <3>5
    <3>7. next' > 0 /\ next' <= Frames[c]
      BY <2>5, <3>1
    <3> QED BY <2>1, <3>1, <3>6, <3>7 DEF FlowInv
  <2>8. CASE EndChunk
    <3> DEFINE x == EofItem(c)
    <3>1. next # -1 /\ Send(t, x) /\ next' = -1 /\ decoding' = decoding
      BY <2>0, <2>8 DEF EndChunk, SendEof
    <3>2. x \in Item /\ x.kind = "eof"
      BY <2>5, <3>1, ItemsMade
    <3>3. DecoderPos(t)' = After(x) /\ \A u \in Thread : u # t => DecoderPos(u)' = DecoderPos(u)
      BY <2>0, <3>1, <3>2 DEF DecoderPos, After
    <3>4. Numbered(x, DecoderPos(t)) /\ x.kind # "frame"
      BY <3>2 DEF Numbered
    <3> HIDE DEF x
    <3>5. \A u \in Thread : Linked(frameQ[u], Pos(u), DecoderPos(u))'
      BY <2>5, <2>6, <3>1, <3>2, <3>3, <3>4
    <3> QED BY <2>1, <3>1, <3>5 DEF FlowInv
  <2> QED BY <1>5, <2>3, <2>4, <2>7, <2>8 DEF DecoderStep, Decoder
<1>6. ASSUME NEW t \in Thread, SinkStep(t) PROVE FlowInv'
  <2>1. UNCHANGED <<decoding, next>>
    BY <1>6 DEF SinkStep
  <2>2. CASE ~ReceiveItem(t)
    <3>1. /\ frameQ' = frameQ /\ iter' = iter /\ pc[t] # "fetch"
          /\ \E w \in {"idle", "look", "wait", "use", "done"} : pc' = [pc EXCEPT ![t] = w]
      <4> USE DEF Goto
      <4>1. CASE TakeBlock(t)
        BY <4>1 DEF TakeBlock
      <4>2. CASE NoBlockLeft(t)
        BY <4>2 DEF NoBlockLeft
      <4>3. CASE SkipFrame(t)
        <5>1. Continue(t)
          BY <4>3 DEF SkipFrame
        <5>2. pc' = [pc EXCEPT ![t] = "idle"] \/ pc' = [pc EXCEPT ![t] = "look"]
          BY <5>1, ContinueMoves
        <5> QED BY <4>3, <5>2 DEF SkipFrame
      <4>4. CASE AskForChunk(t)
        BY <4>4 DEF AskForChunk
      <4>5. CASE UseBuffered(t)
        BY <4>5 DEF UseBuffered
      <4>6. CASE UseFrame(t)
        <5>1. Continue(t)
          BY <4>6 DEF UseFrame
        <5>2. pc' = [pc EXCEPT ![t] = "idle"] \/ pc' = [pc EXCEPT ![t] = "look"]
          BY <5>1, ContinueMoves
        <5> QED BY <4>6, <5>2 DEF UseFrame
      <4> QED BY <1>6, <2>2, <4>1, <4>2, <4>3, <4>4, <4>5, <4>6 DEF SinkStep, SinkThread
    <3>2. \A u \in Thread : pc'[u] = "fetch" <=> pc[u] = "fetch"
      BY <3>1 DEF TypeOK, SinkTypeOK
    <3> QED BY <1>1, <2>1, <3>1, <3>2 DEF Pos, FlowInv
  <2>3. CASE ReceiveItem(t)
    <3> DEFINE q == frameQ[t]
    <3>1. /\ pc[t] = "fetch" /\ q # <<>> /\ q \in Seq(Item)
          /\ Linked(q, iter[t], DecoderPos(t)) /\ DecoderPos(t) \in Nat
          /\ iter[t] \in Nat /\ iter[t] < ChunkLength /\ ChunkLength \in Nat
      BY <2>3, Positions, StoreAssumption DEF ReceiveItem, FlowInv, Pos, TypeOK, SinkTypeOK
    <3>2. q[1] = Head(q) /\ q[1] \in Item
      BY <3>1, Popped
    <3>3. /\ frameQ' = [frameQ EXCEPT ![t] = Tail(@)]
          /\ iter' = [iter EXCEPT ![t] = @ + 1]
          /\ IF q[1].kind = "eof" \/ iter[t] + 1 = ChunkLength
               THEN pc' = [pc EXCEPT ![t] = "use"] ELSE pc' = pc
      BY <2>3, <3>2 DEF ReceiveItem, FetchOver, Goto
    <3>4. /\ \A u \in Thread : u # t => pc'[u] = pc[u] /\ iter'[u] = iter[u]
          /\ pc'[t] = IF q[1].kind = "eof" \/ iter[t] + 1 = ChunkLength THEN "use" ELSE "fetch"
          /\ iter'[t] = iter[t] + 1
      BY <3>1, <3>3 DEF TypeOK, SinkTypeOK
    <3>5. Pos(t)' = IF q[1].kind = "eof" \/ iter[t] + 1 = ChunkLength THEN 0 ELSE iter[t] + 1
      BY <3>4 DEF Pos
    <3>6. Linked(Tail(q), Pos(t)', DecoderPos(t))
      BY <3>1, <3>5, LinkedTail
    <3>7. ASSUME NEW u \in Thread PROVE Linked(frameQ'[u], Pos(u)', DecoderPos(u)')
      <4>1. DecoderPos(u)' = DecoderPos(u)
        BY <2>1 DEF DecoderPos
      <4>2. CASE u = t
        <5>1. frameQ'[t] = Tail(q)
          BY <3>3 DEF TypeOK, NetTypeOK
        <5> QED BY <3>6, <4>1, <4>2, <5>1
      <4>3. CASE u # t
        <5>1. frameQ'[u] = frameQ[u]
          BY <3>3, <4>3 DEF TypeOK, NetTypeOK
        <5>2. Pos(u)' = Pos(u)
          BY <3>4, <4>3 DEF Pos
        <5> QED BY <4>1, <5>1, <5>2 DEF FlowInv
      <4> QED BY <4>2, <4>3
    <3>8. ASSUME NEW u \in Thread, pc'[u] = "fetch" PROVE iter'[u] < ChunkLength
      BY <3>1, <3>4, <3>8 DEF FlowInv
    <3> QED BY <2>1, <3>7, <3>8 DEF FlowInv
  <2> QED BY <2>2, <2>3
<1>7. ASSUME NEW t \in Thread, SchedulerStep(t) PROVE FlowInv'
  <2>1. /\ UNCHANGED <<frameQ, decoding, next>> /\ pc[t] = "wait"
        /\ pc' = [pc EXCEPT ![t] = "fetch"] /\ iter' = [iter EXCEPT ![t] = 0]
    BY <1>7 DEF SchedulerStep, Forward, Goto
  <2>2. \A u \in Thread : u # t => pc'[u] = pc[u] /\ iter'[u] = iter[u]
    BY <2>1 DEF TypeOK, SinkTypeOK
  <2>3. pc'[t] = "fetch" /\ iter'[t] = 0 /\ 0 < ChunkLength
    BY <2>1, StoreAssumption DEF TypeOK, SinkTypeOK
  <2>4. \A u \in Thread : Pos(u)' = Pos(u)
    BY <2>1, <2>2, <2>3 DEF Pos
  <2> QED BY <1>1, <2>1, <2>2, <2>3, <2>4 DEF FlowInv
<1>8. CASE UNCHANGED vars
  BY <1>2, <1>8 DEF vars
<1> QED BY <1>3, <1>4, <1>5, <1>6, <1>7, <1>8 DEF Next

(* Every frame received goes to the slot of its number. *)
LEMMA SlotsPreserved == IInv /\ [Next]_vars => SlotAligned'
<1> SUFFICES ASSUME TypeOK, FlowInv, SlotAligned, [Next]_vars PROVE SlotAligned'
  BY DEF IInv
<1> USE DEF netVars, sourceVars, decoderVars, sinkVars
<1>1. CASE buf' = buf
  BY <1>1 DEF SlotAligned
<1>2. ASSUME NEW t \in Thread, ReceiveItem(t) PROVE SlotAligned'
  <2>1. /\ Head(frameQ[t]) \in Item
        /\ Numbered(Head(frameQ[t]), iter[t]) /\ iter[t] \in Slots
    <3>1. pc[t] = "fetch" /\ frameQ[t] # <<>> /\ frameQ[t] \in Seq(Item)
      BY <1>2, Positions DEF ReceiveItem
    <3>2. Head(frameQ[t]) = frameQ[t][1] /\ Head(frameQ[t]) \in Item
      BY <3>1, Popped
    <3> QED BY <3>1, <3>2, StoreAssumption DEF FlowInv, Linked, Pos, Slots, TypeOK, SinkTypeOK
  <2>2. buf' = [buf EXCEPT ![t][iter[t]] =
                  IF Head(frameQ[t]).kind = "frame" THEN Head(frameQ[t]) ELSE NoMsg]
    BY <1>2 DEF ReceiveItem, Store
  <2> QED BY <2>1, <2>2 DEF SlotAligned, Numbered, TypeOK, SinkTypeOK
<1>3. ASSUME NEW t \in Thread, SinkStep(t) PROVE SlotAligned'
  BY <1>1, <1>2, <1>3 DEF SinkStep, SinkThread, TakeBlock, NoBlockLeft, SkipFrame, AskForChunk,
     UseBuffered, UseFrame
<1> QED BY <1>1, <1>3 DEF Next, vars, SourceStep, IoStep, DecoderStep, SchedulerStep, Forward

-----------------------------------------------------------------------------
(* Ownership. *)

(* A block is dealt once. *)
LEMMA OwnersStay ==
  TypeOK /\ [Next]_vars => \A c \in Chunks : owner[c] # NoThread => owner'[c] = owner[c]
<1> SUFFICES ASSUME TypeOK, [Next]_vars,
                    NEW c \in Chunks, owner[c] # NoThread
             PROVE  owner'[c] = owner[c]
  OBVIOUS
<1> USE DEF netVars, sourceVars, decoderVars, sinkVars
<1>1. ASSUME NEW t \in Thread, TakeBlock(t) PROVE owner'[c] = owner[c]
  BY <1>1 DEF TakeBlock, TypeOK, SinkTypeOK
<1>2. ASSUME NEW t \in Thread, SinkStep(t) PROVE owner'[c] = owner[c]
  BY <1>1, <1>2 DEF SinkStep, SinkThread, NoBlockLeft, SkipFrame, AskForChunk,
     UseBuffered, UseFrame, ReceiveItem
<1> QED BY <1>2 DEF Next, vars, SourceStep, IoStep, DecoderStep, SchedulerStep, Forward

LEMMA OwnedKept ==
  ASSUME TypeOK, [Next]_vars, NEW r \in Request \union {NoRequest}, Owned(r)
  PROVE  Owned(r)'
<1> SUFFICES ASSUME r # NoRequest PROVE owner'[r.chunk] = r.tid
  BY DEF Owned
<1>1. r.chunk \in Chunks /\ r.tid \in Thread /\ owner[r.chunk] = r.tid
  BY RequestParts DEF Owned
<1> QED BY <1>1, OwnersStay, NoneAssumption

(* What is under way for a thread is of a block it owns. *)
LEMMA RequestsOwned ==
  ASSUME TypeOK, OwnerInv, [Next]_vars
  PROVE  Owned(request)' /\ Owned(serving)' /\ Owned(decoding)'
         /\ (\A i \in 1..Len(chunkQ) : Owned(chunkQ[i]))'
<1> USE DEF netVars, sourceVars, decoderVars, sinkVars
<1>0. /\ request \in Request \union {NoRequest} /\ serving \in Request \union {NoRequest}
      /\ decoding \in Request \union {NoRequest} /\ chunkQ \in Seq(Request)
      /\ Owned(request) /\ Owned(serving) /\ Owned(decoding)
      /\ \A i \in 1..Len(chunkQ) : Owned(chunkQ[i])
  BY DEF OwnerInv, TypeOK, NetTypeOK, SourceTypeOK, DecoderTypeOK
<1>1. \A r \in Request \union {NoRequest} : Owned(r) => (r # NoRequest => owner'[r.chunk] = r.tid)
  BY OwnedKept DEF Owned
<1>2. Owned(request)'
  <2>1. \/ request' = request \/ request' = NoRequest
        \/ \E t \in Thread : pc[t] = "wait" /\ request' = [tid |-> t, chunk |-> ChunkOf(j[t])]
    BY DEF Next, vars, SourceStep, Source, AnswerRequest, ServeChunk, IoStep, CloseTxn,
       DecoderStep, Decoder, ReceiveChunk, SendFrame, EndChunk, GiveUpChunk, SinkStep,
       SinkThread, TakeBlock, NoBlockLeft, SkipFrame, AskForChunk, UseBuffered, UseFrame,
       ReceiveItem, SchedulerStep, Forward
  <2>2. ASSUME NEW t \in Thread, pc[t] = "wait" PROVE Owned([tid |-> t, chunk |-> ChunkOf(j[t])])
    BY <2>2, OwnChunkOf, RequestMade DEF Owned
  <2>3. ASSUME NEW t \in Thread, pc[t] = "wait"
        PROVE  [tid |-> t, chunk |-> ChunkOf(j[t])] \in Request
    BY <2>3, OwnChunkOf, RequestMade
  <2>4. \E r \in Request \union {NoRequest} : Owned(r) /\ request' = r
    BY <1>0, <2>1, <2>2, <2>3 DEF Owned
  <2> QED BY <1>1, <2>4 DEF Owned
<1>3. Owned(serving)'
  <2>1. serving' = serving \/ serving' = request
    BY DEF Next, vars, SourceStep, Source, AnswerRequest, ServeChunk, IoStep, CloseTxn,
       DecoderStep, SinkStep, SchedulerStep
  <2> QED BY <1>0, <1>1, <2>1 DEF Owned
<1>4. Owned(decoding)'
  <2>1. decoding' = decoding \/ (chunkQ # <<>> /\ decoding' = Head(chunkQ))
    BY DEF Next, vars, SourceStep, IoStep,
       DecoderStep, Decoder, ReceiveChunk, SendFrame, EndChunk, GiveUpChunk, SinkStep, SchedulerStep
  <2>2. chunkQ # <<>> => Head(chunkQ) \in Request /\ Owned(Head(chunkQ))
    BY <1>0, Popped
  <2> QED BY <1>0, <1>1, <2>1, <2>2 DEF Owned
<1>5. (\A i \in 1..Len(chunkQ) : Owned(chunkQ[i]))'
  <2>1. \/ chunkQ' = chunkQ \/ (serving \in Request /\ chunkQ' = Append(chunkQ, serving))
        \/ (chunkQ # <<>> /\ chunkQ' = Tail(chunkQ))
    BY DEF Next, vars, SourceStep, Source, AnswerRequest, ServeChunk, SendChunk, IoStep, CloseTxn,
       DecoderStep, Decoder, ReceiveChunk, SendFrame, EndChunk, GiveUpChunk, SinkStep,
       SinkThread, TakeBlock, NoBlockLeft, SkipFrame, AskForChunk, UseBuffered, UseFrame,
       ReceiveItem, SchedulerStep, Forward, TypeOK, SourceTypeOK
  <2>2. \A i \in 1..Len(chunkQ') : \E r \in Request : Owned(r) /\ chunkQ'[i] = r
    <3>1. CASE chunkQ' = chunkQ
      BY <1>0, <3>1
    <3>2. CASE serving \in Request /\ chunkQ' = Append(chunkQ, serving)
      BY <1>0, <3>2, Pushed
    <3>3. CASE chunkQ # <<>> /\ chunkQ' = Tail(chunkQ)
      BY <1>0, <3>3, Popped
    <3> QED BY <2>1, <3>1, <3>2, <3>3
  <2> QED BY <1>1, <2>2 DEF Owned
<1> QED BY <1>2, <1>3, <1>4, <1>5

(* A thread works in a block that it owns. *)
Working(t) == pc[t] \in {"look", "wait", "fetch", "use"}
InBlock(t, c) ==
  owner[c] = t /\ c * ChunkLength <= j[t] /\ j[t] < c * ChunkLength + ChunkLength

LEMMA BlocksOwned ==
  ASSUME TypeOK, OwnerInv, [Next]_vars
  PROVE  \A u \in Thread : Working(u)' => \E c \in Chunks : InBlock(u, c)'
<1> USE DEF netVars, sourceVars, decoderVars, sinkVars
<1>1. \A u \in Thread : Working(u) => \E c \in Chunks : InBlock(u, c)
  BY DEF OwnerInv, Working, InBlock
<1>2. ASSUME NEW u \in Thread, Working(u), j'[u] = j[u] PROVE \E c \in Chunks : InBlock(u, c)'
  <2>1. PICK c \in Chunks : InBlock(u, c)
    BY <1>1, <1>2
  <2>2. owner'[c] = u
    BY <2>1, OwnersStay, NoneAssumption DEF InBlock
  <2> QED BY <1>2, <2>1, <2>2 DEF InBlock
<1>3. ASSUME NEW t \in Thread, SinkStep(t), NEW u \in Thread, Working(u)'
      PROVE  \E c \in Chunks : InBlock(u, c)'
  <2> USE DEF Goto
  <2>1. CASE TakeBlock(t)
    <3>1. CASE u = t
      <4>1. PICK c \in Chunks : owner' = [owner EXCEPT ![c] = t] /\ j' = [j EXCEPT ![t] = c * ChunkLength]
        BY <2>1 DEF TakeBlock
      <4>2. owner'[c] = u /\ j'[u] = c * ChunkLength
        BY <3>1, <4>1 DEF TypeOK, SinkTypeOK
      <4>3. c * ChunkLength \in Nat /\ ChunkLength \in Nat \ {0}
        BY StoreAssumption DEF Chunks
      <4> QED BY <4>2, <4>3 DEF InBlock
    <3>2. CASE u # t
      <4>1. Working(u) /\ j'[u] = j[u]
        BY <1>3, <2>1, <3>2 DEF TakeBlock, Working, TypeOK, SinkTypeOK
      <4> QED BY <1>2, <4>1
    <3> QED BY <3>1, <3>2
  <2>2. CASE SkipFrame(t) \/ UseFrame(t)
    <3>1. Working(t) /\ Continue(t)
      BY <2>2 DEF SkipFrame, UseFrame, Working
    <3>2. CASE pc' = [pc EXCEPT ![t] = "idle"] /\ j' = j
      <4>1. Working(u) /\ j'[u] = j[u]
        BY <1>3, <3>2 DEF Working, TypeOK, SinkTypeOK
      <4> QED BY <1>2, <4>1
    <3>3. CASE /\ pc' = [pc EXCEPT ![t] = "look"] /\ j' = [j EXCEPT ![t] = @ + 1]
               /\ (j[t] + 1) % ChunkLength # 0
      <4>1. CASE u # t
        <5>1. Working(u) /\ j'[u] = j[u]
          BY <1>3, <3>3, <4>1 DEF Working, TypeOK, SinkTypeOK
        <5> QED BY <1>2, <5>1
      <4>2. CASE u = t
        <5>1. PICK c \in Chunks : InBlock(t, c)
          BY <1>1, <3>1
        <5>2. j[t] \in Nat /\ c \in Nat /\ ChunkLength \in Nat \ {0} /\ j'[t] = j[t] + 1
          BY <3>3, StoreAssumption DEF TypeOK, SinkTypeOK, Chunks
        <5>3. j[t] + 1 < c * ChunkLength + ChunkLength
          BY <3>3, <5>1, <5>2, NextFrameInChunk DEF InBlock
        <5>4. owner'[c] = t
          BY <5>1, OwnersStay, NoneAssumption DEF InBlock
        <5>5. c * ChunkLength \in Nat
          BY <5>2
        <5>6. c * ChunkLength <= j[t] + 1
          BY <5>1, <5>2, <5>5 DEF InBlock
        <5> QED BY <4>2, <5>2, <5>3, <5>4, <5>6 DEF InBlock
      <4> QED BY <4>1, <4>2
    <3> QED BY <3>1, <3>2, <3>3, ContinueMoves
  <2>3. CASE NoBlockLeft(t) \/ AskForChunk(t) \/ UseBuffered(t) \/ ReceiveItem(t)
    <3>1. j' = j
      BY <2>3 DEF NoBlockLeft, AskForChunk, UseBuffered, ReceiveItem
    <3>2. Working(u)
      BY <1>3, <2>3 DEF NoBlockLeft, AskForChunk, UseBuffered, ReceiveItem, Working,
         TypeOK, SinkTypeOK
    <3> QED BY <1>2, <3>1, <3>2
  <2> QED BY <1>3, <2>1, <2>2, <2>3 DEF SinkStep, SinkThread
<1>4. ASSUME NEW t \in Thread, SchedulerStep(t), NEW u \in Thread, Working(u)'
      PROVE  Working(u) /\ j'[u] = j[u]
  BY <1>4 DEF SchedulerStep, Forward, Goto, Working, TypeOK, SinkTypeOK
<1>5. ASSUME SourceStep \/ IoStep \/ DecoderStep \/ UNCHANGED vars, NEW u \in Thread, Working(u)'
      PROVE  Working(u) /\ j'[u] = j[u]
  BY <1>5 DEF SourceStep, IoStep, DecoderStep, vars, Working
<1> QED BY <1>2, <1>3, <1>4, <1>5 DEF Next

(* Threads are given frames of their own blocks. *)
LEMMA ItemsOwned ==
  ASSUME TypeOK, OwnerInv, OwnChunks, [Next]_vars
  PROVE  OwnChunks'
<1> USE DEF netVars, sourceVars, decoderVars, sinkVars
<1>0. /\ frameQ \in [Thread -> Seq(Item)]
      /\ buf \in [Thread -> [Slots -> Item \union {NoMsg}]]
      /\ \A u \in Thread : iter[u] \in Nat
  BY StoreAssumption DEF TypeOK, NetTypeOK, SinkTypeOK
<1>1. \A m \in Item, u \in Thread : owner[m.chunk] = u => owner'[m.chunk] = u
  BY OwnersStay, ItemParts, NoneAssumption
<1>2. ASSUME NEW u \in Thread, NEW i \in 1..Len(frameQ'[u])
      PROVE  \E m \in Item : owner[m.chunk] = u /\ frameQ'[u][i] = m
  <2>1. CASE frameQ' = frameQ
    BY <1>0, <2>1 DEF OwnChunks
  <2>2. ASSUME NEW x \in Item, next # -1, Send(decoding.tid, x), x.chunk = decoding.chunk
        PROVE  \E m \in Item : owner[m.chunk] = u /\ frameQ'[u][i] = m
    <3>1. decoding.tid \in Thread /\ owner[decoding.chunk] = decoding.tid
      BY <2>2, RequestParts DEF OwnerInv, Owned, TypeOK, DecoderTypeOK
    <3>2. CASE u = decoding.tid
      <4>1. frameQ'[u] = Append(frameQ[u], x)
        BY <1>0, <2>2, <3>2 DEF Send
      <4>2. frameQ[u] \in Seq(Item) /\ \A k \in 1..Len(frameQ[u]) : owner[frameQ[u][k].chunk] = u
        BY <1>0 DEF OwnChunks
      <4> QED BY <2>2, <3>1, <3>2, <4>1, <4>2, Pushed
    <3>3. CASE u # decoding.tid
      <4>1. frameQ'[u] = frameQ[u]
        BY <1>0, <2>2, <3>3 DEF Send
      <4> QED BY <1>0, <4>1 DEF OwnChunks
    <3> QED BY <3>2, <3>3
  <2>3. CASE DecoderStep
    <3>1. next # -1 => decoding.chunk \in Chunks /\ next \in Nat
      BY RequestParts DEF TypeOK, DecoderTypeOK
    <3>2. CASE SendFrame
      BY <2>2, <3>1, <3>2, ItemsMade DEF SendFrame
    <3>3. CASE EndChunk
      BY <2>2, <3>1, <3>3, ItemsMade DEF EndChunk, SendEof
    <3>4. CASE ReceiveChunk \/ GiveUpChunk
      BY <2>1, <3>4 DEF ReceiveChunk, GiveUpChunk
    <3> QED BY <2>3, <3>2, <3>3, <3>4 DEF DecoderStep, Decoder
  <2>4. ASSUME NEW t \in Thread, ReceiveItem(t)
        PROVE  \E m \in Item : owner[m.chunk] = u /\ frameQ'[u][i] = m
    <3>1. CASE u = t
      <4>1. frameQ'[u] = Tail(frameQ[u]) /\ frameQ[u] # <<>>
        BY <1>0, <2>4, <3>1 DEF ReceiveItem
      <4>2. frameQ[u] \in Seq(Item) /\ \A k \in 1..Len(frameQ[u]) : owner[frameQ[u][k].chunk] = u
        BY <1>0 DEF OwnChunks
      <4>3. frameQ'[u][i] = frameQ[u][i + 1] /\ i + 1 \in 1..Len(frameQ[u])
        BY <4>1, <4>2, Popped
      <4> QED BY <4>2, <4>3
    <3>2. CASE u # t
      <4>1. frameQ'[u] = frameQ[u]
        BY <1>0, <2>4, <3>2 DEF ReceiveItem
      <4> QED BY <1>0, <4>1 DEF OwnChunks
    <3> QED BY <3>1, <3>2
  <2>5. ASSUME NEW t \in Thread, SinkStep(t)
        PROVE  \E m \in Item : owner[m.chunk] = u /\ frameQ'[u][i] = m
    BY <2>1, <2>4, <2>5 DEF SinkStep, SinkThread, TakeBlock, NoBlockLeft, SkipFrame, AskForChunk,
       UseBuffered, UseFrame
  <2> QED BY <2>1, <2>3, <2>5 DEF Next, vars, SourceStep, Source, AnswerRequest, ServeChunk,
             IoStep, CloseTxn, SchedulerStep, Forward
<1>3. ASSUME NEW u \in Thread, NEW i \in Slots, buf'[u][i] # NoMsg
      PROVE  \E m \in Item : owner[m.chunk] = u /\ buf'[u][i] = m
  <2>1. CASE buf' = buf
    BY <1>0, <1>3, <2>1 DEF OwnChunks
  <2>2. ASSUME NEW t \in Thread, ReceiveItem(t)
        PROVE  \E m \in Item : owner[m.chunk] = u /\ buf'[u][i] = m
    <3>1. Head(frameQ[t]) \in Item /\ owner[Head(frameQ[t]).chunk] = t
      <4>1. frameQ[t] # <<>> /\ frameQ[t] \in Seq(Item)
        BY <1>0, <2>2 DEF ReceiveItem
      <4>2. Head(frameQ[t]) \in Item /\ Head(frameQ[t]) = frameQ[t][1] /\ 1 \in 1..Len(frameQ[t])
        BY <4>1, Popped
      <4> QED BY <4>2 DEF OwnChunks
    <3>2. buf' = [buf EXCEPT ![t][iter[t]] =
                    IF Head(frameQ[t]).kind = "frame" THEN Head(frameQ[t]) ELSE NoMsg]
      BY <2>2 DEF ReceiveItem, Store
    <3>3. \/ buf'[u][i] = buf[u][i]
          \/ u = t /\ buf'[u][i] = Head(frameQ[t])
      BY <1>0, <1>3, <3>2
    <3> QED BY <1>0, <1>3, <3>1, <3>3 DEF OwnChunks
  <2>3. ASSUME NEW t \in Thread, SinkStep(t)
        PROVE  \E m \in Item : owner[m.chunk] = u /\ buf'[u][i] = m
    BY <2>1, <2>2, <2>3 DEF SinkStep, SinkThread, TakeBlock, NoBlockLeft, SkipFrame, AskForChunk,
       UseBuffered, UseFrame
  <2> QED BY <2>1, <2>3 DEF Next, vars, SourceStep, IoStep, DecoderStep, SchedulerStep, Forward
<1> QED BY <1>1, <1>2, <1>3 DEF OwnChunks

-----------------------------------------------------------------------------
LEMMA StepInv == IInv /\ [Next]_vars => IInv'
<1> SUFFICES ASSUME IInv, [Next]_vars PROVE IInv'
  OBVIOUS
<1>1. TypeOK' /\ FlowInv' /\ SlotAligned'
  BY TypePreserved, FlowPreserved, SlotsPreserved
<1>2. OwnerInv' /\ OwnChunks'
  <2>1. TypeOK /\ OwnerInv /\ OwnChunks
    BY DEF IInv
  <2> QED BY <2>1, RequestsOwned, BlocksOwned, ItemsOwned DEF OwnerInv, Working, InBlock
<1> QED BY <1>1, <1>2 DEF IInv

(* The items on their way are numbered without a gap, and everything under *)
(* way for a thread (a request, a chunk, a frame, the block it works on)   *)
(* is of a block that was dealt to it.                                     *)
THEOREM InductiveInvariant == Spec => []IInv
<1>1. Init => IInv
  BY InitInv
<1>2. IInv /\ [Next]_vars => IInv'
  BY StepInv
<1> QED BY <1>1, <1>2, PTL DEF Spec

(* A full-size frame is always kept in the slot of its own number, also    *)
(* when end markers were left behind, a chunk was short, missing or        *)
(* unreadable, or other threads fetched in between.                        *)
THEOREM SlotAlignedThm == Spec => []SlotAligned
<1>1. IInv => SlotAligned
  BY DEF IInv
<1> QED BY <1>1, InductiveInvariant, PTL

(* The decoder's routing by tid never gives a thread a frame of a block    *)
(* that was dealt to another.                                              *)
THEOREM OwnChunksThm == Spec => []OwnChunks
<1>1. IInv => OwnChunks
  BY DEF IInv
<1> QED BY <1>1, InductiveInvariant, PTL

-----------------------------------------------------------------------------
(* One thing at most is under way for a thread. *)

(* The types the proofs below look at. *)
LEMMA PathTypes ==
  ASSUME TypeOK
  PROVE  /\ request \in Request \union {NoRequest} /\ serving \in Request \union {NoRequest}
         /\ source = "serve" => serving \in Request
         /\ decoding \in Request \union {NoRequest} /\ next \in Nat \union {-1}
         /\ next # -1 => decoding \in Request /\ next \in Nat
         /\ chunkQ \in Seq(Request) /\ frameQ \in [Thread -> Seq(Item)]
         /\ \A t \in Thread : iter[t] \in Nat /\ Len(frameQ[t]) \in Nat
         /\ \A c \in Chunks : Frames[c] \in Nat
BY StoreAssumption DEF TypeOK, NetTypeOK, SourceTypeOK, DecoderTypeOK, SinkTypeOK

LEMMA InitLone == Init => LoneInv
<1> SUFFICES ASSUME Init, NEW t \in Thread PROVE OneUnderWay(t) /\ RestOfChunk(t)
  BY DEF LoneInv
<1>1. /\ request = NoRequest /\ source # "serve" /\ next = -1 /\ Len(chunkQ) = 0
      /\ frameQ[t] = <<>> /\ Len(frameQ[t]) = 0
  BY DEF Init, NetInit, SourceInit, DecoderInit
<1>2. ~OnItsWay(t, request) /\ ~Served(t) /\ ~Decoded(t)
  BY <1>1 DEF OnItsWay, Served, Decoded
<1> QED BY <1>1, <1>2 DEF OneUnderWay, RestOfChunk

(* A thread for which nothing changes. *)
LEMMA LoneKept ==
  ASSUME NEW u \in Thread, OneUnderWay(u), RestOfChunk(u),
         pc'[u] = pc[u], j'[u] = j[u], iter'[u] = iter[u], frameQ'[u] = frameQ[u],
         UNCHANGED <<request, source, serving, chunkQ>>,
         Decoded(u)' <=> Decoded(u), Decoded(u) => UNCHANGED <<decoding, next>>
  PROVE  OneUnderWay(u)' /\ RestOfChunk(u)'
BY DEF OneUnderWay, RestOfChunk, Fresh, OnItsWay, Served, Queued

(* A thread that is not fetching has nothing under way. *)
LEMMA NoneUnderWay ==
  ASSUME NEW u \in Thread, OneUnderWay(u), RestOfChunk(u), pc[u] # "fetch"
  PROVE  /\ frameQ[u] = <<>> /\ ~OnItsWay(u, request) /\ ~Served(u) /\ ~Decoded(u)
         /\ \A i \in 1..Len(chunkQ) : ~OnItsWay(u, chunkQ[i])
BY DEF OneUnderWay, RestOfChunk, Fresh

(* The source answers a request and puts the chunk into the queue. *)
LEMMA LoneSource ==
  ASSUME TypeOK, SourceStep, NEW u \in Thread, OneUnderWay(u), RestOfChunk(u)
  PROVE  OneUnderWay(u)' /\ RestOfChunk(u)'
<1> USE DEF netVars, sourceVars, decoderVars, sinkVars
<1>0. UNCHANGED <<pc, j, iter, frameQ, decoding, next>>
  BY DEF SourceStep, Source, AnswerRequest, ServeChunk
<1>1. RestOfChunk(u)' /\ (Fresh(u)' <=> Fresh(u)) /\ (Decoded(u)' <=> Decoded(u))
  BY <1>0 DEF RestOfChunk, Fresh, Decoded, OnItsWay
<1>2. CASE AnswerRequest
  <2>1. /\ source = "recv" /\ source' = "serve" /\ request # NoRequest
        /\ serving' = request /\ request' = NoRequest /\ chunkQ' = chunkQ
    BY <1>2 DEF AnswerRequest
  <2>2. (Queued(u)' <=> Queued(u)) /\ ~Served(u) /\ (Served(u)' <=> OnItsWay(u, request))
    BY <2>1 DEF Queued, Served, OnItsWay
  <2> QED BY <1>0, <1>1, <2>1, <2>2 DEF OneUnderWay, OnItsWay
<1>3. CASE ServeChunk
  <2>1. /\ source = "serve" /\ source' # "serve" /\ UNCHANGED <<request, serving>>
        /\ chunkQ' = chunkQ \/ chunkQ' = Append(chunkQ, serving)
    BY <1>3 DEF ServeChunk, SendChunk
  <2>2. ~Served(u)' /\ (OnItsWay(u, serving) <=> Served(u))
    BY <2>1 DEF Served
  <2>3. CASE chunkQ' = chunkQ
    <3>1. Queued(u)' <=> Queued(u)
      BY <2>3 DEF Queued, OnItsWay
    <3> QED BY <1>0, <1>1, <2>1, <2>2, <2>3, <3>1 DEF OneUnderWay, OnItsWay
  <2>4. CASE chunkQ' = Append(chunkQ, serving)
    <3>1. /\ Len(chunkQ) \in Nat /\ Len(chunkQ') = Len(chunkQ) + 1
          /\ \A i \in 1..Len(chunkQ) : chunkQ'[i] = chunkQ[i]
          /\ chunkQ'[Len(chunkQ) + 1] = serving
      BY <2>1, <2>4, PathTypes, Pushed
    <3>2. \A i \in 1..Len(chunkQ') : i \in 1..Len(chunkQ) \/ i = Len(chunkQ) + 1
      BY <3>1
    <3>3. CASE Served(u)
      <4>1. /\ Fresh(u) /\ serving.chunk = ChunkOf(j[u]) /\ ~Decoded(u)
            /\ ~OnItsWay(u, request)
            /\ \A i \in 1..Len(chunkQ) : ~OnItsWay(u, chunkQ[i])
        BY <3>3 DEF OneUnderWay, Queued
      <4>2. \A i \in 1..Len(chunkQ') : OnItsWay(u, chunkQ'[i]) => i = Len(chunkQ) + 1
        BY <3>1, <3>2, <4>1
      <4> QED BY <1>0, <1>1, <2>1, <2>2, <3>1, <4>1, <4>2 DEF OneUnderWay, OnItsWay
    <3>4. CASE ~Served(u)
      <4>1. \A i \in 1..Len(chunkQ') :
              OnItsWay(u, chunkQ'[i]) => i \in 1..Len(chunkQ) /\ chunkQ'[i] = chunkQ[i]
        BY <2>2, <3>1, <3>2, <3>4
      <4>2. Queued(u)' => Queued(u)
        BY <4>1 DEF Queued, OnItsWay
      <4> QED BY <1>0, <1>1, <2>1, <2>2, <4>1, <4>2 DEF OneUnderWay, OnItsWay
    <3> QED BY <3>3, <3>4
  <2> QED BY <2>1, <2>3, <2>4
<1> QED BY <1>2, <1>3 DEF SourceStep, Source

(* The decoder receives a chunk, sends an item of it, or gives it up. *)
LEMMA LoneDecoder ==
  ASSUME TypeOK, FlowInv, DecoderStep, NEW u \in Thread, OneUnderWay(u), RestOfChunk(u)
  PROVE  OneUnderWay(u)' /\ RestOfChunk(u)'
<1> USE DEF netVars, sourceVars, decoderVars, sinkVars
<1>0. /\ UNCHANGED <<pc, j, iter, request, source, serving>> /\ (Served(u)' <=> Served(u))
      /\ (OnItsWay(u, request)' <=> OnItsWay(u, request))
  BY DEF DecoderStep, Decoder, ReceiveChunk, SendFrame, EndChunk, GiveUpChunk, Served, OnItsWay
<1>1. CASE ReceiveChunk
  <2>1. /\ next = -1 /\ next' = 0 /\ chunkQ # <<>> /\ frameQ' = frameQ
        /\ decoding' = Head(chunkQ) /\ chunkQ' = Tail(chunkQ)
    BY <1>1 DEF ReceiveChunk
  <2>2. /\ Len(chunkQ) \in Nat \ {0} /\ Len(chunkQ') = Len(chunkQ) - 1
        /\ decoding' = chunkQ[1] /\ chunkQ[1] \in Request
        /\ \A i \in 1..Len(chunkQ') : chunkQ'[i] = chunkQ[i + 1]
    BY <2>1, PathTypes, Popped
  <2>3. ~Decoded(u) /\ (Decoded(u)' <=> OnItsWay(u, chunkQ[1]))
    BY <2>1, <2>2 DEF Decoded, OnItsWay
  <2>4. RestOfChunk(u)' /\ (Fresh(u)' <=> Fresh(u))
    BY <1>0, <2>1 DEF RestOfChunk, Fresh
  <2>5. ASSUME NEW i \in 1..Len(chunkQ'), OnItsWay(u, chunkQ'[i])
        PROVE  /\ OnItsWay(u, chunkQ[i + 1]) /\ i + 1 \in 1..Len(chunkQ)
               /\ ~OnItsWay(u, chunkQ[1])
    <3>1. OnItsWay(u, chunkQ[i + 1]) /\ i + 1 \in 1..Len(chunkQ) /\ 1 \in 1..Len(chunkQ)
      BY <2>2, <2>5
    <3> QED BY <3>1, <2>2 DEF OneUnderWay
  <2>6. Queued(u)' => Queued(u)
    BY <2>5 DEF Queued, OnItsWay
  <2>7. Decoded(u)' => Queued(u) /\ Fresh(u) /\ decoding'.chunk = ChunkOf(j[u])
    <3>1. 1 \in 1..Len(chunkQ)
      BY <2>2
    <3> QED BY <2>2, <2>3, <3>1 DEF OneUnderWay, Queued
  <2>8. OnItsWay(u, request)' => Fresh(u)' /\ request'.chunk = ChunkOf(j'[u]) /\ ~Served(u)'
                                /\ ~Queued(u)' /\ ~Decoded(u)'
    BY <1>0, <2>4, <2>6, <2>7 DEF OneUnderWay
  <2>9. Served(u)' => Fresh(u)' /\ serving'.chunk = ChunkOf(j'[u]) /\ ~Queued(u)' /\ ~Decoded(u)'
    BY <1>0, <2>4, <2>6, <2>7 DEF OneUnderWay
  <2>10. ASSUME NEW i \in 1..Len(chunkQ'), OnItsWay(u, chunkQ'[i])
         PROVE  /\ Fresh(u)' /\ chunkQ'[i].chunk = ChunkOf(j'[u]) /\ ~Decoded(u)'
                /\ \A k \in 1..Len(chunkQ') : OnItsWay(u, chunkQ'[k]) => k = i
    <3>1. chunkQ'[i] = chunkQ[i + 1] /\ OnItsWay(u, chunkQ[i + 1]) /\ i + 1 \in 1..Len(chunkQ)
      BY <2>2, <2>5, <2>10
    <3>2. \A k \in 1..Len(chunkQ') : OnItsWay(u, chunkQ'[k]) => k + 1 = i + 1
      BY <2>5, <3>1 DEF OneUnderWay
    <3> QED BY <1>0, <2>3, <2>4, <2>5, <2>10, <3>1, <3>2 DEF OneUnderWay
  <2>11. Decoded(u)' => /\ pc'[u] = "fetch" /\ decoding'.chunk = ChunkOf(j'[u])
                        /\ iter'[u] + Len(frameQ'[u]) = next' /\ next' <= Frames[decoding'.chunk]
    <3>1. decoding'.chunk \in Chunks /\ Frames[decoding'.chunk] \in Nat
      BY <2>2, RequestParts, PathTypes
    <3>2. Fresh(u) => pc[u] = "fetch" /\ iter[u] = 0 /\ Len(frameQ[u]) = 0
      BY DEF Fresh
    <3> QED BY <1>0, <2>1, <2>7, <3>1, <3>2
  <2> QED BY <2>4, <2>8, <2>9, <2>10, <2>11 DEF OneUnderWay, OnItsWay
<1>2. CASE GiveUpChunk
  <2>1. UNCHANGED <<chunkQ, frameQ, decoding>> /\ ~Decoded(u)'
    BY <1>2 DEF GiveUpChunk, Decoded
  <2> QED BY <1>0, <2>1 DEF OneUnderWay, RestOfChunk, Fresh, Queued, OnItsWay
<1>3. ASSUME NEW x \in Item, next # -1, Send(decoding.tid, x), UNCHANGED <<chunkQ, decoding>>,
             x.chunk = decoding.chunk, x.kind = "eof" <=> next = Frames[decoding.chunk],
             next <= Frames[decoding.chunk],
             next' = -1 \/ (next' = next + 1 /\ next' <= Frames[decoding.chunk])
      PROVE  OneUnderWay(u)' /\ RestOfChunk(u)'
  <2>1. /\ decoding \in Request /\ next \in Nat /\ decoding.tid \in Thread
        /\ decoding # NoRequest /\ Frames[decoding.chunk] \in Nat
    BY <1>3, PathTypes, RequestParts
  <2>2. frameQ' = [frameQ EXCEPT ![decoding.tid] = Append(@, x)]
    BY <1>3 DEF Send
  <2>3. CASE decoding.tid # u
    <3>1. frameQ'[u] = frameQ[u] /\ ~Decoded(u) /\ ~Decoded(u)'
      BY <1>3, <2>1, <2>2, <2>3, PathTypes DEF Decoded, OnItsWay
    <3> QED BY <1>0, <1>3, <3>1, LoneKept
  <2>4. CASE decoding.tid = u
    <3>1. Decoded(u)
      BY <1>3, <2>1, <2>4 DEF Decoded, OnItsWay
    <3>2. /\ pc[u] = "fetch" /\ decoding.chunk = ChunkOf(j[u])
          /\ iter[u] + Len(frameQ[u]) = next
          /\ ~OnItsWay(u, request) /\ ~Served(u)
          /\ \A i \in 1..Len(chunkQ) : ~OnItsWay(u, chunkQ[i])
      BY <3>1 DEF OneUnderWay
    <3>3. frameQ'[u] = Append(frameQ[u], x)
      BY <2>1, <2>2, <2>4, PathTypes
    <3>4. /\ Len(frameQ'[u]) = Len(frameQ[u]) + 1 /\ Len(frameQ[u]) \in Nat /\ iter[u] \in Nat
          /\ \A k \in 1..Len(frameQ[u]) : frameQ'[u][k] = frameQ[u][k]
          /\ frameQ'[u][Len(frameQ[u]) + 1] = x
      BY <3>3, PathTypes, Pushed
    <3>5. ASSUME NEW k \in 1..Len(frameQ'[u])
          PROVE  /\ frameQ'[u][k].chunk = ChunkOf(j'[u])
                 /\ frameQ'[u][k].kind = "eof" <=> iter'[u] + k = Frames[frameQ'[u][k].chunk] + 1
                 /\ iter'[u] + k <= Frames[frameQ'[u][k].chunk] + 1
      <4>1. CASE k \in 1..Len(frameQ[u])
        BY <1>0, <3>4, <4>1 DEF RestOfChunk
      <4>2. CASE k = Len(frameQ[u]) + 1
        <5>1. frameQ'[u][k] = x /\ x.chunk = ChunkOf(j[u]) /\ iter'[u] + k = next + 1
          BY <1>0, <1>3, <3>2, <3>4, <4>2
        <5> QED BY <1>0, <1>3, <2>1, <3>2, <5>1
      <4> QED BY <3>4, <4>1, <4>2
    <3>6. RestOfChunk(u)'
      BY <1>0, <3>2, <3>5 DEF RestOfChunk
    <3>7. Decoded(u)' => /\ pc'[u] = "fetch" /\ decoding'.chunk = ChunkOf(j'[u])
                         /\ iter'[u] + Len(frameQ'[u]) = next' /\ next' <= Frames[decoding'.chunk]
      <4>1. Decoded(u)' => next' # -1
        BY DEF Decoded
      <4> QED BY <1>0, <1>3, <2>1, <3>2, <3>4, <4>1
    <3> QED BY <1>0, <1>3, <3>2, <3>6, <3>7 DEF OneUnderWay, OnItsWay
  <2> QED BY <2>3, <2>4
<1>4. next # -1 => decoding.chunk \in Chunks /\ next \in Nat /\ Frames[decoding.chunk] \in Nat
  BY PathTypes, RequestParts
<1>5. CASE SendFrame
  <2>1. FrameItem(decoding.chunk, next) \in Item
    BY <1>4, <1>5, ItemsMade DEF SendFrame
  <2> QED BY <1>3, <1>4, <1>5, <2>1, ItemsMade DEF SendFrame
<1>6. CASE EndChunk
  <2>1. EofItem(decoding.chunk) \in Item
    BY <1>4, <1>6, ItemsMade DEF EndChunk
  <2> QED BY <1>3, <1>4, <1>6, <2>1, ItemsMade DEF EndChunk, SendEof
<1> QED BY <1>1, <1>2, <1>5, <1>6 DEF DecoderStep, Decoder

(* The next item of a fetch: a frame, or the end marker after the last.    *)
LEMMA HeadItem ==
  ASSUME TypeOK, AllShort, NEW u \in Thread, RestOfChunk(u), frameQ[u] # <<>>,
         NEW x, x = Head(frameQ[u])
  PROVE  /\ x \in Item /\ x.kind \in {"frame", "eof"} /\ x.chunk \in Chunks
         /\ x.chunk = ChunkOf(j[u]) /\ iter[u] <= Frames[x.chunk]
         /\ iter[u] \in Nat /\ Frames[x.chunk] \in Nat
         /\ x.kind = "eof" <=> iter[u] = Frames[x.chunk]
         /\ FetchOver(u, x) <=> iter[u] = Frames[x.chunk]
<1>1. x \in Item /\ x = frameQ[u][1] /\ 1 \in 1..Len(frameQ[u])
  BY PathTypes, Popped
<1>2. x.kind \in {"frame", "eof"} /\ x.chunk \in Chunks
  BY <1>1, ItemParts
<1>3. Frames[x.chunk] < ChunkLength /\ Frames[x.chunk] \in Nat /\ iter[u] \in Nat
  BY <1>2, PathTypes DEF AllShort
<1>4. /\ x.chunk = ChunkOf(j[u])
      /\ x.kind = "eof" <=> iter[u] + 1 = Frames[x.chunk] + 1
      /\ iter[u] + 1 <= Frames[x.chunk] + 1
  BY <1>1 DEF RestOfChunk
<1>5. iter[u] <= Frames[x.chunk] /\ (x.kind = "eof" <=> iter[u] = Frames[x.chunk])
  BY <1>3, <1>4
<1> QED BY <1>1, <1>2, <1>3, <1>4, <1>5, StoreAssumption DEF FetchOver

(* A thread of the sink moves: only its own fetch is touched, and the end  *)
(* marker that ends a fetch is the last thing under way.                   *)
LEMMA LoneReceive ==
  ASSUME TypeOK, AllShort, NEW u \in Thread, OneUnderWay(u), RestOfChunk(u), ReceiveItem(u),
         UNCHANGED <<sourceVars, decoderVars>>
  PROVE  OneUnderWay(u)' /\ RestOfChunk(u)'
<1> USE DEF netVars, sourceVars, decoderVars, sinkVars
<1> DEFINE x == Head(frameQ[u])
<1>1. /\ pc[u] = "fetch" /\ frameQ[u] # <<>> /\ iter'[u] = iter[u] + 1
      /\ frameQ'[u] = Tail(frameQ[u])
      /\ pc'[u] = (IF FetchOver(u, x) THEN "use" ELSE "fetch")
      /\ UNCHANGED <<request, chunkQ, j, source, serving, decoding, next>>
  <2>1. \/ FetchOver(u, x) /\ pc' = [pc EXCEPT ![u] = "use"]
        \/ ~FetchOver(u, x) /\ pc' = pc
    BY DEF ReceiveItem, Goto
  <2>2. pc' [u] = (IF FetchOver(u, x) THEN "use" ELSE pc[u])
    BY <2>1 DEF TypeOK, SinkTypeOK
  <2> QED BY <2>2 DEF ReceiveItem, TypeOK, SinkTypeOK, NetTypeOK
<1>2. /\ x \in Item /\ x = frameQ[u][1] /\ Len(frameQ[u]) \in Nat \ {0}
      /\ Len(frameQ'[u]) = Len(frameQ[u]) - 1 /\ frameQ'[u] \in Seq(Item)
      /\ \A k \in 1..Len(frameQ'[u]) : frameQ'[u][k] = frameQ[u][k + 1]
  BY <1>1, PathTypes, Popped
<1>3. /\ x.chunk = ChunkOf(j[u]) /\ iter[u] <= Frames[x.chunk]
      /\ iter[u] \in Nat /\ Frames[x.chunk] \in Nat
      /\ x.kind = "eof" <=> iter[u] = Frames[x.chunk]
      /\ FetchOver(u, x) <=> iter[u] = Frames[x.chunk]
  BY <1>1, HeadItem
<1>4. FetchOver(u, x) <=> iter[u] = Frames[x.chunk]
  BY <1>3
<1> HIDE DEF x
<1>5. ~OnItsWay(u, request) /\ ~Served(u) /\ \A i \in 1..Len(chunkQ) : ~OnItsWay(u, chunkQ[i])
  BY <1>1 DEF OneUnderWay, Fresh
<1>5a. Len(frameQ[u]) \in Nat \ {0} /\ Len(frameQ'[u]) = Len(frameQ[u]) - 1
  BY <1>2
<1>6. ASSUME NEW k \in 1..Len(frameQ'[u])
      PROVE  /\ k + 1 \in 1..Len(frameQ[u]) /\ frameQ'[u][k] = frameQ[u][k + 1]
             /\ iter'[u] + k = iter[u] + (k + 1)
  <2>1. k + 1 \in 1..Len(frameQ[u]) /\ k \in Nat
    BY <1>5a
  <2>2. iter'[u] + k = iter[u] + (k + 1)
    BY <1>1, <1>3, <2>1
  <2> QED BY <1>2, <2>1, <2>2
<1>7. iter[u] = Frames[x.chunk] => frameQ'[u] = <<>>
  <2>1. ASSUME NEW n \in Nat \ {0}, n # 1 PROVE 2 \in 1..n
    BY <2>1
  <2>2. ASSUME 2 \in 1..Len(frameQ[u]) PROVE iter[u] # Frames[x.chunk]
    <3>1. frameQ[u][2].chunk = x.chunk /\ iter[u] + 2 <= Frames[frameQ[u][2].chunk] + 1
      BY <1>3, <2>2 DEF RestOfChunk
    <3> QED BY <1>3, <3>1
  <2>3. Len(frameQ[u]) = 1 => frameQ'[u] = <<>>
    BY <1>2
  <2> QED BY <1>5a, <2>1, <2>2, <2>3
<1>8. RestOfChunk(u)'
  <2>1. ASSUME NEW k \in 1..Len(frameQ'[u])
        PROVE  /\ frameQ'[u][k].chunk = ChunkOf(j'[u])
               /\ frameQ'[u][k].kind = "eof" <=> iter'[u] + k = Frames[frameQ'[u][k].chunk] + 1
               /\ iter'[u] + k <= Frames[frameQ'[u][k].chunk] + 1
    BY <1>1, <1>6 DEF RestOfChunk
  <2> QED BY <1>1, <1>4, <1>7, <2>1 DEF RestOfChunk
<1>9. Decoded(u) => /\ iter'[u] + Len(frameQ'[u]) = next /\ pc'[u] = "fetch"
                    /\ decoding.chunk = ChunkOf(j[u]) /\ next <= Frames[decoding.chunk]
  <2> SUFFICES ASSUME Decoded(u) PROVE iter'[u] + Len(frameQ'[u]) = next /\ pc'[u] = "fetch"
    BY DEF OneUnderWay
  <2>1. /\ iter[u] + Len(frameQ[u]) = next /\ next <= Frames[x.chunk] /\ next \in Int
    BY <1>3, PathTypes DEF OneUnderWay
  <2> QED BY <1>1, <1>2, <1>3, <1>4, <2>1
<1>10. Decoded(u)' <=> Decoded(u)
  BY <1>1 DEF Decoded, OnItsWay
<1> QED BY <1>1, <1>5, <1>8, <1>9, <1>10 DEF OneUnderWay, OnItsWay, Served

LEMMA LoneSink ==
  ASSUME TypeOK, AllShort, NEW t \in Thread, SinkStep(t),
         NEW u \in Thread, OneUnderWay(u), RestOfChunk(u)
  PROVE  OneUnderWay(u)' /\ RestOfChunk(u)'
<1> USE DEF netVars, sourceVars, decoderVars, sinkVars
<1>0. UNCHANGED <<request, chunkQ, source, serving, decoding, next>>
      /\ (Decoded(u)' <=> Decoded(u)) /\ (Served(u)' <=> Served(u))
  BY DEF SinkStep, SinkThread, TakeBlock, NoBlockLeft, SkipFrame, AskForChunk, UseBuffered,
     UseFrame, ReceiveItem, Decoded, Served, OnItsWay
<1>1. CASE ReceiveItem(t)
  <2>1. CASE u = t
    BY <1>1, <2>1, LoneReceive DEF SinkStep
  <2>2. CASE u # t
    <3>1. pc'[u] = pc[u] /\ j'[u] = j[u] /\ iter'[u] = iter[u] /\ frameQ'[u] = frameQ[u]
      BY <1>1, <2>2 DEF ReceiveItem, Goto, TypeOK, SinkTypeOK, NetTypeOK
    <3> QED BY <1>0, <3>1, LoneKept
  <2> QED BY <2>1, <2>2
<1>2. CASE ~ReceiveItem(t)
  <2>1. /\ UNCHANGED <<frameQ, iter>> /\ pc[t] # "fetch" /\ pc'[t] # "fetch"
        /\ u # t => pc'[u] = pc[u] /\ j'[u] = j[u]
    BY <1>2 DEF SinkStep, SinkThread, TakeBlock, NoBlockLeft, SkipFrame, AskForChunk, UseBuffered,
       UseFrame, Continue, Goto, TypeOK, SinkTypeOK
  <2>2. CASE u = t
    <3>1. /\ frameQ'[u] = <<>> /\ ~OnItsWay(u, request') /\ ~Served(u)' /\ ~Decoded(u)'
          /\ \A i \in 1..Len(chunkQ') : ~OnItsWay(u, chunkQ'[i])
      BY <1>0, <2>1, <2>2, NoneUnderWay
    <3> QED BY <2>1, <2>2, <3>1 DEF OneUnderWay, RestOfChunk, OnItsWay
  <2>3. CASE u # t
    BY <1>0, <2>1, <2>3, LoneKept
  <2> QED BY <2>2, <2>3
<1> QED BY <1>1, <1>2

(* The scheduler forwards a request of a thread with nothing under way. *)
LEMMA LoneForward ==
  ASSUME TypeOK, OwnerInv, NEW t \in Thread, SchedulerStep(t),
         NEW u \in Thread, OneUnderWay(u), RestOfChunk(u)
  PROVE  OneUnderWay(u)' /\ RestOfChunk(u)'
<1> USE DEF netVars, sourceVars, decoderVars, sinkVars
<1>1. /\ pc[t] = "wait" /\ request = NoRequest
      /\ request' = [tid |-> t, chunk |-> ChunkOf(j[t])]
      /\ iter' = [iter EXCEPT ![t] = 0] /\ pc' = [pc EXCEPT ![t] = "fetch"]
      /\ UNCHANGED <<chunkQ, frameQ, j, source, serving, decoding, next>>
  BY DEF SchedulerStep, Forward, Goto
<1>2. request' \in Request /\ request' # NoRequest
      /\ request'.tid = t /\ request'.chunk = ChunkOf(j[t])
  BY <1>1, OwnChunkOf, RequestMade, RequestParts
<1>3. (Decoded(u)' <=> Decoded(u)) /\ (Served(u)' <=> Served(u)) /\ (Queued(u)' <=> Queued(u))
  BY <1>1 DEF Decoded, Served, Queued, OnItsWay
<1>4. CASE u = t
  <2>1. /\ frameQ[u] = <<>> /\ ~Served(u) /\ ~Decoded(u)
        /\ \A i \in 1..Len(chunkQ) : ~OnItsWay(u, chunkQ[i])
    BY <1>1, <1>4, NoneUnderWay
  <2>2. Fresh(u)'
    BY <1>1, <1>4, <2>1 DEF Fresh, TypeOK, SinkTypeOK
  <2>3. RestOfChunk(u)'
    BY <1>1, <2>1 DEF RestOfChunk
  <2> QED BY <1>1, <1>2, <1>3, <1>4, <2>1, <2>2, <2>3 DEF OneUnderWay, OnItsWay, Queued
<1>5. CASE u # t
  <2>1. ~OnItsWay(u, request)' /\ pc'[u] = pc[u] /\ iter'[u] = iter[u]
    BY <1>1, <1>2, <1>5 DEF OnItsWay, TypeOK, SinkTypeOK
  <2> QED BY <1>1, <1>3, <2>1 DEF OneUnderWay, RestOfChunk, Fresh, OnItsWay
<1> QED BY <1>4, <1>5

LEMMA StepLone ==
  ASSUME AllShort, IInv, LoneInv, [Next]_vars
  PROVE  LoneInv'
<1> SUFFICES ASSUME NEW u \in Thread PROVE OneUnderWay(u)' /\ RestOfChunk(u)'
  BY DEF LoneInv
<1>1. OneUnderWay(u) /\ RestOfChunk(u) /\ TypeOK /\ FlowInv /\ OwnerInv
  BY DEF LoneInv, IInv
<1>2. CASE IoStep \/ UNCHANGED vars
  <2>1. UNCHANGED <<pc, j, iter, frameQ, request, source, serving, chunkQ, decoding, next>>
    BY <1>2 DEF IoStep, CloseTxn, vars, netVars, sourceVars, decoderVars, sinkVars
  <2>2. Decoded(u)' <=> Decoded(u)
    BY <2>1 DEF Decoded, OnItsWay
  <2> QED BY <1>1, <2>1, <2>2, LoneKept
<1> QED BY <1>1, <1>2, LoneSource, LoneDecoder, LoneSink, LoneForward DEF Next

(* On chunks with fewer than CHUNK_LENGTH frames, one request, one chunk   *)
(* or the frames of one chunk are all that is ever under way for a thread, *)
(* and they are of the chunk it is fetching.                               *)
THEOREM LoneFetch == ASSUME AllShort PROVE Spec => []LoneInv
<1>1. Init => LoneInv
  BY InitLone
<1>2. IInv /\ LoneInv /\ [Next]_vars => LoneInv'
  BY StepLone
<1> QED BY <1>1, <1>2, InductiveInvariant, PTL DEF Spec

(* Such a fetch takes all that it asked for: between two fetches nothing   *)
(* of the last one is left on its way.                                     *)
THEOREM NothingLeftOverThm == ASSUME AllShort PROVE Spec => []NothingLeftOver
<1>1. LoneInv => NothingLeftOver
  <2> SUFFICES ASSUME LoneInv, NEW t \in Thread, pc[t] \notin {"wait", "fetch"}
               PROVE  /\ frameQ[t] = <<>> /\ ~OnItsWay(t, request)
                      /\ source = "serve" => ~OnItsWay(t, serving)
                      /\ next # -1 => ~OnItsWay(t, decoding)
                      /\ \A i \in 1..Len(chunkQ) : ~OnItsWay(t, chunkQ[i])
    BY DEF NothingLeftOver
  <2>1. OneUnderWay(t) /\ RestOfChunk(t)
    BY DEF LoneInv
  <2> QED BY <2>1, NoneUnderWay DEF Served, Decoded
<1> QED BY <1>1, LoneFetch, PTL

(* The end marker that ends such a fetch is that of the chunk fetched, as  *)
(* vs-types.h says; the violation the runs show takes a full chunk.        *)
THEOREM EofOfCurrentChunkThm == ASSUME AllShort PROVE Spec => EofOfCurrentChunk
<1>1. IInv /\ LoneInv /\ [Next]_vars =>
        [\A t \in Thread : ReceiveItem(t) /\ Head(frameQ[t]).kind = "eof"
                              => Head(frameQ[t]).chunk = ChunkOf(j[t])]_vars
  <2> SUFFICES ASSUME IInv, LoneInv, NEW t \in Thread, ReceiveItem(t)
               PROVE  Head(frameQ[t]).chunk = ChunkOf(j[t])
    OBVIOUS
  <2>1. frameQ[t] # <<>> /\ TypeOK /\ RestOfChunk(t)
    BY DEF ReceiveItem, IInv, LoneInv
  <2>2. Head(frameQ[t]) = frameQ[t][1] /\ 1 \in 1..Len(frameQ[t])
    BY <2>1, PathTypes, Popped
  <2> QED BY <2>1, <2>2 DEF RestOfChunk
<1> QED BY <1>1, InductiveInvariant, LoneFetch, PTL DEF Spec, EofOfCurrentChunk

-----------------------------------------------------------------------------
(* The frame used is the right one. *)

(* The starts of the blocks are ordered as the blocks are. *)
LEMMA StartsOrdered ==
  ASSUME NEW c \in Chunks, NEW d \in Chunks
  PROVE  /\ StartOf(c) \in Nat
         /\ c < d => StartOf(c) + ChunkLength <= StartOf(d)
         /\ StartOf(c) < StartOf(d) => c < d
         /\ StartOf(c) = StartOf(d) => c = d
<1>1. c \in Nat /\ d \in Nat /\ ChunkLength \in Nat \ {0}
  BY StoreAssumption DEF Chunks
<1>2. ASSUME NEW m \in Nat, NEW n \in Nat, m < n
      PROVE  m * ChunkLength + ChunkLength <= n * ChunkLength
  <2>1. (m + 1) * ChunkLength <= n * ChunkLength
    BY <1>1, <1>2
  <2>2. (m + 1) * ChunkLength = m * ChunkLength + ChunkLength
    BY <1>1
  <2> QED BY <2>1, <2>2
<1>3. c * ChunkLength \in Nat /\ d * ChunkLength \in Nat
  BY <1>1
<1>4. (c < d => StartOf(c) + ChunkLength <= StartOf(d))
      /\ (d < c => StartOf(d) + ChunkLength <= StartOf(c))
      /\ StartOf(c) \in Nat /\ StartOf(d) \in Nat
  BY <1>1, <1>2, <1>3 DEF StartOf
<1> QED BY <1>1, <1>4

(* Where a thread is in its block. *)
LEMMA BlockFacts ==
  ASSUME TypeOK, OwnerInv, NEW t \in Thread, pc[t] \in {"look", "wait", "fetch", "use"}
  PROVE  /\ ChunkOf(j[t]) \in Chunks /\ owner[ChunkOf(j[t])] = t
         /\ j[t] \in Nat /\ Start(t) \in Nat /\ ChunkLength \in Nat \ {0}
         /\ Start(t) <= j[t] /\ j[t] < Start(t) + ChunkLength
<1>1. PICK c \in Chunks :
        owner[c] = t /\ c * ChunkLength <= j[t] /\ j[t] < c * ChunkLength + ChunkLength
  BY DEF OwnerInv
<1>2. j[t] \in Nat /\ c \in Nat /\ ChunkLength \in Nat \ {0}
  BY StoreAssumption DEF TypeOK, SinkTypeOK, Chunks
<1>3. ChunkOf(j[t]) = c
  BY <1>1, <1>2, ChunkOfFrame
<1>4. Start(t) \in Nat /\ Start(t) = c * ChunkLength
  BY <1>3, StartsOrdered DEF Start, StartOf
<1> QED BY <1>1, <1>2, <1>3, <1>4

LEMMA FirstStart ==
  ASSUME NEW c \in Chunks
  PROVE  ChunkOf(c * ChunkLength) = c /\ c * ChunkLength = StartOf(c) /\ StartOf(c) \in Nat
<1>1. c \in Nat /\ ChunkLength \in Nat \ {0}
  BY StoreAssumption DEF Chunks
<1>2. c * ChunkLength \in Nat
  BY <1>1
<1>3. c * ChunkLength < c * ChunkLength + ChunkLength
  BY <1>1, <1>2
<1> QED BY <1>1, <1>2, <1>3, ChunkOfFrame DEF StartOf

(* The next frame of a block is in the block. *)
LEMMA SameStart ==
  ASSUME TypeOK, OwnerInv, NEW t \in Thread, pc[t] \in {"look", "use"},
         (j[t] + 1) % ChunkLength # 0
  PROVE  ChunkOf(j[t] + 1) = ChunkOf(j[t])
<1> DEFINE c == ChunkOf(j[t])
<1>1. /\ c \in Chunks /\ j[t] \in Nat /\ ChunkLength \in Nat \ {0}
      /\ Start(t) <= j[t] /\ j[t] < Start(t) + ChunkLength
  BY BlockFacts
<1>2. c \in Nat /\ Start(t) = c * ChunkLength
  BY <1>1 DEF Chunks, Start, StartOf
<1> HIDE DEF c
<1>3. j[t] + 1 < c * ChunkLength + ChunkLength
  BY <1>1, <1>2, NextFrameInChunk
<1>4. c * ChunkLength \in Nat
  BY <1>1, <1>2
<1>5. c * ChunkLength <= j[t] + 1 /\ j[t] + 1 \in Nat
  BY <1>1, <1>2, <1>4
<1>6. ChunkOf(j[t] + 1) = c
  BY <1>1, <1>2, <1>3, <1>5, ChunkOfFrame
<1> QED BY <1>6 DEF c

LEMMA InitRight == Init => RightInv
<1> SUFFICES ASSUME Init PROVE RightInv
  OBVIOUS
<1> USE DEF Init, SinkInit
<1>1. DealtInv
  BY DEF DealtInv
<1>2. ASSUME NEW t \in Thread PROVE StatusOk(t) /\ BufferOk(t)
  BY <1>2 DEF StatusOk, BufferOk
<1> QED BY <1>1, <1>2 DEF RightInv

(* The blocks are dealt in order. *)
LEMMA StepDealt ==
  ASSUME TypeOK, DealtInv, [Next]_vars
  PROVE  DealtInv'
<1> USE DEF netVars, sourceVars, decoderVars, sinkVars
<1>1. owner' = owner \/ \E t \in Thread : TakeBlock(t)
  BY DEF Next, vars, SourceStep, IoStep, DecoderStep, SinkStep, SinkThread, NoBlockLeft, SkipFrame,
     AskForChunk, UseBuffered, UseFrame, ReceiveItem, SchedulerStep, Forward
<1>2. ASSUME NEW t \in Thread, TakeBlock(t) PROVE DealtInv'
  <2>1. PICK b \in Chunks : /\ owner' = [owner EXCEPT ![b] = t]
                            /\ \A d \in Chunks : d < b => owner[d] # NoThread
    BY <1>2 DEF TakeBlock
  <2>2. \A d \in Chunks : owner'[d] = IF d = b THEN t ELSE owner[d]
    BY <2>1 DEF TypeOK, SinkTypeOK
  <2>3. t # NoThread
    BY NoneAssumption
  <2> QED BY <2>1, <2>2, <2>3 DEF DealtInv
<1> QED BY <1>1, <1>2 DEF DealtInv

(* The block a thread is dealt comes after all those it has fetched for. *)
LEMMA NewBlockLater ==
  ASSUME TypeOK, DealtInv, NEW t \in Thread, StatusOk(t), NEW b \in Chunks, owner[b] = NoThread
  PROVE  status[t] < StartOf(b)
<1>0. StartOf(b) \in Nat /\ ChunkLength \in Nat \ {0}
  BY StartsOrdered, StoreAssumption
<1>1. CASE status[t] = -ChunkLength - 1
  BY <1>0, <1>1
<1>2. ASSUME NEW c \in Chunks, owner[c] = t, status[t] = StartOf(c) PROVE status[t] < StartOf(b)
  <2>1. owner[c] # NoThread /\ c # b
    BY <1>2, NoneAssumption
  <2>2. ~(b < c)
    BY <2>1 DEF DealtInv
  <2>3. c < b
    BY <2>1, <2>2 DEF Chunks
  <2>4. StartOf(c) + ChunkLength <= StartOf(b) /\ StartOf(c) \in Nat
    BY <2>3, StartsOrdered
  <2> QED BY <1>0, <1>2, <2>4
<1> QED BY <1>1, <1>2 DEF StatusOk

(* A thread whose block, frame and last fetch stay as they are. *)
LEMMA RightKept ==
  ASSUME TypeOK, [Next]_vars, NEW u \in Thread, StatusOk(u), BufferOk(u),
         pc'[u] = pc[u], j'[u] = j[u], status'[u] = status[u], buf'[u] = buf[u],
         iter'[u] = iter[u]
  PROVE  StatusOk(u)' /\ BufferOk(u)'
<1>1. \A c \in Chunks : owner[c] = u => owner'[c] = u
  BY OwnersStay, NoneAssumption
<1> QED BY <1>1 DEF StatusOk, BufferOk, Start

(* Outside a fetch the buffer is of the chunk fetched last. *)
LEMMA BufferKept ==
  ASSUME NEW u \in Thread, BufferOk(u), pc[u] # "fetch", status'[u] = status[u], buf'[u] = buf[u],
         pc'[u] # "fetch" \/ iter'[u] = 0
  PROVE  BufferOk(u)'
<1> SUFFICES ASSUME NEW i \in Slots, buf'[u][i] # NoMsg
             PROVE  /\ i < Frames[buf'[u][i].chunk]
                    /\ ~(pc'[u] = "fetch" /\ i < iter'[u])
                    /\ StartOf(buf'[u][i].chunk) = status'[u]
  BY DEF BufferOk
<1>1. i \in Nat
  BY DEF Slots
<1> QED BY <1>1 DEF BufferOk

(* What a fetch finds in its slots is all overwritten. *)
LEMMA BufferReceives ==
  ASSUME TypeOK, OwnerInv, AllShort, BarelyShorter,
         NEW u \in Thread, RestOfChunk(u), StatusOk(u), BufferOk(u), ReceiveItem(u)
  PROVE  BufferOk(u)'
<1> DEFINE x == Head(frameQ[u])
           c == ChunkOf(j[u])
<1>1. /\ pc[u] = "fetch" /\ frameQ[u] # <<>> /\ iter'[u] = iter[u] + 1 /\ j' = j
      /\ buf' = [buf EXCEPT ![u][iter[u]] = IF x.kind = "frame" THEN x ELSE NoMsg]
      /\ FetchOver(u, x) => pc'[u] = "use" /\ status'[u] = j[u]
      /\ ~FetchOver(u, x) => pc'[u] = "fetch" /\ status'[u] = status[u]
  BY DEF ReceiveItem, Store, Goto, TypeOK, SinkTypeOK
<1>2. /\ x \in Item /\ x.kind \in {"frame", "eof"} /\ x.chunk = c /\ c \in Chunks
      /\ iter[u] \in Nat /\ Frames[c] \in Nat /\ iter[u] <= Frames[c]
      /\ x.kind = "eof" <=> iter[u] = Frames[c]
      /\ FetchOver(u, x) <=> iter[u] = Frames[c]
  BY <1>1, HeadItem
<1>3. /\ buf \in [Thread -> [Slots -> Item \union {NoMsg}]] /\ NoMsg \notin Item
      /\ \A i \in Slots : i \in Nat
  BY NoneAssumption DEF TypeOK, SinkTypeOK, Slots
<1>4. /\ j[u] = StartOf(c) /\ status[u] < StartOf(c)
  BY <1>1 DEF StatusOk, Start
<1> HIDE DEF x, c
<1> SUFFICES ASSUME NEW i \in Slots, buf'[u][i] # NoMsg
             PROVE  /\ i < Frames[buf'[u][i].chunk]
                    /\ IF pc'[u] = "fetch" /\ i < iter'[u]
                         THEN buf'[u][i].chunk = c
                         ELSE StartOf(buf'[u][i].chunk) = status'[u]
  BY <1>1 DEF BufferOk, c
<1>5. CASE i = iter[u]
  <2>1. buf'[u][i] = IF x.kind = "frame" THEN x ELSE NoMsg
    BY <1>1, <1>3, <1>5
  <2>2. x.kind = "frame" /\ buf'[u][i] = x
    BY <2>1
  <2>3. ~FetchOver(u, x) /\ iter[u] < Frames[c]
    BY <1>2, <2>2
  <2> QED BY <1>1, <1>2, <1>5, <2>2, <2>3
<1>6. CASE i # iter[u]
  <2>1. buf'[u][i] = buf[u][i] /\ buf[u][i] \in Item /\ i \in Nat
    BY <1>1, <1>3, <1>6
  <2>2. /\ i < Frames[buf[u][i].chunk]
        /\ i < iter[u] => buf[u][i].chunk = c
        /\ ~(i < iter[u]) => StartOf(buf[u][i].chunk) = status[u]
    BY <1>1, <2>1 DEF BufferOk, c
  <2>3. CASE ~FetchOver(u, x)
    BY <1>1, <1>2, <1>6, <2>1, <2>2, <2>3
  <2>4. CASE FetchOver(u, x)
    <3>1. CASE i < iter[u]
      BY <1>1, <1>4, <2>1, <2>2, <2>4, <3>1
    <3>2. CASE ~(i < iter[u])
      <4> DEFINE d == buf[u][i].chunk
      <4>1. d \in Chunks /\ StartOf(d) < StartOf(c) /\ i < Frames[d]
        BY <1>4, <2>1, <2>2, <3>2, ItemParts
      <4> HIDE DEF d
      <4>2. d <= c
        <5>1. d < c
          BY <1>2, <4>1, StartsOrdered
        <5> QED BY <1>2, <4>1, <5>1 DEF Chunks
      <4>3. Frames[d] <= Frames[c] + 1 /\ Frames[d] \in Nat
        BY <1>2, <4>1, <4>2, PathTypes DEF BarelyShorter
      <4> QED BY <1>2, <1>6, <2>1, <2>4, <3>2, <4>1, <4>3
    <3> QED BY <3>1, <3>2
  <2> QED BY <2>3, <2>4
<1> QED BY <1>5, <1>6

(* The thread goes on to the next frame, past the first of its block. *)
LEMMA RightContinues ==
  ASSUME TypeOK, OwnerInv, [Next]_vars, NEW u \in Thread, StatusOk(u),
         pc[u] \in {"look", "use"}, Continue(u), status'[u] = status[u], status[u] = Start(u)
  PROVE  StatusOk(u)' /\ pc'[u] # "fetch"
<1>0. \A c \in Chunks : owner[c] = u => owner'[c] = u
  BY OwnersStay, NoneAssumption
<1>1. Start(u) <= j[u] /\ j[u] \in Nat /\ Start(u) \in Nat
  BY BlockFacts
<1>2. CASE pc' = [pc EXCEPT ![u] = "idle"]
  <2>1. pc'[u] = "idle"
    BY <1>2 DEF TypeOK, SinkTypeOK
  <2> QED BY <1>0, <2>1 DEF StatusOk
<1>3. CASE /\ pc' = [pc EXCEPT ![u] = "look"] /\ j' = [j EXCEPT ![u] = @ + 1]
           /\ (j[u] + 1) % ChunkLength # 0
  <2>1. pc'[u] = "look" /\ j'[u] = j[u] + 1
    BY <1>3 DEF TypeOK, SinkTypeOK
  <2>2. Start(u)' = Start(u)
    BY <1>3, <2>1, SameStart DEF Start
  <2>3. j'[u] > Start(u)' /\ status'[u] = Start(u)'
    BY <1>1, <2>1, <2>2
  <2> QED BY <1>0, <2>1, <2>3 DEF StatusOk
<1> QED BY <1>2, <1>3, ContinueMoves

LEMMA RightSink ==
  ASSUME IInv, LoneInv, RightInv, AllShort, StartsMove, BarelyShorter, [Next]_vars,
         NEW t \in Thread, SinkStep(t), NEW u \in Thread
  PROVE  StatusOk(u)' /\ BufferOk(u)'
<1> USE DEF netVars, sourceVars, decoderVars, sinkVars
<1>0. /\ TypeOK /\ OwnerInv /\ DealtInv /\ StatusOk(u) /\ BufferOk(u) /\ RestOfChunk(u)
      /\ \A c \in Chunks : owner[c] = u => owner'[c] = u
  BY OwnersStay, NoneAssumption DEF IInv, LoneInv, RightInv
<1>1. CASE u # t
  <2>1. /\ pc'[u] = pc[u] /\ j'[u] = j[u] /\ status'[u] = status[u] /\ iter'[u] = iter[u]
        /\ buf'[u] = buf[u]
    BY <1>0, <1>1 DEF SinkStep, SinkThread, TakeBlock, NoBlockLeft, SkipFrame, AskForChunk,
       UseBuffered, UseFrame, ReceiveItem, Store, Continue, Goto, TypeOK, SinkTypeOK
  <2> QED BY <1>0, <2>1, RightKept
<1>2. CASE u = t
  <2>1. CASE TakeBlock(u)
    <3>1. PICK b \in Chunks : owner[b] = NoThread /\ owner' = [owner EXCEPT ![b] = u]
                              /\ j' = [j EXCEPT ![u] = b * ChunkLength]
      BY <2>1 DEF TakeBlock
    <3>2. /\ pc[u] # "fetch" /\ pc'[u] = "look" /\ UNCHANGED <<status, buf>>
          /\ j'[u] = b * ChunkLength
      BY <1>0, <2>1, <3>1 DEF TakeBlock, Goto, TypeOK, SinkTypeOK
    <3>3. status'[u] < StartOf(b) /\ Start(u)' = StartOf(b) /\ j'[u] = Start(u)'
      BY <1>0, <3>1, <3>2, NewBlockLater, FirstStart DEF Start
    <3>4. StatusOk(u)'
      BY <1>0, <3>2, <3>3 DEF StatusOk
    <3> QED BY <1>0, <3>2, <3>4, BufferKept
  <2>2. CASE NoBlockLeft(u)
    <3>1. pc[u] # "fetch" /\ pc'[u] = "done" /\ UNCHANGED <<status, buf, owner>>
      BY <1>0, <2>2 DEF NoBlockLeft, Goto, TypeOK, SinkTypeOK
    <3> QED BY <1>0, <3>1, BufferKept DEF StatusOk
  <2>3. CASE SkipFrame(u)
    <3>1. pc[u] = "look" /\ Continue(u) /\ UNCHANGED <<status, buf>> /\ j[u] \notin Moving
      BY <2>3 DEF SkipFrame
    <3>2. ChunkOf(j[u]) \in Chunks
      BY <1>0, <3>1, BlockFacts
    <3>3. j[u] # Start(u)
      BY <3>1, <3>2 DEF StartsMove, Start
    <3>4. status[u] = Start(u)
      BY <1>0, <3>1, <3>3 DEF StatusOk
    <3>5. StatusOk(u)' /\ pc'[u] # "fetch"
      BY <1>0, <3>1, <3>4, RightContinues
    <3> QED BY <1>0, <3>1, <3>5, BufferKept
  <2>4. CASE UseFrame(u)
    <3>1. pc[u] = "use" /\ Continue(u) /\ UNCHANGED <<status, buf>>
      BY <2>4 DEF UseFrame
    <3>2. status[u] = Start(u)
      BY <1>0, <3>1 DEF StatusOk
    <3>3. StatusOk(u)' /\ pc'[u] # "fetch"
      BY <1>0, <3>1, <3>2, RightContinues
    <3> QED BY <1>0, <3>1, <3>3, BufferKept
  <2>5. ASSUME pc[u] = "look"
        PROVE  FetchDue(u) <=> j[u] = Start(u) /\ status[u] < Start(u)
    <3>1. /\ ChunkOf(j[u]) \in Chunks /\ j[u] \in Nat /\ Start(u) \in Nat
          /\ ChunkLength \in Nat \ {0} /\ Start(u) <= j[u] /\ j[u] < Start(u) + ChunkLength
      BY <1>0, <2>5, BlockFacts
    <3>2. CASE j[u] > Start(u) /\ status[u] = Start(u)
      BY <3>1, <3>2 DEF FetchDue
    <3>3. CASE j[u] = Start(u) /\ status[u] < Start(u)
      <4>1. status[u] + ChunkLength <= Start(u) /\ status[u] \in Int
        <5>1. CASE status[u] = -ChunkLength - 1
          BY <3>1, <5>1
        <5>2. ASSUME NEW c \in Chunks, status[u] = StartOf(c) PROVE status[u] + ChunkLength <= Start(u) /\ status[u] \in Int
          <6>1. StartOf(c) < StartOf(ChunkOf(j[u]))
            BY <3>3, <5>2 DEF Start
          <6> QED BY <3>1, <5>2, <6>1, StartsOrdered DEF Start
        <5> QED BY <1>0, <5>1, <5>2 DEF StatusOk
      <4> QED BY <3>1, <3>3, <4>1 DEF FetchDue
    <3> QED BY <1>0, <2>5, <3>2, <3>3 DEF StatusOk
  <2>6. CASE AskForChunk(u) \/ UseBuffered(u)
    <3>1. /\ pc[u] = "look" /\ UNCHANGED <<j, status, buf, iter, owner>>
          /\ pc'[u] = (IF FetchDue(u) THEN "wait" ELSE "use")
      BY <1>0, <2>6 DEF AskForChunk, UseBuffered, Goto, TypeOK, SinkTypeOK
    <3>2. Start(u)' = Start(u)
      BY <3>1 DEF Start
    <3>3. StatusOk(u)'
      BY <1>0, <2>5, <3>1, <3>2 DEF StatusOk
    <3> QED BY <1>0, <3>1, <3>3, BufferKept
  <2>7. CASE ReceiveItem(u)
    <3>1. /\ pc[u] = "fetch" /\ UNCHANGED <<j, owner>>
          /\ \/ pc'[u] = "use" /\ status'[u] = j[u]
             \/ pc'[u] = "fetch" /\ status'[u] = status[u]
      BY <1>0, <2>7 DEF ReceiveItem, Goto, TypeOK, SinkTypeOK
    <3>2. Start(u)' = Start(u) /\ j[u] = Start(u)
      BY <1>0, <3>1 DEF Start, StatusOk
    <3>3. ChunkOf(j[u]) \in Chunks /\ owner[ChunkOf(j[u])] = u /\ Start(u) = StartOf(ChunkOf(j[u]))
      BY <1>0, <3>1, BlockFacts DEF Start
    <3>4. StatusOk(u)'
      BY <1>0, <3>1, <3>2, <3>3 DEF StatusOk
    <3> QED BY <1>0, <2>7, <3>4, BufferReceives
  <2> QED BY <1>2, <2>1, <2>2, <2>3, <2>4, <2>6, <2>7 DEF SinkStep, SinkThread
<1> QED BY <1>1, <1>2

LEMMA StepRight ==
  ASSUME IInv, LoneInv, RightInv, AllShort, StartsMove, BarelyShorter, [Next]_vars
  PROVE  RightInv'
<1> USE DEF netVars, sourceVars, decoderVars, sinkVars
<1>0. TypeOK /\ DealtInv
  BY DEF IInv, RightInv
<1>1. ASSUME NEW u \in Thread PROVE StatusOk(u)' /\ BufferOk(u)'
  <2>0. StatusOk(u) /\ BufferOk(u)
    BY DEF RightInv
  <2>1. CASE SourceStep \/ IoStep \/ DecoderStep \/ UNCHANGED vars
    <3>1. UNCHANGED <<pc, j, status, buf, iter>>
      BY <2>1 DEF SourceStep, IoStep, DecoderStep, vars
    <3> QED BY <1>0, <2>0, <3>1, RightKept
  <2>2. ASSUME NEW t \in Thread, SchedulerStep(t) PROVE StatusOk(u)' /\ BufferOk(u)'
    <3>1. /\ pc[t] = "wait" /\ UNCHANGED <<j, status, buf, owner>>
          /\ pc' = [pc EXCEPT ![t] = "fetch"] /\ iter' = [iter EXCEPT ![t] = 0]
      BY <2>2 DEF SchedulerStep, Forward, Goto
    <3>2. CASE u = t
      <4>1. pc'[u] = "fetch" /\ iter'[u] = 0
        BY <1>0, <3>1, <3>2 DEF TypeOK, SinkTypeOK
      <4>2. StatusOk(u)'
        BY <2>0, <3>1, <3>2, <4>1 DEF StatusOk, Start
      <4> QED BY <2>0, <3>1, <3>2, <4>1, <4>2, BufferKept
    <3>3. CASE u # t
      <4>1. pc'[u] = pc[u] /\ iter'[u] = iter[u]
        BY <1>0, <3>1, <3>3 DEF TypeOK, SinkTypeOK
      <4> QED BY <1>0, <2>0, <3>1, <4>1, RightKept
    <3> QED BY <3>2, <3>3
  <2> QED BY <2>1, <2>2, RightSink DEF Next
<1> QED BY <1>0, <1>1, StepDealt DEF RightInv

(* The frame used is the frame wanted, in number and in chunk, for chunks  *)
(* that leave room for their end marker and are at most one frame shorter  *)
(* than an earlier one, when every block begins with motion.               *)
THEOREM RightChunkThm ==
  ASSUME AllShort, StartsMove, BarelyShorter
  PROVE  Spec => []RightChunk
<1>1. Init => RightInv
  BY InitRight
<1>2. IInv /\ LoneInv /\ RightInv /\ [Next]_vars => RightInv'
  BY StepRight
<1>3. IInv /\ RightInv => RightChunk
  <2> SUFFICES ASSUME IInv, RightInv, NEW t \in Thread, pc[t] = "use", Wanted(t) # NoMsg
               PROVE  Wanted(t).chunk = ChunkOf(j[t])
    BY DEF RightChunk
  <2>1. TypeOK /\ OwnerInv /\ StatusOk(t) /\ BufferOk(t)
    BY DEF IInv, RightInv
  <2>2. ChunkOf(j[t]) \in Chunks /\ j[t] \in Nat /\ ChunkLength \in Nat \ {0}
    BY <2>1, BlockFacts
  <2>3. j[t] % ChunkLength \in Slots
    BY <2>2 DEF Slots
  <2>4. StartOf(Wanted(t).chunk) = StartOf(ChunkOf(j[t]))
    BY <2>1, <2>3 DEF Wanted, BufferOk, StatusOk, Start
  <2>5. Wanted(t).chunk \in Chunks
    BY <2>1, <2>3, ItemParts DEF Wanted, TypeOK, SinkTypeOK
  <2> QED BY <2>2, <2>4, <2>5, StartsOrdered
<1> QED BY <1>1, <1>2, <1>3, InductiveInvariant, LoneFetch, PTL DEF Spec
=============================================================================

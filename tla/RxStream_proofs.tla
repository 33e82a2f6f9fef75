--------------------------- MODULE RxStream_proofs ---------------------------
(***************************************************************************)
(* Proofs about RxStream, for any number of chunks of any length, numbered *)
(* from 0 by the database's senders or from 1 by decoders.                 *)
(*                                                                         *)
(* The argument: the map holds exactly the frames that have arrived and    *)
(* the watermark has not passed (MapInv; for decoders, whose frames the    *)
(* watermark never passes, HeldInv), so every test of RxManager can be     *)
(* read off the numbers of items that have arrived.                        *)
(***************************************************************************)
EXTENDS RxStream, TLAPS

(* Initially the map is empty and nothing has arrived. First, streams      *)
(* numbered from 0.                                                        *)
LEMMA InitRaw == Init /\ sender = "raw" => RawInv
<1>1. SUFFICES ASSUME Init, sender = "raw" PROVE RawInv
  OBVIOUS
<1>2. TypeOK
  BY <1>1 DEF Init, RxInit, TypeOK, RxTypeOK, NoFrame
<1>3. MapInv
  <2>1. \A c \in ChunkSeqs : c >= 0 /\ c \in Int /\ Count[c] \in Nat \ {0}
    BY StreamAssumption, NumChunksAssumption DEF ChunkSeqs
  <2>2. QED
    BY <1>1, <2>1 DEF Init, RxInit, MapInv, Passed, FrameAt, FramesArrived
<1>4. WatermarkInv
  BY <1>1, StreamAssumption, NumChunksAssumption
     DEF Init, RxInit, WatermarkInv, Passed, FramesArrived, ChunkSeqs
<1>5. EofInv
  BY <1>1 DEF Init, RxInit, EofInv
<1>6. QED
  BY <1>1, <1>2, <1>3, <1>4, <1>5 DEF RawInv

-----------------------------------------------------------------------------
(* A frame arrives: it is new, and below the end marker of its chunk. *)
LEMMA ReceiveFrameStep ==
  ASSUME RawInv, NEW c \in ChunkSeqs, ReceiveFrame(c)
  PROVE  RawInv' /\ status' = "ok"
<1>1. /\ status = "ok" /\ MapInv /\ WatermarkInv /\ EofInv /\ TypeOK
      /\ arrived[c] < Count[c] /\ arrived[c] \in Nat /\ Count[c] \in Nat \ {0}
      /\ arrived' = [arrived EXCEPT ![c] = @ + 1]
      /\ UNCHANGED <<sender, phased, eofArrived, ub>>
      /\ sender = "raw" /\ FirstFrame = 0
  BY StreamAssumption DEF RawInv, ReceiveFrame, DepositAFrame, TypeOK, FirstFrame
<1>2. c \in 0..(NumChunks - 1) /\ NumChunks \in Nat /\ ~Passed(c)
  BY <1>1, NumChunksAssumption DEF ChunkSeqs, WatermarkInv
<1>3. /\ c \in present <=> arrived[c] > 0
      /\ frames[c] = FrameAt(c)..(arrived[c] - 1)
      /\ eofF[c] = -1
      /\ wmChunk \in Nat /\ wmFrame \in Nat
      /\ FrameAt(c) \in Nat /\ FrameAt(c) <= arrived[c]
  BY <1>1, <1>2 DEF MapInv, FramesArrived, FrameAt, WatermarkInv, TypeOK, RxTypeOK
<1>4. ~FrameRefused(c, arrived[c])
  BY <1>1, <1>2, <1>3 DEF FrameRefused, EofInv
<1>5. /\ present' = present \union {c}
      /\ frames' = [frames EXCEPT ![c] = @ \union {arrived[c]}]
      /\ UNCHANGED <<eofF, eofC, wmVars, status, ret, out>>
  BY <1>1, <1>4 DEF ReceiveFrame, DepositAFrame
<1>6. TypeOK'
  BY <1>1, <1>5 DEF TypeOK, RxTypeOK, wmVars
<1>7. MapInv'
  <2>1. SUFFICES ASSUME NEW d \in ChunkSeqs
        PROVE  /\ arrived'[d] <= Count[d] + 1
               /\ d \in present' <=> arrived'[d] > 0 /\ ~Passed(d)'
               /\ frames'[d] = IF Passed(d)' THEN {} ELSE FrameAt(d)'..(FramesArrived(d)' - 1)
               /\ eofF'[d] = IF arrived'[d] = Count[d] + 1 /\ ~Passed(d)' THEN Count[d] ELSE -1
    BY DEF MapInv
  <2>2. Passed(d)' = Passed(d) /\ FrameAt(d)' = FrameAt(d)
    BY <1>5 DEF Passed, FrameAt, wmVars
  <2>3. CASE d = c
    <3>1. arrived'[c] = arrived[c] + 1 /\ FramesArrived(c)' = arrived[c] + 1
      BY <1>1 DEF FramesArrived, TypeOK
    <3>2. frames'[c] = FrameAt(c)..((arrived[c] + 1) - 1)
      <4>1. frames'[c] = (FrameAt(c)..(arrived[c] - 1)) \union {arrived[c]}
        BY <1>1, <1>3, <1>5 DEF TypeOK, RxTypeOK
      <4>2. QED
        BY <4>1, <1>1, <1>3
    <3>3. c \in present' /\ eofF'[c] = -1
      BY <1>3, <1>5
    <3>4. QED
      BY <2>2, <2>3, <3>1, <3>2, <3>3, <1>1, <1>2
  <2>4. CASE d # c
    <3>1. /\ arrived'[d] = arrived[d] /\ frames'[d] = frames[d] /\ eofF'[d] = eofF[d]
          /\ d \in present' <=> d \in present
      BY <1>1, <1>5, <2>4 DEF TypeOK, RxTypeOK
    <3>2. FramesArrived(d)' = FramesArrived(d)
      BY <3>1 DEF FramesArrived
    <3>3. QED
      BY <2>2, <3>1, <3>2, <1>1 DEF MapInv
  <2>5. QED
    BY <2>3, <2>4
<1>8. WatermarkInv'
  <2>1. \A d \in ChunkSeqs : arrived[d] = Count[d] + 1 => arrived'[d] = Count[d] + 1
    BY <1>1 DEF TypeOK
  <2>2. \A d \in ChunkSeqs : wmFrame <= FramesArrived(d) => wmFrame <= FramesArrived(d)'
    BY <1>1, <1>3, StreamAssumption DEF FramesArrived, TypeOK
  <2>3. wmChunk < NumChunks => wmChunk \in ChunkSeqs
    BY <1>2, <1>3 DEF ChunkSeqs
  <2>4. QED
    BY <1>1, <1>5, <2>1, <2>2, <2>3 DEF WatermarkInv, wmVars, Passed
<1>9. EofInv'
  BY <1>1, <1>5 DEF EofInv, wmVars
<1>10. QED
  BY <1>1, <1>5, <1>6, <1>7, <1>8, <1>9 DEF RawInv

(* The end marker of a chunk arrives: all its frames have arrived. *)
LEMMA ReceiveFrameEofStep ==
  ASSUME RawInv, NEW c \in ChunkSeqs, ReceiveFrameEof(c)
  PROVE  RawInv' /\ (status' = "ok" \/ ub')
<1>1. /\ status = "ok" /\ MapInv /\ WatermarkInv /\ EofInv /\ TypeOK
      /\ arrived[c] = Count[c] /\ Count[c] \in Nat \ {0}
      /\ arrived' = [arrived EXCEPT ![c] = @ + 1]
      /\ UNCHANGED <<sender, phased, eofArrived>> /\ sender = "raw"
      /\ DepositFrameEof(c, Count[c])
  <2>1. FirstFrame + Count[c] = Count[c]
    BY StreamAssumption DEF RawInv, FirstFrame
  <2> QED
    BY <2>1, StreamAssumption DEF RawInv, ReceiveFrameEof, DepositFrameEof
<1>2. c \in 0..(NumChunks - 1) /\ NumChunks \in Nat /\ ~Passed(c)
  BY <1>1, NumChunksAssumption DEF ChunkSeqs, WatermarkInv
<1>3. /\ c \in present
      /\ frames[c] = FrameAt(c)..(Count[c] - 1)
      /\ eofF[c] = -1
      /\ wmChunk \in Nat /\ wmFrame \in Nat
  BY <1>1, <1>2 DEF MapInv, FramesArrived, TypeOK, RxTypeOK
<1>4. ~ \E g \in frames[c] : Count[c] <= g
  BY <1>1, <1>3 DEF FrameAt
<1>5. CASE AcceptFrameEof(c, Count[c])
  <2>1. /\ eofF' = [eofF EXCEPT ![c] = Count[c]]
        /\ UNCHANGED <<present, frames, eofC, wmVars, status, ret, out>>
    BY <1>5 DEF AcceptFrameEof
  <2>2. TypeOK'
    <3>1. ub' \in BOOLEAN
      BY <1>1, <1>3 DEF DepositFrameEof, TypeOK, RxTypeOK
    <3>2. QED
      BY <1>1, <2>1, <3>1 DEF TypeOK, RxTypeOK, wmVars
  <2>3. MapInv'
    <3>1. SUFFICES ASSUME NEW d \in ChunkSeqs
          PROVE  /\ arrived'[d] <= Count[d] + 1
                 /\ d \in present' <=> arrived'[d] > 0 /\ ~Passed(d)'
                 /\ frames'[d] = IF Passed(d)' THEN {} ELSE FrameAt(d)'..(FramesArrived(d)' - 1)
                 /\ eofF'[d] = IF arrived'[d] = Count[d] + 1 /\ ~Passed(d)' THEN Count[d] ELSE -1
      BY DEF MapInv
    <3>2. Passed(d)' = Passed(d) /\ FrameAt(d)' = FrameAt(d)
      BY <2>1 DEF Passed, FrameAt, wmVars
    <3>3. FramesArrived(d)' = FramesArrived(d)
      BY <1>1, StreamAssumption DEF FramesArrived, TypeOK
    <3>4. CASE d = c
      <4>1. arrived'[c] = Count[c] + 1 /\ eofF'[c] = Count[c] /\ FramesArrived(c) = Count[c]
        BY <1>1, <2>1 DEF FramesArrived, TypeOK, RxTypeOK
      <4>2. QED
        BY <1>1, <1>2, <1>3, <2>1, <3>2, <3>3, <3>4, <4>1
    <3>5. CASE d # c
      <4>1. arrived'[d] = arrived[d] /\ eofF'[d] = eofF[d]
        BY <1>1, <2>1, <3>5 DEF TypeOK, RxTypeOK
      <4>2. QED
        BY <1>1, <2>1, <3>2, <3>3, <4>1 DEF MapInv
    <3>6. QED
      BY <3>4, <3>5
  <2>4. WatermarkInv'
    <3>1. \A d \in ChunkSeqs : FramesArrived(d)' = FramesArrived(d)
      BY <1>1, StreamAssumption DEF FramesArrived, TypeOK
    <3>2. \A d \in ChunkSeqs : arrived[d] = Count[d] + 1 => arrived'[d] = Count[d] + 1
      BY <1>1 DEF TypeOK
    <3>3. wmChunk < NumChunks => wmChunk \in ChunkSeqs
      BY <1>2, <1>3 DEF ChunkSeqs
    <3>4. QED
      BY <1>1, <2>1, <3>1, <3>2, <3>3 DEF WatermarkInv, wmVars, Passed
  <2>5. EofInv'
    BY <1>1, <2>1 DEF EofInv, wmVars
  <2>6. QED
    BY <1>1, <2>1, <2>2, <2>3, <2>4, <2>5 DEF RawInv
<1>6. CASE BugOn /\ ub' = TRUE
  BY <1>1, <1>6 DEF RawInv, BugOn, TypeOK, RxTypeOK, mapVars, wmVars
<1>7. ~(c \notin present \/ eofF[c] >= 0)
  BY <1>3
<1>8. AcceptFrameEof(c, Count[c]) \/ (BugOn /\ ub' = TRUE)
  BY <1>1, <1>4, <1>7, Zenon DEF DepositFrameEof
<1>9. QED
  BY <1>5, <1>6, <1>8

(* The chunk end marker arrives: its number is above every chunk's. *)
LEMMA ReceiveChunkEofStep ==
  ASSUME RawInv, ReceiveChunkEof
  PROVE  RawInv' /\ status' = "ok"
<1>1. /\ status = "ok" /\ MapInv /\ WatermarkInv /\ EofInv /\ TypeOK
      /\ ~eofArrived /\ eofArrived' = TRUE /\ sender = "raw"
      /\ UNCHANGED <<sender, arrived, ub, phased>>
  BY DEF RawInv, ReceiveChunkEof, DepositChunkEof
<1>2. eofC = -1 /\ NumChunks \in Nat /\ ~ \E d \in present : NumChunks <= d
  BY <1>1, NumChunksAssumption DEF EofInv, TypeOK, RxTypeOK, ChunkSeqs
<1>3. eofC' = NumChunks /\ UNCHANGED <<present, frames, eofF, wmVars, status, ret, out>>
  BY <1>1, <1>2 DEF ReceiveChunkEof, DepositChunkEof
<1>4. TypeOK'
  BY <1>1, <1>2, <1>3 DEF TypeOK, RxTypeOK, wmVars
<1>5. MapInv' /\ WatermarkInv'
  BY <1>1, <1>3 DEF MapInv, WatermarkInv, Passed, FrameAt, FramesArrived, wmVars
<1>6. EofInv'
  BY <1>1, <1>3 DEF EofInv, wmVars
<1>7. QED
  BY <1>1, <1>3, <1>4, <1>5, <1>6 DEF RawInv

-----------------------------------------------------------------------------
(* Where RetrieveAFrame comes to rest: at the chunk of the watermark, or at *)
(* the next one when the watermark's chunk is drained.                      *)
LEMMA DrainedMeans ==
  ASSUME RawInv, status = "ok", NEW d \in Nat, d >= wmChunk, Drained(d)
  PROVE  /\ d \in ChunkSeqs /\ d = wmChunk
         /\ wmFrame = Count[d] /\ arrived[d] = Count[d] + 1
<1>1. MapInv /\ TypeOK
  BY DEF RawInv
<1>2. d \in ChunkSeqs /\ Count[d] \in Nat \ {0} /\ wmFrame \in Nat /\ wmChunk \in Nat
  BY <1>1, StreamAssumption DEF Drained, TypeOK, RxTypeOK
<1>3. /\ eofF[d] = FrameAt(d) /\ FrameAt(d) >= 0
      /\ eofF[d] = IF arrived[d] = Count[d] + 1 /\ ~Passed(d) THEN Count[d] ELSE -1
  BY <1>1, <1>2 DEF Drained, FrameAt, MapInv
<1>4. arrived[d] = Count[d] + 1 /\ FrameAt(d) = Count[d]
  BY <1>2, <1>3
<1>5. QED
  BY <1>2, <1>4 DEF FrameAt

LEMMA RestsAt ==
  ASSUME RawInv, status = "ok", NEW c \in wmChunk..(NumChunks + 1),
         \A d \in wmChunk..(c - 1) : Drained(d)
  PROVE  /\ c \in Nat /\ wmChunk <= c /\ c <= NumChunks /\ c <= wmChunk + 1
         /\ FrameAt(c) \in Nat
         /\ c > wmChunk => /\ FrameAt(c) = 0 /\ wmChunk \in ChunkSeqs
                           /\ wmFrame = Count[wmChunk]
                           /\ arrived[wmChunk] = Count[wmChunk] + 1
         /\ c < NumChunks => c \in ChunkSeqs /\ FrameAt(c) <= FramesArrived(c)
<1>1. /\ wmChunk \in Nat /\ wmFrame \in Nat /\ NumChunks \in Nat
      /\ WatermarkInv /\ c \in Nat /\ wmChunk <= c
  BY NumChunksAssumption DEF RawInv, TypeOK, RxTypeOK
<1>2. \A d \in wmChunk..(c - 1) : d = wmChunk /\ d \in ChunkSeqs
                                  /\ wmFrame = Count[d] /\ arrived[d] = Count[d] + 1
  BY <1>1, DrainedMeans
<1>3. c <= wmChunk + 1
  <2>1. SUFFICES ASSUME c > wmChunk + 1 PROVE FALSE
    BY <1>1
  <2>2. wmChunk + 1 \in wmChunk..(c - 1)
    BY <1>1, <2>1
  <2>3. QED
    BY <1>1, <1>2, <2>2
<1>4. c > wmChunk => wmChunk \in wmChunk..(c - 1)
  BY <1>1
<1>5. c > wmChunk => /\ FrameAt(c) = 0 /\ wmChunk \in ChunkSeqs
                     /\ wmFrame = Count[wmChunk]
                     /\ arrived[wmChunk] = Count[wmChunk] + 1
  BY <1>1, <1>2, <1>4 DEF FrameAt
<1>6. c <= NumChunks
  BY <1>1, <1>3, <1>5 DEF WatermarkInv, ChunkSeqs
<1>7. ASSUME c < NumChunks PROVE c \in ChunkSeqs /\ FrameAt(c) <= FramesArrived(c)
  <2>1. c \in ChunkSeqs
    BY <1>1, <1>7 DEF ChunkSeqs
  <2>2. FramesArrived(c) \in Nat
    BY <2>1, StreamAssumption DEF FramesArrived, RawInv, TypeOK
  <2>3. QED
    BY <1>1, <1>7, <2>1, <2>2 DEF FrameAt, WatermarkInv
<1>8. FrameAt(c) \in Nat
  BY <1>1 DEF FrameAt
<1>9. QED
  BY <1>1, <1>3, <1>5, <1>6, <1>7, <1>8

(* What is left when the watermark comes to rest at <<c, w>> after the     *)
(* chunks before c are erased and, of c, the frames taken are removed.     *)
LEMMA RetrieveKeepsMap ==
  ASSUME RawInv, status = "ok", NEW c \in wmChunk..(NumChunks + 1),
         \A d \in wmChunk..(c - 1) : Drained(d),
         NEW taken, NEW w \in Nat,
         \/ w = FrameAt(c) /\ taken = {}
         \/ w = FrameAt(c) + 1 /\ taken = {FrameAt(c)} /\ c \in ChunkSeqs
            /\ FrameAt(c) \in frames[c],
         EraseBefore(c), frames' = FramesLeft(c, taken), MoveWatermark(c, w),
         UNCHANGED <<sender, phased, arrived, eofArrived>>
  PROVE  MapInv' /\ WatermarkInv'
<1>1. /\ MapInv /\ WatermarkInv /\ TypeOK
      /\ wmChunk \in Nat /\ wmFrame \in Nat /\ NumChunks \in Nat
  BY NumChunksAssumption DEF RawInv, TypeOK, RxTypeOK
<1>2. /\ c \in Nat /\ wmChunk <= c /\ c <= NumChunks /\ c <= wmChunk + 1
      /\ FrameAt(c) \in Nat
      /\ c > wmChunk => arrived[wmChunk] = Count[wmChunk] + 1
      /\ c < NumChunks => c \in ChunkSeqs /\ FrameAt(c) <= FramesArrived(c)
  BY RestsAt
<1>3. wmChunk' = c /\ wmFrame' = w
  BY DEF MoveWatermark
<1>4. \A d \in ChunkSeqs : /\ d \in Nat /\ Count[d] \in Nat \ {0} /\ arrived[d] \in Nat
                           /\ FramesArrived(d) \in Nat /\ FramesArrived(d)' = FramesArrived(d)
                           /\ FramesArrived(d) <= Count[d]
  BY <1>1, StreamAssumption DEF ChunkSeqs, FramesArrived, TypeOK
<1>5. MapInv'
  <2>1. SUFFICES ASSUME NEW d \in ChunkSeqs
        PROVE  /\ arrived'[d] <= Count[d] + 1
               /\ d \in present' <=> arrived'[d] > 0 /\ ~Passed(d)'
               /\ frames'[d] = IF Passed(d)' THEN {} ELSE FrameAt(d)'..(FramesArrived(d)' - 1)
               /\ eofF'[d] = IF arrived'[d] = Count[d] + 1 /\ ~Passed(d)' THEN Count[d] ELSE -1
    BY DEF MapInv
  <2>2. /\ arrived[d] <= Count[d] + 1
        /\ d \in present <=> arrived[d] > 0 /\ ~Passed(d)
        /\ frames[d] = IF Passed(d) THEN {} ELSE FrameAt(d)..(FramesArrived(d) - 1)
        /\ eofF[d] = IF arrived[d] = Count[d] + 1 /\ ~Passed(d) THEN Count[d] ELSE -1
        /\ d \in Nat
    BY <1>1, <1>4 DEF MapInv
  <2>3. /\ Passed(d)' <=> d < c
        /\ Passed(d) <=> d < wmChunk
        /\ d \in wmChunk..(c - 1) <=> Passed(d)' /\ ~Passed(d)
    BY <1>1, <1>2, <1>3, <2>2 DEF Passed
  <2>4. /\ d \in present' <=> d \in present /\ d \notin wmChunk..(c - 1)
        /\ eofF'[d] = IF d \in wmChunk..(c - 1) THEN -1 ELSE eofF[d]
        /\ frames'[d] = IF d \in wmChunk..(c - 1) THEN {}
                        ELSE IF d = c THEN frames[d] \ taken ELSE frames[d]
    BY DEF EraseBefore, FramesLeft
  <2> DEFINE pd == Passed(d)
             pdn == Passed(d)'
  <2>a. arrived'[d] = arrived[d] /\ (pd => pdn)
    BY <1>1, <1>2, <1>4, <2>3
  <2>5. arrived'[d] <= Count[d] + 1 /\ (d \in present' <=> arrived'[d] > 0 /\ ~pdn)
    <3>1. arrived'[d] <= Count[d] + 1
      BY <2>2, <2>a
    <3>2. d \in present' <=> (arrived[d] > 0 /\ ~pd) /\ ~(pdn /\ ~pd)
      BY <2>2, <2>3, <2>4, Zenon
    <3>3. QED
      BY <2>a, <3>1, <3>2, Zenon
  <2>6. eofF'[d] = IF arrived'[d] = Count[d] + 1 /\ ~pdn THEN Count[d] ELSE -1
    <3>1. CASE pd
      BY <2>2, <2>3, <2>4, <2>a, <3>1, Zenon
    <3>2. CASE ~pd /\ pdn
      BY <2>2, <2>3, <2>4, <2>a, <3>2, Zenon
    <3>3. CASE ~pd /\ ~pdn
      BY <2>2, <2>3, <2>4, <2>a, <3>3, Zenon
    <3>4. QED
      BY <3>1, <3>2, <3>3
  <2>7. frames'[d] = IF Passed(d)' THEN {} ELSE FrameAt(d)'..(FramesArrived(d)' - 1)
    <3>1. CASE d < c
      BY <1>2, <2>2, <2>3, <2>4, <3>1
    <3>2. CASE d > c
      <4>1. FrameAt(d)' = 0 /\ FrameAt(d) = 0 /\ ~Passed(d) /\ ~Passed(d)'
        BY <1>1, <1>2, <1>3, <2>2, <2>3, <3>2 DEF FrameAt
      <4>2. QED
        BY <1>2, <1>4, <2>2, <2>3, <2>4, <3>2, <4>1
    <3>3. CASE d = c
      <4>1. FrameAt(d)' = w /\ ~Passed(d) /\ ~Passed(d)' /\ d \notin wmChunk..(c - 1)
        BY <1>1, <1>2, <1>3, <2>2, <2>3, <3>3 DEF FrameAt
      <4>2. frames'[d] = (FrameAt(d)..(FramesArrived(d) - 1)) \ taken
        BY <2>2, <2>4, <3>3, <4>1
      <4>3. (FrameAt(d)..(FramesArrived(d) - 1)) \ taken = w..(FramesArrived(d) - 1)
        BY <1>2, <1>4, <3>3
      <4>4. QED
        BY <1>4, <4>1, <4>2, <4>3
    <3>4. QED
      BY <1>2, <2>2, <3>1, <3>2, <3>3
  <2>8. QED
    BY <2>5, <2>6, <2>7
<1>6. WatermarkInv'
  <2>1. c = NumChunks => w = 0
    <3>1. NumChunks \notin ChunkSeqs
      BY <1>1 DEF ChunkSeqs
    <3>2. c = NumChunks => FrameAt(c) = 0
      BY <1>1, <1>2 DEF WatermarkInv, FrameAt
    <3>3. QED
      BY <3>1, <3>2
  <2>2. c < NumChunks => w <= FramesArrived(c)
    <3>1. ASSUME c < NumChunks, FrameAt(c) \in frames[c] PROVE FrameAt(c) < FramesArrived(c)
      <4>1. FrameAt(c) \in FrameAt(c)..(FramesArrived(c) - 1)
        BY <1>1, <1>2, <3>1 DEF MapInv
      <4>2. QED
        BY <1>2, <1>4, <3>1, <4>1
    <3>2. QED
      BY <1>2, <1>4, <3>1
  <2>3. \A d \in ChunkSeqs : d < c => arrived[d] = Count[d] + 1
    <3>1. SUFFICES ASSUME NEW d \in ChunkSeqs, d < c PROVE arrived[d] = Count[d] + 1
      OBVIOUS
    <3>2. d < wmChunk \/ (d = wmChunk /\ c > wmChunk)
      BY <1>1, <1>2, <1>4, <3>1
    <3>3. QED
      BY <1>1, <1>2, <3>2 DEF WatermarkInv, Passed
  <2>4. c < NumChunks => FramesArrived(c)' = FramesArrived(c)
    BY <1>2, <1>4
  <2>5. FramesArrived(wmChunk)' = FramesArrived(c)'
    BY <1>3 DEF FramesArrived
  <2>6. QED
    BY <1>2, <1>3, <2>1, <2>2, <2>3, <2>4, <2>5 DEF WatermarkInv, Passed, FramesArrived
<1>7. QED
  BY <1>5, <1>6

(* RetrieveAFrame, whatever it returns, and none of its assertions fails. *)
LEMMA RetrieveStep ==
  ASSUME RawInv, Retrieve
  PROVE  /\ RawInv' /\ status' = "ok"
         /\ \E c \in wmChunk..(NumChunks + 1) :
              /\ \A d \in wmChunk..(c - 1) : Drained(d)
              /\ ~Drained(c)
              /\ \/ ReturnFrame(c) /\ c \in ChunkSeqs /\ FrameAt(c) \in frames[c]
                 \/ ReturnNothing(c, "again")
                 \/ ReturnNothing(c, "eof") /\ c = NumChunks /\ eofArrived
<1>1. /\ status = "ok" /\ ub' = ub /\ UNCHANGED <<sender, phased, arrived, eofArrived>>
      /\ MapInv /\ WatermarkInv /\ EofInv /\ TypeOK /\ sender = "raw"
      /\ wmChunk \in Nat /\ wmFrame \in Nat /\ NumChunks \in Nat
  BY NumChunksAssumption DEF Retrieve, RetrieveAFrame, RawInv, TypeOK, RxTypeOK
<1>2. PICK c \in wmChunk..(NumChunks + 1) :
             /\ \A d \in wmChunk..(c - 1) : Drained(d)
             /\ ~Drained(c)
             /\ RetrieveAt(c)
  BY DEF Retrieve, RetrieveAFrame
<1>3. /\ c \in Nat /\ wmChunk <= c /\ c <= NumChunks /\ FrameAt(c) \in Nat
      /\ c < NumChunks => c \in ChunkSeqs /\ FrameAt(c) <= FramesArrived(c)
  BY <1>1, <1>2, RestsAt
<1>4. c = NumChunks => FrameAt(c) = 0
  BY <1>1, <1>3 DEF WatermarkInv, FrameAt
<1>5. c \notin present => FrameAt(c) = 0
  <2>1. CASE c = NumChunks
    BY <1>4, <2>1
  <2>2. CASE c < NumChunks
    <3>1. c \in ChunkSeqs /\ ~Passed(c) /\ FrameAt(c) <= FramesArrived(c)
      BY <1>1, <1>3, <2>2 DEF Passed
    <3>2. c \notin present => FramesArrived(c) = 0
      BY <1>1, <3>1, StreamAssumption DEF MapInv, FramesArrived, TypeOK
    <3>3. QED
      BY <1>3, <3>1, <3>2
  <2>3. QED
    BY <1>1, <1>3, <2>1, <2>2
<1>6. present \subseteq ChunkSeqs /\ NumChunks \notin ChunkSeqs
  BY <1>1 DEF TypeOK, RxTypeOK, ChunkSeqs
<1>7. c = eofC => c = NumChunks /\ eofArrived
  BY <1>1, <1>3 DEF EofInv
<1>8. \/ ReturnFrame(c) /\ c \in ChunkSeqs /\ FrameAt(c) \in frames[c]
      \/ ReturnNothing(c, "again")
      \/ ReturnNothing(c, "eof") /\ c = NumChunks /\ eofArrived
  BY <1>2, <1>4, <1>5, <1>6, <1>7, Zenon DEF RetrieveAt
<1>9. CASE ReturnFrame(c) /\ c \in ChunkSeqs /\ FrameAt(c) \in frames[c]
  <2>1. /\ EraseBefore(c) /\ frames' = FramesLeft(c, {FrameAt(c)})
        /\ MoveWatermark(c, FrameAt(c) + 1) /\ FrameAt(c) + 1 \in Nat
        /\ ret' = "ok" /\ out' = <<c, FrameAt(c)>> /\ UNCHANGED <<eofC, status>>
    BY <1>3, <1>9 DEF ReturnFrame
  <2>2. MapInv' /\ WatermarkInv'
    BY <1>1, <1>2, <1>9, <2>1, RetrieveKeepsMap
  <2>3. TypeOK'
    BY <1>1, <1>3, <2>1 DEF TypeOK, RxTypeOK, EraseBefore, FramesLeft, MoveWatermark
  <2>4. EofInv'
    BY <1>1, <2>1 DEF EofInv
  <2>5. QED
    BY <1>1, <1>2, <1>9, <2>1, <2>2, <2>3, <2>4 DEF RawInv
<1>10. ASSUME NEW code \in {"again", "eof"}, ReturnNothing(c, code),
              code = "eof" => c = NumChunks /\ eofArrived
       PROVE  RawInv' /\ status' = "ok"
  <2>1. /\ EraseBefore(c) /\ frames' = FramesLeft(c, {})
        /\ MoveWatermark(c, FrameAt(c))
        /\ ret' = code /\ UNCHANGED <<eofC, status, out>>
    BY <1>10 DEF ReturnNothing
  <2>2. MapInv' /\ WatermarkInv'
    BY <1>1, <1>2, <1>3, <2>1, RetrieveKeepsMap
  <2>3. TypeOK'
    BY <1>1, <1>3, <1>10, <2>1 DEF TypeOK, RxTypeOK, EraseBefore, FramesLeft, MoveWatermark
  <2>4. EofInv'
    BY <1>1, <1>10, <2>1 DEF EofInv, MoveWatermark
  <2>5. QED
    BY <1>1, <2>1, <2>2, <2>3, <2>4 DEF RawInv
<1>11. RawInv' /\ status' = "ok"
  BY <1>8, <1>9, <1>10
<1>12. QED
  BY <1>2, <1>8, <1>11

(* Every step keeps the invariant of streams numbered from 0, and only the *)
(* read of an empty map stops the process.                                 *)
LEMMA StepRaw ==
  ASSUME RawInv, NoSpuriousAbort, [Next]_vars
  PROVE  RawInv' /\ NoSpuriousAbort'
<1>1. CASE ReceiveChunkEof
  BY <1>1, ReceiveChunkEofStep DEF NoSpuriousAbort
<1>2. ASSUME NEW c \in ChunkSeqs, ReceiveFrame(c) PROVE RawInv' /\ NoSpuriousAbort'
  BY <1>2, ReceiveFrameStep DEF NoSpuriousAbort
<1>3. ASSUME NEW c \in ChunkSeqs, ReceiveFrameEof(c) PROVE RawInv' /\ NoSpuriousAbort'
  BY <1>3, ReceiveFrameEofStep DEF NoSpuriousAbort
<1>4. CASE Retrieve
  BY <1>4, RetrieveStep DEF NoSpuriousAbort
<1>5. CASE UNCHANGED vars
  <2>1. /\ UNCHANGED rxVars /\ UNCHANGED <<sender, phased, arrived, eofArrived>>
    BY <1>5 DEF vars
  <2>2. TypeOK' /\ (MapInv => MapInv') /\ (WatermarkInv => WatermarkInv') /\ (EofInv => EofInv')
    BY <2>1 DEF rxVars, RawInv, TypeOK, RxTypeOK, MapInv, WatermarkInv, EofInv, Passed,
                FrameAt, FramesArrived
  <2>3. QED
    BY <2>1, <2>2 DEF rxVars, RawInv, NoSpuriousAbort
<1>6. QED
  BY <1>1, <1>2, <1>3, <1>4, <1>5 DEF Next, Receive, Stopped

(* Streams numbered from 1. *)
LEMMA InitDecoder == Init /\ sender = "decoder" => DecoderInv
<1>1. SUFFICES ASSUME Init, sender = "decoder" PROVE DecoderInv
  OBVIOUS
<1>2. TypeOK
  BY <1>1 DEF Init, RxInit, TypeOK, RxTypeOK, NoFrame
<1>3. HeldInv
  <2>1. \A c \in ChunkSeqs : Count[c] \in Nat \ {0}
    BY StreamAssumption
  <2> QED
    BY <1>1, <2>1 DEF Init, RxInit, HeldInv, FramesArrived
<1> QED
  BY <1>1, <1>2, <1>3 DEF DecoderInv, Init, RxInit, EofInv, NothingRevealed

LEMMA DecodedFrameStep ==
  ASSUME DecoderInv, NEW c \in ChunkSeqs, ReceiveFrame(c)
  PROVE  DecoderInv'
<1>1. /\ HeldInv /\ EofInv /\ TypeOK /\ sender = "decoder" /\ status = "ok"
      /\ arrived[c] < Count[c] /\ arrived[c] \in Nat /\ Count[c] \in Nat \ {0}
      /\ arrived' = [arrived EXCEPT ![c] = @ + 1]
      /\ UNCHANGED <<sender, phased, eofArrived, ub>>
      /\ FirstFrame + arrived[c] = arrived[c] + 1
  <2>1. arrived[c] \in Nat /\ Count[c] \in Nat \ {0} /\ FirstFrame = 1
    BY StreamAssumption DEF DecoderInv, TypeOK, FirstFrame
  <2>2. FirstFrame + arrived[c] = arrived[c] + 1
    BY <2>1
  <2> QED
    BY <2>1, <2>2 DEF DecoderInv, ReceiveFrame, DepositAFrame
<1>2. c \in 0..(NumChunks - 1) /\ NumChunks \in Nat
  BY NumChunksAssumption DEF ChunkSeqs
<1>3. /\ c \in present <=> arrived[c] > 0
      /\ frames[c] = 1..arrived[c]
      /\ eofF[c] = -1
  BY <1>1 DEF HeldInv, FramesArrived
<1>4. ~FrameRefused(c, arrived[c] + 1)
  BY <1>1, <1>2, <1>3 DEF FrameRefused, EofInv
<1>5. /\ present' = present \union {c}
      /\ frames' = [frames EXCEPT ![c] = @ \union {arrived[c] + 1}]
      /\ UNCHANGED <<eofF, eofC, wmVars, status, ret, out>>
  BY <1>1, <1>4 DEF ReceiveFrame, DepositAFrame
<1>6. TypeOK'
  BY <1>1, <1>5 DEF TypeOK, RxTypeOK, wmVars
<1>7. HeldInv'
  <2> SUFFICES ASSUME NEW d \in ChunkSeqs
               PROVE  /\ arrived'[d] <= Count[d] + 1
                      /\ d \in present' <=> arrived'[d] > 0
                      /\ frames'[d] = 1..FramesArrived(d)'
                      /\ eofF'[d] = IF arrived'[d] = Count[d] + 1 THEN Count[d] + 1 ELSE -1
    BY DEF HeldInv
  <2>1. CASE d = c
    <3>1. arrived'[c] = arrived[c] + 1 /\ FramesArrived(c)' = arrived[c] + 1
      BY <1>1 DEF FramesArrived, TypeOK
    <3>2. frames'[c] = (1..arrived[c]) \union {arrived[c] + 1}
      BY <1>3, <1>5 DEF TypeOK, RxTypeOK, DecoderInv
    <3>3. (1..arrived[c]) \union {arrived[c] + 1} = 1..(arrived[c] + 1)
      BY <1>1
    <3>4. frames'[c] = 1..FramesArrived(c)'
      BY <3>1, <3>2, <3>3
    <3>5. c \in present' /\ eofF'[c] = -1
      BY <1>3, <1>5
    <3>6. arrived[c] + 1 <= Count[c] + 1 /\ arrived[c] + 1 > 0 /\ arrived[c] + 1 # Count[c] + 1
      BY <1>1
    <3> QED
      BY <2>1, <3>1, <3>4, <3>5, <3>6
  <2>2. CASE d # c
    <3>1. /\ arrived'[d] = arrived[d] /\ frames'[d] = frames[d] /\ eofF'[d] = eofF[d]
          /\ d \in present' <=> d \in present
      BY <1>1, <1>5, <2>2 DEF TypeOK, RxTypeOK
    <3>2. FramesArrived(d)' = FramesArrived(d)
      BY <3>1 DEF FramesArrived
    <3> QED
      BY <1>1, <3>1, <3>2 DEF HeldInv
  <2> QED
    BY <2>1, <2>2
<1> QED
  BY <1>1, <1>5, <1>6, <1>7 DEF DecoderInv, EofInv, NothingRevealed, wmVars

LEMMA DecodedEofStep ==
  ASSUME DecoderInv, NEW c \in ChunkSeqs, ReceiveFrameEof(c)
  PROVE  DecoderInv'
<1>1. /\ HeldInv /\ EofInv /\ TypeOK /\ sender = "decoder" /\ status = "ok"
      /\ arrived[c] = Count[c] /\ Count[c] \in Nat \ {0}
      /\ arrived' = [arrived EXCEPT ![c] = @ + 1]
      /\ UNCHANGED <<sender, phased, eofArrived>>
      /\ DepositFrameEof(c, Count[c] + 1)
  <2>1. FirstFrame + Count[c] = Count[c] + 1
    BY StreamAssumption DEF DecoderInv, FirstFrame
  <2> QED
    BY <2>1, StreamAssumption DEF DecoderInv, ReceiveFrameEof, DepositFrameEof
<1>2. c \in present /\ frames[c] = 1..Count[c] /\ eofF[c] = -1
  BY <1>1 DEF HeldInv, FramesArrived
<1>3. frames[c] # {} /\ ~ \E g \in frames[c] : Count[c] + 1 <= g
  BY <1>1, <1>2
<1>4. AcceptFrameEof(c, Count[c] + 1) /\ ub' = ub
  BY <1>1, <1>2, <1>3 DEF DepositFrameEof
<1>5. /\ eofF' = [eofF EXCEPT ![c] = Count[c] + 1]
      /\ UNCHANGED <<present, frames, eofC, wmVars, status, ret, out>>
  BY <1>4 DEF AcceptFrameEof
<1>6. TypeOK'
  BY <1>1, <1>4, <1>5 DEF TypeOK, RxTypeOK, wmVars
<1>7. HeldInv'
  <2> SUFFICES ASSUME NEW d \in ChunkSeqs
               PROVE  /\ arrived'[d] <= Count[d] + 1
                      /\ d \in present' <=> arrived'[d] > 0
                      /\ frames'[d] = 1..FramesArrived(d)'
                      /\ eofF'[d] = IF arrived'[d] = Count[d] + 1 THEN Count[d] + 1 ELSE -1
    BY DEF HeldInv
  <2>1. FramesArrived(d)' = FramesArrived(d)
    BY <1>1, StreamAssumption DEF FramesArrived, TypeOK
  <2>2. CASE d = c
    <3>1. arrived'[c] = Count[c] + 1 /\ eofF'[c] = Count[c] + 1
      BY <1>1, <1>5 DEF TypeOK, RxTypeOK
    <3> QED
      BY <1>1, <1>2, <1>5, <2>1, <2>2, <3>1 DEF HeldInv
  <2>3. CASE d # c
    <3>1. arrived'[d] = arrived[d] /\ eofF'[d] = eofF[d]
      BY <1>1, <1>5, <2>3 DEF TypeOK, RxTypeOK
    <3> QED
      BY <1>1, <1>5, <2>1, <3>1 DEF HeldInv
  <2> QED
    BY <2>2, <2>3
<1> QED
  BY <1>1, <1>4, <1>5, <1>6, <1>7 DEF DecoderInv, EofInv, NothingRevealed, wmVars

LEMMA DecodedChunkEofStep ==
  ASSUME DecoderInv, ReceiveChunkEof
  PROVE  DecoderInv'
<1>1. /\ ~eofArrived /\ eofArrived' = TRUE
      /\ UNCHANGED <<sender, arrived, ub, phased>>
  BY DEF ReceiveChunkEof, DepositChunkEof
<1>2. eofC = -1 /\ NumChunks \in Nat /\ ~ \E d \in present : NumChunks <= d
  BY <1>1, NumChunksAssumption DEF DecoderInv, EofInv, TypeOK, RxTypeOK, ChunkSeqs
<1>3. eofC' = NumChunks /\ UNCHANGED <<present, frames, eofF, wmVars, status, ret, out>>
  BY <1>2 DEF ReceiveChunkEof, DepositChunkEof
<1>4. TypeOK'
  BY <1>1, <1>2, <1>3 DEF DecoderInv, TypeOK, RxTypeOK, wmVars
<1>5. HeldInv'
  BY <1>1, <1>3 DEF DecoderInv, HeldInv, FramesArrived
<1> QED
  BY <1>1, <1>2, <1>3, <1>4, <1>5 DEF DecoderInv, EofInv, NothingRevealed, wmVars

(* The watermark stands at frame 0 of chunk 0, which never comes. *)
LEMMA DecodedRetrieveStep ==
  ASSUME DecoderInv, Retrieve
  PROVE  /\ DecoderInv' /\ UNCHANGED <<wmChunk, wmFrame, out>>
         /\ ret' = "again" \/ (ret' = "eof" /\ NumChunks = 0)
<1>1. /\ HeldInv /\ EofInv /\ TypeOK /\ NumChunks \in Nat /\ status = "ok"
      /\ wmChunk = 0 /\ wmFrame = 0
      /\ UNCHANGED <<sender, phased, arrived, eofArrived, ub>>
  BY NumChunksAssumption DEF DecoderInv, Retrieve, RetrieveAFrame
<1>2. PICK c \in wmChunk..(NumChunks + 1) :
             /\ \A d \in wmChunk..(c - 1) : Drained(d)
             /\ ~Drained(c)
             /\ RetrieveAt(c)
  BY DEF Retrieve, RetrieveAFrame
<1>3. \A d \in Nat : FrameAt(d) = 0
  BY <1>1 DEF FrameAt
<1>4. \A d \in ChunkSeqs : 0 \notin frames[d] /\ eofF[d] # 0 /\ d \in Nat
  <2> SUFFICES ASSUME NEW d \in ChunkSeqs PROVE 0 \notin frames[d] /\ eofF[d] # 0 /\ d \in Nat
    OBVIOUS
  <2>1. Count[d] \in Nat \ {0} /\ arrived[d] \in Nat /\ FramesArrived(d) \in Nat /\ d \in Nat
    BY <1>1, StreamAssumption DEF FramesArrived, ChunkSeqs, TypeOK
  <2>2. frames[d] = 1..FramesArrived(d) /\ eofF[d] \in {Count[d] + 1, -1}
    BY <1>1 DEF HeldInv
  <2>3. 0 \notin 1..FramesArrived(d) /\ Count[d] + 1 # 0
    BY <2>1
  <2> QED
    BY <2>1, <2>2, <2>3
<1>5. ~Drained(0)
  BY <1>1, <1>3, <1>4 DEF Drained, TypeOK, RxTypeOK
<1>6. c = 0
  <2> SUFFICES ASSUME c # 0 PROVE FALSE
    OBVIOUS
  <2>1. 0 \in wmChunk..(c - 1)
    BY <1>1, <1>2
  <2> QED
    BY <1>2, <1>5, <2>1
<1>7. 0 = eofC => NumChunks = 0 /\ eofArrived
  BY <1>1 DEF EofInv
<1>8. 0 \in present => 0 \in ChunkSeqs
  BY <1>1 DEF TypeOK, RxTypeOK
<1>9. FrameAt(0) = 0
  BY <1>3
<1>10. \/ ReturnNothing(0, "again")
       \/ ReturnNothing(0, "eof") /\ NumChunks = 0 /\ eofArrived
  BY <1>2, <1>4, <1>6, <1>7, <1>8, <1>9, Zenon DEF RetrieveAt
<1>11. ASSUME NEW code \in {"again", "eof"}, ReturnNothing(0, code),
              code = "eof" => NumChunks = 0 /\ eofArrived
       PROVE  /\ DecoderInv' /\ UNCHANGED <<wmChunk, wmFrame, out>> /\ ret' = code
  <2>1. 0..(0 - 1) = {}
    OBVIOUS
  <2>2. /\ present' = present /\ wmChunk' = 0 /\ wmFrame' = 0 /\ ret' = code
        /\ UNCHANGED <<eofC, status, out>>
        /\ eofF' = [d \in ChunkSeqs |-> eofF[d]]
        /\ frames' = [d \in ChunkSeqs |-> IF d = 0 THEN frames[d] \ {} ELSE frames[d]]
    BY <1>1, <1>9, <1>11, <2>1 DEF ReturnNothing, EraseBefore, FramesLeft, MoveWatermark
  <2>3. eofF' = eofF /\ frames' = frames
    BY <1>1, <2>2 DEF TypeOK, RxTypeOK
  <2>4. TypeOK'
    BY <1>1, <1>11, <2>2, <2>3 DEF TypeOK, RxTypeOK
  <2>5. HeldInv'
    BY <1>1, <2>2, <2>3 DEF HeldInv, FramesArrived
  <2> QED
    BY <1>1, <1>11, <2>2, <2>4, <2>5 DEF DecoderInv, EofInv, NothingRevealed
<1> QED
  BY <1>10, <1>11

LEMMA DecodedStutter == ASSUME DecoderInv, UNCHANGED vars PROVE DecoderInv'
<1>1. UNCHANGED rxVars /\ UNCHANGED <<sender, phased, arrived, eofArrived>>
  BY DEF vars
<1> QED
  BY <1>1 DEF rxVars, DecoderInv, TypeOK, RxTypeOK, HeldInv, EofInv, NothingRevealed, FramesArrived

LEMMA StepDecoder == ASSUME DecoderInv, [Next]_vars PROVE DecoderInv'
BY DecodedFrameStep, DecodedEofStep, DecodedChunkEofStep, DecodedRetrieveStep, DecodedStutter
   DEF Next, Receive, Stopped

-----------------------------------------------------------------------------
(* IInv and the absence of an assertion failure are inductive together. *)
LEMMA BothInvariant == Spec => [](IInv /\ NoSpuriousAbort)
<1>1. Init => IInv /\ NoSpuriousAbort
  BY InitRaw, InitDecoder DEF Init, RxInit, NoSpuriousAbort, IInv
<1>2. (IInv /\ NoSpuriousAbort) /\ [Next]_vars => (IInv /\ NoSpuriousAbort)'
  <2>1. DecoderInv => NoSpuriousAbort
    BY DEF DecoderInv, NoSpuriousAbort
  <2>2. DecoderInv' => NoSpuriousAbort'
    BY DEF DecoderInv, NoSpuriousAbort
  <2> QED
    BY <2>1, <2>2, StepRaw, StepDecoder DEF IInv
<1>3. QED
  BY <1>1, <1>2, PTL DEF Spec

(* The map holds exactly what has arrived and the watermark has not        *)
(* passed, and the watermark is inside the stream; if the stream is        *)
(* numbered from 1, at its beginning.                                      *)
THEOREM InductiveInvariant == Spec => []IInv
BY BothInvariant, PTL

(* None of the assertions of RxManager fires, from wherever the sender     *)
(* numbers its frames.                                                     *)
THEOREM NoSpuriousAbortThm == Spec => []NoSpuriousAbort
BY BothInvariant, PTL

(* Every chunk in the map is one the watermark has not passed. *)
THEOREM NoStaleChunkThm == Spec => []NoStaleChunk
<1>1. IInv => NoStaleChunk
  BY NumChunksAssumption DEF IInv, RawInv, DecoderInv, TypeOK, RxTypeOK, MapInv, NoStaleChunk, Passed, ChunkSeqs
<1>2. QED
  BY InductiveInvariant, <1>1, PTL

-----------------------------------------------------------------------------
(* A stream numbered from 1 is never revealed: whatever arrives, and       *)
(* however often the consumer asks, it is given no frame, and no end       *)
(* unless there are no chunks at all.                                      *)
THEOREM DecodedNeverRevealedThm == Spec => []DecodedNeverRevealed
<1>1. IInv => DecodedNeverRevealed
  BY DEF IInv, RawInv, DecoderInv, DecodedNeverRevealed
<1> QED
  BY <1>1, InductiveInvariant, PTL

-----------------------------------------------------------------------------
(* A consumer that waits leaves the watermark at the start of the stream,  *)
(* so that no chunk is drained before its end marker arrives.              *)
LEMMA StepPhased ==
  ASSUME RawInv, PhasedInv, [Next]_vars
  PROVE  PhasedInv'
<1> SUFFICES ASSUME phased' PROVE ~ub' /\ (~AllArrived' => wmChunk' = 0 /\ wmFrame' = 0)
  BY DEF PhasedInv, PhasedDefined, FutureEofDefined
<1>1. \A c \in ChunkSeqs : Count[c] \in Nat \ {0} /\ c >= 0
  BY StreamAssumption DEF ChunkSeqs
<1>2. CASE ReceiveChunkEof
  <2>1. ~AllArrived /\ phased /\ ub' = ub /\ UNCHANGED wmVars
    BY <1>2 DEF ReceiveChunkEof, DepositChunkEof, BugOn, AllArrived
  <2> QED
    BY <2>1 DEF PhasedInv, PhasedDefined, FutureEofDefined, wmVars
<1>3. ASSUME NEW c \in ChunkSeqs, ReceiveFrame(c)
      PROVE  ~ub' /\ (~AllArrived' => wmChunk' = 0 /\ wmFrame' = 0)
  <2>1. arrived[c] # Count[c] + 1
    BY <1>1, <1>3 DEF ReceiveFrame, RawInv, TypeOK
  <2>2. ~AllArrived /\ phased /\ ub' = ub /\ UNCHANGED wmVars
    BY <1>3, <2>1 DEF ReceiveFrame, DepositAFrame, BugOn, AllArrived
  <2> QED
    BY <2>2 DEF PhasedInv, PhasedDefined, FutureEofDefined, wmVars
<1>4. ASSUME NEW c \in ChunkSeqs, ReceiveFrameEof(c)
      PROVE  ~ub' /\ (~AllArrived' => wmChunk' = 0 /\ wmFrame' = 0)
  <2>1. arrived[c] = Count[c] /\ status = "ok" /\ DepositFrameEof(c, Count[c])
        /\ phased' = phased
    <3>1. FirstFrame + Count[c] = Count[c]
      BY <1>1 DEF RawInv, FirstFrame
    <3> QED
      BY <1>4, <3>1 DEF ReceiveFrameEof, DepositFrameEof
  <2>2. ~AllArrived /\ wmChunk = 0 /\ wmFrame = 0 /\ ~ub
    BY <1>1, <2>1 DEF AllArrived, PhasedInv, PhasedDefined, FutureEofDefined
  <2>3. MapInv
    BY <2>1 DEF RawInv
  <2>4. frames[c] = 0..(Count[c] - 1)
    <3>1. ~Passed(c) /\ FrameAt(c) = 0
      BY <1>1, <2>2 DEF Passed, FrameAt, ChunkSeqs
    <3>2. FramesArrived(c) = Count[c]
      BY <2>1 DEF FramesArrived
    <3> QED
      BY <2>3, <3>1, <3>2 DEF MapInv
  <2>5. frames[c] # {}
    BY <1>1, <2>4
  <2>6. ub' = ub /\ UNCHANGED wmVars
    BY <2>1, <2>5 DEF DepositFrameEof, BugOn, AcceptFrameEof
  <2> QED
    BY <2>2, <2>6 DEF wmVars
<1>5. CASE Retrieve
  <2>1. AllArrived /\ ub' = ub /\ UNCHANGED <<arrived, eofArrived, phased>>
    BY <1>5 DEF Retrieve, RetrieveAFrame
  <2>2. AllArrived'
    BY <2>1 DEF AllArrived
  <2> QED
    BY <2>1, <2>2 DEF PhasedInv, PhasedDefined, FutureEofDefined
<1>6. CASE UNCHANGED vars
  BY <1>6 DEF vars, rxVars, PhasedInv, PhasedDefined, FutureEofDefined, AllArrived
<1> QED
  BY <1>2, <1>3, <1>4, <1>5, <1>6 DEF Next, Receive, Stopped

(* The read of an empty map never happens to a consumer that waits until   *)
(* everything has arrived.                                                 *)
THEOREM PhasedDefinedThm == Spec => []PhasedDefined
<1>1. Init => PhasedInv
  BY DEF Init, RxInit, PhasedInv, PhasedDefined, FutureEofDefined
<1>2. IInv /\ PhasedInv /\ [Next]_vars => PhasedInv'
  <2>1. DecoderInv' => PhasedInv'
    BY DEF DecoderInv, PhasedInv, PhasedDefined, FutureEofDefined
  <2> QED
    BY <2>1, StepPhased, StepDecoder DEF IInv
<1>3. PhasedInv => PhasedDefined
  BY DEF PhasedInv
<1> QED
  BY <1>1, <1>2, <1>3, InductiveInvariant, PTL DEF Spec

-----------------------------------------------------------------------------
(* What the watermark comes to rest at: were it there, RetrieveAt would    *)
(* return it, or the chunk would be drained.                               *)
LEMMA AgainStep ==
  ASSUME RawInv, Retrieve, ret' = "again"
  PROVE  ~NeededHasArrived
<1>1. /\ status = "ok" /\ MapInv /\ WatermarkInv /\ EofInv
      /\ wmChunk \in Nat /\ wmFrame \in Nat /\ NumChunks \in Nat
  BY NumChunksAssumption DEF Retrieve, RetrieveAFrame, RawInv, TypeOK, RxTypeOK
<1>2. PICK c \in wmChunk..(NumChunks + 1) :
             /\ \A d \in wmChunk..(c - 1) : Drained(d)
             /\ ~Drained(c)
             /\ RetrieveAt(c)
  BY DEF Retrieve, RetrieveAFrame
<1>3. /\ c \in Nat /\ wmChunk <= c /\ c <= NumChunks /\ FrameAt(c) \in Nat
      /\ c < NumChunks => c \in ChunkSeqs /\ FrameAt(c) <= FramesArrived(c)
  BY <1>1, <1>2, RestsAt
<1>4. status' = "ok"
  BY RetrieveStep
<1>5. ReturnNothing(c, "again") /\ c # eofC /\ (c \notin present \/ FrameAt(c) \notin frames[c])
  BY <1>2, <1>4 DEF RetrieveAt, BugOn, ReturnNothing, ReturnFrame
<1>6. wmChunk' = c /\ wmFrame' = FrameAt(c)
  BY <1>5 DEF ReturnNothing, MoveWatermark
<1>7. ASSUME c \in ChunkSeqs
      PROVE  /\ ~(FrameAt(c) < Count[c] /\ arrived[c] > FrameAt(c))
             /\ ~(FrameAt(c) = Count[c] /\ arrived[c] > Count[c])
  <2>1. /\ arrived[c] \in Nat /\ Count[c] \in Nat \ {0} /\ arrived[c] <= Count[c] + 1
        /\ c \in present <=> arrived[c] > 0
        /\ frames[c] = FrameAt(c)..(FramesArrived(c) - 1)
        /\ eofF[c] = IF arrived[c] = Count[c] + 1 THEN Count[c] ELSE -1
    BY <1>1, <1>3, <1>7, StreamAssumption DEF MapInv, Passed, RawInv, TypeOK
  <2>2. CASE FrameAt(c) < Count[c] /\ arrived[c] > FrameAt(c)
    <3>1. FramesArrived(c) \in Nat /\ FrameAt(c) < FramesArrived(c) /\ arrived[c] > 0
      BY <1>3, <2>1, <2>2 DEF FramesArrived
    <3>2. FrameAt(c) \in frames[c] /\ c \in present
      BY <1>3, <2>1, <3>1
    <3> QED
      BY <1>5, <3>2
  <2>3. CASE FrameAt(c) = Count[c] /\ arrived[c] > Count[c]
    <3>1. arrived[c] = Count[c] + 1 /\ arrived[c] > 0
      BY <2>1, <2>3
    <3>2. c \in present /\ eofF[c] = FrameAt(c)
      BY <2>1, <2>3, <3>1
    <3> QED
      BY <1>2, <1>5, <3>2 DEF Drained
  <2> QED
    BY <2>2, <2>3
<1>8. ~(c = NumChunks /\ eofArrived)
  BY <1>1, <1>5 DEF EofInv
<1> QED
  BY <1>6, <1>7, <1>8 DEF NeededHasArrived

(* VS_ERR_AGAIN is returned only when what comes next has not arrived, if  *)
(* the frames are numbered from 0.                                         *)
THEOREM AgainMeansMissingThm == Spec => AgainMeansMissing
<1>1. IInv /\ [Next]_vars => [Retrieve /\ sender = "raw" /\ ret' = "again" => ~NeededHasArrived]_vars
  BY AgainStep DEF IInv, DecoderInv
<1> QED
  BY <1>1, InductiveInvariant, PTL DEF Spec, AgainMeansMissing

-----------------------------------------------------------------------------
(* What arrives does not change what the consumer sees. *)
LEMMA ReceiveHidden ==
  ASSUME Receive
  PROVE  UNCHANGED <<NextFrame, out, ret>>
<1>1. UNCHANGED <<wmVars, out, ret>>
  BY DEF Receive, ReceiveChunkEof, ReceiveFrame, ReceiveFrameEof, DepositAFrame,
         DepositChunkEof, DepositFrameEof, AcceptFrameEof, BugOn
<1>2. QED
  BY <1>1 DEF wmVars, NextFrame

(* Where the next frame is, before and after the watermark moves. *)
LEMMA NextFrameAt ==
  ASSUME RawInv, status = "ok", NEW c \in wmChunk..(NumChunks + 1),
         \A d \in wmChunk..(c - 1) : Drained(d),
         ~Drained(c), c < NumChunks => FrameAt(c) < Count[c]
  PROVE  NextFrame = <<c, FrameAt(c)>>
<1>1. /\ wmChunk \in Nat /\ wmFrame \in Nat /\ NumChunks \in Nat
      /\ c \in Nat /\ wmChunk <= c /\ c <= NumChunks /\ c <= wmChunk + 1
      /\ c > wmChunk => FrameAt(c) = 0 /\ wmFrame = Count[wmChunk]
  BY RestsAt, NumChunksAssumption DEF RawInv, TypeOK, RxTypeOK
<1>2. CASE c = wmChunk
  BY <1>1, <1>2, StreamAssumption DEF NextFrame, FrameAt, ChunkSeqs
<1>3. CASE c = wmChunk + 1
  BY <1>1, <1>3 DEF NextFrame
<1>4. QED
  BY <1>1, <1>2, <1>3

(* A retrieved frame is the next one of the stream; anything else          *)
(* RetrieveAFrame returns leaves the stream as it was or ends it.          *)
LEMMA RetrieveRefines ==
  ASSUME RawInv, Retrieve
  PROVE  Stream!StreamNext \/ UNCHANGED Stream!streamVars
<1>1. PICK c \in wmChunk..(NumChunks + 1) :
             /\ \A d \in wmChunk..(c - 1) : Drained(d)
             /\ ~Drained(c)
             /\ \/ ReturnFrame(c) /\ c \in ChunkSeqs /\ FrameAt(c) \in frames[c]
                \/ ReturnNothing(c, "again")
                \/ ReturnNothing(c, "eof") /\ c = NumChunks /\ eofArrived
  BY RetrieveStep
<1>2. /\ status = "ok" /\ ret # "eof" /\ MapInv /\ WatermarkInv
      /\ wmChunk \in Nat /\ wmFrame \in Nat /\ NumChunks \in Nat
      /\ UNCHANGED <<sender, phased, arrived, eofArrived>>
  BY NumChunksAssumption DEF Retrieve, RetrieveAFrame, RawInv, TypeOK, RxTypeOK
<1>3. /\ c \in Nat /\ wmChunk <= c /\ c <= NumChunks /\ FrameAt(c) \in Nat
      /\ c > wmChunk => FrameAt(c) = 0 /\ wmFrame = Count[wmChunk] /\ c = wmChunk + 1
      /\ c > wmChunk => wmChunk \in ChunkSeqs
      /\ c < NumChunks => c \in ChunkSeqs
  BY <1>1, <1>2, RestsAt
<1>4. \A d \in ChunkSeqs : Count[d] \in Nat \ {0} /\ d \in Nat /\ d < NumChunks
  BY <1>2, StreamAssumption DEF ChunkSeqs
<1>5. CASE ReturnFrame(c) /\ c \in ChunkSeqs /\ FrameAt(c) \in frames[c]
  <2>1. /\ wmChunk' = c /\ wmFrame' = FrameAt(c) + 1
        /\ ret' = "ok" /\ out' = <<c, FrameAt(c)>>
    BY <1>5 DEF ReturnFrame, MoveWatermark
  <2>2. FrameAt(c) < Count[c]
    <3>1. FrameAt(c) \in FrameAt(c)..(FramesArrived(c) - 1)
      BY <1>2, <1>3, <1>5 DEF MapInv
    <3>2. FramesArrived(c) \in Nat /\ FramesArrived(c) <= Count[c]
      BY <1>4, <1>5 DEF FramesArrived, RawInv, TypeOK
    <3>3. QED
      BY <1>3, <1>4, <1>5, <3>1, <3>2
  <2>3. NextFrame = <<c, FrameAt(c)>>
    BY <1>1, <1>2, <2>2, NextFrameAt
  <2>4. NextFrame' = IF FrameAt(c) + 1 < Count[c] THEN <<c, FrameAt(c) + 1>> ELSE <<c + 1, 0>>
    BY <1>3, <1>4, <1>5, <2>1, <2>2 DEF NextFrame
  <2>5. QED
    BY <1>2, <1>4, <1>5, <2>1, <2>3, <2>4
       DEF Stream!StreamNext, Stream!Reveal, Stream!Successor
<1>6. ASSUME NEW code, ReturnNothing(c, code)
      PROVE  UNCHANGED <<NextFrame, out>> /\ ret' = code
             /\ (c = NumChunks => NextFrame = <<NumChunks, 0>>)
  <2>1. wmChunk' = c /\ wmFrame' = FrameAt(c) /\ ret' = code /\ out' = out
    BY <1>6 DEF ReturnNothing, MoveWatermark
  <2>2. CASE c = wmChunk
    <3>1. NextFrame' = NextFrame
      BY <2>1, <2>2 DEF NextFrame, FrameAt
    <3>2. c = NumChunks => NextFrame = <<NumChunks, 0>>
      BY <1>2, <2>2 DEF NextFrame, WatermarkInv
    <3>3. QED
      BY <2>1, <3>1, <3>2
  <2>3. CASE c > wmChunk
    <3>1. NextFrame = <<c, 0>>
      BY <1>2, <1>3, <1>4, <2>3 DEF NextFrame
    <3>2. NextFrame' = <<c, 0>>
      BY <1>3, <1>4, <2>1, <2>3 DEF NextFrame
    <3>3. QED
      BY <2>1, <3>1, <3>2
  <2>4. QED
    BY <1>2, <1>3, <2>2, <2>3
<1>7. CASE ReturnNothing(c, "again")
  BY <1>2, <1>6, <1>7 DEF Stream!streamVars
<1>8. CASE ReturnNothing(c, "eof") /\ c = NumChunks /\ eofArrived
  BY <1>2, <1>6, <1>8 DEF Stream!StreamNext, Stream!End
<1>9. QED
  BY <1>1, <1>5, <1>7, <1>8

(* Of a stream numbered from 1 nothing is revealed. *)
LEMMA DecodedRefines ==
  ASSUME DecoderInv, Retrieve
  PROVE  Stream!StreamNext \/ UNCHANGED Stream!streamVars
<1>1. UNCHANGED <<NextFrame, out>> /\ ret # "eof"
  BY DecodedRetrieveStep DEF NextFrame, Retrieve
<1>2. CASE ret' = "again"
  BY <1>1, <1>2 DEF Stream!streamVars
<1>3. CASE ret' = "eof" /\ NumChunks = 0
  <2>1. NextFrame = <<0, 0>>
    BY <1>3 DEF DecoderInv, NextFrame
  <2> QED
    BY <1>1, <1>3, <2>1 DEF Stream!StreamNext, Stream!End
<1> QED
  BY <1>2, <1>3, DecodedRetrieveStep

(* RxManager reveals the frames of a stream in stream order, each once,    *)
(* and the end of the stream only after the last; that it reveals them     *)
(* at all is not said here, and of a stream numbered from 1 it does not.   *)
THEOREM StreamRefinement == Spec => ImplementsStream
<1>1. Init => Stream!StreamInit
  <2>1. SUFFICES ASSUME Init PROVE Stream!StreamInit
    OBVIOUS
  <2>2. NextFrame = <<0, 0>>
    BY <2>1, StreamAssumption, NumChunksAssumption DEF Init, RxInit, NextFrame, ChunkSeqs
  <2>3. QED
    BY <2>1, <2>2 DEF Init, RxInit, Stream!StreamInit
<1>2. IInv /\ [Next]_vars => [Stream!StreamNext]_(Stream!streamVars)
  <2>1. SUFFICES ASSUME IInv, [Next]_vars
        PROVE  Stream!StreamNext \/ UNCHANGED Stream!streamVars
    OBVIOUS
  <2>2. CASE Receive
    BY <2>2, ReceiveHidden DEF Stream!streamVars
  <2>3. CASE Retrieve
    BY <2>1, <2>3, RetrieveRefines, DecodedRefines DEF IInv
  <2>4. CASE UNCHANGED vars
    BY <2>4 DEF vars, rxVars, NextFrame, Stream!streamVars
  <2>5. QED
    BY <2>1, <2>2, <2>3, <2>4 DEF Next, Stopped
<1>3. QED
  BY <1>1, <1>2, InductiveInvariant, PTL DEF Spec, ImplementsStream, Stream!StreamSpec
=============================================================================

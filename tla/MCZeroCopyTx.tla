---------------------------- MODULE MCZeroCopyTx ----------------------------
(* Instances of ZeroCopyTx for TLC. *)
EXTENDS ZeroCopyTx

(* Keys as test-db-build.cpp writes them: even, from 2, without a gap. *)
MCDb == <<2, 4, 6, 8, 10, 12>>

(* The ranges test-source.cpp computes for start_fnum s and total_fnum t, *)
(* also past the end of the database, and for the chunk of frame s.       *)
FrameRange(s, t) ==
  [fn |-> "multi", type |-> "raw", start |-> 2 * s + 2, end |-> 2 * s + 2 * t + 1]
ChunkRange(c) ==
  [fn |-> "chunk", type |-> "chunk", start |-> 2 * c + 2, end |-> 2 * c + 3]

(* The whole database, as test_send_multi_from_db sends it, and a range of *)
(* several chunks.                                                         *)
WholeDb(type) == [fn |-> "multi", type |-> type, start |-> 0, end |-> 1000]
ChunkSpan == [fn |-> "chunk", type |-> "chunk", start |-> 2, end |-> 7]

(* With CHUNK_SIZE 3: single frames, multipart messages, deferred ranges. *)
AllRequests ==
  {FrameRange(s, t) : s \in 0..6, t \in 1..5} \union {ChunkRange(c) : c \in 0..6} \union
  {WholeDb("raw"), WholeDb("chunk"), ChunkSpan}

SingleRequests == {FrameRange(1, 1)}
=============================================================================

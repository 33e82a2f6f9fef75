----------------------------- MODULE SourceServer -----------------------------
(***************************************************************************)
(* The source (test-source.cpp): it answers a request, then serves it.     *)
(*                                                                         *)
(* A chunk is sent with a deferred close (ZeroCopyTx): its read            *)
(* transaction stays alive until the I/O thread has freed the message.     *)
(* The environments are opened without MDB_NOTLS, so the thread of the     *)
(* source has one reader slot in each, and beginning a transaction while   *)
(* the last one is alive fails with MDB_BAD_RSLOT, which ends the process. *)
(***************************************************************************)
EXTENDS QueryNet

CONSTANTS
  Env,     (* the LMDB environments                                      *)
  EnvOf    (* EnvOf[t]: the environment that serves thread t's requests  *)

ASSUME EnvAssumption == EnvOf \in [Thread -> Env]

VARIABLES
  source,  (* recv, serve, or abort after an xzl_bug_on  *)
  serving, (* the request answered last                  *)
  alive    (* environments whose transaction is alive    *)

sourceVars == <<source, serving, alive>>

SourceTypeOK ==
  /\ source \in {"recv", "serve", "abort"}
  /\ serving \in Request \union {NoRequest}
  /\ source = "serve" => serving \in Request
  /\ alive \subseteq Env

SourceInit ==
  /\ source = "recv"
  /\ serving = NoRequest
  /\ alive = {}

(* s_frame.recv and s_frame.send: the scheduler is free again. *)
AnswerRequest ==
  /\ source = "recv"
  /\ request # NoRequest
  /\ serving' = request
  /\ request' = NoRequest
  /\ source' = "serve"
  /\ UNCHANGED <<chunkQ, frameQ, alive>>

(* Mutant: the chunk goes to the thread that is served by another socket. *)
SendChunkAnywhere(r) == \E t \in Thread : chunkQ' = Append(chunkQ, [r EXCEPT !.tid = t])

SendChunk(r) == chunkQ' = Append(chunkQ, r)

(* test_send_chunk_from_db: a transaction to open the dbi, then            *)
(* send_chunk_from_db for the one key of the chunk.  Without a record      *)
(* nothing is sent and the sender itself closes the transaction.           *)
ServeChunk ==
  /\ source = "serve"
  /\ LET e == EnvOf[serving.tid] IN
       IF e \in alive
         THEN source' = "abort" /\ UNCHANGED <<chunkQ, alive>>
       ELSE IF serving.chunk \in Stored
         THEN /\ SendChunk(serving)
              /\ alive' = alive \union {e}
              /\ source' = "recv"
       ELSE source' = "recv" /\ UNCHANGED <<chunkQ, alive>>
  /\ UNCHANGED <<request, serving, frameQ>>

(* The last my_free of the I/O thread closes the transaction. *)
CloseTxn(e) ==
  /\ source # "abort"
  /\ e \in alive
  /\ alive' = alive \ {e}
  /\ UNCHANGED <<request, chunkQ, frameQ, source, serving>>

Source == AnswerRequest \/ ServeChunk

-----------------------------------------------------------------------------
(* Stated by the comment of send_multi_from_db, "caller must ensure: no tx *)
(* is for the db is alive as of now".                                      *)
TxnBeginAlone == source = "serve" => EnvOf[serving.tid] \notin alive
=============================================================================

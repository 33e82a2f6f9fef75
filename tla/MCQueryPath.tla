---------------------------- MODULE MCQueryPath ----------------------------
(* Instances of QueryPath for TLC: two threads, two to five chunks. *)
EXTENDS QueryPath, TLC

CONSTANTS t1, t2

Threads == {t1, t2}

(* env_multi: an environment for each thread; env_decode: one for all. *)
OwnEnv == (t1 :> "env1") @@ (t2 :> "env2")
SharedEnv == (t1 :> "env1") @@ (t2 :> "env1")
Envs == {"env1", "env2"}

AllChunks == Chunks
NoChunk == {}
FirstOfBlock == {c * ChunkLength : c \in Chunks}
NoFrame == {}

(* One frame less than the sink reserves room for; as many; any number. *)
ShortChunks == [c \in Chunks |-> ChunkLength - 1]
FullChunks == [c \in Chunks |-> ChunkLength]
MixedChunks == (0 :> 2) @@ (1 :> 1) @@ (2 :> 2) @@ (3 :> 1) @@ (4 :> 2)

AllButLast == 0..(NumChunks - 2)
SecondChunk == {1}
FourthChunk == {3}
=============================================================================

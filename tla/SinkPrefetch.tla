----------------------------- MODULE SinkPrefetch -----------------------------
(***************************************************************************)
(* The threads of the sink (the parallel loop of test-sink.cpp).  OpenMP   *)
(* deals the frames out in blocks of ChunkLength; a thread that finds      *)
(* motion in a frame needs the full-size frame of the same number, and     *)
(* fetches a whole chunk of them into its prefetch buffer when the last    *)
(* fetch lies ChunkLength frames or more behind.                           *)
(***************************************************************************)
EXTENDS QueryNet

CONSTANT Moving  (* frames in which motion is certain to be found *)

ASSUME MovingAssumption == Moving \subseteq Nat

VARIABLES
  pc,      (* pc[t]: idle, look, wait, fetch, use or done                *)
  j,       (* j[t]: the frame thread t is working on                     *)
  status,  (* status_en_720[t]: the frame at which it fetched last       *)
  buf,     (* pre_enbuf_720[t], NoMsg where the pointer is null          *)
  iter,    (* iter[t]: items received in this fetch                      *)
  owner    (* owner[c]: the thread that was dealt block c                *)

sinkVars == <<pc, j, status, buf, iter, owner>>

Slots == 0..(ChunkLength - 1)

SinkTypeOK ==
  /\ pc \in [Thread -> {"idle", "look", "wait", "fetch", "use", "done"}]
  /\ j \in [Thread -> Nat]
  /\ status \in [Thread -> Int]
  /\ buf \in [Thread -> [Slots -> Item \union {NoMsg}]]
  /\ iter \in [Thread -> 0..ChunkLength]
  /\ owner \in [Chunks -> Thread \union {NoThread}]

SinkInit ==
  /\ pc = [t \in Thread |-> "idle"]
  /\ j = [t \in Thread |-> 0]
  /\ status = [t \in Thread |-> -ChunkLength - 1]
  /\ buf = [t \in Thread |-> [i \in Slots |-> NoMsg]]
  /\ iter = [t \in Thread |-> 0]
  /\ owner = [c \in Chunks |-> NoThread]

(* The chunk that holds frame n: int(start_fnum / CHUNK_LENGTH). *)
ChunkOf(n) == n \div ChunkLength

Goto(t, where) == pc' = [pc EXCEPT ![t] = where]

(* schedule(dynamic, 250): the next block goes to whichever thread asks. *)
TakeBlock(t) ==
  /\ pc[t] = "idle"
  /\ \E c \in Chunks :
       /\ owner[c] = NoThread
       /\ \A d \in Chunks : d < c => owner[d] # NoThread
       /\ owner' = [owner EXCEPT ![c] = t]
       /\ j' = [j EXCEPT ![t] = c * ChunkLength]
  /\ Goto(t, "look")
  /\ UNCHANGED <<request, chunkQ, frameQ, status, buf, iter>>

NoBlockLeft(t) ==
  /\ pc[t] = "idle"
  /\ \A c \in Chunks : owner[c] # NoThread
  /\ Goto(t, "done")
  /\ UNCHANGED <<request, chunkQ, frameQ, j, status, buf, iter, owner>>

(* The next iteration of the loop, in this block or in another. *)
Continue(t) ==
  IF (j[t] + 1) % ChunkLength = 0
    THEN Goto(t, "idle") /\ UNCHANGED j
    ELSE Goto(t, "look") /\ j' = [j EXCEPT ![t] = @ + 1]

(* No frame of this number, or no motion in it. *)
SkipFrame(t) ==
  /\ pc[t] = "look"
  /\ j[t] \notin Moving
  /\ Continue(t)
  /\ UNCHANGED <<request, chunkQ, frameQ, status, buf, iter, owner>>

(* Mutant: fetch only when more than a chunk behind. *)
FetchDueLate(t) == j[t] - status[t] > ChunkLength

FetchDue(t) == j[t] - status[t] >= ChunkLength

(* service_socket[id]->send: the request waits for the scheduler. *)
AskForChunk(t) ==
  /\ pc[t] = "look"
  /\ FetchDue(t)
  /\ Goto(t, "wait")
  /\ UNCHANGED <<request, chunkQ, frameQ, j, status, buf, iter, owner>>

UseBuffered(t) ==
  /\ pc[t] = "look"
  /\ ~FetchDue(t)
  /\ Goto(t, "use")
  /\ UNCHANGED <<request, chunkQ, frameQ, j, status, buf, iter, owner>>

(* The scheduler answers thread t and hands its request to the source,     *)
(* one at a time (RtScheduler).                                            *)
Forward(t) ==
  /\ pc[t] = "wait"
  /\ request = NoRequest
  /\ request' = [tid |-> t, chunk |-> ChunkOf(j[t])]
  /\ iter' = [iter EXCEPT ![t] = 0]
  /\ Goto(t, "fetch")
  /\ UNCHANGED <<chunkQ, frameQ, j, status, buf, owner>>

(* pre_enbuf_720[id][iter] = msg_ptr2: null for a desc without a frame. *)
Store(t, item) ==
  buf' = [buf EXCEPT ![t][iter[t]] = IF item.kind = "frame" THEN item ELSE NoMsg]

(* Mutant: the loop reads one frame less than a chunk. *)
FetchOverEarly(t, item) == item.kind = "eof" \/ iter[t] + 2 >= ChunkLength

(* The receiving loop ends at an end marker or after total_fnum items. *)
FetchOver(t, item) == item.kind = "eof" \/ iter[t] + 1 = ChunkLength

ReceiveItem(t) ==
  /\ pc[t] = "fetch"
  /\ frameQ[t] # <<>>
  /\ LET item == Head(frameQ[t]) IN
       /\ Store(t, item)
       /\ IF FetchOver(t, item)
            THEN Goto(t, "use") /\ status' = [status EXCEPT ![t] = j[t]]
            ELSE UNCHANGED <<pc, status>>
  /\ iter' = [iter EXCEPT ![t] = @ + 1]
  /\ frameQ' = [frameQ EXCEPT ![t] = Tail(@)]
  /\ UNCHANGED <<request, chunkQ, j, owner>>

(* msg_ptr2 = pre_enbuf_720[id][j % CHUNK_LENGTH]. *)
Wanted(t) == buf[t][j[t] % ChunkLength]

(* Recognise plates in the wanted frame, or go on if it is null. *)
UseFrame(t) ==
  /\ pc[t] = "use"
  /\ Continue(t)
  /\ UNCHANGED <<request, chunkQ, frameQ, status, buf, iter, owner>>

SinkThread(t) ==
  \/ TakeBlock(t) \/ NoBlockLeft(t) \/ SkipFrame(t) \/ AskForChunk(t)
  \/ UseBuffered(t) \/ ReceiveItem(t) \/ UseFrame(t)
=============================================================================

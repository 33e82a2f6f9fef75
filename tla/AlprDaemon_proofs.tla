-------------------------- MODULE AlprDaemon_proofs --------------------------
(***************************************************************************)
(* Proofs about AlprDaemon, for any cameras, analysis threads, numbers of  *)
(* frames and faults: frames are analysed fresh and once, and a stored     *)
(* result leaves the tube only by a post reported as a success.            *)
(***************************************************************************)
EXTENDS AlprDaemon, SequenceTheorems, TLAPS

LEMMA NoJobIsNone == NoJob \notin Job
BY DEF NoJob, Job

(* What a queue of at most one frame holds, and what it holds after the    *)
(* operations on it.                                                       *)
LEMMA ShortQueue ==
  ASSUME NEW q \in Seq(Nat \ {0}), Len(q) <= 1, NEW x \in Nat \ {0}
  PROVE  /\ q # <<>> => Head(q) \in Nat \ {0} /\ Tail(q) = <<>>
                        /\ {q[i] : i \in 1..Len(q)} = {Head(q)}
         /\ q = <<>> => /\ Append(q, x) \in Seq(Nat \ {0}) /\ Len(Append(q, x)) = 1
                        /\ {Append(q, x)[i] : i \in 1..Len(Append(q, x))} = {x}
         /\ {<<>>[i] : i \in 1..Len(<<>>)} = {}
<1>1. CASE q # <<>>
  <2>1. Len(q) = 1 /\ q[1] \in Nat \ {0} /\ Head(q) = q[1]
    <3>1. Len(q) \in Nat /\ Len(q) # 0
      BY <1>1, EmptySeq
    <3>2. \A n \in Nat : n # 0 /\ n <= 1 => n = 1
      OBVIOUS
    <3>3. Len(q) = 1
      BY <3>1, <3>2
    <3> QED
      BY <3>3
  <2>2. Tail(q) \in Seq(Nat \ {0}) /\ Len(Tail(q)) = 0
    BY <1>1, <2>1, HeadTailProperties
  <2>3. Tail(q) = <<>>
    BY <2>2, EmptySeq
  <2> QED
    BY <1>1, <2>1, <2>3
<1>2. CASE q = <<>>
  <2>1. Append(q, x) \in Seq(Nat \ {0}) /\ Len(Append(q, x)) = 1 /\ Append(q, x)[1] = x
    BY <1>2
  <2>2. {Append(q, x)[i] : i \in 1..Len(Append(q, x))} = {x}
    BY <2>1
  <2> QED
    BY <1>2, <2>1, <2>2
<1> QED
  BY <1>1, <1>2

LEMMA InitInv == Init => IInv
<1> SUFFICES ASSUME Init PROVE IInv
  OBVIOUS
<1>1. TypeOK
  BY NoJobIsNone DEF Init, TypeOK
<1>2. QueueInv /\ FreshFrames
  BY DEF Init, QueueInv, FreshFrames, Waiting
<1>3. UploadInv /\ LostOnlyAsReported
  BY DEF Init, UploadInv, LostOnlyAsReported
<1> QED
  BY <1>1, <1>2, <1>3 DEF IInv

(* The queue side depends only on the queue's variables. *)
LEMMA QueueKept ==
  ASSUME QueueInv, FreshFrames, UNCHANGED <<cameraVars, held>>
  PROVE  QueueInv' /\ FreshFrames'
BY DEF QueueInv, FreshFrames, Waiting, cameraVars

(* So does the upload side on its own. *)
LEMMA UploadKept ==
  ASSUME UploadInv, LostOnlyAsReported, UNCHANGED <<tubeVars, uploadVars, stored, history>>
  PROVE  UploadInv' /\ LostOnlyAsReported'
BY DEF UploadInv, ReportedPosted, LostOnlyAsReported, InTube, tubeVars, uploadVars, history

-----------------------------------------------------------------------------
LEMMA GrabStep == ASSUME IInv, NEW c \in Camera, Grab(c) PROVE IInv'
<1> USE DEF IInv
<1>1. TypeOK'
  BY DEF TypeOK, Grab, RoomFor, tubeVars, uploadVars, history
<1>2. \A d \in Camera : grabbed[d] \in Nat /\ grabbed'[d] \in Nat /\ grabbed[d] <= grabbed'[d]
  BY <1>1 DEF TypeOK, Grab
<1>3. QueueInv'
  <2> SUFFICES ASSUME NEW d \in Camera
               PROVE  /\ pushing'[d] => grabbed'[d] # 0
                      /\ \A f \in Waiting(d)' : f <= grabbed'[d]
    BY DEF QueueInv
  <2>1. Waiting(d)' = Waiting(d) /\ \A f \in Waiting(d) : f \in Nat
    BY DEF Grab, Waiting, TypeOK
  <2>2. pushing'[d] => grabbed'[d] # 0
    BY <1>2 DEF QueueInv, Grab, TypeOK
  <2>3. \A f \in Waiting(d) : f <= grabbed[d]
    BY DEF QueueInv
  <2> QED
    BY <1>2, <2>1, <2>2, <2>3
<1>4. FreshFrames'
  <2> SUFFICES ASSUME NEW d \in Camera
               PROVE  /\ Len(frames'[d]) <= 1
                      /\ pushing'[d] => frames'[d] = <<>>
                      /\ \A w \in Worker : CameraOf[w] = d /\ held'[w] # 0 =>
                           /\ held'[w] <= grabbed'[d] /\ (pushing'[d] => held'[w] < grabbed'[d])
                           /\ \A f \in Waiting(d)' : held'[w] < f
                           /\ \A v \in Worker : CameraOf[v] = d /\ v # w => held'[v] # held'[w]
    BY DEF FreshFrames
  <2>1. frames' = frames /\ held' = held /\ Waiting(d)' = Waiting(d)
    BY DEF Grab, Waiting
  <2>2. pushing'[d] => frames[d] = <<>>
    BY DEF Grab, RoomFor, FreshFrames, TypeOK
  <2>3. \A w \in Worker : CameraOf[w] = d /\ held[w] # 0 =>
          held[w] <= grabbed'[d] /\ (pushing'[d] => held[w] < grabbed'[d])
    BY <1>2 DEF Grab, FreshFrames, TypeOK
  <2> QED
    BY <2>1, <2>2, <2>3 DEF FreshFrames
<1>5. UploadInv' /\ LostOnlyAsReported'
  BY UploadKept DEF Grab
<1> QED
  BY <1>1, <1>3, <1>4, <1>5

LEMMA PushStep == ASSUME IInv, NEW c \in Camera, PushFrame(c) PROVE IInv'
<1> USE DEF IInv
<1>1. grabbed[c] \in Nat \ {0} /\ frames[c] = <<>> /\ frames[c] \in Seq(Nat \ {0})
  BY DEF PushFrame, QueueInv, FreshFrames, TypeOK
<1>2. /\ frames'[c] \in Seq(Nat \ {0}) /\ Len(frames'[c]) = 1 /\ Waiting(c)' = {grabbed[c]}
      /\ \A d \in Camera \ {c} : frames'[d] = frames[d] /\ Waiting(d)' = Waiting(d)
  BY <1>1, ShortQueue DEF PushFrame, TypeOK, Waiting
<1>3. TypeOK'
  BY <1>1, <1>2 DEF TypeOK, PushFrame, tubeVars, uploadVars, history
<1>4. QueueInv'
  BY <1>1, <1>2 DEF QueueInv, PushFrame, TypeOK
<1>5. FreshFrames'
  <2> SUFFICES ASSUME NEW d \in Camera
               PROVE  /\ Len(frames'[d]) <= 1
                      /\ pushing'[d] => frames'[d] = <<>>
                      /\ \A w \in Worker : CameraOf[w] = d /\ held'[w] # 0 =>
                           /\ held'[w] <= grabbed'[d] /\ (pushing'[d] => held'[w] < grabbed'[d])
                           /\ \A f \in Waiting(d)' : held'[w] < f
                           /\ \A v \in Worker : CameraOf[v] = d /\ v # w => held'[v] # held'[w]
    BY DEF FreshFrames
  <2>1. held' = held /\ grabbed' = grabbed /\ pushing' = [pushing EXCEPT ![c] = FALSE]
    BY DEF PushFrame
  <2>2. CASE d = c
    BY <1>1, <1>2, <2>1, <2>2 DEF FreshFrames, PushFrame, TypeOK
  <2>3. CASE d # c
    BY <1>2, <2>1, <2>3 DEF FreshFrames, TypeOK
  <2> QED
    BY <2>2, <2>3
<1>6. UploadInv' /\ LostOnlyAsReported'
  BY UploadKept DEF PushFrame
<1> QED
  BY <1>3, <1>4, <1>5, <1>6

LEMMA PopStep == ASSUME IInv, NEW w \in Worker, PopFrame(w) PROVE IInv'
<1> USE DEF IInv
<1> DEFINE c == CameraOf[w]
<1>1. c \in Camera
  BY CameraAssumption
<1>2. /\ Head(frames[c]) \in Nat \ {0} /\ Waiting(c) = {Head(frames[c])} /\ Waiting(c)' = {}
      /\ frames'[c] = <<>> /\ ~pushing[c]
      /\ \A d \in Camera \ {c} : frames'[d] = frames[d] /\ Waiting(d)' = Waiting(d)
  <2>1. frames[c] \in Seq(Nat \ {0}) /\ Len(frames[c]) <= 1 /\ frames[c] # <<>>
    BY <1>1 DEF PopFrame, FreshFrames, TypeOK
  <2>2. frames'[c] = Tail(frames[c]) /\ \A d \in Camera \ {c} : frames'[d] = frames[d]
    BY <1>1 DEF PopFrame, TypeOK
  <2>3. /\ Head(frames[c]) \in Nat \ {0} /\ Waiting(c) = {Head(frames[c])}
        /\ frames'[c] = <<>> /\ {<<>>[i] : i \in 1..Len(<<>>)} = {}
    BY <2>1, <2>2, ShortQueue, 1 \in Nat \ {0} DEF Waiting
  <2>4. Waiting(c)' = {}
    BY <2>3 DEF Waiting
  <2>5. \A d \in Camera \ {c} : Waiting(d)' = Waiting(d)
    BY <2>2 DEF Waiting
  <2>6. ~pushing[c]
    BY <1>1, <2>1 DEF FreshFrames
  <2> QED
    BY <2>2, <2>3, <2>4, <2>5, <2>6
<1>3. TypeOK'
  BY <1>1, <1>2 DEF TypeOK, PopFrame, tubeVars, uploadVars, history
<1>4. QueueInv'
  BY <1>1, <1>2 DEF QueueInv, PopFrame
<1>5. FreshFrames'
  <2> SUFFICES ASSUME NEW d \in Camera
               PROVE  /\ Len(frames'[d]) <= 1
                      /\ pushing'[d] => frames'[d] = <<>>
                      /\ \A x \in Worker : CameraOf[x] = d /\ held'[x] # 0 =>
                           /\ held'[x] <= grabbed'[d] /\ (pushing'[d] => held'[x] < grabbed'[d])
                           /\ \A f \in Waiting(d)' : held'[x] < f
                           /\ \A v \in Worker : CameraOf[v] = d /\ v # x => held'[v] # held'[x]
    BY DEF FreshFrames
  <2>1. /\ grabbed' = grabbed /\ pushing' = pushing /\ held'[w] = Head(frames[c])
        /\ \A x \in Worker \ {w} : held'[x] = held[x]
    BY DEF PopFrame, TypeOK
  <2>2. CASE d # c
    BY <1>1, <1>2, <2>1, <2>2 DEF FreshFrames
  <2>3. CASE d = c
    <3>1. Len(frames'[d]) <= 1 /\ frames'[d] = <<>> /\ Waiting(d)' = {} /\ ~pushing'[d]
      BY <1>2, <2>1, <2>3
    <3>2. Head(frames[c]) <= grabbed[c]
      BY <1>1, <1>2 DEF QueueInv
    <3>3. \A x \in Worker \ {w} : CameraOf[x] = d /\ held[x] # 0 =>
            held[x] <= grabbed[d] /\ held[x] < Head(frames[c]) /\ held[x] \in Nat
      BY <1>1, <1>2, <2>3 DEF FreshFrames, TypeOK
    <3>4. \A x, y \in Worker \ {w} : CameraOf[x] = d /\ held[x] # 0 /\ CameraOf[y] = d /\ x # y =>
            held[y] # held[x]
      BY <1>1, <2>3 DEF FreshFrames
    <3>5. \A x \in Worker \ {w} : CameraOf[x] = d => held[x] # Head(frames[c])
      BY <1>2, <3>3
    <3>6. \A x \in Worker : CameraOf[x] = d /\ held'[x] # 0 => held'[x] <= grabbed'[d]
      BY <2>1, <2>3, <3>2, <3>3
    <3>7. \A x, v \in Worker : CameraOf[x] = d /\ held'[x] # 0 /\ CameraOf[v] = d /\ v # x =>
            held'[v] # held'[x]
      BY <2>1, <3>4, <3>5
    <3> QED
      BY <3>1, <3>6, <3>7
  <2> QED
    BY <2>2, <2>3
<1>6. UploadInv' /\ LostOnlyAsReported'
  BY UploadKept DEF PopFrame
<1> QED
  BY <1>3, <1>4, <1>5, <1>6

(* A thread that is done with its frame. *)
LEMMA QueueReleased ==
  ASSUME QueueInv, FreshFrames, TypeOK, NEW w \in Worker, held' = [held EXCEPT ![w] = 0], UNCHANGED cameraVars
  PROVE  QueueInv' /\ FreshFrames'
<1>1. \A c \in Camera : Waiting(c)' = Waiting(c)
  BY DEF cameraVars, Waiting
<1>2. \A x \in Worker : held'[x] = (IF x = w THEN 0 ELSE held[x])
  BY DEF TypeOK
<1>3. QueueInv'
  BY <1>1 DEF QueueInv, cameraVars
<1>4. FreshFrames'
  BY <1>1, <1>2 DEF FreshFrames, cameraVars
<1> QED
  BY <1>3, <1>4

LEMMA DropStep == ASSUME IInv, NEW w \in Worker, DropResult(w) PROVE IInv'
<1> USE DEF IInv
<1>1. TypeOK'
  BY DEF TypeOK, DropResult, cameraVars, tubeVars, uploadVars, history
<1>2. QueueInv' /\ FreshFrames'
  BY QueueReleased DEF DropResult
<1>3. UploadInv' /\ LostOnlyAsReported'
  BY UploadKept DEF DropResult
<1> QED
  BY <1>1, <1>2, <1>3

LEMMA StoreStep == ASSUME IInv, NEW w \in Worker, StoreResult(w) PROVE IInv'
<1> USE DEF IInv
<1>1. <<CameraOf[w], held[w]>> \in Job
  BY CameraAssumption DEF StoreResult, TypeOK, Job
<1>2. TypeOK'
  BY <1>1 DEF TypeOK, StoreResult, cameraVars, uploadVars, history
<1>3. QueueInv' /\ FreshFrames'
  BY QueueReleased DEF StoreResult
<1>4. UploadInv'
  BY DEF UploadInv, ReportedPosted, StoreResult, uploadVars, history
<1>5. LostOnlyAsReported'
  BY DEF LostOnlyAsReported, ReportedPosted, InTube, StoreResult, history
<1> QED
  BY <1>2, <1>3, <1>4, <1>5

-----------------------------------------------------------------------------
LEMMA ConnectStep == ASSUME IInv, NEW c \in Camera, Connect(c) PROVE IInv'
<1> USE DEF IInv
<1>1. TypeOK'
  BY CameraAssumption DEF TypeOK, Connect, cameraVars, tubeVars, history
<1>2. QueueInv' /\ FreshFrames'
  BY QueueKept DEF Connect
<1>3. UploadInv' /\ LostOnlyAsReported'
  BY DEF UploadInv, ReportedPosted, LostOnlyAsReported, InTube, Connect, tubeVars, history, TypeOK
<1> QED
  BY <1>1, <1>2, <1>3

LEMMA ReserveStep == ASSUME IInv, NEW c \in Camera, Reserve(c) PROVE IInv'
<1> USE DEF IInv
<1>1. PICK j \in ready : /\ ready' = ready \ {j}
                         /\ reserved' = [reserved EXCEPT ![c] = j]
                         /\ job' = [job EXCEPT ![c] = j]
  BY DEF Reserve
<1>2. j \in Job /\ j # NoJob /\ j \in stored
  BY NoJobIsNone DEF TypeOK, UploadInv
<1>3. TypeOK'
  BY <1>1, <1>2 DEF TypeOK, Reserve, cameraVars, history
<1>4. QueueInv' /\ FreshFrames'
  BY QueueKept DEF Reserve
<1>5. UploadInv'
  BY <1>1, <1>2 DEF UploadInv, ReportedPosted, Reserve, history, TypeOK
<1>6. reserved[c] = NoJob
  BY DEF UploadInv, ReportedPosted, Reserve
<1>7. InTube \subseteq InTube'
  BY <1>1, <1>2, <1>6 DEF InTube, TypeOK
<1>8. LostOnlyAsReported'
  BY <1>7 DEF LostOnlyAsReported, ReportedPosted, Reserve, history
<1> QED
  BY <1>3, <1>4, <1>5, <1>8

LEMMA PostStep == ASSUME IInv, NEW c \in Camera, Post(c) PROVE IInv'
<1> USE DEF IInv
<1>1. job[c] \in stored /\ job[c] \in Job
  BY DEF UploadInv, ReportedPosted, Post, TypeOK
<1>2. /\ received' \subseteq received \union {job[c]}
      /\ unsent' \subseteq unsent \union {job[c]}
      /\ refused' \subseteq refused \union {job[c]}
      /\ ReportedPosted \subseteq ReportedPosted'
      /\ success' \in [Camera -> BOOLEAN] /\ faults' \in Nat
      /\ success'[c] => job[c] \in ReportedPosted'
      /\ \A d \in Camera \ {c} : success'[d] = success[d]
  <2>1. CASE /\ received' = received \union {job[c]} /\ refused' = refused /\ unsent' = unsent
             /\ faults' = faults /\ success' = [success EXCEPT ![c] = TRUE]
    BY <2>1 DEF TypeOK, ReportedPosted
  <2>2. CASE /\ refused' = refused \union {job[c]} /\ received' = received /\ unsent' = unsent
             /\ faults' = faults /\ success' = [success EXCEPT ![c] = TRUE]
    BY <2>2 DEF TypeOK, ReportedPosted
  <2>3. CASE /\ received' \in {received, received \union {job[c]}} /\ unsent' = unsent
             /\ refused' = refused /\ faults' = faults + 1
             /\ success' = [success EXCEPT ![c] = FALSE]
    BY <2>3 DEF TypeOK, ReportedPosted
  <2>4. CASE /\ unsent' = unsent \union {job[c]} /\ received' = received /\ refused' = refused
             /\ faults' = faults /\ success' = [success EXCEPT ![c] = TRUE]
    BY <2>4 DEF TypeOK, ReportedPosted
  <2> QED
    BY <2>1, <2>2, <2>3, <2>4 DEF Post
<1>3. /\ up' = [up EXCEPT ![c] = "settle"]
      /\ UNCHANGED <<alive, cameraVars, held, tubeVars, job, curl, stored>>
  BY DEF Post
<1>4. TypeOK'
  BY <1>1, <1>2, <1>3 DEF TypeOK, cameraVars, tubeVars
<1>5. QueueInv' /\ FreshFrames'
  BY <1>3, QueueKept
<1>6. UploadInv'
  BY <1>1, <1>2, <1>3 DEF UploadInv, ReportedPosted, tubeVars, TypeOK
<1>7. LostOnlyAsReported'
  BY <1>2, <1>3 DEF LostOnlyAsReported, ReportedPosted, InTube, tubeVars
<1> QED
  BY <1>4, <1>5, <1>6, <1>7

(* A job that goes back to the tube is still in it. *)
LEMMA GiveBack ==
  ASSUME TypeOK, UploadInv, NEW c \in Camera, ReleaseJob(c)
  PROVE  /\ ready' \subseteq Job /\ ready' \subseteq ready \union {job[c]}
         /\ reserved[c] = NoJob => ready' = ready
         /\ reserved' \in [Camera -> Job \union {NoJob}]
         /\ InTube \subseteq InTube'
<1>1. reserved' = [reserved EXCEPT ![c] = NoJob] /\ ready' = ready \union GivenBack(c)
  BY DEF ReleaseJob
<1>2. GivenBack(c) \subseteq Job /\ GivenBack(c) \subseteq {job[c]}
      /\ (reserved[c] # NoJob => reserved[c] \in GivenBack(c))
      /\ (reserved[c] = NoJob => GivenBack(c) = {})
  BY DEF GivenBack, TypeOK, UploadInv
<1>3. InTube \subseteq InTube'
  BY <1>1, <1>2 DEF InTube, TypeOK
<1> QED
  BY <1>1, <1>2, <1>3 DEF TypeOK

LEMMA SettleStep == ASSUME IInv, NEW c \in Camera, Settle(c) PROVE IInv'
<1> USE DEF IInv
<1>1. /\ up[c] = "settle" /\ up' = [up EXCEPT ![c] = "reserve"]
      /\ UNCHANGED <<alive, cameraVars, held, job, curl, success, faults, stored, history>>
  BY DEF Settle
<1>2. QueueInv' /\ FreshFrames'
  BY <1>1, QueueKept
<1>3. CASE Uploaded(c) /\ DeleteJob(c)
  <2>1. ready' = ready /\ reserved' = [reserved EXCEPT ![c] = NoJob]
    BY <1>3 DEF DeleteJob
  <2>2. TypeOK'
    BY <1>1, <2>1 DEF TypeOK, cameraVars, history
  <2>3. UploadInv'
    BY <1>1, <2>1 DEF UploadInv, ReportedPosted, history, TypeOK
  <2>4. job[c] \in ReportedPosted
    BY <1>1, <1>3 DEF Uploaded, UploadInv
  <2>5. InTube \subseteq InTube' \union {job[c]}
    BY <2>1 DEF InTube, UploadInv, TypeOK
  <2>6. LostOnlyAsReported'
    BY <1>1, <2>4, <2>5 DEF LostOnlyAsReported, ReportedPosted, history
  <2> QED
    BY <1>2, <2>2, <2>3, <2>6
<1>4. CASE ReleaseJob(c)
  <2>1. /\ ready' \subseteq Job /\ ready' \subseteq ready \union {job[c]}
        /\ reserved' \in [Camera -> Job \union {NoJob}] /\ InTube \subseteq InTube'
    BY <1>4, GiveBack
  <2>2. TypeOK'
    BY <1>1, <2>1 DEF TypeOK, cameraVars, history
  <2>3. UploadInv'
    BY <1>1, <1>4, <2>1 DEF UploadInv, ReportedPosted, ReleaseJob, history, TypeOK
  <2>4. LostOnlyAsReported'
    BY <1>1, <2>1 DEF LostOnlyAsReported, ReportedPosted, history
  <2> QED
    BY <1>2, <2>2, <2>3, <2>4
<1> QED
  BY <1>3, <1>4 DEF Settle

(* The three faults: whatever happens to the connection, the job goes      *)
(* back.                                                                   *)
LEMMA FaultStep == ASSUME IInv, NEW c \in Camera, Fault(c) PROVE IInv'
<1> USE DEF IInv
<1>1. /\ ReleaseJob(c) /\ faults' = faults + 1
      /\ UNCHANGED <<cameraVars, held, job, curl, success, stored, history>>
      /\ alive' \subseteq alive
      /\ up' = up \/ up' = [up EXCEPT ![c] = "offline"]
  BY DEF Fault, Disconnect, Expire, Crash, ReleaseJob, uploadVars
<1>2. /\ ready' \subseteq Job /\ ready' \subseteq ready \union {job[c]}
      /\ reserved[c] = NoJob => ready' = ready
      /\ reserved' \in [Camera -> Job \union {NoJob}] /\ InTube \subseteq InTube'
  BY <1>1, GiveBack
<1>3. TypeOK'
  <2>1. up' \in [Camera -> {"offline", "reserve", "post", "settle"}]
    BY <1>1 DEF TypeOK
  <2>2. alive' \subseteq Camera /\ faults' \in Nat
    BY <1>1 DEF TypeOK
  <2> QED
    BY <1>1, <1>2, <2>1, <2>2 DEF TypeOK, cameraVars, history
<1>4. QueueInv' /\ FreshFrames'
  BY <1>1, QueueKept
<1>5. ready' \subseteq stored
  BY <1>2 DEF UploadInv, ReportedPosted
<1>6. UploadInv'
  BY <1>1, <1>5 DEF UploadInv, ReportedPosted, ReleaseJob, history, TypeOK
<1>7. LostOnlyAsReported'
  BY <1>1, <1>2 DEF LostOnlyAsReported, ReportedPosted, history
<1> QED
  BY <1>3, <1>4, <1>6, <1>7

LEMMA StutterStep == ASSUME IInv, UNCHANGED vars PROVE IInv'
<1>1. TypeOK'
  BY DEF IInv, TypeOK, vars, cameraVars, tubeVars, uploadVars, history
<1>2. QueueInv' /\ FreshFrames'
  BY QueueKept DEF IInv, vars
<1>3. UploadInv' /\ LostOnlyAsReported'
  BY UploadKept DEF IInv, vars
<1> QED
  BY <1>1, <1>2, <1>3 DEF IInv

(* The invariant holds for any cameras, threads, frames and faults.        *)
THEOREM InductiveInvariant == Spec => []IInv
<1>1. Init => IInv
  BY InitInv
<1>2. IInv /\ [Next]_vars => IInv'
  <2> SUFFICES ASSUME IInv, [Next]_vars PROVE IInv'
    OBVIOUS
  <2>1. ASSUME NEW c \in Camera, Capture(c) PROVE IInv'
    BY <2>1, GrabStep, PushStep DEF Capture
  <2>2. ASSUME NEW c \in Camera, Upload(c) PROVE IInv'
    BY <2>2, ConnectStep, ReserveStep, PostStep, SettleStep DEF Upload
  <2>3. ASSUME NEW c \in Camera, Fault(c) PROVE IInv'
    BY <2>3, FaultStep
  <2>4. ASSUME NEW w \in Worker, Analyse(w) PROVE IInv'
    BY <2>4, PopStep, DropStep, StoreStep DEF Analyse
  <2>5. CASE UNCHANGED vars
    BY <2>5, StutterStep
  <2> QED
    BY <2>1, <2>2, <2>3, <2>4, <2>5 DEF Next
<1> QED
  BY <1>1, <1>2, PTL DEF Spec

(* The capture thread's check and push leave one waiting frame at most, and *)
(* analysis threads never share a frame.                                   *)
THEOREM FreshFramesThm == Spec => []FreshFrames
<1>1. IInv => FreshFrames
  BY DEF IInv
<1> QED
  BY <1>1, InductiveInvariant, PTL

(* A result that was put into the tube leaves it only by a post that       *)
(* uploadPost has reported as a success, whatever connections,             *)
(* reservations and processes are lost on the way.                         *)
THEOREM LostOnlyAsReportedThm == Spec => []LostOnlyAsReported
<1>1. IInv => LostOnlyAsReported
  BY DEF IInv
<1> QED
  BY <1>1, InductiveInvariant, PTL
=============================================================================

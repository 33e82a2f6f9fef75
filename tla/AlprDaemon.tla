---------------------------- MODULE AlprDaemon ----------------------------
(***************************************************************************)
(* alprd (daemon.cpp): one process per camera, in which a capture thread   *)
(* feeds analysis threads over framesQueue, and an upload thread takes the *)
(* results of all cameras from the beanstalkd tube they share and posts    *)
(* them to a web service.                                                  *)
(*                                                                         *)
(* beanstalkd, curl and the recognition are external: a reserved job goes  *)
(* back to the tube when its time to run is over or its connection closes; *)
(* a post may fail before or after the service has taken the data, or be   *)
(* answered with an HTTP error and nothing taken; a frame has plates or    *)
(* not.  Jobs are known by camera and frame.                               *)
(***************************************************************************)
EXTENDS Integers, Sequences, FiniteSets

CONSTANTS
  Camera,     (* the processes, by their camera                            *)
  Worker,     (* the analysis threads of all processes                     *)
  CameraOf,   (* the process of an analysis thread                         *)
  MaxFrames,  (* bound: frames a camera delivers                           *)
  MaxFaults   (* bound: failing posts and connections, expiries, crashes   *)

ASSUME CameraAssumption ==
  /\ CameraOf \in [Worker -> Camera]
  /\ MaxFrames \in [Camera -> Nat]
  /\ MaxFaults \in Nat

Job == Camera \X (Nat \ {0})
NoJob == <<>>

VARIABLES
  alive,     (* processes that have not crashed                            *)
  frames,    (* framesQueue of each process                                *)
  grabbed,   (* frames captured so far                                     *)
  pushing,   (* the capture thread has found framesQueue empty             *)
  held,      (* the frame an analysis thread works on, 0 for none          *)
  ready,     (* jobs of the tube that nobody has reserved                  *)
  reserved,  (* the job reserved by the connection of an upload thread     *)
  up,        (* upload thread: "offline", "reserve", "post", "settle"      *)
  job,       (* its variable job                                           *)
  curl,      (* curl_easy_init gave it a handle                            *)
  success,   (* what uploadPost returned                                   *)
  faults,
  stored,    (* history: jobs put into the tube                            *)
  received,  (* history: jobs the web service has taken                    *)
  unsent,    (* history: jobs "posted" without a handle                    *)
  refused    (* history: jobs the web service answered with an HTTP error  *)

cameraVars == <<frames, grabbed, pushing>>
tubeVars == <<ready, reserved>>
uploadVars == <<up, job, curl, success>>
history == <<received, unsent, refused>>
vars == <<alive, cameraVars, held, tubeVars, uploadVars, faults, stored, history>>

Init ==
  /\ alive = Camera
  /\ frames = [c \in Camera |-> <<>>]
  /\ grabbed = [c \in Camera |-> 0]
  /\ pushing = [c \in Camera |-> FALSE]
  /\ held = [w \in Worker |-> 0]
  /\ ready = {} /\ reserved = [c \in Camera |-> NoJob]
  /\ up = [c \in Camera |-> "offline"]
  /\ job = [c \in Camera |-> NoJob]
  /\ curl = [c \in Camera |-> FALSE]
  /\ success = [c \in Camera |-> FALSE]
  /\ faults = 0
  /\ stored = {} /\ received = {} /\ unsent = {} /\ refused = {}

-----------------------------------------------------------------------------
(* The capture thread. *)

(* Mutant: frames are queued while others wait. *)
Always(c) == TRUE

RoomFor(c) == frames[c] = <<>>

(* A frame, and framesQueue.empty(); it is dropped when others wait. *)
Grab(c) ==
  /\ c \in alive /\ ~pushing[c] /\ grabbed[c] < MaxFrames[c]
  /\ grabbed' = [grabbed EXCEPT ![c] = @ + 1]
  /\ pushing' = [pushing EXCEPT ![c] = RoomFor(c)]
  /\ UNCHANGED <<alive, frames, held, tubeVars, uploadVars, faults, stored, history>>

PushFrame(c) ==
  /\ c \in alive /\ pushing[c]
  /\ frames' = [frames EXCEPT ![c] = Append(@, grabbed[c])]
  /\ pushing' = [pushing EXCEPT ![c] = FALSE]
  /\ UNCHANGED <<alive, grabbed, held, tubeVars, uploadVars, faults, stored, history>>

-----------------------------------------------------------------------------
(* The analysis threads. *)

PopFrame(w) ==
  LET c == CameraOf[w] IN
  /\ c \in alive /\ held[w] = 0 /\ frames[c] # <<>>
  /\ held' = [held EXCEPT ![w] = Head(frames[c])]
  /\ frames' = [frames EXCEPT ![c] = Tail(@)]
  /\ UNCHANGED <<alive, grabbed, pushing, tubeVars, uploadVars, faults, stored, history>>

(* No plates; or writeToQueue fails, and nobody looks at its result. *)
DropResult(w) ==
  /\ CameraOf[w] \in alive /\ held[w] # 0
  /\ held' = [held EXCEPT ![w] = 0]
  /\ UNCHANGED <<alive, cameraVars, tubeVars, uploadVars, faults, stored, history>>

StoreResult(w) ==
  LET j == <<CameraOf[w], held[w]>> IN
  /\ CameraOf[w] \in alive /\ held[w] # 0
  /\ held' = [held EXCEPT ![w] = 0]
  /\ ready' = ready \union {j}
  /\ stored' = stored \union {j}
  /\ UNCHANGED <<alive, cameraVars, reserved, uploadVars, faults, history>>

-----------------------------------------------------------------------------
(* The upload thread. *)

(* curl_easy_init, whose result is not looked at, and a connection. *)
Connect(c) ==
  /\ c \in alive /\ up[c] = "offline"
  /\ \E handle \in BOOLEAN :
       /\ handle \/ faults < MaxFaults
       /\ curl' = [curl EXCEPT ![c] = handle]
       /\ faults' = IF handle THEN faults ELSE faults + 1
  /\ up' = [up EXCEPT ![c] = "reserve"]
  /\ UNCHANGED <<alive, cameraVars, held, tubeVars, job, success, stored, history>>

Reserve(c) ==
  /\ c \in alive /\ up[c] = "reserve"
  /\ \E j \in ready :
       /\ ready' = ready \ {j}
       /\ reserved' = [reserved EXCEPT ![c] = j]
       /\ job' = [job EXCEPT ![c] = j]
  /\ up' = [up EXCEPT ![c] = "post"]
  /\ UNCHANGED <<alive, cameraVars, held, curl, success, faults, stored, history>>

(* uploadPost: success unless curl_easy_perform fails.  So also when there *)
(* is no handle to perform with; and an HTTP error is no failure to curl   *)
(* as long as CURLOPT_FAILONERROR is not set.                              *)
Post(c) ==
  /\ c \in alive /\ up[c] = "post"
  /\ \/ /\ curl[c]
        /\ \/ received' = received \union {job[c]} /\ UNCHANGED refused
           \/ refused' = refused \union {job[c]} /\ UNCHANGED received
        /\ success' = [success EXCEPT ![c] = TRUE]
        /\ UNCHANGED <<faults, unsent>>
     \/ /\ curl[c] /\ faults < MaxFaults
        /\ received' \in {received, received \union {job[c]}}
        /\ success' = [success EXCEPT ![c] = FALSE]
        /\ faults' = faults + 1
        /\ UNCHANGED <<unsent, refused>>
     \/ /\ ~curl[c]
        /\ unsent' = unsent \union {job[c]}
        /\ success' = [success EXCEPT ![c] = TRUE]
        /\ UNCHANGED <<faults, received, refused>>
  /\ up' = [up EXCEPT ![c] = "settle"]
  /\ UNCHANGED <<alive, cameraVars, held, tubeVars, job, curl, stored>>

(* The job a connection holds goes back to the tube. *)
GivenBack(c) == IF reserved[c] = NoJob THEN {} ELSE {reserved[c]}

(* Mutants: a job is deleted whether or not it was uploaded; a job that    *)
(* was not uploaded is not released.                                       *)
Settled(c) == TRUE
NotReleased(c) == UNCHANGED tubeVars

Uploaded(c) == success[c]

(* client.del and client.release of a job whose reservation has run out    *)
(* have no effect, and their results are not looked at.                    *)
DeleteJob(c) ==
  /\ reserved' = [reserved EXCEPT ![c] = NoJob]
  /\ UNCHANGED ready

ReleaseJob(c) ==
  /\ ready' = ready \union GivenBack(c)
  /\ reserved' = [reserved EXCEPT ![c] = NoJob]

Settle(c) ==
  /\ c \in alive /\ up[c] = "settle"
  /\ \/ Uploaded(c) /\ DeleteJob(c)
     \/ ~Uploaded(c) /\ ReleaseJob(c)
  /\ up' = [up EXCEPT ![c] = "reserve"]
  /\ UNCHANGED <<alive, cameraVars, held, job, curl, success, faults, stored, history>>

(* A runtime_error of the connection, in reserve, del or release: the      *)
(* client is destroyed and the thread connects again.                      *)
Disconnect(c) ==
  /\ c \in alive /\ up[c] \in {"reserve", "settle"} /\ faults < MaxFaults
  /\ ready' = ready \union GivenBack(c)
  /\ reserved' = [reserved EXCEPT ![c] = NoJob]
  /\ up' = [up EXCEPT ![c] = "offline"]
  /\ faults' = faults + 1
  /\ UNCHANGED <<alive, cameraVars, held, job, curl, success, stored, history>>

-----------------------------------------------------------------------------
(* The time to run of a reserved job is over. *)
Expire(c) ==
  /\ reserved[c] # NoJob /\ faults < MaxFaults
  /\ ready' = ready \union GivenBack(c)
  /\ reserved' = [reserved EXCEPT ![c] = NoJob]
  /\ faults' = faults + 1
  /\ UNCHANGED <<alive, cameraVars, held, uploadVars, stored, history>>

(* segfault_handler ends the process; the parent does not start another. *)
Crash(c) ==
  /\ c \in alive /\ faults < MaxFaults
  /\ alive' = alive \ {c}
  /\ ready' = ready \union GivenBack(c)
  /\ reserved' = [reserved EXCEPT ![c] = NoJob]
  /\ faults' = faults + 1
  /\ UNCHANGED <<cameraVars, held, uploadVars, stored, history>>

Capture(c) == Grab(c) \/ PushFrame(c)
Analyse(w) == PopFrame(w) \/ DropResult(w) \/ StoreResult(w)
Upload(c) == Connect(c) \/ Reserve(c) \/ Post(c) \/ Settle(c)
Fault(c) == Disconnect(c) \/ Expire(c) \/ Crash(c)

Next ==
  \/ \E c \in Camera : Capture(c) \/ Upload(c) \/ Fault(c)
  \/ \E w \in Worker : Analyse(w)

(* The upload threads run; an upload is not repeated without a fault. *)
Spec == Init /\ [][Next]_vars /\ \A c \in Camera : WF_vars(Upload(c))

-----------------------------------------------------------------------------
Waiting(c) == {frames[c][i] : i \in 1..Len(frames[c])}

(* Type invariant. *)
TypeOK ==
  /\ alive \subseteq Camera
  /\ frames \in [Camera -> Seq(Nat \ {0})]
  /\ grabbed \in [Camera -> Nat]
  /\ pushing \in [Camera -> BOOLEAN]
  /\ held \in [Worker -> Nat]
  /\ ready \subseteq Job
  /\ reserved \in [Camera -> Job \union {NoJob}]
  /\ up \in [Camera -> {"offline", "reserve", "post", "settle"}]
  /\ job \in [Camera -> Job \union {NoJob}]
  /\ curl \in [Camera -> BOOLEAN] /\ success \in [Camera -> BOOLEAN]
  /\ faults \in Nat
  /\ stored \subseteq Job /\ received \subseteq Job
  /\ unsent \subseteq Job /\ refused \subseteq Job

(* The check of framesQueue and the push are two calls, with other threads *)
(* in between: still one frame waits at most, it is newer than every frame *)
(* that is being analysed, and no frame is analysed twice.                 *)
FreshFrames ==
  \A c \in Camera :
    /\ Len(frames[c]) <= 1
    /\ pushing[c] => frames[c] = <<>>
    /\ \A w \in Worker : CameraOf[w] = c /\ held[w] # 0 =>
         /\ held[w] <= grabbed[c] /\ (pushing[c] => held[w] < grabbed[c])
         /\ \A f \in Waiting(c) : held[w] < f
         /\ \A v \in Worker : CameraOf[v] = c /\ v # w => held[v] # held[w]

(* What waits has been captured. *)
QueueInv ==
  \A c \in Camera :
    /\ pushing[c] => grabbed[c] # 0
    /\ \A f \in Waiting(c) : f <= grabbed[c]

(* What some call of uploadPost has reported as uploaded: taken by the web *)
(* service, or not.                                                        *)
ReportedPosted == received \union unsent \union refused

(* The tube has only what was put there; a connection holds only the job   *)
(* its upload thread is at, and what is to be deleted has been posted.     *)
UploadInv ==
  /\ ready \subseteq stored
  /\ \A c \in Camera :
       /\ reserved[c] # NoJob => reserved[c] = job[c] /\ up[c] \in {"post", "settle"}
       /\ up[c] \in {"post", "settle"} => job[c] \in stored
       /\ up[c] = "settle" /\ success[c] => job[c] \in ReportedPosted

InTube == ready \union {reserved[c] : c \in {d \in Camera : reserved[d] # NoJob}}

(* A result that has been written to the tube stays there until some       *)
(* thread's uploadPost has reported it as uploaded: no lost connection,    *)
(* expired reservation, failing post or crash removes it.  It says no more *)
(* than that: uploadPost also reports posts the web service has refused    *)
(* with an HTTP error, and posts without a curl handle, and these results  *)
(* are lost (refused, unsent).                                             *)
LostOnlyAsReported == stored \subseteq InTube \union ReportedPosted

(* What the proofs use: it is inductive. *)
IInv == TypeOK /\ QueueInv /\ FreshFrames /\ UploadInv /\ LostOnlyAsReported

(* As long as a process lives, every stored result is posted until some    *)
(* post is reported as a success, by another camera's upload thread if     *)
(* need be; none waits in the tube, or in a reservation, for ever.         *)
EveryResultPosted ==
  \A j \in UNION {{c} \X (1..MaxFrames[c]) : c \in Camera} :
    j \in stored ~> j \in ReportedPosted \/ alive = {}
=============================================================================

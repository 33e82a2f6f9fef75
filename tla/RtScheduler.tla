----------------------------- MODULE RtScheduler -----------------------------
(***************************************************************************)
(* The run-time scheduler (test-rt-scheduler.cpp) between its clients and  *)
(* the two servers it feeds, the source (test-source.cpp) and the migrator *)
(* (test-migrate.cpp), all over REQ/REP sockets.                           *)
(*                                                                         *)
(* The scheduler answers a client at once, puts the request in the queue   *)
(* of its type, and then hands ONE request, of the highest priority there  *)
(* is, to its server, waiting for the server's answer.  A server answers   *)
(* before it does the work, so it may be away from its socket for long.    *)
(*                                                                         *)
(* The migrator is both client and server: it asks for its next task, then *)
(* waits for permission to carry out whichever task the scheduler names.   *)
(***************************************************************************)
EXTENDS Naturals, Sequences

CONSTANTS
  Client,    (* the processes that send requests                      *)
  Migrator,  (* the client that is the migrator                       *)
  Type,      (* Type[c]: the type of the requests of client c         *)
  Quota      (* Quota[c]: how many requests c sends                   *)

Types == {"ingestion", "retrieval", "migration"}

ASSUME SchedulerAssumption ==
  /\ Type \in [Client -> Types \union {"other"}]
  /\ Quota \in [Client -> Nat]
  /\ Migrator \in Client /\ Type[Migrator] = "migration"

Server == {"source", "migrator"}
Request == Client \X Nat
NoRequest == <<>>

VARIABLES
  waiting,   (* clients that have sent a request and await the answer     *)
  sent,      (* how many requests each client has sent                    *)
  asked,     (* the migrator has sent a task since it last finished one   *)
  queue,     (* the three queues, by type                                 *)
  sched,     (* where the scheduler is: recv, scan, await                 *)
  inbox,     (* the request a server has been sent and not answered       *)
  work,      (* the request a server has answered and is working on       *)
  answered,  (* the server's answer is on its way to the scheduler        *)
  accepted,  (* history: requests queued, in order                        *)
  started    (* history: requests handed to a server, in order            *)

vars == <<waiting, sent, asked, queue, sched, inbox, work, answered, accepted, started>>
historyVars == <<accepted, started>>

TypeOK ==
  /\ waiting \subseteq Client
  /\ sent \in [Client -> Nat]
  /\ asked \in BOOLEAN
  /\ queue \in [Types -> Seq(Request)]
  /\ sched \in {"recv", "scan", "await"}
  /\ inbox \in [Server -> Request \union {NoRequest}]
  /\ work \in [Server -> Request \union {NoRequest}]
  /\ answered \in BOOLEAN
  /\ accepted \in Seq(Request)
  /\ started \in Seq(Request)

Init ==
  /\ waiting = {}
  /\ sent = [c \in Client |-> 0]
  /\ asked = FALSE
  /\ queue = [t \in Types |-> <<>>]
  /\ sched = "recv"
  /\ inbox = [s \in Server |-> NoRequest]
  /\ work = [s \in Server |-> NoRequest]
  /\ answered = FALSE
  /\ accepted = <<>>
  /\ started = <<>>

-----------------------------------------------------------------------------
(* The clients. *)

(* The migrator sends one task in each round of its loop, before it waits  *)
(* for permission; the other clients are independent of each other.        *)
MayAsk(c) == c = Migrator => ~asked /\ work["migrator"] = NoRequest

SendRequest(c) ==
  /\ c \notin waiting
  /\ sent[c] < Quota[c]
  /\ MayAsk(c)
  /\ waiting' = waiting \union {c}
  /\ sent' = [sent EXCEPT ![c] = @ + 1]
  /\ asked' = (asked \/ c = Migrator)
  /\ UNCHANGED <<queue, sched, inbox, work, answered, historyVars>>

-----------------------------------------------------------------------------
(* The scheduler's loop. *)

Enqueue(r, t) == queue' = [queue EXCEPT ![t] = Append(@, r)]

(* sv_recv.recv, reply, push: the request of any waiting client. *)
Accept(c) ==
  /\ sched = "recv"
  /\ c \in waiting
  /\ waiting' = waiting \ {c}
  /\ sched' = "scan"
  /\ IF Type[c] \in Types
       THEN /\ Enqueue(<<c, sent[c]>>, Type[c])
            /\ accepted' = Append(accepted, <<c, sent[c]>>)
       ELSE UNCHANGED <<queue, accepted>>
  /\ UNCHANGED <<sent, asked, inbox, work, answered, started>>

NonEmpty(t) == queue[t] # <<>>

(* The first queue that is not empty, in the order of the if-chain. *)
Highest(t) ==
  /\ NonEmpty(t)
  /\ t = "retrieval" => ~NonEmpty("ingestion")
  /\ t = "migration" => ~NonEmpty("ingestion") /\ ~NonEmpty("retrieval")

ServerOf(t) == IF t = "migration" THEN "migrator" ELSE "source"

(* rt_send.send or mr_send.send of the front of the highest queue. *)
Dispatch(t) ==
  /\ sched = "scan"
  /\ Highest(t)
  /\ inbox' = [inbox EXCEPT ![ServerOf(t)] = Head(queue[t])]
  /\ started' = Append(started, Head(queue[t]))
  /\ sched' = "await"
  /\ UNCHANGED <<waiting, sent, asked, queue, work, answered, accepted>>

(* Mutant: the loop may go on although a queue is not empty. *)
ScanSkipped ==
  /\ sched = "scan"
  /\ ~NonEmpty("migration")
  /\ sched' = "recv"
  /\ UNCHANGED <<waiting, sent, asked, queue, inbox, work, answered, historyVars>>

(* All queues are empty: a request of no known type was answered. *)
ScanNothing ==
  /\ sched = "scan"
  /\ \A t \in Types : ~NonEmpty(t)
  /\ sched' = "recv"
  /\ UNCHANGED <<waiting, sent, asked, queue, inbox, work, answered, historyVars>>

(* Mutant: the request stays in its queue. *)
PopNothing(t) == UNCHANGED queue

Pop(t) == queue' = [queue EXCEPT ![t] = Tail(@)]

(* rt_send.recv or mr_send.recv returns, and the request is popped. *)
FinishDispatch(t) ==
  /\ sched = "await"
  /\ answered
  /\ Highest(t)
  /\ Pop(t)
  /\ answered' = FALSE
  /\ sched' = "recv"
  /\ UNCHANGED <<waiting, sent, asked, inbox, work, historyVars>>

-----------------------------------------------------------------------------
(* The servers: recv and reply first, then the work. *)

(* The migrator is at its socket once its task, if it has one left, has    *)
(* been sent and answered.                                                 *)
AtSocket(s) ==
  /\ work[s] = NoRequest
  /\ s = "migrator" => /\ Migrator \notin waiting
                       /\ asked \/ sent[Migrator] = Quota[Migrator]

AnswerScheduler(s) ==
  /\ inbox[s] # NoRequest
  /\ AtSocket(s)
  /\ work' = [work EXCEPT ![s] = inbox[s]]
  /\ inbox' = [inbox EXCEPT ![s] = NoRequest]
  /\ answered' = TRUE
  /\ UNCHANGED <<waiting, sent, asked, queue, sched, historyVars>>

FinishWork(s) ==
  /\ work[s] # NoRequest
  /\ work' = [work EXCEPT ![s] = NoRequest]
  /\ asked' = (asked /\ s # "migrator")
  /\ UNCHANGED <<waiting, sent, queue, sched, inbox, answered, historyVars>>

Scheduler ==
  \/ \E c \in Client : Accept(c)
  \/ \E t \in Types : Dispatch(t) \/ FinishDispatch(t)
  \/ ScanNothing

Servers == \E s \in Server : AnswerScheduler(s) \/ FinishWork(s)

(* Everyone waits for a message: no request is on its way or at work. *)
Idle ==
  /\ waiting = {} /\ sched = "recv"
  /\ \A c \in Client \ {Migrator} : sent[c] = Quota[c]
  /\ \A s \in Server : inbox[s] = NoRequest /\ work[s] = NoRequest
  /\ UNCHANGED vars

Next == (\E c \in Client : SendRequest(c)) \/ Scheduler \/ Servers \/ Idle

(* The REP socket takes from its clients in turn (fair queuing), and a     *)
(* server always finishes its work.                                        *)
Fairness ==
  /\ WF_vars(Scheduler)
  /\ \A c \in Client : SF_vars(Accept(c))
  /\ \A s \in Server : WF_vars(AnswerScheduler(s)) /\ WF_vars(FinishWork(s))

Spec == Init /\ [][Next]_vars /\ Fairness

-----------------------------------------------------------------------------
(* One request is pushed and one dispatched in each round of the loop, so  *)
(* the three queues never hold more than one request between them: the     *)
(* priority scan never has a choice to make.                               *)
QueuesNeverCompete ==
  /\ \A t \in Types : Len(queue[t]) \in {0, 1}
  /\ \A t, u \in Types : NonEmpty(t) /\ NonEmpty(u) => t = u
  /\ sched = "recv" => \A t \in Types : ~NonEmpty(t)

(* The inductive invariant: the queues hold the one request the scheduler  *)
(* is busy with, which is the last one accepted.                           *)
QueuesEmpty == \A t \in Types : queue[t] = <<>>
OnlyIn(t) ==
  /\ Len(queue[t]) = 1
  /\ \A u \in Types \ {t} : queue[u] = <<>>

FlowInv ==
  /\ sched = "recv" => QueuesEmpty /\ started = accepted
  /\ sched = "scan" =>
       \/ QueuesEmpty /\ started = accepted
       \/ \E t \in Types : OnlyIn(t) /\ accepted = Append(started, Head(queue[t]))
  /\ sched = "await" => (\E t \in Types : OnlyIn(t)) /\ started = accepted

IInv == TypeOK /\ FlowInv

(* Whatever their types, requests are carried out in the order in which    *)
(* the scheduler accepted them, each exactly once.                         *)
Fifo == INSTANCE FifoServer
ImplementsFifo == Fifo!FifoSpec

(* Every request of a known type is handed to its server, as long as the   *)
(* servers finish their work.                                              *)
RequestsServed ==
  \A c \in Client : Type[c] \in Types =>
    (c \in waiting) ~> (\E i \in 1..Len(started) : started[i] = <<c, sent[c]>>)
=============================================================================

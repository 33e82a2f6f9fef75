------------------------- MODULE RtScheduler_proofs -------------------------
(***************************************************************************)
(* Proofs about RtScheduler, for any clients, types and quotas.            *)
(***************************************************************************)
EXTENDS RtScheduler, SequenceTheorems, TLAPS

LEMMA InitInv == Init => TypeOK /\ FlowInv
<1> SUFFICES ASSUME Init PROVE TypeOK /\ FlowInv
  OBVIOUS
<1>1. <<>> \in Seq(Request)
  OBVIOUS
<1>2. TypeOK
  BY <1>1 DEF Init, TypeOK
<1>3. FlowInv
  BY DEF Init, FlowInv, QueuesEmpty
<1> QED
  BY <1>2, <1>3

(* A request is a pair, so it is never the empty inbox. *)
LEMMA RequestNotEmpty == NoRequest \notin Request
BY DEF NoRequest, Request

(* What is left of a sequence of one element. *)
LEMMA TailOfOne ==
  ASSUME NEW S, NEW q \in Seq(S), Len(q) = 1
  PROVE  Tail(q) = <<>>
<1>1. Tail(q) \in Seq(S) /\ Len(Tail(q)) = 0
  OBVIOUS
<1>2. QED
  BY <1>1, EmptySeq

LEMMA StepTypeOK == TypeOK /\ [Next]_vars => TypeOK'
<1> SUFFICES ASSUME TypeOK, [Next]_vars PROVE TypeOK'
  OBVIOUS
<1> USE DEF TypeOK, historyVars
<1>1. ASSUME NEW c \in Client, SendRequest(c) PROVE TypeOK'
  BY <1>1 DEF SendRequest
<1>2. ASSUME NEW c \in Client, Accept(c) PROVE TypeOK'
  <2>1. <<c, sent[c]>> \in Request
    BY DEF Request
  <2>2. CASE Type[c] \in Types
    <3>1. /\ queue' = [queue EXCEPT ![Type[c]] = Append(@, <<c, sent[c]>>)]
          /\ accepted' = Append(accepted, <<c, sent[c]>>)
      BY <1>2, <2>2 DEF Accept, Enqueue
    <3>2. queue' \in [Types -> Seq(Request)] /\ accepted' \in Seq(Request)
      BY <2>1, <2>2, <3>1
    <3>3. QED
      BY <1>2, <3>2 DEF Accept
  <2>3. CASE Type[c] \notin Types
    BY <1>2, <2>3 DEF Accept
  <2>4. QED
    BY <2>2, <2>3
<1>3. ASSUME NEW t \in Types, Dispatch(t) PROVE TypeOK'
  <2>1. Head(queue[t]) \in Request
    BY <1>3 DEF Dispatch, Highest, NonEmpty
  <2>2. ServerOf(t) \in Server
    BY DEF ServerOf, Server
  <2>3. QED
    BY <1>3, <2>1, <2>2 DEF Dispatch
<1>4. ASSUME NEW t \in Types, FinishDispatch(t) PROVE TypeOK'
  <2>1. Tail(queue[t]) \in Seq(Request)
    BY <1>4 DEF FinishDispatch, Highest, NonEmpty
  <2>2. QED
    BY <1>4, <2>1 DEF FinishDispatch, Pop
<1>5. CASE ScanNothing
  BY <1>5 DEF ScanNothing
<1>6. ASSUME NEW s \in Server, AnswerScheduler(s) PROVE TypeOK'
  BY <1>6 DEF AnswerScheduler
<1>7. ASSUME NEW s \in Server, FinishWork(s) PROVE TypeOK'
  BY <1>7 DEF FinishWork
<1>8. CASE UNCHANGED vars
  BY <1>8 DEF vars
<1> QED
  BY <1>1, <1>2, <1>3, <1>4, <1>5, <1>6, <1>7, <1>8 DEF Next, Scheduler, Servers, Idle

(* Only one queue is not empty, so it is the highest. *)
LEMMA HighestIsQueued ==
  ASSUME NEW t \in Types, OnlyIn(t), NEW u \in Types, NonEmpty(u)
  PROVE  u = t
BY DEF OnlyIn, NonEmpty

LEMMA StepFlow == TypeOK /\ FlowInv /\ [Next]_vars => FlowInv'
<1> SUFFICES ASSUME TypeOK, FlowInv, [Next]_vars PROVE FlowInv'
  OBVIOUS
<1>1. ASSUME UNCHANGED <<queue, sched, accepted, started>> PROVE FlowInv'
  BY <1>1 DEF FlowInv, QueuesEmpty, OnlyIn
<1>2. ASSUME NEW c \in Client, Accept(c) PROVE FlowInv'
  <2>1. QueuesEmpty /\ started = accepted /\ sched' = "scan" /\ started' = started
    BY <1>2 DEF Accept, FlowInv
  <2>2. CASE Type[c] \in Types
    <3>1. PICK r \in Request : r = <<c, sent[c]>>
      BY DEF Request, TypeOK
    <3>2. PICK t \in Types : t = Type[c]
      BY <2>2
    <3>3. queue' = [queue EXCEPT ![t] = Append(@, r)] /\ accepted' = Append(accepted, r)
      BY <1>2, <2>2, <3>1, <3>2 DEF Accept, Enqueue
    <3>4. queue'[t] = <<r>> /\ \A u \in Types \ {t} : queue'[u] = <<>>
      <4>1. queue[t] = <<>> /\ Append(<<>>, r) = <<r>>
        BY <2>1 DEF QueuesEmpty
      <4>2. QED
        BY <2>1, <3>3, <4>1 DEF QueuesEmpty, TypeOK
    <3>5. Head(queue'[t]) = r
      BY <3>4
    <3>6. OnlyIn(t)'
      BY <3>4, <3>5 DEF OnlyIn
    <3>7. accepted' = Append(started', Head(queue'[t]))
      BY <2>1, <3>3, <3>5
    <3>8. QED
      BY <2>1, <3>6, <3>7 DEF FlowInv
  <2>3. CASE Type[c] \notin Types
    <3>1. UNCHANGED <<queue, accepted>>
      BY <1>2, <2>3 DEF Accept
    <3>2. QED
      BY <2>1, <3>1 DEF FlowInv, QueuesEmpty
  <2>4. QED
    BY <2>2, <2>3
<1>3. ASSUME NEW t \in Types, Dispatch(t) PROVE FlowInv'
  <2>1. NonEmpty(t) /\ sched = "scan"
    BY <1>3 DEF Dispatch, Highest
  <2>2. PICK u \in Types : OnlyIn(u) /\ accepted = Append(started, Head(queue[u]))
    BY <2>1 DEF FlowInv, QueuesEmpty, NonEmpty
  <2>3. t = u
    BY <2>1, <2>2, HighestIsQueued
  <2>4. started' = accepted /\ accepted' = accepted /\ queue' = queue /\ sched' = "await"
    BY <1>3, <2>2, <2>3 DEF Dispatch
  <2>5. OnlyIn(u)'
    BY <2>2, <2>4 DEF OnlyIn
  <2>6. QED
    BY <2>4, <2>5 DEF FlowInv
<1>4. ASSUME NEW t \in Types, FinishDispatch(t) PROVE FlowInv'
  <2>1. NonEmpty(t) /\ sched = "await" /\ UNCHANGED <<accepted, started>> /\ sched' = "recv"
    BY <1>4 DEF FinishDispatch, Highest, historyVars
  <2>2. PICK u \in Types : OnlyIn(u) /\ started = accepted
    BY <2>1 DEF FlowInv
  <2>3. t = u
    BY <2>1, <2>2, HighestIsQueued
  <2>4. queue' = [queue EXCEPT ![t] = Tail(@)]
    BY <1>4 DEF FinishDispatch, Pop
  <2>5. QueuesEmpty'
    <3>1. Len(queue[t]) = 1 /\ \A v \in Types \ {t} : queue[v] = <<>>
      BY <2>2, <2>3 DEF OnlyIn
    <3>2. Tail(queue[t]) = <<>>
      BY <3>1, TailOfOne DEF TypeOK
    <3>3. QED
      BY <2>4, <3>1, <3>2 DEF QueuesEmpty, TypeOK
  <2>6. QED
    BY <2>1, <2>2, <2>5 DEF FlowInv
<1>5. CASE ScanNothing
  <2>1. QueuesEmpty /\ sched = "scan" /\ sched' = "recv" /\ UNCHANGED <<queue, accepted, started>>
    BY <1>5 DEF ScanNothing, NonEmpty, QueuesEmpty, historyVars
  <2>2. \A t \in Types : ~OnlyIn(t)
    BY <2>1 DEF OnlyIn, QueuesEmpty
  <2>3. started = accepted
    BY <2>1, <2>2 DEF FlowInv
  <2>4. QED
    BY <2>1, <2>3 DEF FlowInv, QueuesEmpty
<1>6. ASSUME NEW c \in Client, SendRequest(c) PROVE FlowInv'
  BY <1>1, <1>6 DEF SendRequest, historyVars
<1>7. ASSUME NEW s \in Server, AnswerScheduler(s) \/ FinishWork(s) PROVE FlowInv'
  BY <1>1, <1>7 DEF AnswerScheduler, FinishWork, historyVars
<1>8. CASE UNCHANGED vars
  BY <1>1, <1>8 DEF vars
<1> QED
  BY <1>2, <1>3, <1>4, <1>5, <1>6, <1>7, <1>8 DEF Next, Scheduler, Servers, Idle

(* The invariant behind the two theorems below. *)
THEOREM InductiveInvariant == Spec => []IInv
<1>1. TypeOK /\ FlowInv /\ [Next]_vars => (TypeOK /\ FlowInv)'
  BY StepTypeOK, StepFlow
<1> QED
  BY InitInv, <1>1, PTL DEF Spec, IInv

(* The three queues never hold more than one request between them, so the  *)
(* priority scan of test-rt-scheduler.cpp never has a choice to make.      *)
THEOREM QueuesNeverCompeteThm == Spec => []QueuesNeverCompete
<1>1. TypeOK /\ FlowInv => QueuesNeverCompete
  <2> SUFFICES ASSUME TypeOK, FlowInv PROVE QueuesNeverCompete
    OBVIOUS
  <2>1. QueuesEmpty => QueuesNeverCompete
    BY DEF QueuesEmpty, QueuesNeverCompete, NonEmpty
  <2>2. ASSUME NEW t \in Types, OnlyIn(t), sched # "recv" PROVE QueuesNeverCompete
    <3>1. Len(queue[t]) = 1 /\ \A u \in Types \ {t} : Len(queue[u]) = 0
      BY <2>2 DEF OnlyIn
    <3>2. \A u \in Types : Len(queue[u]) \in {0, 1}
      BY <3>1, Zenon
    <3>3. QED
      BY <2>2, <3>2, HighestIsQueued DEF QueuesNeverCompete
  <2>3. sched \in {"recv", "scan", "await"}
    BY DEF TypeOK
  <2>4. QED
    BY <2>1, <2>2, <2>3 DEF FlowInv
<1> QED
  BY InductiveInvariant, <1>1, PTL DEF IInv

(* The scheduler is a FIFO server: requests are started in the order they  *)
(* were accepted, whatever their types, each once.                         *)
THEOREM FifoRefinement == Spec => ImplementsFifo
<1>1. Init => Fifo!FifoInit
  BY DEF Init, Fifo!FifoInit
<1>2. TypeOK /\ FlowInv /\ [Next]_vars
        => [Fifo!AcceptOne \/ Fifo!StartNext]_(Fifo!fifoVars)
  <2> SUFFICES ASSUME TypeOK, FlowInv, [Next]_vars
               PROVE  Fifo!AcceptOne \/ Fifo!StartNext \/ UNCHANGED Fifo!fifoVars
    OBVIOUS
  <2>1. ASSUME NEW c \in Client, Accept(c)
        PROVE  Fifo!AcceptOne \/ UNCHANGED Fifo!fifoVars
    <3>1. CASE Type[c] \in Types
      <4>1. <<c, sent[c]>> \in Request /\ accepted \in Seq(Request)
        BY DEF Request, TypeOK
      <4>2. accepted' = Append(accepted, <<c, sent[c]>>) /\ started' = started
        BY <2>1, <3>1 DEF Accept
      <4>3. /\ accepted' \in Seq(Request) /\ Len(accepted') = Len(accepted) + 1
            /\ accepted = SubSeq(accepted', 1, Len(accepted))
        BY <4>1, <4>2
      <4>4. QED
        BY <4>2, <4>3 DEF Fifo!AcceptOne
    <3>2. CASE Type[c] \notin Types
      BY <2>1, <3>2 DEF Accept, Fifo!fifoVars
    <3>3. QED
      BY <3>1, <3>2
  <2>2. ASSUME NEW t \in Types, Dispatch(t) PROVE Fifo!StartNext
    <3>1. NonEmpty(t) /\ sched = "scan"
      BY <2>2 DEF Dispatch, Highest
    <3>2. PICK u \in Types : OnlyIn(u) /\ accepted = Append(started, Head(queue[u]))
      BY <3>1 DEF FlowInv, QueuesEmpty, NonEmpty
    <3>3. t = u
      BY <3>1, <3>2, HighestIsQueued
    <3>4. Len(started) < Len(accepted) /\ accepted[Len(started) + 1] = Head(queue[u])
      BY <3>2 DEF TypeOK
    <3>5. QED
      BY <2>2, <3>3, <3>4 DEF Dispatch, Fifo!StartNext
  <2>3. ASSUME UNCHANGED <<accepted, started>> PROVE UNCHANGED Fifo!fifoVars
    BY <2>3 DEF Fifo!fifoVars
  <2>4. ASSUME NEW c \in Client, SendRequest(c) PROVE UNCHANGED <<accepted, started>>
    BY <2>4 DEF SendRequest, historyVars
  <2>5. ASSUME NEW s \in Server, AnswerScheduler(s) \/ FinishWork(s)
        PROVE  UNCHANGED <<accepted, started>>
    BY <2>5 DEF AnswerScheduler, FinishWork, historyVars
  <2>6. ASSUME NEW t \in Types, ScanNothing \/ FinishDispatch(t)
        PROVE  UNCHANGED <<accepted, started>>
    BY <2>6 DEF ScanNothing, FinishDispatch, historyVars
  <2>7. CASE UNCHANGED vars
    BY <2>7, <2>3 DEF vars
  <2>8. ScanNothing => UNCHANGED <<accepted, started>>
    BY DEF ScanNothing, historyVars
  <2> QED
    BY <2>1, <2>2, <2>3, <2>4, <2>5, <2>6, <2>7, <2>8 DEF Next, Scheduler, Servers, Idle
<1> QED
  BY InductiveInvariant, <1>1, <1>2, PTL DEF IInv, Spec, ImplementsFifo, Fifo!FifoSpec
=============================================================================

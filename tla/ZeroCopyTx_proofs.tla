-------------------------- MODULE ZeroCopyTx_proofs --------------------------
(***************************************************************************)
(* Proofs about ZeroCopyTx, for every database, request, CHUNK_SIZE and    *)
(* high-water mark.                                                        *)
(***************************************************************************)
EXTENDS ZeroCopyTx, TLAPS

-----------------------------------------------------------------------------
(* A message built by the sender is a message. *)
LEMMA DataMsgType ==
  ASSUME TypeOK, NEW k \in Nat
  PROVE  DataMsg(k) \in Message /\ DataMsg(k).kind = "data"
<1>1. cnt \in Nat
  BY DEF TypeOK
<1>2. Deferred \in BOOLEAN /\ MoreFollows \in BOOLEAN
  BY DEF Deferred, SingleFrame, MultiPart, MoreFollows
<1> QED
  BY <1>1, <1>2 DEF DataMsg, MoreFollows, Message

LEMMA EofMsgType ==
  ASSUME TypeOK
  PROVE  EofMsg \in Message /\ EofMsg.kind = "eof"
BY DEF EofMsg, Message, TypeOK

(* Appending keeps what was there and adds one element at the end. *)
LEMMA AppendFacts ==
  ASSUME NEW S, NEW s \in Seq(S), NEW e \in S
  PROVE  /\ Append(s, e) \in Seq(S)
         /\ Len(Append(s, e)) = Len(s) + 1
         /\ \A i \in 1..Len(s) : Append(s, e)[i] = s[i]
         /\ Append(s, e)[Len(s) + 1] = e
OBVIOUS

(* The shape of a request is fixed for the whole call. *)
LEMMA ShapeFixed ==
  ASSUME UNCHANGED req
  PROVE  Deferred' = Deferred
BY DEF Deferred, SingleFrame, MultiPart

LEMMA InitIInv == Init => IInv
<1> SUFFICES ASSUME Init PROVE IInv
  OBVIOUS
<1>1. TypeOK
  BY DbAssumption DEF Init, TypeOK
<1>2. Len(msgs) = 0 /\ msgs = <<>>
  BY DEF Init
<1> QED
  BY <1>1, <1>2 DEF Init, IInv, MsgsInv, FreeInv, CountInv, OwnerInv, Bumped

LEMMA StepIInv == IInv /\ [Next]_vars => IInv'
<1> SUFFICES ASSUME IInv, [Next]_vars PROVE IInv'
  OBVIOUS
<1> USE DEF IInv
<1>0. Len(msgs) \in Nat /\ cnt \in Nat /\ Len(Db) \in Nat
  BY DbAssumption DEF TypeOK
<1>1. CASE BeginTxn
  <2>1. TypeOK'
    BY <1>1, <1>0 DEF BeginTxn, TypeOK, ioVars
  <2>2. Deferred' = Deferred
    BY <1>1, ShapeFixed DEF BeginTxn
  <2> QED
    BY <1>1, <1>0, <2>1, <2>2
    DEF BeginTxn, TypeOK, MsgsInv, FreeInv, CountInv, OwnerInv, Bumped, ioVars
<1>2. CASE SkipRecord
  <2>1. TypeOK'
    BY <1>2, <1>0 DEF SkipRecord, TypeOK, ioVars, sharedVars
  <2>2. Deferred' = Deferred
    BY <1>2, ShapeFixed DEF SkipRecord
  <2> QED
    BY <1>2, <1>0, <2>1, <2>2
    DEF SkipRecord, TypeOK, MsgsInv, FreeInv, CountInv, OwnerInv, Bumped, ioVars, sharedVars
<1>3. CASE SendRecord
  <2> DEFINE m == DataMsg(Db[pos + 1])
  <2>1. pos + 1 \in 1..Len(Db) /\ Db[pos + 1] \in Nat
    BY <1>3, <1>0, DbAssumption DEF SendRecord, TypeOK
  <2>2. m \in Message /\ m.kind = "data"
    BY <2>1, DataMsgType
  <2> HIDE DEF m
  <2>3. msgs \in Seq(Message) /\ msgs' = Append(msgs, m)
    BY <1>3 DEF SendRecord, TypeOK, m
  <2>4. /\ msgs' \in Seq(Message)
        /\ Len(msgs') = Len(msgs) + 1
        /\ \A i \in 1..Len(msgs) : msgs'[i] = msgs[i]
        /\ msgs'[Len(msgs) + 1] = m
    BY <2>2, <2>3, AppendFacts
  <2>5. TypeOK'
    BY <1>3, <1>0, <2>4 DEF SendRecord, TypeOK, ioVars, sharedVars
  <2>6. Deferred' = Deferred
    BY <1>3, ShapeFixed DEF SendRecord
  <2>7. MsgsInv'
    BY <1>3, <1>0, <2>2, <2>4 DEF SendRecord, MsgsInv, TypeOK
  <2>8. FreeInv' /\ CountInv' /\ OwnerInv'
    BY <1>3, <1>0, <2>6
    DEF SendRecord, TypeOK, MsgsInv, FreeInv, CountInv, OwnerInv, Bumped, ioVars, sharedVars
  <2> QED
    BY <2>5, <2>7, <2>8
<1>4. CASE EndOfRange
  <2>1. TypeOK'
    BY <1>4, <1>0 DEF EndOfRange, TypeOK, ioVars, sharedVars
  <2>2. Deferred' = Deferred
    BY <1>4, ShapeFixed DEF EndOfRange
  <2> QED
    BY <1>4, <1>0, <2>1, <2>2
    DEF EndOfRange, TypeOK, MsgsInv, FreeInv, CountInv, OwnerInv, Bumped, ioVars, sharedVars
<1>5. CASE AbortEarly
  <2>1. TypeOK'
    BY <1>5, <1>0 DEF AbortEarly, AbortTxn, TypeOK, ioVars
  <2>2. Deferred' = Deferred
    BY <1>5, ShapeFixed DEF AbortEarly
  <2> QED
    BY <1>5, <1>0, <2>1, <2>2
    DEF AbortEarly, AbortTxn, TypeOK, MsgsInv, FreeInv, CountInv, OwnerInv, Bumped, ioVars
<1>6. CASE SendEof
  <2>1. Deferred' = Deferred
    BY <1>6, ShapeFixed DEF SendEof
  <2>2. CASE req.fn = "multi"
    <3>1. EofMsg \in Message /\ EofMsg.kind = "eof"
      BY EofMsgType
    <3>2. msgs \in Seq(Message) /\ msgs' = Append(msgs, EofMsg)
      BY <1>6, <2>2 DEF SendEof, TypeOK
    <3>3. /\ msgs' \in Seq(Message)
          /\ Len(msgs') = Len(msgs) + 1
          /\ \A i \in 1..Len(msgs) : msgs'[i] = msgs[i]
          /\ msgs'[Len(msgs) + 1] = EofMsg
      BY <3>1, <3>2, AppendFacts
    <3>4. TypeOK'
      BY <1>6, <1>0, <3>3 DEF SendEof, TypeOK, ioVars, sharedVars
    <3>5. MsgsInv'
      BY <1>6, <1>0, <3>1, <3>3 DEF SendEof, MsgsInv
    <3>6. FreeInv' /\ CountInv' /\ OwnerInv'
      BY <1>6, <1>0, <2>1
      DEF SendEof, TypeOK, MsgsInv, FreeInv, CountInv, OwnerInv, Bumped, ioVars, sharedVars
    <3> QED
      BY <3>4, <3>5, <3>6
  <2>3. CASE req.fn # "multi"
    <3>1. UNCHANGED msgs
      BY <1>6, <2>3 DEF SendEof
    <3>2. TypeOK'
      BY <1>6, <1>0, <3>1 DEF SendEof, TypeOK, ioVars, sharedVars
    <3> QED
      BY <1>6, <1>0, <2>1, <3>1, <3>2
      DEF SendEof, TypeOK, MsgsInv, FreeInv, CountInv, OwnerInv, Bumped, ioVars, sharedVars
  <2> QED
    BY <2>2, <2>3
<1>7. CASE BumpRefcnt
  <2>1. TypeOK'
    BY <1>7, <1>0 DEF BumpRefcnt, TypeOK, ioVars
  <2>2. Deferred' = Deferred
    BY <1>7, ShapeFixed DEF BumpRefcnt
  <2>3. freed \in Nat /\ freed <= cnt /\ refcnt = -freed /\ Deferred
    BY <1>7, <1>0 DEF BumpRefcnt, TypeOK, FreeInv, CountInv, OwnerInv, Bumped
  <2>4. pc' = (IF freed = cnt THEN "close" ELSE "done")
    BY <1>7, <1>0, <2>3 DEF BumpRefcnt, AllBack
  <2>5. refcnt' = cnt - freed
    BY <1>7, <1>0, <2>3 DEF BumpRefcnt
  <2>6. MsgsInv' /\ FreeInv'
    BY <1>7, <2>4 DEF BumpRefcnt, MsgsInv, FreeInv, ioVars
  <2>7. CountInv'
    BY <1>7, <2>2, <2>3, <2>4, <2>5 DEF BumpRefcnt, CountInv, Bumped, ioVars
  <2>8. OwnerInv'
    BY <1>7, <2>2, <2>3, <2>4 DEF BumpRefcnt, OwnerInv, ioVars
  <2> QED
    BY <2>1, <2>6, <2>7, <2>8
<1>8. CASE SenderClose
  <2>1. TypeOK'
    BY <1>8, <1>0 DEF SenderClose, AbortTxn, TypeOK, ioVars
  <2>2. Deferred' = Deferred
    BY <1>8, ShapeFixed DEF SenderClose
  <2> QED
    BY <1>8, <1>0, <2>1, <2>2
    DEF SenderClose, AbortTxn, TypeOK, MsgsInv, FreeInv, CountInv, OwnerInv, Bumped, ioVars
<1>9. CASE Transmit
  <2>1. TypeOK'
    <3>1. tx' \in 0..Len(msgs) /\ tx + 1 \in 1..Len(msgs)
      BY <1>9, <1>0 DEF Transmit, TypeOK
    <3>2. io' \in {"idle", "free", "close"}
      BY <1>9 DEF Transmit, TypeOK
    <3>3. stale' \subseteq 1..Len(msgs)
      BY <1>9, <3>1 DEF Transmit, TypeOK
    <3> QED
      BY <1>9, <3>1, <3>2, <3>3 DEF Transmit, TypeOK, sharedVars
  <2>2. Deferred' = Deferred
    BY <1>9, ShapeFixed DEF Transmit
  <2>3. tx + 1 \in 1..Len(msgs) /\ tx \in Nat /\ freed \in Nat
    BY <1>9, <1>0 DEF Transmit, TypeOK
  <2>4. msgs[tx + 1].kind = "data" <=> tx + 1 <= cnt
    BY <2>3 DEF MsgsInv
  <2>5. MsgsInv' /\ CountInv'
    BY <1>9, <2>2 DEF Transmit, MsgsInv, CountInv, Bumped, sharedVars
  <2>6. FreeInv'
    BY <1>9, <1>0, <2>3, <2>4 DEF Transmit, FreeInv
  <2>7. OwnerInv'
    <3>1. io' # "close" /\ io # "close" /\ pc # "begin"
      BY <1>9, <1>0, <2>3 DEF Transmit, MsgsInv, CountInv
    <3> QED
      BY <1>9, <2>2, <3>1 DEF Transmit, OwnerInv, sharedVars
  <2> QED
    BY <2>1, <2>5, <2>6, <2>7
<1>10. CASE MyFree
  <2>1. TypeOK'
    BY <1>10, <1>0 DEF MyFree, TypeOK
  <2>2. Deferred' = Deferred
    BY <1>10, ShapeFixed DEF MyFree
  <2>3. freed \in Nat /\ tx \in Nat /\ refcnt \in Int /\ freed < cnt /\ tx = freed + 1
    BY <1>10, <1>0 DEF MyFree, TypeOK, FreeInv
  <2>4. refcnt = 1 <=> Bumped /\ freed + 1 = cnt
    BY <1>0, <2>3 DEF CountInv
  <2>5. MsgsInv'
    BY <1>10 DEF MyFree, MsgsInv
  <2>6. FreeInv'
    BY <1>10, <1>0, <2>3 DEF MyFree, FreeInv
  <2>7. CountInv'
    BY <1>10, <1>0, <2>2, <2>3 DEF MyFree, CountInv, Bumped
  <2>8. OwnerInv'
    BY <1>10, <1>0, <2>2, <2>3, <2>4 DEF MyFree, LastReference, OwnerInv, Bumped, TypeOK
  <2> QED
    BY <2>1, <2>5, <2>6, <2>7, <2>8
<1>11. CASE IoClose
  <2>1. TypeOK'
    BY <1>11, <1>0 DEF IoClose, AbortTxn, TypeOK
  <2>2. Deferred' = Deferred
    BY <1>11, ShapeFixed DEF IoClose
  <2>3. pc = "done" /\ Deferred /\ freed = cnt
    BY <1>11, <1>0 DEF IoClose, OwnerInv, TypeOK, FreeInv
  <2> QED
    BY <1>11, <1>0, <2>1, <2>2, <2>3
    DEF IoClose, AbortTxn, TypeOK, MsgsInv, FreeInv, CountInv, OwnerInv, Bumped
<1>12. CASE Terminated \/ UNCHANGED vars
  <2>1. UNCHANGED vars
    BY <1>12 DEF Terminated
  <2>2. Deferred' = Deferred
    BY <2>1, ShapeFixed DEF vars
  <2> QED
    BY <2>1, <2>2
    DEF vars, TypeOK, MsgsInv, FreeInv, CountInv, OwnerInv, Bumped
<1> QED
  BY <1>1, <1>2, <1>3, <1>4, <1>5, <1>6, <1>7, <1>8, <1>9, <1>10, <1>11, <1>12
  DEF Next, Sender, IoThread

-----------------------------------------------------------------------------
(* The inductive invariant holds of every behaviour of a send call racing  *)
(* with the I/O thread.                                                    *)
THEOREM InductiveInvariant == Spec => []IInv
<1>1. Init => IInv
  BY InitIInv
<1>2. IInv /\ [Next]_vars => IInv'
  BY StepIInv
<1> QED
  BY <1>1, <1>2, PTL DEF Spec

(* Type correctness of the call's state. *)
THEOREM TypeCorrect == Spec => []TypeOK
<1>1. IInv => TypeOK
  BY DEF IInv
<1> QED
  BY <1>1, InductiveInvariant, PTL

(* No message pointing into the database outlives the transaction of a     *)
(* deferred send.                                                          *)
THEOREM NoDanglingThm == Spec => []NoDanglingMessage
<1>1. IInv => NoDanglingMessage
  BY DEF IInv, TypeOK, OwnerInv, NoDanglingMessage
<1> QED
  BY <1>1, InductiveInvariant, PTL

(* Exactly one of the sender and the last my_free closes the transaction.  *)
THEOREM ClosedOnceThm == Spec => []ClosedOnce
<1>1. IInv => ClosedOnce
  <2> SUFFICES ASSUME IInv PROVE txn # "twice"
    BY DEF ClosedOnce
  <2>1. freed \in Nat /\ cnt \in Nat /\ freed <= cnt
    <3>1. tx \in Nat
      BY DEF IInv, TypeOK
    <3> QED
      BY <3>1 DEF IInv, TypeOK, FreeInv
  <2> QED
    BY <2>1 DEF IInv, TypeOK, OwnerInv
<1> QED
  BY <1>1, InductiveInvariant, PTL

(* The hint is never used after delete, and the assertion after fetch_add  *)
(* never fires.                                                            *)
THEOREM HintLiveThm == Spec => []HintLiveWhileUsed
<1>1. IInv => HintLiveWhileUsed
  <2> SUFFICES ASSUME IInv, io # "idle" PROVE hint = "live"
    BY DEF IInv, OwnerInv, HintLiveWhileUsed
  <2>1. tx \in Nat /\ freed \in Nat /\ cnt \in Nat /\ freed <= cnt
    <3>1. tx \in Nat
      BY DEF IInv, TypeOK
    <3> QED
      BY <3>1 DEF IInv, TypeOK, FreeInv
  <2>2. io = "free" => freed < cnt
    BY <2>1 DEF IInv, FreeInv
  <2> QED
    BY <2>1, <2>2 DEF IInv, TypeOK, OwnerInv
<1> QED
  BY <1>1, InductiveInvariant, PTL

-----------------------------------------------------------------------------
LEMMA FreedBound ==
  ASSUME IInv
  PROVE  freed \in Nat /\ cnt \in Nat /\ freed <= cnt /\ cnt <= Len(Db) /\ pos \in Nat
<1>1. tx \in Nat /\ Len(Db) \in Nat
  BY DbAssumption DEF IInv, TypeOK
<1> QED
  BY <1>1 DEF IInv, TypeOK, FreeInv, MsgsInv

LEMMA LeaseInitStep == Init => Lease!LeaseInit
<1> SUFFICES ASSUME Init PROVE Lease!LeaseInit
  OBVIOUS
<1>1. Lent = {}
  BY DEF Init, Lent
<1> QED
  BY <1>1 DEF Init, Sealed, LeaseState, Lease!LeaseInit

(* Whether the close is deferred is decided by the arguments of the call. *)
LEMMA DeferredStays == [Next]_vars => Deferred' = Deferred
<1>1. [Next]_vars => req' = req
  BY DEF Next, Sender, IoThread, BeginTxn, SkipRecord, SendRecord, EndOfRange, AbortEarly, SendEof,
     BumpRefcnt, SenderClose, Transmit, MyFree, IoClose, Terminated, vars
<1> QED
  BY <1>1 DEF Deferred, SingleFrame, MultiPart

LEMMA EarlyStutters ==
  ~Deferred /\ [Next]_vars => UNCHANGED Lease!leaseVars
<1> SUFFICES ASSUME ~Deferred, [Next]_vars PROVE UNCHANGED Lease!leaseVars
  OBVIOUS
<1>1. ~Deferred'
  BY DeferredStays
<1>2. Lent = {} /\ Lent' = {}
  BY <1>1 DEF Lent
<1> QED
  BY <1>1, <1>2 DEF LeaseState, Sealed, Lease!leaseVars

LEMMA LeaseStep ==
  IInv /\ IInv' /\ Deferred /\ [Next]_vars => [Lease!LeaseNext]_(Lease!leaseVars)
<1> SUFFICES ASSUME IInv, IInv', Deferred, [Next]_vars
             PROVE  [Lease!LeaseNext]_(Lease!leaseVars)
  OBVIOUS
<1>0. /\ freed \in Nat /\ cnt \in Nat /\ freed <= cnt /\ pos \in Nat
      /\ freed' \in Nat /\ cnt' \in Nat /\ freed' <= cnt' /\ cnt' <= Len(Db)
      /\ Len(Db) \in Nat
  <2>1. (freed \in Nat /\ cnt \in Nat /\ freed <= cnt /\ cnt <= Len(Db) /\ pos \in Nat)'
    BY FreedBound, PTL
  <2> QED
    BY <2>1, FreedBound, DbAssumption
<1>a. Deferred' /\ LeaseState = txn /\ LeaseState' = txn'
  BY DeferredStays DEF LeaseState
<1>b. Lent = {i \in 1..cnt : i > freed} /\ Lent' = {i \in 1..cnt' : i > freed'}
  BY <1>a DEF Lent
<1>c. (Sealed <=> pc \in {"close", "done"}) /\ (Sealed' <=> pc' \in {"close", "done"})
      /\ Sealed \in BOOLEAN /\ Sealed' \in BOOLEAN
  BY <1>a DEF Sealed
<1> USE <1>a, <1>b, <1>c
<1>1. CASE BeginTxn
  <2>1. txn = "none" /\ txn' = "open" /\ UNCHANGED <<Lent, Sealed>>
    BY <1>1 DEF BeginTxn, IInv, OwnerInv, ioVars
  <2> QED
    BY <2>1 DEF Lease!LeaseNext, Lease!Open
<1>2. CASE SkipRecord \/ EndOfRange \/ SendEof \/ Transmit \/ Terminated \/ UNCHANGED vars
  <2>1. UNCHANGED <<txn, Lent, Sealed>>
    BY <1>2 DEF SkipRecord, EndOfRange, SendEof, Transmit, Terminated, vars, Lent, Sealed,
       ioVars, sharedVars
  <2> QED
    BY <2>1 DEF Lease!leaseVars
<1>3. CASE SendRecord
  <2>1. txn = "open" /\ ~Sealed /\ UNCHANGED <<txn, Sealed>>
    BY <1>3 DEF SendRecord, IInv, OwnerInv, Sealed, sharedVars
  <2>2. cnt' = cnt + 1 /\ freed' = freed
    BY <1>3 DEF SendRecord, ioVars
  <2>3. cnt + 1 \in 1..Len(Db) /\ cnt + 1 \notin Lent
    BY <1>0, <2>2
  <2>4. Lent' = Lent \union {cnt + 1}
    BY <1>0, <2>2
  <2>5. Lease!Lend(cnt + 1)
    BY <2>1, <2>3, <2>4 DEF Lease!Lend
  <2> QED
    BY <2>3, <2>5 DEF Lease!LeaseNext
<1>4. CASE AbortEarly
  BY <1>4 DEF AbortEarly
<1>5. CASE BumpRefcnt
  <2>1. txn = "open" /\ ~Sealed /\ UNCHANGED <<txn, Lent>>
    BY <1>5 DEF BumpRefcnt, IInv, OwnerInv, Sealed, Lent, ioVars
  <2>2. Sealed' = TRUE
    <3>1. pc' \in {"close", "done", "abort"} /\ pc' # "abort"
      BY <1>5 DEF BumpRefcnt, IInv, OwnerInv
    <3> QED
      BY <3>1 DEF Sealed
  <2> QED
    BY <2>1, <2>2 DEF Lease!LeaseNext, Lease!Seal
<1>6. CASE SenderClose
  <2>1. txn = "open" /\ freed = cnt /\ Sealed /\ Sealed' /\ UNCHANGED Lent
    BY <1>6 DEF SenderClose, IInv, OwnerInv, Sealed, Lent, ioVars
  <2>2. txn' = "closed"
    BY <1>6, <2>1 DEF SenderClose, AbortTxn
  <2>3. Lent = {}
    BY <1>0, <2>1
  <2>4. Sealed' = Sealed
    BY <2>1 DEF Sealed
  <2> QED
    BY <2>1, <2>2, <2>3, <2>4 DEF Lease!LeaseNext, Lease!Close
<1>7. CASE MyFree
  <2>1. freed < cnt /\ freed' = freed + 1 /\ UNCHANGED <<cnt, txn, Sealed>>
    <3>1. tx \in Nat
      BY DEF IInv, TypeOK
    <3> QED
      BY <1>0, <1>7, <3>1 DEF MyFree, IInv, FreeInv, Sealed
  <2>2. freed + 1 \in Lent /\ freed + 1 \in 1..Len(Db)
    BY <1>0, <2>1
  <2>3. Lent' = Lent \ {freed + 1}
    BY <1>0, <2>1
  <2>4. Lease!Return(freed + 1)
    BY <2>1, <2>2, <2>3 DEF Lease!Return
  <2> QED
    BY <2>2, <2>4 DEF Lease!LeaseNext
<1>8. CASE IoClose
  <2>1. pc = "done" /\ freed = cnt /\ txn = "open"
    BY <1>0, <1>8 DEF IoClose, IInv, TypeOK, OwnerInv
  <2>2. Lent = {}
    BY <1>0, <2>1
  <2>3. txn' = "closed" /\ UNCHANGED <<Lent, Sealed>> /\ Sealed
    BY <1>8, <2>1 DEF IoClose, AbortTxn, Lent, Sealed
  <2> QED
    BY <2>1, <2>2, <2>3 DEF Lease!LeaseNext, Lease!Close
<1> QED
  BY <1>1, <1>2, <1>3, <1>4, <1>5, <1>6, <1>7, <1>8 DEF Next, Sender, IoThread

(* A deferred send implements the lease: the transaction lends each record *)
(* once, takes it back once, and is closed only when all are back.         *)
THEOREM LeaseRefinement == Spec => ImplementsLease
<1>1. Init => Lease!LeaseInit
  BY LeaseInitStep
<1>2. IInv /\ IInv' /\ [Next]_vars => [Lease!LeaseNext]_(Lease!leaseVars)
  BY LeaseStep, EarlyStutters
<1> QED
  BY <1>1, <1>2, InductiveInvariant, PTL DEF Spec, ImplementsLease, Lease!LeaseSpec

-----------------------------------------------------------------------------
LEMMA InitRange == Init => RangeInv
<1> SUFFICES ASSUME Init PROVE RangeInv
  OBVIOUS
<1>1. pos = 0 /\ cnt = 0 /\ msgs = <<>> /\ pc = "begin"
  BY DEF Init
<1>2. SentInv
  BY <1>1 DEF SentInv
<1> QED
  BY <1>1, <1>2 DEF RangeInv

(* The cursor and the database when a step begins. *)
LEMMA WalkFacts ==
  ASSUME IInv
  PROVE  /\ pos \in Nat /\ cnt \in Nat /\ cnt <= pos /\ pos <= Len(Db) /\ Len(Db) \in Nat
         /\ req.start \in Nat /\ req.end \in Nat /\ ChunkSize \in Nat \ {0}
         /\ \A i \in 1..Len(Db) : Db[i] \in Nat
         /\ \A i, j \in 1..Len(Db) : i < j => Db[i] < Db[j]
BY DbAssumption, RequestsAssumption, SizesAssumption DEF IInv, TypeOK, MsgsInv

(* What has been sent does not change when neither thread sends. *)
LEMMA RangeKept ==
  ASSUME RangeInv, UNCHANGED <<req, pos, cnt, msgs>>,
         pc' \notin {"begin", "walk"} /\ pos < Len(Db) => Db[pos + 1] >= req.end,
         pc' \in {"bump", "close", "done"} => Len(msgs) = cnt + (IF HasEof THEN 1 ELSE 0)
  PROVE  RangeInv'
<1>1. MultiPart' = MultiPart /\ HasEof' = HasEof /\ EofMsg' = EofMsg
  BY DEF MultiPart, HasEof, Deferred, SingleFrame, EofMsg
<1>2. SentInv'
  BY <1>1 DEF SentInv, RangeInv
<1> QED
  BY <1>1, <1>2 DEF RangeInv

LEMMA SkipRange == ASSUME IInv, RangeInv, SkipRecord PROVE RangeInv'
<1>1. /\ pc = "walk" /\ pc' = "walk" /\ pos < Len(Db) /\ Db[pos + 1] < req.start /\ pos' = pos + 1
      /\ UNCHANGED <<req, cnt, msgs>>
  BY DEF SkipRecord, BeforeRange
<1>2. cnt = 0
  <2>1. SUFFICES ASSUME cnt # 0 PROVE FALSE
    OBVIOUS
  <2>2. cnt \in 1..cnt /\ pos - cnt + cnt = pos /\ pos \in 1..Len(Db) /\ pos + 1 \in 1..Len(Db)
    BY <1>1, <2>1, WalkFacts
  <2>3. msgs[cnt].key = Db[pos] /\ req.start <= msgs[cnt].key
    BY <2>2 DEF RangeInv, SentInv
  <2>4. Db[pos] < Db[pos + 1]
    BY <2>2, WalkFacts
  <2>5. Db[pos] \in Nat /\ Db[pos + 1] \in Nat /\ req.start \in Nat
    BY <2>2, WalkFacts
  <2> QED
    BY <1>1, <2>3, <2>4, <2>5
<1>3. \A i \in 1..(pos' - cnt') : Db[i] < req.start
  BY <1>1, <1>2, WalkFacts DEF RangeInv
<1>4. SentInv'
  BY <1>1, <1>2 DEF SentInv
<1>5. Len(msgs) = cnt
  BY <1>1 DEF IInv, MsgsInv
<1> QED
  BY <1>1, <1>3, <1>4, <1>5, WalkFacts DEF RangeInv

LEMMA SendRange == ASSUME IInv, RangeInv, SendRecord PROVE RangeInv'
<1> DEFINE m == DataMsg(Db[pos + 1])
<1>1. /\ pc = "walk" /\ pc' = "walk" /\ pos < Len(Db) /\ pos' = pos + 1 /\ cnt' = cnt + 1
      /\ ~(Db[pos + 1] < req.start) /\ Db[pos + 1] < req.end /\ msgs' = Append(msgs, m) /\ req' = req
  BY DEF SendRecord, BeforeRange
<1>2. pos + 1 \in 1..Len(Db) /\ Db[pos + 1] \in Nat
  BY <1>1, WalkFacts
<1>3. /\ m.key = Db[pos + 1] /\ m.seq = cnt
      /\ m.more <=> MultiPart /\ cnt < ChunkSize - 1
  BY DEF DataMsg, MoreFollows
<1>4. m \in Message /\ msgs \in Seq(Message) /\ Len(msgs) = cnt
  BY <1>1, <1>2, DataMsgType DEF IInv, TypeOK, MsgsInv
<1> HIDE DEF m
<1>5. /\ Len(msgs') = cnt + 1 /\ msgs'[cnt + 1] = m
      /\ \A i \in 1..cnt : msgs'[i] = msgs[i]
  BY <1>1, <1>4, AppendFacts
<1>6. MultiPart' = MultiPart
  BY <1>1 DEF MultiPart
<1>7. SentInv'
  <2> SUFFICES ASSUME NEW i \in 1..(cnt + 1)
               PROVE  /\ msgs'[i].key = Db[pos' - cnt' + i] /\ msgs'[i].seq = i - 1
                      /\ req.start <= msgs'[i].key /\ msgs'[i].key < req.end
                      /\ msgs'[i].more <=> MultiPart /\ i < ChunkSize
    BY <1>1, <1>6 DEF SentInv
  <2>1. pos' - cnt' + i = pos - cnt + i
    BY <1>1, WalkFacts
  <2>2. CASE i = cnt + 1
    <3>1. pos - cnt + i = pos + 1 /\ i - 1 = cnt /\ (i < ChunkSize <=> cnt < ChunkSize - 1)
      BY <2>2, WalkFacts
    <3>2. req.start <= Db[pos + 1]
      BY <1>1, <1>2, WalkFacts
    <3> QED
      BY <1>1, <1>3, <1>5, <2>1, <2>2, <3>1, <3>2
  <2>3. CASE i \in 1..cnt
    BY <1>5, <2>1, <2>3 DEF RangeInv, SentInv
  <2> QED
    BY <2>2, <2>3, WalkFacts
<1>8. \A i \in 1..(pos' - cnt') : Db[i] < req.start
  <2>1. pos' - cnt' = pos - cnt
    BY <1>1, WalkFacts
  <2> QED
    BY <2>1 DEF RangeInv
<1> QED
  BY <1>1, <1>5, <1>7, <1>8, WalkFacts DEF RangeInv

LEMMA EofRange == ASSUME IInv, RangeInv, SendEof PROVE RangeInv'
<1>1. /\ pc = "after" /\ pc' = "bump" /\ Deferred /\ UNCHANGED <<req, pos, cnt>>
      /\ msgs' = (IF req.fn = "multi" THEN Append(msgs, EofMsg) ELSE msgs)
      /\ Len(msgs) = cnt /\ msgs \in Seq(Message)
  BY DEF SendEof, IInv, TypeOK, MsgsInv
<1>2. MultiPart' = MultiPart /\ HasEof' = HasEof /\ EofMsg' = EofMsg /\ (HasEof <=> req.fn = "multi")
  BY <1>1 DEF MultiPart, HasEof, Deferred, SingleFrame, EofMsg
<1>3. /\ Len(msgs') = cnt + (IF HasEof THEN 1 ELSE 0)
      /\ HasEof => msgs'[cnt + 1] = EofMsg
      /\ \A i \in 1..cnt : msgs'[i] = msgs[i]
  <2>1. EofMsg \in Message
    BY EofMsgType DEF IInv
  <2> QED
    BY <1>1, <1>2, <2>1, AppendFacts, WalkFacts
<1>4. SentInv'
  BY <1>1, <1>2, <1>3 DEF RangeInv, SentInv
<1>5. pos < Len(Db) => Db[pos + 1] >= req.end
  BY <1>1 DEF RangeInv
<1> QED
  BY <1>1, <1>2, <1>3, <1>4, <1>5, WalkFacts DEF RangeInv

LEMMA StepRange == IInv /\ RangeInv /\ [Next]_vars => RangeInv'
<1> SUFFICES ASSUME IInv, RangeInv, [Next]_vars PROVE RangeInv'
  OBVIOUS
<1>1. CASE BeginTxn
  BY <1>1, RangeKept DEF BeginTxn
<1>2. CASE SkipRecord
  BY <1>2, SkipRange
<1>3. CASE SendRecord
  BY <1>3, SendRange
<1>4. CASE EndOfRange
  BY <1>4, RangeKept DEF EndOfRange
<1>5. CASE AbortEarly
  <2>1. ~HasEof /\ Len(msgs) = cnt /\ pc = "after"
    BY <1>5 DEF AbortEarly, HasEof, IInv, MsgsInv
  <2>2. UNCHANGED <<req, pos, cnt, msgs>> /\ pc' = "done"
    BY <1>5 DEF AbortEarly
  <2>3. cnt + (IF HasEof THEN 1 ELSE 0) = cnt
    BY <2>1, WalkFacts
  <2> QED
    BY <2>1, <2>2, <2>3, RangeKept DEF RangeInv
<1>6. CASE SendEof
  BY <1>6, EofRange
<1>7. CASE BumpRefcnt \/ SenderClose
  <2>1. UNCHANGED <<req, pos, cnt, msgs>> /\ pc \in {"bump", "close"}
    BY <1>7 DEF BumpRefcnt, SenderClose
  <2> QED
    BY <2>1, RangeKept DEF RangeInv
<1>8. CASE IoThread \/ Terminated \/ UNCHANGED vars
  <2>1. UNCHANGED <<req, pc, pos, cnt, msgs>>
    BY <1>8 DEF IoThread, Transmit, MyFree, IoClose, Terminated, vars
  <2> QED
    BY <2>1, RangeKept DEF RangeInv
<1> QED
  BY <1>1, <1>2, <1>3, <1>4, <1>5, <1>6, <1>7, <1>8 DEF Next, Sender

LEMMA RangeInvariant == Spec => []RangeInv
<1>1. Init => RangeInv
  BY InitRange
<1>2. IInv /\ RangeInv /\ [Next]_vars => RangeInv'
  BY StepRange
<1> QED
  BY <1>1, <1>2, InductiveInvariant, PTL DEF Spec

LEMMA FinalRangeDelivered ==
  ASSUME IInv, RangeInv
  PROVE  RangeDelivered
<1> SUFFICES ASSUME pc = "done"
             PROVE  /\ Len(msgs) = cnt + (IF HasEof THEN 1 ELSE 0)
                    /\ {msgs[i].key : i \in 1..cnt} = RangeKeys
                    /\ \A i \in 1..cnt :
                         /\ msgs[i].kind = "data" /\ msgs[i].seq = i - 1
                         /\ \A j \in 1..(i - 1) : msgs[j].key < msgs[i].key
                    /\ HasEof => msgs[cnt + 1].kind = "eof" /\ msgs[cnt + 1].seq = cnt
  BY DEF RangeDelivered
<1>1. Len(msgs) = cnt + (IF HasEof THEN 1 ELSE 0)
  BY DEF RangeInv
<1>2. \A i \in 1..cnt : /\ pos - cnt + i \in 1..Len(Db) /\ msgs[i].key = Db[pos - cnt + i]
                        /\ msgs[i].seq = i - 1 /\ req.start <= msgs[i].key /\ msgs[i].key < req.end
                        /\ msgs[i].key \in Nat
  BY WalkFacts DEF RangeInv, SentInv
<1>3. \A i \in 1..cnt : msgs[i].kind = "data"
  BY <1>1, WalkFacts DEF IInv, MsgsInv
<1>4. ASSUME NEW i \in 1..cnt, NEW j \in 1..(i - 1) PROVE msgs[j].key < msgs[i].key
  <2>1. j \in 1..cnt /\ pos - cnt + j < pos - cnt + i
    BY WalkFacts
  <2> QED
    BY <1>2, <2>1, WalkFacts
<1>5. {msgs[i].key : i \in 1..cnt} \subseteq RangeKeys
  BY <1>2, WalkFacts DEF RangeKeys
<1>6. ASSUME NEW k \in RangeKeys PROVE \E i \in 1..cnt : k = msgs[i].key
  <2>1. PICK j \in 1..Len(Db) : Db[j] = k
    BY DEF RangeKeys
  <2>2. Db[j] \in Nat /\ req.start <= Db[j] /\ Db[j] < req.end
    BY <2>1, WalkFacts DEF RangeKeys
  <2>3. ~(j <= pos - cnt)
    <3>1. j <= pos - cnt => Db[j] < req.start
      BY WalkFacts DEF RangeInv
    <3> QED
      BY <2>2, <3>1, WalkFacts
  <2>4. j <= pos
    <3>1. SUFFICES ASSUME j > pos PROVE FALSE
      BY WalkFacts
    <3>2. pos < Len(Db) /\ pos + 1 \in 1..Len(Db)
      BY <3>1, WalkFacts
    <3>3. Db[pos + 1] >= req.end
      BY <3>2 DEF RangeInv
    <3>4. j = pos + 1 \/ Db[pos + 1] < Db[j]
      BY <3>1, <3>2, WalkFacts
    <3>5. Db[pos + 1] \in Nat /\ req.end \in Nat
      BY <3>2, WalkFacts
    <3> QED
      BY <2>2, <3>3, <3>4, <3>5
  <2>5. j - (pos - cnt) \in 1..cnt /\ pos - cnt + (j - (pos - cnt)) = j
    BY <2>3, <2>4, WalkFacts
  <2> QED
    BY <1>2, <2>1, <2>5
<1>7. HasEof => msgs[cnt + 1].kind = "eof" /\ msgs[cnt + 1].seq = cnt
  BY <1>1 DEF RangeInv, EofMsg
<1> QED
  BY <1>1, <1>2, <1>3, <1>4, <1>5, <1>6, <1>7

(* Whatever the range and the database, the receiver is sent each record   *)
(* of the range once, in order, with the right numbers and end marker.     *)
THEOREM RangeDeliveredThm == Spec => []RangeDelivered
<1>1. IInv /\ RangeInv => RangeDelivered
  BY FinalRangeDelivered
<1> QED
  BY <1>1, InductiveInvariant, RangeInvariant, PTL

LEMMA FinalOpenOnlyWhenCut ==
  ASSUME IInv, RangeInv
  PROVE  OpenOnlyWhenCut
<1> SUFFICES ASSUME pc = "done" PROVE InMultipart <=> MultiPart /\ cnt \in 1..(ChunkSize - 1)
  BY DEF OpenOnlyWhenCut
<1>1. cnt \in Nat /\ ChunkSize \in Nat /\ Len(msgs) = cnt + (IF HasEof THEN 1 ELSE 0)
  BY WalkFacts DEF RangeInv
<1>2. MultiPart => ~HasEof
  BY DEF HasEof, Deferred
<1>3. CASE HasEof
  <2>1. msgs # <<>> /\ Len(msgs) = cnt + 1
    BY <1>1, <1>3
  <2>2. ~msgs[Len(msgs)].more
    BY <2>1 DEF RangeInv, EofMsg
  <2> QED
    BY <1>2, <1>3, <2>2 DEF InMultipart
<1>4. CASE ~HasEof
  <2>1. Len(msgs) = cnt
    BY <1>1, <1>4
  <2>2. CASE cnt = 0
    <3>1. msgs = <<>>
      BY <2>1, <2>2 DEF IInv, TypeOK
    <3> QED
      BY <2>2, <3>1 DEF InMultipart
  <2>3. CASE cnt # 0
    <3>1. cnt \in 1..cnt /\ msgs # <<>>
      BY <1>1, <2>1, <2>3
    <3>2. msgs[cnt].more <=> MultiPart /\ cnt < ChunkSize
      BY <3>1 DEF RangeInv, SentInv
    <3> QED
      BY <1>1, <2>1, <3>1, <3>2 DEF InMultipart
  <2> QED
    BY <2>2, <2>3
<1> QED
  BY <1>3, <1>4

(* A call leaves a multipart message open exactly when its range was cut   *)
(* short by the end of the database.                                       *)
THEOREM OpenOnlyWhenCutThm == Spec => []OpenOnlyWhenCut
<1>1. IInv /\ RangeInv => OpenOnlyWhenCut
  BY FinalOpenOnlyWhenCut
<1> QED
  BY <1>1, InductiveInvariant, RangeInvariant, PTL

-----------------------------------------------------------------------------
(* The I/O thread reads the next message of a deferred send: the record is *)
(* not yet freed, so the transaction still lends it.                       *)
LEMMA TransmitReadsOpen ==
  ASSUME IInv, Deferred, Transmit, msgs[tx + 1].kind = "data"
  PROVE  txn = "open"
<1>1. tx + 1 \in 1..Len(msgs) /\ tx \in Nat /\ cnt \in Nat /\ io = "idle"
  BY DEF Transmit, IInv, TypeOK
<1>2. tx + 1 <= cnt
  BY <1>1 DEF IInv, MsgsInv
<1>3. freed = tx
  BY <1>1, <1>2 DEF IInv, FreeInv
<1>4. pc # "begin"
  BY <1>1, <1>2 DEF IInv, CountInv
<1> QED
  BY <1>1, <1>2, <1>3, <1>4 DEF IInv, TypeOK, OwnerInv

(* The claim of send_one_from_db's comment holds of the deferred shape:    *)
(* while the close is left to refcnt, every record goes on the wire from a *)
(* live transaction.  Only the two shapes that abort early can break it.   *)
THEOREM DeferredReadsLive == Spec => [](Deferred => SentFromLiveTxn)
<1> DEFINE Live == Deferred => SentFromLiveTxn
<1>1. Init => Live
  BY DEF Init, SentFromLiveTxn
<1>2. IInv /\ Live /\ [Next]_vars => Live'
  <2> SUFFICES ASSUME IInv, Live, [Next]_vars, Deferred' PROVE stale' = {}
    BY DEF SentFromLiveTxn
  <2>1. Deferred /\ stale = {}
    BY DeferredStays DEF SentFromLiveTxn
  <2>2. CASE Transmit
    BY <2>1, <2>2, TransmitReadsOpen DEF Transmit
  <2>3. CASE Sender \/ MyFree \/ IoClose \/ Terminated \/ UNCHANGED vars
    BY <2>1, <2>3
    DEF Sender, BeginTxn, SkipRecord, SendRecord, EndOfRange, AbortEarly, SendEof, BumpRefcnt,
        SenderClose, MyFree, IoClose, Terminated, vars, ioVars
  <2> QED
    BY <2>2, <2>3 DEF Next, IoThread
<1> QED
  BY <1>1, <1>2, InductiveInvariant, PTL DEF Spec
=============================================================================

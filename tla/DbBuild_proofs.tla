--------------------------- MODULE DbBuild_proofs ---------------------------
(***************************************************************************)
(* Proofs about DbBuild, for any processes, inputs and number of failures: *)
(* the database is always a sequence of whole runs.                        *)
(***************************************************************************)
EXTENDS DbBuild, SequenceTheorems, FiniteSetTheorems, TLAPS

(* Putting an item under the next key appends it to the sequence. *)
LEMMA PutAppends ==
  ASSUME NEW s \in Seq(Items), NEW x \in Items
  PROVE  /\ 2 * Len(s) + Step \notin DOMAIN Keyed(s)
         /\ Put(Keyed(s), 2 * Len(s) + Step, x) = Keyed(Append(s, x))
<1> DEFINE a == Append(s, x)
           Ks(n) == {2 * i : i \in 1..n}
<1>1. Len(s) \in Nat /\ a \in Seq(Items) /\ Len(a) = Len(s) + 1
      /\ a[Len(s) + 1] = x /\ \A i \in 1..Len(s) : a[i] = s[i]
  OBVIOUS
<1>2. DOMAIN Keyed(s) = Ks(Len(s)) /\ DOMAIN Keyed(a) = Ks(Len(s) + 1)
  BY <1>1 DEF Keyed
<1>3. 2 * Len(s) + Step \notin Ks(Len(s))
  BY <1>1 DEF Step
<1>4. Ks(Len(s)) \union {2 * Len(s) + Step} = Ks(Len(s) + 1)
  BY <1>1 DEF Step
<1>5. ASSUME NEW i \in 1..(Len(s) + 1)
      PROVE  Put(Keyed(s), 2 * Len(s) + Step, x)[2 * i] = Keyed(a)[2 * i]
  <2>1. (2 * i) \div 2 = i /\ 2 * i \in Ks(Len(s) + 1)
    BY <1>1
  <2>2. Keyed(a)[2 * i] = a[i]
    BY <1>1, <2>1 DEF Keyed
  <2>3. CASE i = Len(s) + 1
    <3>1. 2 * i = 2 * Len(s) + Step
      BY <1>1, <2>3 DEF Step
    <3> QED
      BY <1>1, <1>2, <1>4, <2>1, <2>2, <2>3, <3>1 DEF Put
  <2>4. CASE i \in 1..Len(s)
    <3>1. 2 * i # 2 * Len(s) + Step /\ 2 * i \in Ks(Len(s))
      BY <1>1, <2>4 DEF Step
    <3>2. Keyed(s)[2 * i] = s[i]
      BY <2>1, <3>1 DEF Keyed
    <3> QED
      BY <1>1, <1>2, <1>4, <2>1, <2>2, <2>4, <3>1, <3>2 DEF Put
  <2> QED
    BY <1>1, <2>3, <2>4
<1>6. Put(Keyed(s), 2 * Len(s) + Step, x) = [k \in Ks(Len(s) + 1) |-> Put(Keyed(s), 2 * Len(s) + Step, x)[k]]
  BY <1>2, <1>4 DEF Put
<1>7. Keyed(a) = [k \in Ks(Len(s) + 1) |-> Keyed(a)[k]]
  BY <1>1 DEF Keyed
<1> QED
  BY <1>2, <1>3, <1>5, <1>6, <1>7

(* The last key of a database built so far. *)
LEMMA LastKeyed ==
  ASSUME NEW s \in Seq(Items), db = Keyed(s), NEW k \in LastKey
  PROVE  k = 2 * Len(s)
<1>1. DOMAIN Keyed(s) = {2 * i : i \in 1..Len(s)} /\ Len(s) \in Nat
  BY DEF Keyed
<1>2. CASE Len(s) = 0
  <2>1. {2 * i : i \in 1..Len(s)} = {}
    BY <1>2
  <2>2. db = Empty
    BY <2>1 DEF Empty, Keyed
  <2> QED
    BY <1>2, <2>2 DEF LastKey
<1>3. CASE Len(s) > 0
  <2>1. 2 * Len(s) \in DOMAIN db
    BY <1>1, <1>3
  <2>2. db # Empty
    BY <2>1 DEF Empty
  <2>3. k \in DOMAIN db /\ 2 * Len(s) <= k
    BY <2>1, <2>2 DEF LastKey, IsLast
  <2> QED
    BY <1>1, <1>3, <2>3
<1> QED
  BY <1>1, <1>2, <1>3

(* How what has been put so far grows, begins and ends. *)
LEMMA SoFarFacts ==
  ASSUME NEW s \in Seq(Items), NEW n \in 0..Len(s)
  PROVE  /\ SubSeq(s, 1, n) \in Seq(Items)
         /\ SubSeq(s, 1, 0) = <<>>
         /\ SubSeq(s, 1, Len(s)) = s
         /\ n < Len(s) => SubSeq(s, 1, n + 1) = Append(SubSeq(s, 1, n), s[n + 1])
<1>1. SubSeq(s, 1, n) \in Seq(Items) /\ Len(SubSeq(s, 1, n)) = n
  BY SubSeqProperties
<1>2. SubSeq(s, 1, 0) = <<>> /\ SubSeq(s, 1, Len(s)) = s
  BY SubSeqProperties, SeqEqual
<1>3. ASSUME n < Len(s)
      PROVE  SubSeq(s, 1, n + 1) = Append(SubSeq(s, 1, n), s[n + 1])
  BY <1>1, <1>3, SubSeqProperties
<1> QED
  BY <1>1, <1>2, <1>3

LEMMA ConcatAppend ==
  ASSUME NEW s \in Seq(Items), NEW t \in Seq(Items), NEW x \in Items
  PROVE  s \o t \in Seq(Items) /\ s \o Append(t, x) = Append(s \o t, x)
OBVIOUS

LEMMA InitInv == Init => IInv
<1> SUFFICES ASSUME Init PROVE IInv
  OBVIOUS
<1>1. TypeOK /\ kept \in Seq(Items)
  BY BuilderAssumption DEF Init, TypeOK
<1>2. {2 * i : i \in 1..Len(kept)} = {}
  BY DEF Init
<1>3. WholeRuns
  BY <1>2 DEF Init, WholeRuns, Keyed, Empty
<1> QED
  BY <1>1, <1>3 DEF Init, IInv, ViewInv

LEMMA BeginStep == ASSUME IInv, NEW b \in Builder, Begin(b) PROVE IInv'
<1>1. Input[b] \in Seq(Items) /\ NoOne \notin Builder
  BY BuilderAssumption
<1>2. key' = 2 * Len(kept)
  BY LastKeyed DEF IInv, WholeRuns, Begin
<1>3. TypeOK'
  BY <1>1, <1>2 DEF IInv, TypeOK, Begin, MayWrite
<1>4. SoFar(b)' = kept
  BY <1>1, SoFarFacts DEF SoFar, Begin, IInv
<1>5. \A c \in Builder : pc'[c] = "load" => c = b
  BY <1>1 DEF IInv, TypeOK, Begin, MayWrite
<1>6. ViewInv'
  BY <1>1, <1>2, <1>4, <1>5 DEF ViewInv, Begin, IInv, WholeRuns
<1> QED
  BY <1>3, <1>6 DEF IInv, WholeRuns, Begin

LEMMA PutStep == ASSUME IInv, NEW b \in Builder, PutItem(b) PROVE IInv'
<1>1. Input[b] \in Seq(Items) /\ NoOne \notin Builder
  BY BuilderAssumption
<1>2. pc[b] = "load" /\ loaded \in 0..Len(Input[b]) /\ loaded < Len(Input[b])
      /\ view = Keyed(SoFar(b)) /\ key = 2 * Len(SoFar(b))
  BY <1>1 DEF IInv, TypeOK, ViewInv, PutItem
<1>3. SubSeq(Input[b], 1, loaded) \in Seq(Items)
      /\ SubSeq(Input[b], 1, loaded + 1) = Append(SubSeq(Input[b], 1, loaded), Input[b][loaded + 1])
  BY <1>1, <1>2, SoFarFacts
<1>4. Input[b][loaded + 1] \in Items
  BY <1>1, <1>2
<1>5. SoFar(b) \in Seq(Items) /\ SoFar(b)' = Append(SoFar(b), Input[b][loaded + 1])
  <2>1. kept \in Seq(Items) /\ kept' = kept /\ loaded' = loaded + 1
    BY DEF PutItem, IInv
  <2>2. SoFar(b)' = kept \o SubSeq(Input[b], 1, loaded + 1)
    BY <2>1 DEF SoFar
  <2> QED
    BY <1>3, <1>4, <2>1, <2>2, ConcatAppend DEF SoFar
<1>6. view' = Keyed(SoFar(b)') /\ key' = 2 * Len(SoFar(b)')
  BY <1>2, <1>4, <1>5, PutAppends DEF PutItem, Step
<1>7. TypeOK'
  BY DEF IInv, TypeOK, PutItem, Step
<1>8. \A c \in Builder : pc'[c] = "load" => c = b
  BY <1>2, <1>1 DEF IInv, TypeOK, PutItem
<1>9. ViewInv'
  BY <1>1, <1>2, <1>6, <1>8 DEF ViewInv, PutItem
<1> QED
  BY <1>7, <1>9 DEF IInv, WholeRuns, PutItem

LEMMA CommitStep == ASSUME IInv, NEW b \in Builder, Commit(b) PROVE IInv'
<1>1. Input[b] \in Seq(Items) /\ NoOne \notin Builder
  BY BuilderAssumption
<1>2. SoFar(b) = kept \o Input[b]
  BY <1>1, SoFarFacts DEF SoFar, Commit, IInv
<1>3. kept' \in Seq(Items) /\ WholeRuns'
  <2>1. kept \in Seq(Items) /\ kept' = kept \o Input[b]
    BY DEF IInv, Commit
  <2>2. db' = Keyed(SoFar(b))
    BY DEF IInv, ViewInv, Commit
  <2>3. kept' \in Seq(Items)
    BY <1>1, <2>1, ConcatProperties
  <2> QED
    BY <1>2, <2>1, <2>2, <2>3 DEF WholeRuns
<1>4. TypeOK' /\ \A c \in Builder : pc'[c] # "load"
  BY <1>1 DEF IInv, TypeOK, Commit
<1> QED
  BY <1>3, <1>4 DEF IInv, ViewInv

(* Steps that leave the database and the transaction alone, or end it. *)
LEMMA OtherSteps ==
  ASSUME IInv, NEW b \in Builder,
         NoFrames(b) \/ Finish(b) \/ CommitFails(b) \/ Crash(b) \/ Rerun(b)
  PROVE  IInv'
<1>1. NoOne \notin Builder
  BY BuilderAssumption
<1>2. db' = db /\ kept' = kept /\ view' = view /\ key' = key /\ loaded' = loaded
  BY DEF NoFrames, Finish, CommitFails, Crash, Rerun, txnVars
<1>3. TypeOK' /\ \A c \in Builder : pc'[c] = "load" => pc[c] = "load"
  <2>1. CASE NoFrames(b)
    BY <1>1, <2>1 DEF IInv, TypeOK, NoFrames, txnVars
  <2>2. CASE Finish(b)
    BY <1>1, <2>2 DEF IInv, TypeOK, Finish, txnVars
  <2>3. CASE CommitFails(b)
    BY <1>1, <2>3 DEF IInv, TypeOK, CommitFails
  <2>4. CASE Crash(b)
    BY <1>1, <2>4 DEF IInv, TypeOK, Crash, Released
  <2>5. CASE Rerun(b)
    BY <1>1, <2>5 DEF IInv, TypeOK, Rerun, txnVars
  <2> QED
    BY <2>1, <2>2, <2>3, <2>4, <2>5
<1>4. \A c \in Builder : SoFar(c)' = SoFar(c)
  BY <1>2 DEF SoFar
<1>5. ViewInv'
  BY <1>2, <1>3, <1>4 DEF IInv, ViewInv
<1> QED
  BY <1>2, <1>3, <1>5 DEF IInv, WholeRuns

(* The inductive invariant holds of every behaviour. *)
THEOREM InductiveInvariant == Spec => []IInv
<1>1. IInv /\ [Next]_vars => IInv'
  <2> SUFFICES ASSUME IInv, [Next]_vars PROVE IInv'
    OBVIOUS
  <2>1. CASE UNCHANGED vars
    BY <2>1 DEF vars, txnVars, IInv, TypeOK, WholeRuns, ViewInv, SoFar
  <2>2. CASE Next
    BY <2>2, BeginStep, PutStep, CommitStep, OtherSteps DEF Next, Run
  <2> QED
    BY <2>1, <2>2
<1> QED
  BY InitInv, <1>1, PTL DEF Spec

(* The database always holds whole runs, in the order of their commits and *)
(* under the keys 2, 4, ... without a gap.                                 *)
THEOREM WholeRunsThm == Spec => []WholeRuns
<1>1. IInv => WholeRuns
  BY DEF IInv
<1> QED
  BY InductiveInvariant, <1>1, PTL

(* As many keys as the database has, from 2 on: what Migrate assumes of    *)
(* each environment it finds.                                              *)
NoGaps ==
  IsFiniteSet(DOMAIN db) /\ DOMAIN db = {2 * i : i \in 1..Cardinality(DOMAIN db)}

LEMMA CountOfKeys ==
  ASSUME NEW m \in Nat
  PROVE  IsFiniteSet({2 * i : i \in 1..m}) /\ Cardinality({2 * i : i \in 1..m}) = m
<1> DEFINE keys == {2 * i : i \in 1..m}
           double == [i \in 1..m |-> 2 * i]
<1>1. ExistsBijection(1..m, keys)
  <2>1. double \in [1..m -> keys] /\ \A k \in keys : \E i \in 1..m : double[i] = k
    OBVIOUS
  <2>2. \A i, j \in 1..m : double[i] = double[j] => i = j
    OBVIOUS
  <2> HIDE DEF double, keys
  <2>3. double \in Injection(1..m, keys)
    BY <2>1, <2>2 DEF Injection, IsInjective
  <2>4. double \in Surjection(1..m, keys)
    BY <2>1 DEF Surjection
  <2> QED
    BY <2>3, <2>4 DEF ExistsBijection, Bijection
<1>2. IsFiniteSet(1..m) /\ Cardinality(1..m) = m
  <2>1. 1 \in Int /\ m \in Int
    OBVIOUS
  <2>2. IsFiniteSet(1..m) /\ Cardinality(1..m) = IF 1 > m THEN 0 ELSE m - 1 + 1
    BY <2>1, FS_Interval
  <2> QED
    BY <2>2
<1> HIDE DEF double, keys
<1>3. IsFiniteSet(keys) /\ Cardinality(keys) = m
  BY <1>1, <1>2, FS_Bijection
<1> QED
  BY <1>3 DEF keys

(* Whatever crashed or failed, the n records of the database have the keys *)
(* 2, 4, ..., 2 * n: a reader finds the last of them by their number.      *)
THEOREM NoGapsThm == Spec => []NoGaps
<1>1. IInv => NoGaps
  <2> SUFFICES ASSUME IInv PROVE NoGaps
    OBVIOUS
  <2>1. Len(kept) \in Nat /\ DOMAIN db = {2 * i : i \in 1..Len(kept)}
    BY DEF IInv, WholeRuns, Keyed
  <2> QED
    BY <2>1, CountOfKeys DEF NoGaps
<1> QED
  BY InductiveInvariant, <1>1, PTL
=============================================================================

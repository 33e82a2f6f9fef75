--------------------------- MODULE Migrate_proofs ---------------------------
(***************************************************************************)
(* Proofs about Migrate, for any directories, databases with even keys and *)
(* distinct items, tasks, chunk length and number of failures.             *)
(***************************************************************************)
EXTENDS Migrate, SequenceTheorems, FiniteSetTheorems, TLAPS

LEMMA EmptyDomain == DOMAIN Empty = {}
BY DEF Empty

LEMMA InitInv == Init => IInv
<1> SUFFICES ASSUME Init PROVE IInv
  OBVIOUS
<1>1. build.tasks \in Seq(TaskType)
  BY TasksAssumption DEF Init
<1>2. AreStores(db) /\ Distinct(db) /\ \A d \in Dir : Even(db[d])
  BY StoreAssumption DEF Init
<1>3. TypeOK
  BY <1>1, <1>2 DEF Init, TypeOK
<1>4. ~MoveInProgress /\ pc = "send"
  BY DEF Init, MoveInProgress
<1> QED
  BY <1>2, <1>3, <1>4 DEF IInv, NeverTwice, ViewInv, FramesInv, ChunkInv, SourceInv, CarryInv, EvenInv

(* Outside a move only the databases matter. *)
LEMMA Resting ==
  ASSUME IInv, TypeOK', db' = db, pc' \in {"send", "reply", "grant", "open", "dead"}
  PROVE  IInv'
<1>1. NeverTwice'
  BY DEF IInv, NeverTwice, Distinct
<1>2. ~MoveInProgress' /\ pc' # "commitDest" /\ pc' # "commitSource"
      /\ pc' # "frames" /\ pc' # "chunk"
  BY DEF MoveInProgress
<1>3. EvenInv'
  BY <1>2 DEF IInv, EvenInv, Even
<1> QED
  BY <1>1, <1>2, <1>3 DEF IInv, ViewInv, FramesInv, ChunkInv, SourceInv, CarryInv

LEMMA LoopStep == IInv /\ Loop => IInv'
<1> SUFFICES ASSUME IInv, Loop PROVE IInv'
  OBVIOUS
<1> USE DEF IInv, TypeOK, AreStores, loopVars, moveVars
<1>1. CASE Announce
  <2>1. Head(queue) \in TaskType /\ Append(sched, Head(queue)) \in Seq(TaskType)
    BY <1>1 DEF Announce
  <2>2. TypeOK' /\ db' = db /\ pc' = "reply"
    BY <1>1, <2>1 DEF Announce
  <2> QED
    BY <2>2, Resting
<1>2. CASE Announced
  <2>1. Tail(queue) \in Seq(TaskType)
    BY <1>2 DEF Announced
  <2>2. TypeOK' /\ db' = db /\ pc' = "grant"
    BY <1>2, <2>1 DEF Announced
  <2> QED
    BY <2>2, Resting
<1>3. CASE NothingToAnnounce
  <2>1. TypeOK' /\ db' = db /\ pc' = "grant"
    BY <1>3 DEF NothingToAnnounce
  <2> QED
    BY <2>1, Resting
<1>4. CASE Permission
  <2>1. Head(sched) \in TaskType /\ Tail(sched) \in Seq(TaskType)
    BY <1>4 DEF Permission
  <2>2. TypeOK' /\ db' = db /\ pc' = "open"
    BY <1>4, <2>1 DEF Permission
  <2> QED
    BY <2>2, Resting
<1> QED
  BY <1>1, <1>2, <1>3, <1>4 DEF Loop

LEMMA DieStep == ASSUME IInv, NEW why, Die(why) PROVE IInv'
<1>1. TypeOK' /\ db' = db /\ pc' = "dead"
  BY DEF IInv, TypeOK, AreStores, Die, loopVars, moveVars
<1> QED
  BY <1>1, Resting

LEMMA RestartStep == IInv /\ Restart => IInv'
<1> SUFFICES ASSUME IInv, Restart PROVE IInv'
  OBVIOUS
<1>1. build.tasks \in Seq(TaskType)
  BY TasksAssumption DEF IInv, TypeOK
<1>2. sched' \in Seq(TaskType)
  <2>1. sched' = sched \/ sched' = <<>>
    BY DEF Restart
  <2>2. sched \in Seq(TaskType) /\ <<>> \in Seq(TaskType)
    BY DEF IInv, TypeOK
  <2> QED
    BY <2>1, <2>2
<1>3. TypeOK' /\ db' = db /\ pc' = "send"
  BY <1>1, <1>2 DEF IInv, TypeOK, AreStores, Restart, moveVars
<1> QED
  BY <1>3, Resting

(* A task that is carried out has two ends, each with a database. *)
LEMMA TaskFacts ==
  ASSUME IInv, pc \in {"open", "commitDest"} \/ MoveInProgress
  PROVE  /\ task \in TaskType /\ task.src \in Dir /\ task.dst \in Dir
         /\ task.src # task.dst /\ task.mode \in 0..2
         /\ task.mode = 0 => (task.src \in RawDir <=> task.dst \in RawDir)
         /\ IsStore(db[task.src]) /\ IsStore(db[task.dst])
<1>1. task \in TaskType
  BY DEF IInv, TypeOK, MoveInProgress
<1>2. task.src \in Dir /\ task.dst \in Dir /\ task.mode \in 0..2
  BY <1>1 DEF TaskType
<1> QED
  BY <1>1, <1>2 DEF TaskType, IInv, TypeOK, AreStores

LEMMA OpenStep == IInv /\ Open => IInv'
<1> SUFFICES ASSUME IInv, Open PROVE IInv'
  OBVIOUS
<1>t. pc = "open" /\ pc' = Transfer /\ UNCHANGED <<build, db, queue, sched, task, deaths, bug>>
  BY DEF Open, loopVars
<1>f. /\ task \in TaskType /\ task.src \in Dir /\ task.dst \in Dir
      /\ task.src # task.dst /\ task.mode \in 0..2
      /\ task.mode = 0 => (task.src \in RawDir <=> task.dst \in RawDir)
      /\ IsStore(db[task.src]) /\ IsStore(db[task.dst])
  BY <1>t, TaskFacts
<1>p. PICK first \in DOMAIN db[task.src], last \in DOMAIN db[task.dst] :
        /\ IsFirst(db[task.src], first) /\ keyS' = first /\ cur' = first
        /\ IsLast(db[task.dst], last) /\ keyD' = last
  BY DEF Open
<1>n. first \in Nat /\ last \in Nat
  BY <1>f DEF IsStore
<1>v. src' = db[task.src] /\ dst' = db[task.dst] /\ n' = 0
  BY DEF Open
<1>m. /\ pc' \in {"frames", "chunk", "decode", "encode"}
      /\ pc' = "frames" => task.mode = 0 /\ task.src \in RawDir
      /\ pc' = "chunk" => task.mode = 0 /\ task.src \notin RawDir
  BY <1>t, <1>f DEF Transfer
<1>1. TypeOK'
  BY <1>t, <1>f, <1>n, <1>v, <1>m, <1>p DEF IInv, TypeOK, AreStores
<1>2. NeverTwice'
  BY <1>t DEF IInv, NeverTwice, Distinct
<1>3. Taken' = {} /\ Added' = {}
  BY <1>t, <1>v DEF Taken, Added
<1>4. ViewInv'
  <2>1. PartOf(src', db[task.src]) /\ PartOf(db[task.dst], dst')
    BY <1>v DEF PartOf
  <2>2. IsStore(src') /\ IsStore(dst') /\ IsLast(dst', keyD')
    BY <1>f, <1>v, <1>p
  <2> QED
    BY <1>3, <1>t, <2>1, <2>2 DEF ViewInv
<1>5. FramesInv'
  <2> SUFFICES ASSUME pc' = "frames" PROVE FramesInv'
    BY DEF FramesInv
  <2>1. Even(db[task.src])
    BY <1>f, <1>m DEF IInv, EvenInv
  <2> QED
    BY <1>t, <1>m, <1>n, <1>p, <2>1 DEF FramesInv, Even
<1>6. EvenInv'
  <2>1. task.dst \in RawDir => Even(dst')
    BY <1>f, <1>v DEF IInv, EvenInv
  <2> QED
    BY <1>t, <2>1 DEF IInv, EvenInv, Even
<1>7. ChunkInv' /\ SourceInv' /\ CarryInv'
  BY <1>t, <1>m DEF ChunkInv, SourceInv, CarryInv
<1> QED
  BY <1>1, <1>2, <1>4, <1>5, <1>6, <1>7 DEF IInv

(* Items of a database that never holds one twice. *)
LEMMA SameItem ==
  ASSUME IInv, NEW d \in Dir, NEW j \in DOMAIN db[d], NEW k \in DOMAIN db[d], db[d][j] = db[d][k]
  PROVE  j = k
BY DEF IInv, NeverTwice, Distinct

(* What moving one record from the view of the source to a new key of the  *)
(* view of the destination does to the views.                              *)
LEMMA MoveRecord ==
  ASSUME IInv, MoveInProgress, db' = db, task' = task,
         NEW from \in DOMAIN src, NEW to \in Nat, to \notin DOMAIN dst, to > keyD,
         src' = Del(src, from), dst' = Put(dst, to, src[from]), keyD' = to
  PROVE  ViewInv' /\ Taken' # {} /\ DOMAIN src' = DOMAIN src \ {from}
         /\ DOMAIN dst' = DOMAIN dst \union {to}
<1>f. task.src \in Dir /\ task.dst \in Dir /\ task.src # task.dst
  BY TaskFacts
<1>v. /\ IsStore(src) /\ IsStore(dst)
      /\ PartOf(src, db[task.src]) /\ PartOf(db[task.dst], dst)
      /\ \A k \in Added : \E j \in Taken : dst[k] = db[task.src][j]
      /\ \A j \in Taken : \E k \in Added : dst[k] = db[task.src][j]
      /\ \A k, l \in Added : dst[k] = dst[l] => k = l
      /\ IsLast(dst, keyD)
  BY DEF IInv, ViewInv
<1>1. DOMAIN src' = DOMAIN src \ {from} /\ \A k \in DOMAIN src' : src'[k] = src[k]
  BY DEF Del
<1>2. /\ DOMAIN dst' = DOMAIN dst \union {to} /\ dst'[to] = src[from]
      /\ \A k \in DOMAIN dst : dst'[k] = dst[k]
  BY DEF Put
<1>3. src[from] = db[task.src][from] /\ from \in DOMAIN db[task.src]
  BY <1>v DEF PartOf
<1>4. Taken' = Taken \union {from} /\ from \notin Taken
  BY <1>1, <1>3 DEF Taken
<1>5. to \notin DOMAIN db[task.dst]
  BY <1>v DEF PartOf
<1>6. Added' = Added \union {to} /\ to \notin Added
  BY <1>2, <1>5 DEF Added
<1>7. \A k \in Added : dst'[k] = dst[k]
  BY <1>2 DEF Added
<1>8. IsStore(src') /\ IsStore(dst')
  <2>1. src' = [k \in DOMAIN src' |-> src'[k]] /\ dst' = [k \in DOMAIN dst' |-> dst'[k]]
    BY DEF Del, Put
  <2>2. \A k \in DOMAIN src' : src'[k] \in Items
    BY <1>1, <1>v DEF IsStore
  <2>3. \A k \in DOMAIN dst' : dst'[k] \in Items
    BY <1>2, <1>v DEF IsStore
  <2> QED
    BY <1>1, <1>2, <1>v, <2>1, <2>2, <2>3 DEF IsStore
<1>9. PartOf(src', db[task.src]) /\ PartOf(db[task.dst], dst')
  BY <1>1, <1>2, <1>v DEF PartOf
<1>10. \A k \in Added' : \E j \in Taken' : dst'[k] = db[task.src][j]
  BY <1>v, <1>2, <1>3, <1>4, <1>6, <1>7
<1>11. \A j \in Taken' : \E k \in Added' : dst'[k] = db[task.src][j]
  BY <1>v, <1>2, <1>3, <1>4, <1>6, <1>7
<1>12. \A k \in Added : dst'[k] # dst'[to]
  <2> SUFFICES ASSUME NEW k \in Added, dst'[k] = dst'[to] PROVE FALSE
    OBVIOUS
  <2>1. PICK j \in Taken : dst[k] = db[task.src][j]
    BY <1>v
  <2>2. j \in DOMAIN db[task.src] /\ db[task.src][j] = db[task.src][from]
    BY <2>1, <1>2, <1>3, <1>7 DEF Taken
  <2>3. j = from
    BY <2>2, <1>3, <1>f, SameItem
  <2> QED
    BY <2>3, <1>4
<1>13. \A k, l \in Added' : dst'[k] = dst'[l] => k = l
  BY <1>v, <1>6, <1>7, <1>12
<1>14. IsLast(dst', keyD')
  <2>1. \A k \in DOMAIN dst : k \in Nat /\ k <= keyD
    BY <1>v DEF IsStore, IsLast
  <2>2. keyD \in Nat
    BY <1>v DEF IsStore, IsLast
  <2> QED
    BY <1>2, <2>1, <2>2 DEF IsLast
<1> QED
  BY <1>1, <1>2, <1>4, <1>8, <1>9, <1>10, <1>11, <1>13, <1>14 DEF ViewInv

LEMMA MoveFrameStep == IInv /\ MoveFrame => IInv'
<1> SUFFICES ASSUME IInv, MoveFrame PROVE IInv'
  OBVIOUS
<1>t. /\ pc = "frames" /\ MoveInProgress
      /\ UNCHANGED <<build, db, queue, sched, task, deaths, bug>>
  BY DEF MoveFrame, loopVars, MoveInProgress
<1>f. /\ task \in TaskType /\ task.src \in Dir /\ task.dst \in Dir
      /\ task.mode = 0 /\ task.src \in RawDir /\ task.dst \in RawDir
  BY <1>t, TaskFacts DEF IInv, FramesInv
<1>v. IsStore(src) /\ IsStore(dst) /\ PartOf(src, db[task.src]) /\ IsLast(dst, keyD)
  BY <1>t DEF IInv, ViewInv
<1>k. /\ keyS \in DOMAIN src /\ keyS = cur /\ cur \in Nat /\ cur % 2 = 0
      /\ keyD + 2 \notin DOMAIN dst /\ keyD \in Nat /\ keyD \in DOMAIN dst
  BY <1>t, <1>v DEF MoveFrame, FrameCanMove, Step, IInv, FramesInv, IsStore, IsLast
<1>m. src' = Del(src, keyS) /\ dst' = Put(dst, keyD + 2, src[keyS]) /\ keyD' = keyD + 2
      /\ keyS' = keyS + 2
  BY <1>k DEF MoveFrame, DeleteAtCursor, Step
<1>r. /\ ViewInv' /\ Taken' # {}
      /\ DOMAIN src' = DOMAIN src \ {keyS} /\ DOMAIN dst' = DOMAIN dst \union {keyD + 2}
  <2>1. keyD + 2 \in Nat /\ keyD + 2 > keyD
    BY <1>k
  <2> QED
    BY <1>t, <1>k, <1>m, <2>1, MoveRecord
<1>e. Even(src) /\ Even(dst)
  <2>1. Even(db[task.src])
    BY <1>f DEF IInv, EvenInv
  <2>2. Even(src)
    BY <1>v, <2>1 DEF PartOf, Even
  <2>3. Even(dst)
    BY <1>f, <1>t DEF IInv, EvenInv
  <2> QED
    BY <2>2, <2>3
<1>n. n \in Nat /\ n' = n + 1
  BY DEF IInv, TypeOK, MoveFrame
<1>c. \/ pc' = "commitSource" /\ cur' = cur
      \/ pc' = "frames" /\ \E k \in DOMAIN src : IsNext(src, cur, k) /\ cur' = k
  BY DEF MoveFrame
<1>1. TypeOK'
  <2>1. cur' \in Int
    BY <1>c, <1>k, <1>v DEF IsStore
  <2>2. keyS' \in Int /\ keyD' \in Int /\ n' \in Nat
    BY <1>m, <1>k, <1>n
  <2> QED
    BY <1>t, <1>f, <1>c, <2>1, <2>2 DEF IInv, TypeOK, AreStores
<1>2. NeverTwice'
  BY <1>t DEF IInv, NeverTwice, Distinct
<1>3. FramesInv'
  <2> SUFFICES ASSUME pc' = "frames" PROVE FramesInv'
    BY DEF FramesInv
  <2>1. PICK k \in DOMAIN src : IsNext(src, cur, k) /\ cur' = k
    BY <1>c
  <2>2. k \in Nat /\ k % 2 = 0 /\ k > cur /\ \A l \in DOMAIN src : cur < l => k <= l
    BY <2>1, <1>v, <1>e DEF IsNext, IsStore, Even
  <2>3. keyS' = cur + 2 /\ keyS' % 2 = 0 /\ keyS' <= cur'
    BY <1>m, <1>k, <2>1, <2>2
  <2>4. keyS' \in DOMAIN src' => keyS' = cur'
    BY <1>r, <1>k, <2>1, <2>2, <2>3
  <2> QED
    BY <1>t, <1>f, <2>1, <2>2, <2>3, <2>4 DEF FramesInv
<1>4. EvenInv'
  <2>1. Even(dst')
    BY <1>r, <1>e, <1>k DEF Even
  <2> QED
    BY <1>t, <2>1 DEF IInv, EvenInv, Even
<1>5. ChunkInv' /\ SourceInv' /\ CarryInv'
  BY <1>t, <1>f, <1>c, <1>r DEF ChunkInv, SourceInv, CarryInv
<1> QED
  BY <1>1, <1>2, <1>r, <1>3, <1>4, <1>5 DEF IInv

LEMMA MoveChunkStep == IInv /\ MoveChunk => IInv'
<1> SUFFICES ASSUME IInv, MoveChunk PROVE IInv'
  OBVIOUS
<1>t. /\ pc = "chunk" /\ MoveInProgress /\ pc' = "commitSource"
      /\ UNCHANGED <<build, db, queue, sched, task, deaths, bug, cur, n>>
  BY DEF MoveChunk, loopVars, MoveInProgress
<1>f. task.mode = 0 /\ task.src \notin RawDir /\ task.dst \notin RawDir /\ task \in TaskType
  BY <1>t, TaskFacts DEF IInv, ChunkInv
<1>v. IsStore(src) /\ IsStore(dst) /\ IsLast(dst, keyD)
  BY <1>t DEF IInv, ViewInv
<1>k. /\ task.chunk \in DOMAIN src /\ task.chunk \in Nat /\ keyD \in Nat
      /\ keyD + 1 \notin DOMAIN dst /\ keyD + 1 \in Nat /\ keyD + 1 > keyD
  <2>1. task.chunk \in DOMAIN src
    BY DEF MoveChunk
  <2>2. \A k \in DOMAIN dst : k \in Nat /\ k <= keyD
    BY <1>v DEF IsStore, IsLast
  <2>3. keyD \in Nat
    BY <1>v DEF IsStore, IsLast
  <2> QED
    BY <2>1, <2>2, <2>3, <1>v DEF IsStore
<1>m. /\ src' = Del(src, task.chunk) /\ dst' = Put(dst, keyD + 1, src[task.chunk])
      /\ keyD' = keyD + 1 /\ keyS' = task.chunk
  BY DEF MoveChunk
<1>r. ViewInv' /\ Taken' # {}
  BY <1>t, <1>k, <1>m, MoveRecord
<1>1. TypeOK'
  BY <1>t, <1>f, <1>k, <1>m DEF IInv, TypeOK, AreStores
<1>2. NeverTwice'
  BY <1>t DEF IInv, NeverTwice, Distinct
<1>3. EvenInv'
  BY <1>t, <1>f DEF IInv, EvenInv, Even
<1>4. FramesInv' /\ ChunkInv' /\ SourceInv' /\ CarryInv'
  BY <1>t, <1>f, <1>r DEF FramesInv, ChunkInv, SourceInv, CarryInv
<1> QED
  BY <1>1, <1>2, <1>r, <1>3, <1>4 DEF IInv

LEMMA SendToDecoderStep == IInv /\ SendToDecoder => IInv'
<1> SUFFICES ASSUME IInv, SendToDecoder PROVE IInv'
  OBVIOUS
<1>t. /\ pc = "decode" /\ pc' = "decoding" /\ keyS' = task.chunk
      /\ task.chunk \in DOMAIN src
      /\ UNCHANGED <<build, db, queue, sched, task, deaths, bug, src, dst, keyD, cur, n>>
  BY DEF SendToDecoder, loopVars
<1>m. MoveInProgress /\ MoveInProgress'
  BY <1>t DEF MoveInProgress
<1>v. ViewInv'
  BY <1>t, <1>m DEF IInv, ViewInv, Taken, Added
<1>1. TypeOK'
  <2>1. task \in TaskType /\ keyS' \in Int
    BY <1>m, <1>t, TaskFacts DEF TaskType
  <2> QED
    BY <1>t, <2>1 DEF IInv, TypeOK, AreStores
<1>2. NeverTwice' /\ EvenInv'
  BY <1>t, <1>m DEF IInv, NeverTwice, Distinct, EvenInv, Even
<1>3. FramesInv' /\ ChunkInv' /\ SourceInv' /\ CarryInv'
  BY <1>t DEF FramesInv, ChunkInv, SourceInv, CarryInv
<1> QED
  BY <1>1, <1>2, <1>v, <1>3 DEF IInv

LEMMA CommitSourceStep == IInv /\ CommitSource => IInv'
<1> SUFFICES ASSUME IInv, CommitSource PROVE IInv'
  OBVIOUS
<1>t. /\ pc = "commitSource" /\ pc' = "commitDest" /\ MoveInProgress
      /\ db' = [db EXCEPT ![task.src] = src]
      /\ UNCHANGED <<build, queue, sched, task, src, dst, keyS, keyD, cur, n, deaths, bug>>
  BY DEF CommitSource, loopVars, moveVars, MoveInProgress
<1>f. /\ task \in TaskType /\ task.src \in Dir /\ task.dst \in Dir /\ task.src # task.dst
      /\ task.mode = 0 /\ (task.src \in RawDir <=> task.dst \in RawDir)
  BY <1>t, TaskFacts DEF IInv, SourceInv
<1>v. /\ IsStore(src) /\ IsStore(dst)
      /\ PartOf(src, db[task.src]) /\ PartOf(db[task.dst], dst)
      /\ \A k \in Added : \E j \in Taken : dst[k] = db[task.src][j]
      /\ \A j \in Taken : \E k \in Added : dst[k] = db[task.src][j]
      /\ \A k, l \in Added : dst[k] = dst[l] => k = l
      /\ Taken # {}
  BY <1>t DEF IInv, ViewInv, SourceInv
<1>d. /\ AreStores(db) /\ DOMAIN db' = Dir /\ db'[task.src] = src
      /\ \A d \in Dir \ {task.src} : db'[d] = db[d]
  BY <1>t, <1>f DEF IInv, TypeOK, AreStores
<1>1. AreStores(db')
  BY <1>t, <1>d, <1>v DEF AreStores
<1>2. TypeOK'
  BY <1>1, <1>t, <1>f DEF IInv, TypeOK
<1>p. \A d \in Dir : PartOf(db'[d], db[d])
  BY <1>d, <1>v DEF PartOf
<1>3. NeverTwice'
  BY <1>p DEF IInv, NeverTwice, Distinct, PartOf
<1>a. Added' = Added /\ Added # {} /\ db'[task.dst] = db[task.dst]
  BY <1>t, <1>d, <1>f, <1>v DEF Added
<1>4. \A k \in Added : \A d \in Dir : \A j \in DOMAIN db'[d] : db'[d][j] # dst[k]
  <2> SUFFICES ASSUME NEW k \in Added, NEW d \in Dir, NEW j \in DOMAIN db'[d], db'[d][j] = dst[k]
               PROVE FALSE
    OBVIOUS
  <2>1. PICK i \in Taken : dst[k] = db[task.src][i]
    BY <1>v
  <2>2. j \in DOMAIN db[d] /\ db[d][j] = db[task.src][i]
    BY <2>1, <1>p DEF PartOf
  <2>3. d = task.src /\ i = j
    BY <2>2, <1>f, <2>1 DEF IInv, NeverTwice, Distinct, Taken
  <2> QED
    BY <2>3, <1>d DEF Taken
<1>e. \A d \in Dir \intersect RawDir : Even(db'[d])
  BY <1>p DEF PartOf, Even, IInv, EvenInv
<1>5. task.dst \in RawDir => Even(dst)
  BY <1>t, <1>f DEF IInv, EvenInv
<1>6. CarryInv'
  BY <1>t, <1>f, <1>v, <1>a, <1>4, <1>5 DEF CarryInv
<1>7. ~MoveInProgress'
  BY <1>t DEF MoveInProgress
<1>8. EvenInv'
  BY <1>e, <1>7 DEF EvenInv
<1>9. ViewInv' /\ FramesInv' /\ ChunkInv' /\ SourceInv'
  BY <1>t, <1>7 DEF ViewInv, FramesInv, ChunkInv, SourceInv
<1> QED
  BY <1>2, <1>3, <1>6, <1>8, <1>9 DEF IInv

LEMMA CommitDestStep == IInv /\ CommitDest => IInv'
<1> SUFFICES ASSUME IInv, CommitDest PROVE IInv'
  OBVIOUS
<1>t. /\ pc = "commitDest" /\ pc' = "send"
      /\ db' = [db EXCEPT ![task.dst] = dst]
      /\ UNCHANGED <<build, queue, sched, task, src, dst, keyS, keyD, cur, n, deaths, bug>>
  BY DEF CommitDest, loopVars, moveVars
<1>f. task.dst \in Dir
  BY <1>t, TaskFacts
<1>v. /\ IsStore(dst) /\ PartOf(db[task.dst], dst)
      /\ task.dst \in RawDir => Even(dst)
      /\ \A k \in Added : \A d \in Dir : \A j \in DOMAIN db[d] : db[d][j] # dst[k]
      /\ \A k, l \in Added : dst[k] = dst[l] => k = l
  BY <1>t DEF IInv, CarryInv
<1>d. /\ AreStores(db) /\ DOMAIN db' = Dir /\ db'[task.dst] = dst
      /\ \A d \in Dir \ {task.dst} : db'[d] = db[d]
  BY <1>t, <1>f DEF IInv, TypeOK, AreStores
<1>1. AreStores(db')
  BY <1>t, <1>d, <1>v DEF AreStores
<1>2. TypeOK'
  BY <1>1, <1>t DEF IInv, TypeOK
<1>3. NeverTwice'
  <2> SUFFICES ASSUME NEW d \in Dir, NEW e \in Dir, NEW j \in DOMAIN db'[d], NEW k \in DOMAIN db'[e],
                      db'[d][j] = db'[e][k]
               PROVE  d = e /\ j = k
    BY DEF NeverTwice, Distinct
  <2>1. \A i \in DOMAIN dst : i \in Added \/ (i \in DOMAIN db[task.dst] /\ dst[i] = db[task.dst][i])
    BY <1>v DEF Added, PartOf
  <2>2. CASE d = task.dst /\ e = task.dst
    BY <2>1, <2>2, <1>d, <1>f, <1>v, SameItem
  <2>3. CASE d = task.dst /\ e # task.dst
    BY <2>1, <2>3, <1>d, <1>f, <1>v DEF IInv, NeverTwice, Distinct
  <2>4. CASE d # task.dst /\ e = task.dst
    BY <2>1, <2>4, <1>d, <1>f, <1>v DEF IInv, NeverTwice, Distinct
  <2>5. CASE d # task.dst /\ e # task.dst
    BY <2>5, <1>d DEF IInv, NeverTwice, Distinct
  <2> QED
    BY <2>2, <2>3, <2>4, <2>5
<1>4. ~MoveInProgress' /\ \A d \in Dir \intersect RawDir : Even(db'[d])
  BY <1>t, <1>d, <1>v DEF MoveInProgress, IInv, EvenInv
<1>5. EvenInv' /\ ViewInv' /\ FramesInv' /\ ChunkInv' /\ SourceInv' /\ CarryInv'
  BY <1>t, <1>4 DEF EvenInv, ViewInv, FramesInv, ChunkInv, SourceInv, CarryInv
<1> QED
  BY <1>2, <1>3, <1>5 DEF IInv

LEMMA StutterStep == IInv /\ UNCHANGED vars => IInv'
<1> SUFFICES ASSUME IInv, UNCHANGED vars PROVE IInv'
  OBVIOUS
<1>t. /\ UNCHANGED <<build, db, queue, sched, task, pc, deaths, bug>>
      /\ UNCHANGED <<src, dst, keyS, keyD, cur, n>>
  BY DEF vars, loopVars, moveVars
<1>1. TypeOK' /\ NeverTwice'
  BY <1>t DEF IInv, TypeOK, AreStores, NeverTwice, Distinct
<1>2. (MoveInProgress' <=> MoveInProgress) /\ Taken' = Taken /\ Added' = Added
  BY <1>t DEF MoveInProgress, Taken, Added
<1>3. ViewInv'
  BY <1>t, <1>2 DEF IInv, ViewInv
<1>4. CarryInv' /\ SourceInv'
  BY <1>t, <1>2 DEF IInv, CarryInv, SourceInv, Even
<1>5. FramesInv' /\ ChunkInv' /\ EvenInv'
  BY <1>t, <1>2 DEF IInv, FramesInv, ChunkInv, EvenInv, Even
<1> QED
  BY <1>1, <1>3, <1>4, <1>5 DEF IInv

(* Every end of the process is a Die. *)
LEMMA Deaths ==
  ASSUME OpenEmpty \/ FrameFails \/ ChunkMissing \/ Encode \/ CommitFails \/ Crash
  PROVE  \E why : Die(why)
<1>1. CASE OpenEmpty
  BY <1>1 DEF OpenEmpty
<1>2. CASE FrameFails
  BY <1>2 DEF FrameFails
<1>3. CASE ChunkMissing
  BY <1>3 DEF ChunkMissing
<1>4. CASE Encode
  BY <1>4 DEF Encode
<1>5. CASE CommitFails
  BY <1>5 DEF CommitFails
<1>6. CASE Crash
  BY <1>6 DEF Crash
<1> QED
  BY <1>1, <1>2, <1>3, <1>4, <1>5, <1>6

LEMMA StepInv == IInv /\ [Next]_vars => IInv'
<1> SUFFICES ASSUME IInv, [Next]_vars PROVE IInv'
  OBVIOUS
<1>1. ASSUME OpenEmpty \/ FrameFails \/ ChunkMissing \/ Encode \/ CommitFails \/ Crash PROVE IInv'
  <2>1. PICK why : Die(why)
    BY <1>1, Deaths
  <2> QED
    BY <2>1, DieStep
<1> QED
  BY <1>1, LoopStep, RestartStep, OpenStep, MoveFrameStep, MoveChunkStep, SendToDecoderStep,
     CommitSourceStep, CommitDestStep, StutterStep DEF Next, Move, Failure

(* The invariant holds for all directories, builds, chunk lengths and      *)
(* numbers of failures: the two views of a move balance record by record.  *)
THEOREM InductiveInvariant == Spec => []IInv
BY InitInv, StepInv, PTL DEF Spec

(* No item of the footage is ever stored twice, wherever the process dies. *)
THEOREM NeverTwiceThm == Spec => []NeverTwice
<1>1. IInv => NeverTwice
  BY DEF IInv
<1> QED
  BY <1>1, InductiveInvariant, PTL

-----------------------------------------------------------------------------
(* Refinement of Relocate. *)

LEMMA InitRefines == Init => Footage!Init
<1> SUFFICES ASSUME Init PROVE Footage!Init
  OBVIOUS
<1>1. IInv /\ pc = "send"
  BY InitInv DEF Init
<1>2. \A d \in Dir : Held[d] = {db[d][k] : k \in DOMAIN db[d]}
  BY DEF Held, Stored
<1>3. Held \in [Dir -> SUBSET Items]
  BY <1>1, <1>2 DEF Held, IInv, TypeOK, AreStores, IsStore
<1>4. \A d, e \in Dir : d # e => Held[d] \intersect Held[e] = {}
  BY <1>1, <1>2 DEF IInv, NeverTwice, Distinct
<1>5. Carried = {}
  BY <1>1 DEF Carried
<1> QED
  BY <1>3, <1>4, <1>5 DEF Footage!Init

(* What is carried between the commits is what was added. *)
LEMMA CarriedIsAdded ==
  IInv /\ pc = "commitDest" => Carried = {dst[k] : k \in Added} /\ Carried # {}
<1> SUFFICES ASSUME IInv, pc = "commitDest"
             PROVE  Carried = {dst[k] : k \in Added} /\ Carried # {}
  OBVIOUS
<1>1. PartOf(db[task.dst], dst) /\ Added # {} /\ task.dst \in Dir
  BY TaskFacts DEF IInv, CarryInv
<1>2. \A k \in Added : \A j \in DOMAIN db[task.dst] : db[task.dst][j] # dst[k]
  BY <1>1 DEF IInv, CarryInv
<1>3. Carried = Stored(dst) \ Stored(db[task.dst])
  BY DEF Carried
<1>4. \A x : x \in Stored(dst) \ Stored(db[task.dst]) <=> \E k \in Added : x = dst[k]
  BY <1>1, <1>2 DEF Stored, PartOf, Added
<1> QED
  BY <1>1, <1>3, <1>4

LEMMA StepRefines == IInv /\ [Next]_vars => [Footage!Next]_<<Held, Carried>>
<1> SUFFICES ASSUME IInv, [Next]_vars PROVE [Footage!Next]_<<Held, Carried>>
  OBVIOUS
<1>i. IInv'
  BY StepInv
<1>1. CASE CommitSource
  <2>t. /\ pc = "commitSource" /\ pc' = "commitDest" /\ MoveInProgress
        /\ db' = [db EXCEPT ![task.src] = src] /\ task' = task /\ dst' = dst
    BY <1>1 DEF CommitSource, loopVars, moveVars, MoveInProgress
  <2>f. task.src \in Dir /\ task.dst \in Dir /\ task.src # task.dst /\ AreStores(db)
    BY <2>t, TaskFacts DEF IInv, TypeOK
  <2>v. /\ PartOf(src, db[task.src])
        /\ \A k \in Added : \E j \in Taken : dst[k] = db[task.src][j]
        /\ \A j \in Taken : \E k \in Added : dst[k] = db[task.src][j]
    BY <2>t DEF IInv, ViewInv
  <2>1. Carried = {}
    BY <2>t DEF Carried
  <2>2. Carried' = {dst'[k] : k \in Added'} /\ Carried' # {}
    <3>1. (IInv /\ pc = "commitDest" => Carried = {dst[k] : k \in Added} /\ Carried # {})'
      BY CarriedIsAdded, PTL
    <3> QED
      BY <3>1, <1>i, <2>t
  <2>3. Added' = Added
    BY <2>t, <2>f DEF Added, AreStores
  <2>4. \A x : x \in Carried' <=> \E j \in Taken : x = db[task.src][j]
    BY <2>2, <2>3, <2>t, <2>v
  <2>5. Held = [d \in Dir |-> Stored(db[d])] /\ Held' = [d \in Dir |-> Stored(db'[d])]
    BY DEF Held
  <2>6. \A x : x \in Stored(db[task.src]) <=> \E j \in DOMAIN db[task.src] : x = db[task.src][j]
    BY DEF Stored
  <2>7. Carried' \subseteq Held[task.src]
    BY <2>4, <2>5, <2>6, <2>f DEF Taken
  <2>8. \A j \in DOMAIN src : \A i \in Taken : db[task.src][i] # src[j]
    BY <2>v, <2>f, SameItem DEF PartOf, Taken
  <2>9. \A x : x \in Stored(src) <=> x \in Stored(db[task.src]) /\ x \notin Carried'
    <3>1. \A x : x \in Stored(src) <=> \E j \in DOMAIN src : x = src[j]
      BY DEF Stored
    <3>2. \A x : x \in Stored(src) => x \in Stored(db[task.src]) /\ x \notin Carried'
      BY <3>1, <2>4, <2>6, <2>8, <2>v DEF PartOf
    <3>3. \A x : x \in Stored(db[task.src]) /\ x \notin Carried' => x \in Stored(src)
      BY <3>1, <2>4, <2>6, <2>v DEF PartOf, Taken
    <3> QED
      BY <3>2, <3>3
  <2>10. Stored(src) = Held[task.src] \ Carried'
    BY <2>9, <2>5, <2>f
  <2>11. Held' = [Held EXCEPT ![task.src] = @ \ Carried']
    BY <2>10, <2>5, <2>t, <2>f DEF AreStores
  <2> QED
    BY <2>1, <2>2, <2>7, <2>11, <2>f DEF Footage!Next, Footage!Take
<1>2. CASE CommitDest
  <2>t. /\ pc = "commitDest" /\ pc' = "send" /\ db' = [db EXCEPT ![task.dst] = dst]
    BY <1>2 DEF CommitDest
  <2>f. task.dst \in Dir /\ AreStores(db) /\ PartOf(db[task.dst], dst)
    BY <2>t, TaskFacts DEF IInv, TypeOK, CarryInv
  <2>1. Carried = {dst[k] : k \in Added} /\ Carried # {}
    BY <2>t, CarriedIsAdded
  <2>2. Carried' = {}
    BY <2>t DEF Carried
  <2>3. Held = [d \in Dir |-> Stored(db[d])] /\ Held' = [d \in Dir |-> Stored(db'[d])]
    BY DEF Held
  <2>4. \A x : x \in Stored(dst) <=> x \in Stored(db[task.dst]) \/ x \in Carried
    BY <2>1, <2>f DEF Stored, PartOf, Added
  <2>5. Stored(dst) = Held[task.dst] \union Carried
    BY <2>3, <2>4, <2>f
  <2>6. Held' = [Held EXCEPT ![task.dst] = @ \union Carried]
    BY <2>3, <2>5, <2>t, <2>f DEF AreStores
  <2> QED
    BY <2>1, <2>2, <2>6, <2>f DEF Footage!Next, Footage!PutDown
<1>3. ASSUME UNCHANGED db, pc' # "commitDest" PROVE [Footage!Next]_<<Held, Carried>>
  <2>1. Held' = Held /\ Carried' = {}
    BY <1>3 DEF Held, Carried
  <2> QED
    BY <2>1 DEF Footage!Next, Footage!Lose
<1>4. CASE UNCHANGED vars
  BY <1>4 DEF vars, loopVars, moveVars, Held, Carried
<1>5. ASSUME OpenEmpty \/ FrameFails \/ ChunkMissing \/ Encode \/ CommitFails \/ Crash
      PROVE  UNCHANGED db /\ pc' # "commitDest"
  BY <1>5, Deaths DEF Die
<1>6. ASSUME Loop \/ Restart \/ SendToDecoder \/ MoveChunk \/ MoveFrame
      PROVE  UNCHANGED db /\ pc' # "commitDest"
  BY <1>6 DEF Loop, Announce, Announced, NothingToAnnounce, Permission, Restart, SendToDecoder,
    MoveChunk, MoveFrame
<1>7. ASSUME Open PROVE UNCHANGED db /\ pc' # "commitDest"
  <2>1. pc' = Transfer /\ UNCHANGED db /\ pc = "open"
    BY <1>7 DEF Open
  <2>2. task.mode \in 0..2
    BY <2>1, TaskFacts
  <2> QED
    BY <2>1, <2>2 DEF Transfer
<1> QED
  BY <1>1, <1>2, <1>3, <1>4, <1>5, <1>6, <1>7 DEF Next, Move, Failure

(* Moving a chunk with two commits implements Relocate: footage is in one  *)
(* place or being carried, and only what is carried can be lost.           *)
THEOREM RelocateRefinement == Spec => ImplementsRelocate
<1>1. Spec => Footage!Init /\ [][Footage!Next]_<<Held, Carried>>
  BY InitRefines, StepRefines, InductiveInvariant, PTL DEF Spec
<1> QED
  BY <1>1 DEF ImplementsRelocate, Footage!Spec

-----------------------------------------------------------------------------
(* What a failure costs. *)

(* A step that ends the process loses at most what was being carried; no   *)
(* other step loses anything.                                              *)
LEMMA LostStep ==
  ASSUME IInv, [Next]_vars
  PROVE  \/ Lost' \subseteq Lost /\ deaths' = deaths
         \/ Lost' \subseteq Lost \union Carried /\ deaths' = deaths + 1
<1>b. Everything' = Everything
  BY DEF Next, Loop, Move, Failure, Announce, Announced, NothingToAnnounce, Permission, OpenEmpty,
     Open, FrameFails, MoveFrame, MoveChunk, ChunkMissing, SendToDecoder, Encode, CommitSource,
     CommitDest, CommitFails, Crash, Restart, Die, vars, Everything
<1>h. Held = [d \in Dir |-> Stored(db[d])] /\ Held' = [d \in Dir |-> Stored(db'[d])]
  BY DEF Held
<1>l. \A x : x \in Lost <=>
         x \in Everything /\ x \notin Carried /\ \A d \in Dir : x \notin Stored(db[d])
  BY DEF Lost
<1>m. \A x : x \in Lost' <=>
         x \in Everything' /\ x \notin Carried' /\ \A d \in Dir : x \notin Stored(db'[d])
  BY DEF Lost
<1>1. ASSUME NEW why, Die(why)
      PROVE  Lost' \subseteq Lost \union Carried /\ deaths' = deaths + 1
  <2>1. db' = db /\ deaths' = deaths + 1
    BY <1>1 DEF Die
  <2> QED
    BY <2>1, <1>b, <1>l, <1>m
<1>2. ASSUME UNCHANGED <<db, deaths>>, pc # "commitDest"
      PROVE  Lost' \subseteq Lost /\ deaths' = deaths
  <2>1. Carried = {}
    BY <1>2 DEF Carried
  <2> QED
    BY <2>1, <1>2, <1>b, <1>l, <1>m
<1>3. CASE CommitSource
  <2>1. /\ pc = "commitSource" /\ pc' = "commitDest" /\ deaths' = deaths
        /\ db' = [db EXCEPT ![task.src] = src] /\ task' = task /\ dst' = dst
    BY <1>3 DEF CommitSource, loopVars, moveVars
  <2>2. Carried = {}
    BY <2>1 DEF Carried
  <2>3. [Footage!Next]_<<Held, Carried>>
    BY StepRefines
  <2>4. ASSUME NEW d \in Dir, Footage!Take(d) PROVE Lost' \subseteq Lost
    <3>1. Carried' \subseteq Held[d] /\ Held' = [Held EXCEPT ![d] = @ \ Carried']
      BY <2>4 DEF Footage!Take
    <3>2. \A e \in Dir : \A x \in Held[e] : x \in Held'[e] \/ x \in Carried'
      BY <3>1, <1>h
    <3> QED
      BY <3>2, <2>2, <1>b, <1>h, <1>l, <1>m
  <2>5. ASSUME UNCHANGED <<Held, Carried>> PROVE Lost' \subseteq Lost
    <3>1. \A e \in Dir : Stored(db'[e]) = Stored(db[e])
      BY <2>5, <1>h
    <3> QED
      BY <3>1, <2>5, <1>b, <1>l, <1>m
  <2> QED
    BY <2>1, <2>2, <2>3, <2>4, <2>5 DEF Footage!Next, Footage!PutDown, Footage!Lose
<1>4. CASE CommitDest
  <2>1. /\ pc = "commitDest" /\ db' = [db EXCEPT ![task.dst] = dst] /\ deaths' = deaths
        /\ task' = task
    BY <1>4 DEF CommitDest, loopVars, moveVars
  <2>2. task.dst \in Dir /\ AreStores(db) /\ PartOf(db[task.dst], dst)
    BY <2>1, TaskFacts DEF IInv, TypeOK, CarryInv
  <2>3. db'[task.dst] = dst /\ \A d \in Dir \ {task.dst} : db'[d] = db[d]
    BY <2>1, <2>2 DEF AreStores
  <2>4. Carried \subseteq Stored(dst) /\ Stored(db[task.dst]) \subseteq Stored(dst)
    BY <2>1, <2>2 DEF Carried, Stored, PartOf
  <2> QED
    BY <2>1, <2>2, <2>3, <2>4, <1>b, <1>l, <1>m
<1>5. CASE UNCHANGED vars
  <2>1. UNCHANGED <<db, deaths, pc, dst, task>>
    BY <1>5 DEF vars, loopVars, moveVars
  <2>2. Carried' = Carried
    BY <2>1 DEF Carried
  <2> QED
    BY <2>1, <2>2, <1>b, <1>l, <1>m
<1>6. ASSUME OpenEmpty \/ FrameFails \/ ChunkMissing \/ Encode \/ CommitFails \/ Crash
      PROVE  \E why : Die(why)
  BY <1>6, Deaths
<1>7. ASSUME Loop \/ Restart \/ SendToDecoder \/ MoveChunk \/ MoveFrame \/ Open
      PROVE  UNCHANGED <<db, deaths>> /\ pc # "commitDest"
  BY <1>7 DEF Loop, Announce, Announced, NothingToAnnounce, Permission, Restart, SendToDecoder,
    MoveChunk, MoveFrame, Open
<1> QED
  BY <1>1, <1>2, <1>3, <1>4, <1>5, <1>6, <1>7 DEF Next, Move, Failure

LEMMA CountStep == ASSUME IInv, CountInv, [Next]_vars PROVE CountInv'
<1>i. IInv'
  BY StepInv
<1>s. ChunkLength \in Nat \ {0} /\ n \in Nat
  BY SizesAssumption DEF IInv, TypeOK
<1>1. CASE Open
  <2>1. dst' = db[task.dst] /\ n' = 0 /\ UNCHANGED <<db, task>> /\ pc = "open" /\ pc' = Transfer
    BY <1>1 DEF Open, loopVars
  <2>2. Added' = {}
    BY <2>1 DEF Added
  <2>3. task.mode \in 0..2
    BY <2>1, TaskFacts
  <2>4. pc' \notin {"commitSource", "commitDest"}
    BY <2>1, <2>3 DEF Transfer
  <2> QED
    BY <2>1, <2>2, <2>4, <1>s, FS_EmptySet DEF CountInv
<1>2. CASE MoveFrame
  <2>t. pc = "frames" /\ MoveInProgress /\ UNCHANGED <<db, task>>
    BY <1>2 DEF MoveFrame, loopVars, MoveInProgress
  <2>1. /\ n' = n + 1 /\ dst' = Put(dst, keyD + Step, src[keyS]) /\ keyD + Step \notin DOMAIN dst
        /\ \/ LastFrame /\ pc' = "commitSource"
           \/ ~LastFrame /\ pc' = "frames"
    BY <1>2 DEF MoveFrame, FrameCanMove
  <2>2. DOMAIN dst' = DOMAIN dst \union {keyD + Step}
    BY <2>1 DEF Put
  <2>3. PartOf(db[task.dst], dst)
    BY <2>t DEF IInv, ViewInv
  <2>4. Added' = Added \union {keyD + Step} /\ keyD + Step \notin Added
    BY <2>t, <2>1, <2>2, <2>3 DEF Added, PartOf
  <2>5. IsFiniteSet(Added) /\ Cardinality(Added) = n /\ n < ChunkLength
    BY <2>t DEF CountInv
  <2>6. IsFiniteSet(Added') /\ Cardinality(Added') = n + 1
    BY <2>4, <2>5, FS_AddElement
  <2>7. pc' = "frames" => n + 1 < ChunkLength
    BY <2>1, <2>5, <1>s DEF LastFrame
  <2> QED
    BY <2>1, <2>5, <2>6, <2>7, <1>s DEF CountInv
<1>3. CASE MoveChunk
  <2>t. pc = "chunk" /\ MoveInProgress /\ UNCHANGED <<db, task>> /\ pc' = "commitSource"
    BY <1>3 DEF MoveChunk, loopVars, MoveInProgress
  <2>1. dst' = Put(dst, keyD + 1, src[task.chunk])
    BY <1>3 DEF MoveChunk
  <2>2. DOMAIN dst' = DOMAIN dst \union {keyD + 1}
    BY <2>1 DEF Put
  <2>3. Added = {}
    BY <2>t DEF CountInv
  <2>4. Added' \subseteq {} \union {keyD + 1}
    BY <2>t, <2>2, <2>3 DEF Added
  <2>5. IsFiniteSet({} \union {keyD + 1}) /\ Cardinality({} \union {keyD + 1}) = 1
    BY FS_EmptySet, FS_AddElement
  <2>6. IsFiniteSet(Added') /\ Cardinality(Added') <= 1
    BY <2>4, <2>5, FS_Subset
  <2>7. Cardinality(Added') \in Nat
    BY <2>6, FS_CardinalityType
  <2> QED
    BY <2>t, <2>6, <2>7, <1>s DEF CountInv
<1>4. CASE CommitSource
  <2>t. /\ pc = "commitSource" /\ pc' = "commitDest" /\ MoveInProgress
        /\ db' = [db EXCEPT ![task.src] = src] /\ task' = task /\ dst' = dst
    BY <1>4 DEF CommitSource, loopVars, moveVars, MoveInProgress
  <2>f. task.src \in Dir /\ task.dst \in Dir /\ task.src # task.dst /\ AreStores(db)
    BY <2>t, TaskFacts DEF IInv, TypeOK
  <2>1. Added' = Added
    BY <2>t, <2>f DEF Added, AreStores
  <2> QED
    BY <2>t, <2>1 DEF CountInv
<1>5. CASE UNCHANGED vars
  <2>1. UNCHANGED <<db, task, dst, pc, n>>
    BY <1>5 DEF vars, loopVars, moveVars
  <2>2. Added' = Added
    BY <2>1 DEF Added
  <2> QED
    BY <2>1, <2>2 DEF CountInv
<1>6. ASSUME pc' \notin {"frames", "chunk", "commitSource", "commitDest"} PROVE CountInv'
  BY <1>6 DEF CountInv
<1>7. ASSUME OpenEmpty \/ FrameFails \/ ChunkMissing \/ Encode \/ CommitFails \/ Crash
      PROVE  pc' = "dead"
  BY <1>7, Deaths DEF Die
<1>8. ASSUME Loop \/ Restart \/ SendToDecoder \/ CommitDest
      PROVE  pc' \in {"send", "reply", "grant", "open", "decoding"}
  BY <1>8 DEF Loop, Announce, Announced, NothingToAnnounce, Permission, Restart, SendToDecoder,
    CommitDest
<1> QED
  BY <1>1, <1>2, <1>3, <1>4, <1>5, <1>6, <1>7, <1>8 DEF Next, Move, Failure

(* What is carried is at most a chunk. *)
LEMMA CarriedBound ==
  ASSUME IInv, CountInv
  PROVE  IsFiniteSet(Carried) /\ Cardinality(Carried) \in Nat /\ Cardinality(Carried) <= ChunkLength
<1>s. ChunkLength \in Nat
  BY SizesAssumption
<1>1. CASE pc = "commitDest"
  <2>1. Carried = {dst[k] : k \in Added}
    BY <1>1, CarriedIsAdded
  <2>2. IsFiniteSet(Added) /\ Cardinality(Added) <= ChunkLength
    BY <1>1 DEF CountInv
  <2> DEFINE image == [k \in Added |-> dst[k]]
  <2>3. image \in Surjection(Added, Carried)
    BY <2>1 DEF Surjection
  <2> HIDE DEF image
  <2>4. IsFiniteSet(Carried) /\ Cardinality(Carried) <= Cardinality(Added)
    BY <2>2, <2>3, FS_Surjection
  <2>5. Cardinality(Carried) \in Nat /\ Cardinality(Added) \in Nat
    BY <2>2, <2>4, FS_CardinalityType
  <2> QED
    BY <2>2, <2>4, <2>5, <1>s
<1>2. CASE pc # "commitDest"
  <2>1. Carried = {}
    BY <1>2 DEF Carried
  <2> QED
    BY <2>1, <1>s, FS_EmptySet
<1> QED
  BY <1>1, <1>2

LEMMA InitLoss == Init => LossInv
<1> SUFFICES ASSUME Init PROVE LossInv
  OBVIOUS
<1>1. CountInv
  BY DEF Init, CountInv
<1>2. db = build.store /\ deaths = 0
  BY DEF Init
<1>3. Lost = {}
  BY <1>2 DEF Lost, Everything
<1> QED
  BY <1>1, <1>2, <1>3, FS_EmptySet, SizesAssumption DEF LossInv, LossBound

LEMMA LossStep == IInv /\ LossInv /\ [Next]_vars => LossInv'
<1> SUFFICES ASSUME IInv, LossInv, [Next]_vars PROVE LossInv'
  OBVIOUS
<1>1. CountInv'
  BY CountStep DEF LossInv
<1>2. /\ IsFiniteSet(Lost) /\ Cardinality(Lost) <= ChunkLength * deaths
      /\ IsFiniteSet(Carried) /\ Cardinality(Carried) \in Nat /\ Cardinality(Carried) <= ChunkLength
  BY CarriedBound DEF LossInv, LossBound
<1>3. ChunkLength \in Nat /\ deaths \in Nat /\ Cardinality(Lost) \in Nat
  BY <1>2, SizesAssumption, FS_CardinalityType DEF IInv, TypeOK
<1>4. CASE Lost' \subseteq Lost /\ deaths' = deaths
  <2>1. IsFiniteSet(Lost') /\ Cardinality(Lost') <= Cardinality(Lost)
    BY <1>2, <1>4, FS_Subset
  <2>2. Cardinality(Lost') \in Nat
    BY <2>1, FS_CardinalityType
  <2>3. ChunkLength * deaths \in Nat
    BY <1>3
  <2> HIDE DEF Lost
  <2>4. Cardinality(Lost') <= ChunkLength * deaths
    BY <1>2, <1>3, <2>1, <2>2, <2>3
  <2> QED
    BY <1>1, <1>4, <2>1, <2>4 DEF LossInv, LossBound
<1>5. CASE Lost' \subseteq Lost \union Carried /\ deaths' = deaths + 1
  <2>0. /\ IsFiniteSet(Lost \union Carried) /\ IsFiniteSet(Lost \intersect Carried)
        /\ Cardinality(Lost \union Carried) =
             Cardinality(Lost) + Cardinality(Carried) - Cardinality(Lost \intersect Carried)
    BY <1>2, FS_Union, FS_Intersection
  <2>1. IsFiniteSet(Lost') /\ Cardinality(Lost') <= Cardinality(Lost \union Carried)
    BY <2>0, <1>5, FS_Subset
  <2>2. Cardinality(Lost') \in Nat /\ Cardinality(Lost \intersect Carried) \in Nat
    BY <2>0, <2>1, FS_CardinalityType
  <2>3. Cardinality(Lost') <= Cardinality(Lost) + Cardinality(Carried)
    BY <2>0, <2>1, <2>2, <1>2, <1>3
  <2>4. ChunkLength * (deaths + 1) = ChunkLength * deaths + ChunkLength /\ ChunkLength * deaths \in Nat
    BY <1>3
  <2>5. Cardinality(Lost') <= ChunkLength * (deaths + 1)
    BY <1>2, <1>3, <2>2, <2>3, <2>4
  <2> QED
    BY <1>1, <1>5, <2>1, <2>5 DEF LossInv, LossBound
<1> QED
  BY <1>4, <1>5, LostStep

(* Each end of the process costs at most one chunk of the footage: for any *)
(* tasks, and wherever and however often the process dies.                 *)
THEOREM LossBoundThm == Spec => []LossBound
<1>1. LossInv => LossBound
  BY DEF LossInv
<1>2. Spec => []LossInv
  BY InitLoss, LossStep, InductiveInvariant, PTL DEF Spec
<1> QED
  BY <1>1, <1>2, PTL

-----------------------------------------------------------------------------
(* Every move finishes. *)


(* A store whose keys are consecutive, and its first and its last record.  *)
LEMMA WalkOfKeys ==
  ASSUME NEW a \in Nat, NEW m \in Nat, NEW k \in Int
  PROVE  k \in Keys(a, m) <=> k % 2 = 0 /\ 2 * a < k /\ k <= 2 * (a + m)
<1>1. k % 2 = 0 => \E i \in Int : k = 2 * i
  OBVIOUS
<1> QED
  BY <1>1 DEF Keys

LEMMA ChunkArithmetic ==
  ASSUME NEW c \in Nat
  PROVE  /\ Chunks(c) \in Nat /\ Chunks(c + 1) = Chunks(c) + ChunkLength
         /\ c # 0 => c - 1 \in Nat /\ Chunks((c - 1) + 1) = Chunks(c)
         /\ c = 0 => Chunks(c) = 0
         /\ ChunkLength \in Nat \ {0}
BY SizesAssumption DEF Chunks

LEMMA WholeNumber ==
  ASSUME NEW m \in Nat, m % ChunkLength = 0
  PROVE  \E c \in Nat : m = Chunks(c)
<1> DEFINE c == m \div ChunkLength
<1>1. c \in Int /\ m = ChunkLength * c + (m % ChunkLength)
  BY SizesAssumption
<1> HIDE DEF c
<1>2. c < 0 => ChunkLength * c <= -ChunkLength
  BY <1>1, SizesAssumption
<1>3. c \in Nat /\ m = Chunks(c)
  BY <1>1, <1>2, SizesAssumption DEF Chunks
<1> QED
  BY <1>3

(* Removing the first record, and adding one after the last. *)
LEMMA FirstAndLast ==
  ASSUME NEW s, NEW a \in Nat, NEW m \in Nat, DOMAIN s = Keys(a, m), NEW k
  PROVE  /\ IsFirst(s, k) => m > 0 /\ k = 2 * (a + 1)
         /\ IsLast(s, k) => m > 0 /\ k = 2 * (a + m)
<1>1. \A j : j \in DOMAIN s => j \in Int /\ j % 2 = 0 /\ 2 * a < j /\ j <= 2 * (a + m)
  <2>1. \A j : j \in DOMAIN s => j \in Int
    BY DEF Keys
  <2> QED
    BY <2>1, WalkOfKeys
<1>2. m > 0 => 2 * (a + 1) \in DOMAIN s /\ 2 * (a + m) \in DOMAIN s
  BY DEF Keys
<1> QED
  BY <1>1, <1>2 DEF IsFirst, IsLast

LEMMA OneLess ==
  ASSUME NEW a \in Nat, NEW m \in Nat, m > 0
  PROVE  Keys(a, m) \ {2 * (a + 1)} = Keys(a + 1, m - 1)
<1>1. \A k : k \in Keys(a, m) => k \in Int
  BY DEF Keys
<1>2. \A k : k \in Keys(a + 1, m - 1) => k \in Int
  BY DEF Keys
<1>3. \A k \in Int : k \in Keys(a, m) <=> k % 2 = 0 /\ 2 * a < k /\ k <= 2 * (a + m)
  BY WalkOfKeys
<1>4. \A k \in Int : k \in Keys(a + 1, m - 1) <=> k % 2 = 0 /\ 2 * (a + 1) < k /\ k <= 2 * (a + m)
  <2>1. a + 1 \in Nat /\ m - 1 \in Nat /\ (a + 1) + (m - 1) = a + m
    OBVIOUS
  <2> QED
    BY <2>1, WalkOfKeys
<1> QED
  BY <1>1, <1>2, <1>3, <1>4

LEMMA OneMore ==
  ASSUME NEW a \in Nat, NEW m \in Nat
  PROVE  Keys(a, m) \union {2 * (a + m) + 2} = Keys(a, m + 1)
<1>1. \A k : k \in Keys(a, m) \/ k \in Keys(a, m + 1) => k \in Int
  BY DEF Keys
<1>2. \A k \in Int : k \in Keys(a, m) <=> k % 2 = 0 /\ 2 * a < k /\ k <= 2 * (a + m)
  BY WalkOfKeys
<1>3. \A k \in Int : k \in Keys(a, m + 1) <=> k % 2 = 0 /\ 2 * a < k /\ k <= 2 * (a + m) + 2
  <2>1. m + 1 \in Nat /\ 2 * (a + (m + 1)) = 2 * (a + m) + 2
    OBVIOUS
  <2> QED
    BY <2>1, WalkOfKeys
<1> QED
  BY <1>1, <1>2, <1>3

LEMMA InitFinish == Init => FinishInv
<1> SUFFICES ASSUME Init, WholeChunks PROVE WalkInv
  BY DEF FinishInv
<1>1. ASSUME NEW d \in Dir \intersect RawDir PROVE HoldsChunks(db[d])
  <2> DEFINE m == Cardinality(DOMAIN build.store[d])
  <2>1. IsFiniteSet(DOMAIN build.store[d]) /\ DOMAIN build.store[d] = {2 * i : i \in 1..m}
    BY AsBuilt DEF Init
  <2>2. m \in Nat /\ m % ChunkLength = 0
    BY <2>1, FS_CardinalityType DEF WholeChunks
  <2> HIDE DEF m
  <2>3. PICK c \in Nat : m = Chunks(c)
    BY <2>2, WholeNumber
  <2>4. DOMAIN db[d] = Keys(0, Chunks(c))
    BY <2>1, <2>2, <2>3 DEF Init, Keys
  <2> QED
    BY <2>4 DEF HoldsChunks
<1> QED
  BY <1>1 DEF WalkInv, Init

(* A step that leaves the databases alone and is not in the loop. *)
LEMMA FinishResting ==
  ASSUME WalkInv, db' = db, bug' # "frame", pc' \notin {"frames", "commitSource", "commitDest"}
  PROVE  WalkInv'
BY DEF WalkInv, HoldsChunks

LEMMA FinishOpen == ASSUME IInv, WalkInv, Open PROVE WalkInv'
<1>t. pc = "open" /\ pc' = Transfer /\ UNCHANGED <<db, task, bug>> /\ n' = 0
      /\ src' = db[task.src] /\ dst' = db[task.dst]
  BY DEF Open, loopVars
<1>f. /\ task.src \in Dir /\ task.dst \in Dir /\ task.mode \in 0..2
      /\ task.mode = 0 => (task.src \in RawDir <=> task.dst \in RawDir)
  BY <1>t, TaskFacts
<1>m. /\ pc' \in {"frames", "chunk", "decode", "encode"}
      /\ pc' = "frames" => task.mode = 0 /\ task.src \in RawDir
  BY <1>t, <1>f DEF Transfer
<1>1. ASSUME pc' = "frames" PROVE FrameWalk'
  <2>1. PICK first \in DOMAIN db[task.src] :
          IsFirst(db[task.src], first) /\ keyS' = first /\ cur' = first
    BY DEF Open
  <2>2. PICK a \in Nat, m \in Nat : DOMAIN db[task.src] = Keys(a, Chunks(m))
    BY <1>1, <1>f, <1>m DEF WalkInv, HoldsChunks
  <2>3. Chunks(m) > 0 /\ first = 2 * (a + 1)
    BY <2>1, <2>2, ChunkArithmetic, FirstAndLast
  <2>4. m - 1 \in Nat /\ Chunks((m - 1) + 1) = Chunks(m) /\ Chunks(m) \in Nat
    BY <2>3, ChunkArithmetic
  <2>5. DOMAIN src' = Keys(a + n', Chunks((m - 1) + 1) - n') /\ keyS' = 2 * (a + n' + 1)
    BY <1>t, <2>1, <2>2, <2>3, <2>4
  <2>6. \E b, c \in Nat : DOMAIN src' = Keys(b + n', Chunks(c + 1) - n') /\ keyS' = 2 * (b + n' + 1)
    BY <2>4, <2>5
  <2>7. PICK b \in Nat, c \in Nat : DOMAIN db[task.dst] = Keys(b, Chunks(c))
    BY <1>1, <1>f, <1>m DEF WalkInv, HoldsChunks
  <2>8. Chunks(c) + n' = Chunks(c)
    BY <1>t, <2>7, ChunkArithmetic
  <2>9. \E b1, c1 \in Nat : DOMAIN dst' = Keys(b1, Chunks(c1) + n')
    BY <2>7, <2>8, <1>t
  <2> QED
    BY <1>t, <2>1, <2>6, <2>9, SizesAssumption DEF FrameWalk
<1> QED
  BY <1>t, <1>m, <1>1 DEF WalkInv, HoldsChunks

(* What an iteration asserts holds. *)
LEMMA FrameFound == ASSUME IInv, WalkInv, pc = "frames" PROVE FrameCanMove
<1>v. IsStore(dst) /\ IsLast(dst, keyD)
  BY DEF IInv, ViewInv, MoveInProgress
<1>1. keyD + Step \notin DOMAIN dst
  BY <1>v DEF IsStore, IsLast, Step
<1>2. PICK a \in Nat, c \in Nat :
        /\ DOMAIN src = Keys(a + n, Chunks(c + 1) - n)
        /\ keyS = 2 * (a + n + 1)
  BY DEF WalkInv, FrameWalk
<1>3. n \in Nat /\ n < ChunkLength /\ keyS = cur
  BY DEF WalkInv, FrameWalk, IInv, TypeOK
<1>4. Chunks(c + 1) - n \in Nat /\ Chunks(c + 1) - n >= ChunkLength - n
  <2>1. Chunks(c) \in Nat /\ Chunks(c + 1) = Chunks(c) + ChunkLength /\ ChunkLength \in Nat
    BY <1>2, ChunkArithmetic
  <2> QED
    BY <2>1, <1>3
<1>5. keyS \in DOMAIN src
  <2>1. a + n \in Nat /\ keyS \in Int /\ keyS % 2 = 0
    BY <1>2, <1>3
  <2>2. 2 * (a + n) < keyS /\ keyS <= 2 * ((a + n) + (Chunks(c + 1) - n))
    BY <1>2, <1>3, <1>4, SizesAssumption
  <2> QED
    BY <2>1, <2>2, <1>2, <1>4, WalkOfKeys
<1>6. ASSUME n # ChunkLength - 1 PROVE \E k \in DOMAIN src : cur < k
  <2>1. a + n \in Nat /\ keyS + 2 \in Int /\ (keyS + 2) % 2 = 0 /\ cur < keyS + 2
    BY <1>2, <1>3
  <2>2. 2 * (a + n) < keyS + 2 /\ keyS + 2 <= 2 * ((a + n) + (Chunks(c + 1) - n))
    BY <1>2, <1>3, <1>4, <1>6, SizesAssumption
  <2>3. keyS + 2 \in DOMAIN src
    BY <2>1, <2>2, <1>2, <1>4, WalkOfKeys
  <2> QED
    BY <2>1, <2>3
<1> QED
  BY <1>1, <1>5, <1>6 DEF FrameCanMove, LastFrame

LEMMA FinishMoveFrame == ASSUME IInv, WalkInv, MoveFrame PROVE WalkInv'
<1>t. /\ pc = "frames" /\ UNCHANGED <<db, task, bug>> /\ n' = n + 1 /\ n \in Nat
      /\ n < ChunkLength /\ keyS = cur /\ keyS' = keyS + 2 /\ keyD' = keyD + 2
      /\ dst' = Put(dst, keyD + 2, src[keyS]) /\ src' = Del(src, keyS)
  BY DEF MoveFrame, DeleteAtCursor, Step, WalkInv, FrameWalk, IInv, TypeOK, loopVars
<1>s. PICK a \in Nat, c \in Nat :
        /\ DOMAIN src = Keys(a + n, Chunks(c + 1) - n)
        /\ keyS = 2 * (a + n + 1)
  BY <1>t DEF WalkInv, FrameWalk
<1>d. PICK b \in Nat, e \in Nat : DOMAIN dst = Keys(b, Chunks(e) + n)
  BY <1>t DEF WalkInv, FrameWalk
<1>a. /\ Chunks(c + 1) = Chunks(c) + ChunkLength /\ Chunks(c) \in Nat
      /\ Chunks(e + 1) = Chunks(e) + ChunkLength /\ Chunks(e) \in Nat
      /\ ChunkLength \in Nat \ {0}
  BY ChunkArithmetic
<1> DEFINE p == Chunks(c + 1)
           q == Chunks(e)
<1>h. /\ p \in Nat /\ q \in Nat /\ p >= ChunkLength
      /\ DOMAIN src = Keys(a + n, p - n) /\ DOMAIN dst = Keys(b, q + n)
  BY <1>a, <1>s, <1>d
<1> HIDE DEF p, q
<1>1. DOMAIN src' = Keys(a + n', p - n')
  <2>1. DOMAIN src' = DOMAIN src \ {keyS}
    BY <1>t DEF Del
  <2>2. a + n \in Nat /\ p - n \in Nat /\ p - n > 0
    BY <1>t, <1>h, <1>a
  <2>3. Keys(a + n, p - n) \ {2 * ((a + n) + 1)}
          = Keys((a + n) + 1, (p - n) - 1)
    BY <2>2, OneLess
  <2>4. (a + n) + 1 = a + n' /\ (p - n) - 1 = p - n'
        /\ 2 * ((a + n) + 1) = keyS
    BY <1>t, <1>h, <1>a, <1>s
  <2> QED
    BY <2>1, <2>3, <2>4, <1>h
<1>2. DOMAIN dst' = Keys(b, q + n')
  <2>1. DOMAIN dst' = DOMAIN dst \union {keyD + 2}
    BY <1>t DEF Put
  <2>2. IsLast(dst, keyD)
    BY <1>t DEF IInv, ViewInv, MoveInProgress
  <2>3. q + n \in Nat
    BY <1>t, <1>h
  <2>4. keyD = 2 * (b + (q + n))
    BY <2>2, <2>3, <1>h, FirstAndLast
  <2>5. Keys(b, q + n) \union {2 * (b + (q + n)) + 2} = Keys(b, (q + n) + 1)
    BY <2>3, OneMore
  <2>6. (q + n) + 1 = q + n'
    BY <1>t, <1>h
  <2> QED
    BY <2>1, <2>4, <2>5, <2>6, <1>h
<1>3. CASE pc' = "commitSource" /\ LastFrame
  <2>1. n' = ChunkLength
    BY <1>3, <1>t, <1>a DEF LastFrame
  <2>2. HoldsChunks(src')
    <3>1. p - n' = Chunks(c) /\ a + n' \in Nat
      BY <2>1, <1>a, <1>h, <1>t DEF p
    <3> QED
      BY <3>1, <1>1 DEF HoldsChunks
  <2>3. HoldsChunks(dst')
    <3>1. q + n' = Chunks(e + 1) /\ e + 1 \in Nat
      BY <2>1, <1>a, <1>h DEF q
    <3> QED
      BY <3>1, <1>2 DEF HoldsChunks
  <2> QED
    BY <1>3, <1>t, <2>2, <2>3 DEF WalkInv, HoldsChunks
<1>4. CASE pc' = "frames" /\ ~LastFrame
  <2>1. n' < ChunkLength
    BY <1>4, <1>t, <1>a DEF LastFrame
  <2>2. PICK k \in DOMAIN src : IsNext(src, cur, k) /\ cur' = k
    BY <1>4 DEF MoveFrame
  <2>3. keyS' = cur'
    <3>1. a + n \in Nat /\ p - n \in Nat
      BY <1>t, <1>h, <1>a
    <3>2. k \in Int
      BY <2>2, <1>h DEF Keys
    <3>3. k % 2 = 0 /\ k > keyS
      BY <2>2, <3>1, <3>2, <1>h, <1>t, WalkOfKeys DEF IsNext
    <3>4. keyS + 2 \in DOMAIN src
      <4>1. keyS + 2 \in Int /\ (keyS + 2) % 2 = 0 /\ 2 * (a + n) < keyS + 2
            /\ keyS + 2 <= 2 * ((a + n) + (p - n))
        BY <1>s, <1>t, <1>h, <1>a, <2>1
      <4> QED
        BY <4>1, <3>1, <1>h, WalkOfKeys
    <3>5. k <= keyS + 2
      BY <2>2, <3>4, <1>t, <1>s DEF IsNext
    <3> QED
      BY <2>2, <3>2, <3>3, <3>5, <1>t, <1>s
  <2>4. keyS' = 2 * (a + n' + 1)
    BY <1>s, <1>t
  <2>5. DOMAIN src' = Keys(a + n', Chunks(c + 1) - n') /\ DOMAIN dst' = Keys(b, Chunks(e) + n')
    BY <1>1, <1>2 DEF p, q
  <2> QED
    BY <1>4, <1>t, <2>1, <2>3, <2>4, <2>5 DEF WalkInv, FrameWalk, HoldsChunks
<1> QED
  BY <1>3, <1>4 DEF MoveFrame

LEMMA FinishCommit == ASSUME IInv, WalkInv, CommitSource \/ CommitDest PROVE WalkInv'
<1>1. CASE CommitSource
  <2>1. /\ pc = "commitSource" /\ pc' = "commitDest" /\ db' = [db EXCEPT ![task.src] = src]
        /\ UNCHANGED <<task, dst, bug>>
    BY <1>1 DEF CommitSource, loopVars, moveVars
  <2>2. \A d \in Dir : db'[d] = IF d = task.src THEN src ELSE db[d]
    BY <2>1 DEF IInv, TypeOK, AreStores
  <2> QED
    BY <2>1, <2>2 DEF WalkInv, HoldsChunks
<1>2. CASE CommitDest
  <2>1. /\ pc = "commitDest" /\ pc' = "send" /\ db' = [db EXCEPT ![task.dst] = dst]
        /\ UNCHANGED <<task, bug>>
    BY <1>2 DEF CommitDest, loopVars, moveVars
  <2>2. \A d \in Dir : db'[d] = IF d = task.dst THEN dst ELSE db[d]
    BY <2>1 DEF IInv, TypeOK, AreStores
  <2> QED
    BY <2>1, <2>2 DEF WalkInv, HoldsChunks
<1> QED
  BY <1>1, <1>2

(* Every step keeps the tasks and the databases it was built with. *)
LEMMA SameBuild == [Next]_vars => build' = build
BY DEF Next, Loop, Move, Failure, Announce, Announced, NothingToAnnounce, Permission, OpenEmpty,
  Open, FrameFails, MoveFrame, MoveChunk, ChunkMissing, SendToDecoder, Encode, CommitSource,
  CommitDest, CommitFails, Crash, Restart, Die, vars

LEMMA FinishStep == IInv /\ FinishInv /\ [Next]_vars => FinishInv'
<1> SUFFICES ASSUME IInv, FinishInv, [Next]_vars, WholeChunks' PROVE WalkInv'
  BY DEF FinishInv
<1>w. WalkInv
  BY SameBuild DEF FinishInv, WholeChunks
<1>1. CASE Loop \/ Restart \/ SendToDecoder
  <2>1. db' = db /\ bug' = bug /\ pc' \notin {"frames", "commitSource", "commitDest"}
    BY <1>1 DEF Loop, Announce, Announced, NothingToAnnounce, Permission, Restart, SendToDecoder
  <2> QED
    BY <2>1, <1>w, FinishResting DEF WalkInv
<1>2. CASE OpenEmpty \/ ChunkMissing \/ Encode \/ CommitFails \/ Crash
  <2>1. db' = db /\ bug' # "frame" /\ pc' = "dead"
    BY <1>2 DEF OpenEmpty, ChunkMissing, Encode, CommitFails, Crash, Die
  <2> QED
    BY <2>1, <1>w, FinishResting
<1>3. CASE FrameFails
  BY <1>3, <1>w, FrameFound DEF FrameFails
<1>4. CASE MoveChunk
  <2>1. /\ pc = "chunk" /\ pc' = "commitSource" /\ UNCHANGED <<db, task, bug>>
    BY <1>4 DEF MoveChunk, loopVars
  <2>2. task.src \notin RawDir /\ task.dst \notin RawDir
    BY <2>1, TaskFacts DEF IInv, ChunkInv, MoveInProgress
  <2> QED
    BY <2>1, <2>2, <1>w DEF WalkInv, HoldsChunks
<1>5. CASE UNCHANGED vars
  BY <1>5, <1>w DEF vars, loopVars, moveVars, WalkInv, FrameWalk, HoldsChunks
<1> QED
  BY <1>1, <1>2, <1>3, <1>4, <1>5, <1>w, FinishOpen, FinishMoveFrame, FinishCommit
     DEF Next, Move, Failure

(* Once the cursors of a move of raw frames are open, none of its          *)
(* assertions fires: for any tasks in any order, and after any crashes,    *)
(* when every tier was built of whole chunks.                              *)
THEOREM MoveFinishesThm == Spec => []MoveFinishes
<1>1. FinishInv => MoveFinishes
  BY DEF FinishInv, WalkInv, MoveFinishes
<1>2. Spec => []FinishInv
  BY InitFinish, FinishStep, InductiveInvariant, PTL DEF Spec
<1> QED
  BY <1>1, <1>2, PTL

-----------------------------------------------------------------------------
(* Every move takes the chunk it names. *)

LEMMA TaskList == IInv => build.tasks \in Seq(TaskType) /\ build \in Builds /\ queue \in Seq(TaskType)
BY TasksAssumption DEF IInv, TypeOK

(* How many chunks of a directory are gone after l tasks. *)
LEMMA EarlierCounts ==
  ASSUME NEW tasks, NEW l \in Nat, NEW d
  PROVE  /\ IsFiniteSet(Earlier(tasks, l, d)) /\ Cardinality(Earlier(tasks, l, d)) \in Nat
         /\ Cardinality(Earlier(tasks, l + 1, d)) =
              Cardinality(Earlier(tasks, l, d))
                + (IF RawMove(tasks[l + 1]) /\ tasks[l + 1].src = d THEN 1 ELSE 0)
<1>1. IsFiniteSet(Earlier(tasks, l, d)) /\ Cardinality(Earlier(tasks, l, d)) \in Nat
  <2>1. Earlier(tasks, l, d) \subseteq 1..l
    BY DEF Earlier
  <2> QED
    <3>1. IsFiniteSet(1..l)
      BY FS_Interval
    <3> QED
      BY <2>1, <3>1, FS_Subset, FS_CardinalityType
<1>2. l + 1 \notin Earlier(tasks, l, d)
  BY DEF Earlier
<1>3. Earlier(tasks, l + 1, d) =
        Earlier(tasks, l, d) \union
          (IF RawMove(tasks[l + 1]) /\ tasks[l + 1].src = d THEN {l + 1} ELSE {})
  BY DEF Earlier
<1>4. CASE RawMove(tasks[l + 1]) /\ tasks[l + 1].src = d
  <2>1. Earlier(tasks, l + 1, d) = Earlier(tasks, l, d) \union {l + 1}
    BY <1>3, <1>4
  <2>2. Cardinality(Earlier(tasks, l + 1, d)) = Cardinality(Earlier(tasks, l, d)) + 1
    BY <2>1, <1>1, <1>2, FS_AddElement
  <2> QED
    BY <1>1, <1>4, <2>2
<1>5. CASE ~(RawMove(tasks[l + 1]) /\ tasks[l + 1].src = d)
  <2>1. Earlier(tasks, l + 1, d) = Earlier(tasks, l, d)
    BY <1>3, <1>5
  <2> QED
    BY <1>1, <1>5, <2>1
<1> QED
  BY <1>4, <1>5

LEMMA Counters ==
  ASSUME IInv, OneByOne
  PROVE  /\ Announcements \in Nat /\ Announcements <= Len(build.tasks) /\ Finished \in Nat
         /\ Pending => Finished = Announcements - 1
         /\ ~Pending => Finished = Announcements
<1>1. Len(queue) \in Nat /\ Len(build.tasks) \in Nat /\ Len(queue) <= Len(build.tasks)
  BY TaskList DEF OneByOne, QueueInv, UnderWay
<1>2. Announcements \in Nat /\ Announcements <= Len(build.tasks)
  BY <1>1 DEF Announcements
<1>3. Pending => Announcements >= 1
  BY DEF Pending, OneByOne, UnderWay, MoveInProgress
<1> QED
  BY <1>2, <1>3 DEF Finished

LEMMA GoneType == ASSUME IInv, OneByOne, NEW d PROVE Gone(d) \in Nat
<1>1. Cardinality(Earlier(build.tasks, Finished, d)) \in Nat
  BY Counters, EarlierCounts
<1> QED
  BY <1>1, SizesAssumption DEF Gone

LEMMA InitNamed == Init => NamedInv
<1> SUFFICES ASSUME Init PROVE NamedInv
  OBVIOUS
<1>i. IInv /\ pc = "send" /\ queue = build.tasks /\ sched = <<>>
  BY InitInv DEF Init
<1>1. Announcements = 0
  BY <1>i, TaskList DEF Announcements
<1>2. OneByOne
  <2>1. \A i \in DOMAIN queue : queue[i] = build.tasks[0 + i]
    BY <1>i, TaskList
  <2>2. Len(queue) <= Len(build.tasks)
    BY <1>i, TaskList
  <2> QED
    BY <1>i, <1>1, <2>1, <2>2 DEF OneByOne, QueueInv, UnderWay, MoveInProgress
<1>3. ASSUME NEW d \in Dir \intersect RawDir PROVE TakenUpTo(db[d], d, Gone(d))
  <2>1. Finished = 0
    BY <1>i, <1>1 DEF Finished, Pending
  <2>2. Earlier(build.tasks, 0, d) = {}
    BY DEF Earlier
  <2>3. Gone(d) = 0
    BY <2>1, <2>2, FS_EmptySet, SizesAssumption DEF Gone
  <2>4. db = build.store
    BY DEF Init
  <2>5. \A k \in DOMAIN db[d] : k > 0
    <3>1. DOMAIN db[d] = {2 * i : i \in 1..Cardinality(DOMAIN db[d])} /\ IsFiniteSet(DOMAIN db[d])
      BY <2>4, AsBuilt DEF Init
    <3>2. Cardinality(DOMAIN db[d]) \in Nat
      BY <3>1, FS_CardinalityType
    <3> QED
      BY <3>1, <3>2
  <2> QED
    BY <2>3, <2>4, <2>5 DEF TakenUpTo
<1> QED
  BY <1>i, <1>2, <1>3 DEF NamedInv, ChunksGone

(* A step that changes no database and is not in a move of frames.         *)
LEMMA NamedResting ==
  ASSUME ChunksGone, db' = db, build' = build, Finished' = Finished,
         pc' \notin {"frames", "commitSource", "commitDest"}
  PROVE  ChunksGone'
BY DEF ChunksGone, TakenUpTo, Gone

LEMMA NamedLoop == ASSUME IInv, OneByOne, ChunksGone, Loop PROVE OneByOne' /\ ChunksGone'
<1>q. build.tasks \in Seq(TaskType) /\ queue \in Seq(TaskType) /\ Len(queue) <= Len(build.tasks)
      /\ \A i \in DOMAIN queue : queue[i] = build.tasks[Announcements + i]
      /\ Announcements \in Nat
  BY TaskList, Counters DEF OneByOne, QueueInv, UnderWay
<1>a. Announcements \in Nat
  BY Counters
<1>1. CASE Announce
  <2>1. /\ pc = "send" /\ pc' = "reply" /\ UNCHANGED <<build, db, queue, task>>
        /\ sched' = Append(<<>>, Head(queue))
    BY <1>1 DEF Announce, OneByOne, QueueInv, UnderWay
  <2>2. Announcements' = Announcements /\ sched' = <<Head(queue)>>
    BY <2>1 DEF Announcements
  <2>3. Finished' = Finished
    BY <2>1, <2>2 DEF Finished, Pending
  <2>4. OneByOne'
    BY <2>1, <2>2, <1>q DEF OneByOne, QueueInv, UnderWay, MoveInProgress
  <2> QED
    BY <2>1, <2>3, <2>4, NamedResting
<1>2. CASE Announced
  <2>1. /\ pc = "reply" /\ pc' = "grant" /\ UNCHANGED <<build, db, sched, task>>
        /\ queue' = Tail(queue) /\ queue # <<>> /\ sched = <<Head(queue)>>
    BY <1>2 DEF Announced, OneByOne, QueueInv, UnderWay, IInv, TypeOK
  <2>2. Len(queue') = Len(queue) - 1 /\ Len(queue) >= 1 /\ Head(queue) = queue[1]
        /\ queue' \in Seq(TaskType)
        /\ \A i \in DOMAIN queue' : queue'[i] = queue[i + 1] /\ i + 1 \in DOMAIN queue
    BY <2>1, <1>q
  <2>3. Announcements' = Announcements + 1
    BY <2>1, <2>2, <1>q DEF Announcements
  <2>4. sched # <<>> /\ Finished = Announcements /\ Finished' = Announcements' - 1
    BY <2>1, <2>3 DEF Finished, Pending
  <2>5. \A i \in DOMAIN queue' : queue'[i] = build.tasks[(Announcements + 1) + i]
    <3> SUFFICES ASSUME NEW i \in DOMAIN queue'
                 PROVE  queue'[i] = build.tasks[(Announcements + 1) + i]
      OBVIOUS
    <3>1. i \in Nat /\ Announcements + (i + 1) = (Announcements + 1) + i
      BY <2>2, <1>q
    <3>2. queue'[i] = build.tasks[Announcements + (i + 1)]
      BY <2>2, <1>q
    <3> QED
      BY <3>1, <3>2
  <2>6. sched = <<build.tasks[Announcements + 1]>>
    BY <2>1, <2>2, <1>q
  <2>7. OneByOne'
    BY <2>1, <2>2, <2>3, <2>5, <2>6, <1>q DEF OneByOne, QueueInv, UnderWay, MoveInProgress
  <2>8. Finished' = Finished
    BY <2>3, <2>4, <1>a
  <2> QED
    BY <2>1, <2>7, <2>8, NamedResting
<1>3. CASE NothingToAnnounce
  <2>1. pc = "send" /\ pc' = "grant" /\ UNCHANGED <<build, db, queue, sched, task>> /\ sched = <<>>
    BY <1>3 DEF NothingToAnnounce, loopVars, OneByOne, QueueInv, UnderWay
  <2>2. Announcements' = Announcements
    BY <2>1 DEF Announcements
  <2>3. Finished' = Finished
    BY <2>1, <2>2 DEF Finished, Pending
  <2>4. OneByOne'
    BY <2>1, <2>2, <1>q DEF OneByOne, QueueInv, UnderWay, MoveInProgress
  <2> QED
    BY <2>1, <2>3, <2>4, NamedResting
<1>4. CASE Permission
  <2>1. /\ pc = "grant" /\ pc' = "open" /\ UNCHANGED <<build, db, queue>> /\ sched # <<>>
        /\ task' = Head(sched) /\ sched' = Tail(sched)
        /\ Announcements >= 1 /\ sched = <<build.tasks[Announcements]>>
    BY <1>4 DEF Permission, OneByOne, QueueInv, UnderWay
  <2>2. Announcements' = Announcements
    BY <2>1 DEF Announcements
  <2>3. Finished' = Finished
    BY <2>1, <2>2 DEF Finished, Pending
  <2>4. task' = build.tasks[Announcements] /\ sched' = <<>>
    BY <2>1
  <2>5. OneByOne'
    BY <2>1, <2>2, <2>4, <1>q DEF OneByOne, QueueInv, UnderWay, MoveInProgress
  <2> QED
    BY <2>1, <2>3, <2>5, NamedResting
<1> QED
  BY <1>1, <1>2, <1>3, <1>4 DEF Loop

(* A step of a move, between its start and its last commit. *)
LEMMA StillPending ==
  ASSUME OneByOne, UNCHANGED <<build, queue, sched, task>>, Pending, Pending', pc # "grant",
         pc' # "grant", pc' # "reply"
  PROVE  OneByOne' /\ Finished' = Finished /\ Announcements' = Announcements
<1>1. Announcements' = Announcements
  BY DEF Announcements
<1>2. Finished' = Finished
  BY <1>1 DEF Finished
<1>3. pc \notin {"reply", "grant"} /\ (pc = "open" \/ MoveInProgress)
  BY DEF Pending, MoveInProgress
<1> QED
  BY <1>1, <1>2, <1>3 DEF OneByOne, QueueInv, UnderWay

(* The task under way, and what the tables say of its chunk. *)
LEMMA ChunkNamed ==
  ASSUME IInv, OneByOne, TasksInOrder, pc = "open" \/ pc = "frames", RawMove(task)
  PROVE  /\ Gone(task.src) = ChunkLength * task.chunk
         /\ 2 * (Gone(task.src) + 1) \in DOMAIN build.store[task.src]
<1>1. Announcements >= 1 /\ task = build.tasks[Announcements] /\ Finished = Announcements - 1
      /\ Announcements \in Nat /\ Announcements <= Len(build.tasks)
  BY Counters DEF OneByOne, QueueInv, UnderWay, MoveInProgress, Pending
<1>2. Announcements \in DOMAIN build.tasks /\ build \in Builds
  BY <1>1, TaskList
<1>3. /\ task.chunk = Cardinality(Earlier(build.tasks, Finished, task.src))
      /\ Step * ChunkLength * task.chunk + Step \in DOMAIN build.store[task.src]
  BY <1>1, <1>2 DEF TasksInOrder
<1>4. task.chunk \in Nat
  BY <1>1, <1>3, EarlierCounts, Counters
<1>5. Step * ChunkLength * task.chunk + Step = 2 * (ChunkLength * task.chunk + 1)
  BY <1>4, SizesAssumption DEF Step
<1> QED
  BY <1>3, <1>5 DEF Gone

LEMMA NamedOpen ==
  ASSUME IInv, OneByOne, ChunksGone, TasksInOrder, Open
  PROVE  OneByOne' /\ ChunksGone'
<1>t. /\ pc = "open" /\ pc' = Transfer /\ UNCHANGED <<build, db, queue, sched, task>> /\ n' = 0
      /\ src' = db[task.src] /\ dst' = db[task.dst]
  BY DEF Open, loopVars
<1>f. /\ task.src \in Dir /\ task.dst \in Dir /\ task.mode \in 0..2
      /\ task.mode = 0 => (task.src \in RawDir <=> task.dst \in RawDir)
  BY <1>t, TaskFacts
<1>m. /\ pc' \in {"frames", "chunk", "decode", "encode"}
      /\ pc' = "frames" => task.mode = 0 /\ task.src \in RawDir
  BY <1>t, <1>f DEF Transfer
<1>1. Pending /\ Pending'
  BY <1>t, <1>m DEF Pending
<1>2. OneByOne' /\ Finished' = Finished
  BY <1>t, <1>m, <1>1, StillPending
<1>g. \A d : Gone(d)' = Gone(d)
  BY <1>t, <1>2 DEF Gone
<1>3. \A d \in Dir \intersect RawDir : TakenUpTo(db[d], d, Gone(d))
  BY DEF ChunksGone
<1>4. CASE pc' = "frames"
  <2> DEFINE g == Gone(task.src)
  <2>1. g \in Nat /\ 2 * (g + 1) \in DOMAIN build.store[task.src]
    BY <1>t, <1>m, <1>4, GoneType, ChunkNamed DEF RawMove
  <2>2. TakenUpTo(db[task.src], task.src, g) /\ \A k \in DOMAIN dst' : k > 2 * Gone(task.dst)
    BY <1>3, <1>4, <1>f, <1>m, <1>t DEF TakenUpTo
  <2>3. PICK first \in DOMAIN db[task.src] : IsFirst(db[task.src], first) /\ keyS' = first
    BY DEF Open
  <2>4. Even(db[task.src]) /\ first \in Nat
    BY <1>4, <1>f, <1>m DEF IInv, EvenInv, TypeOK, AreStores, IsStore
  <2> HIDE DEF g
  <2>5. 2 * (g + 1) \in DOMAIN db[task.src]
    BY <2>1, <2>2 DEF TakenUpTo
  <2>6. first <= 2 * (g + 1) /\ first > 2 * g /\ first % 2 = 0
    BY <2>2, <2>3, <2>4, <2>5 DEF IsFirst, TakenUpTo, Even
  <2>7. first = 2 * (g + 1)
    BY <2>1, <2>4, <2>6
  <2>8. g + n' = g /\ n' < ChunkLength
    BY <1>t, <2>1, SizesAssumption
  <2>9. /\ \A k \in DOMAIN src' : k > 2 * (g + n')
        /\ \A k \in DOMAIN build.store[task.src] :
             k > 2 * (g + n') => k \in DOMAIN src' /\ src'[k] = build.store[task.src][k]
        /\ keyS' = 2 * (g + n' + 1)
    BY <2>2, <2>3, <2>7, <2>8, <1>t DEF TakenUpTo
  <2> QED
    BY <1>t, <1>2, <1>3, <1>4, <1>g, <2>2, <2>8, <2>9 DEF ChunksGone, TakenUpTo, g
<1>5. CASE pc' # "frames"
  <2>1. pc' \notin {"frames", "commitSource", "commitDest"}
    BY <1>5, <1>m
  <2> QED
    BY <1>t, <1>2, <2>1, NamedResting
<1> QED
  BY <1>4, <1>5

LEMMA NamedMoveFrame ==
  ASSUME IInv, OneByOne, ChunksGone, MoveFrame
  PROVE  OneByOne' /\ ChunksGone'
<1>t. /\ pc = "frames" /\ UNCHANGED <<build, db, queue, sched, task>> /\ n' = n + 1 /\ n \in Nat
      /\ keyS' = keyS + 2 /\ keyS \in DOMAIN src
      /\ dst' = Put(dst, keyD + 2, src[keyS]) /\ src' = Del(src, cur)
      /\ \/ LastFrame /\ pc' = "commitSource"
         \/ ~LastFrame /\ pc' = "frames"
  BY DEF MoveFrame, FrameCanMove, DeleteAtCursor, Step, IInv, TypeOK, loopVars
<1>c. keyS = cur /\ task.mode = 0 /\ task.src \in RawDir
  BY <1>t DEF IInv, FramesInv
<1>f. task.src \in Dir /\ task.dst \in Dir /\ task.dst \in RawDir /\ ChunkLength \in Nat
  BY <1>t, <1>c, TaskFacts, SizesAssumption DEF MoveInProgress
<1>v. IsStore(src) /\ IsStore(dst) /\ PartOf(src, db[task.src]) /\ IsLast(dst, keyD)
  BY <1>t DEF IInv, ViewInv, MoveInProgress
<1>e. \A k \in DOMAIN src : k \in Nat /\ k % 2 = 0
  BY <1>f, <1>c, <1>v DEF IInv, EvenInv, Even, PartOf, IsStore
<1>1. Pending /\ Pending'
  BY <1>t DEF Pending
<1>2. OneByOne' /\ Finished' = Finished
  BY <1>t, <1>1, StillPending
<1>g. \A d : Gone(d)' = Gone(d)
  BY <1>t, <1>2 DEF Gone
<1> DEFINE g == Gone(task.src)
           h == Gone(task.dst)
<1>3. /\ g \in Nat /\ h \in Nat
      /\ TakenUpTo(src, task.src, g + n) /\ keyS = 2 * (g + n + 1) /\ n < ChunkLength
      /\ \A k \in DOMAIN dst : k > 2 * h
  BY <1>t, <1>f, GoneType DEF ChunksGone
<1>b. \A k \in DOMAIN build.store[task.src] : k \in Nat
  BY <1>f, StoreAssumption, TaskList DEF AreStores, IsStore
<1> HIDE DEF g, h
<1>4. \A k \in DOMAIN src' : k > 2 * (g + n')
  <2>1. DOMAIN src' = DOMAIN src \ {keyS}
    BY <1>t, <1>c DEF Del
  <2>2. \A k \in DOMAIN src : k > 2 * (g + n)
    BY <1>3 DEF TakenUpTo
  <2> QED
    BY <2>1, <2>2, <1>3, <1>e, <1>t
<1>5. \A k \in DOMAIN build.store[task.src] :
        k > 2 * (g + n') => k \in DOMAIN src' /\ src'[k] = build.store[task.src][k]
  <2> SUFFICES ASSUME NEW k \in DOMAIN build.store[task.src], k > 2 * (g + n')
               PROVE  k \in DOMAIN src' /\ src'[k] = build.store[task.src][k]
    OBVIOUS
  <2>1. k > 2 * (g + n) /\ k # keyS
    BY <1>3, <1>b, <1>t
  <2>2. k \in DOMAIN src /\ src[k] = build.store[task.src][k]
    BY <2>1, <1>3 DEF TakenUpTo
  <2> QED
    BY <2>1, <2>2, <1>t, <1>c DEF Del
<1>6. \A k \in DOMAIN dst' : k > 2 * h
  <2>1. DOMAIN dst' = DOMAIN dst \union {keyD + 2}
    BY <1>t DEF Put
  <2>2. keyD \in DOMAIN dst /\ keyD \in Nat
    BY <1>v DEF IsLast, IsStore
  <2> QED
    BY <2>1, <2>2, <1>3
<1>8. \A d \in Dir \intersect RawDir : TakenUpTo(db[d], d, Gone(d))'
  BY <1>t, <1>g DEF ChunksGone, TakenUpTo
<1>9. CASE pc' = "commitSource" /\ LastFrame
  <2>1. n' = ChunkLength
    BY <1>9, <1>t, <1>f DEF LastFrame
  <2>2. TakenUpTo(src, task.src, Gone(task.src) + ChunkLength)'
    BY <2>1, <1>4, <1>5, <1>t, <1>g DEF TakenUpTo, g
  <2> QED
    BY <1>2, <1>6, <1>8, <1>9, <2>2, <1>t, <1>g DEF ChunksGone, h
<1>10. CASE pc' = "frames" /\ ~LastFrame
  <2>1. n' < ChunkLength /\ keyS' = 2 * (g + n' + 1)
    BY <1>10, <1>3, <1>t, <1>f DEF LastFrame
  <2>2. TakenUpTo(src, task.src, Gone(task.src) + n)'
    BY <1>4, <1>5, <1>t, <1>g DEF TakenUpTo, g
  <2> QED
    BY <1>2, <1>6, <1>8, <1>10, <2>1, <2>2, <1>t, <1>g DEF ChunksGone, g, h
<1> QED
  BY <1>9, <1>10, <1>t

LEMMA NamedCommitSource ==
  ASSUME IInv, OneByOne, ChunksGone, CommitSource
  PROVE  OneByOne' /\ ChunksGone'
<1>t. /\ pc = "commitSource" /\ pc' = "commitDest" /\ db' = [db EXCEPT ![task.src] = src]
      /\ UNCHANGED <<build, queue, sched, task, dst>>
  BY DEF CommitSource, loopVars, moveVars
<1>f. /\ task.src \in Dir /\ task.dst \in Dir /\ task.mode = 0 /\ task.src # task.dst
      /\ ChunkLength \in Nat
  BY <1>t, TaskFacts, SizesAssumption DEF IInv, SourceInv, MoveInProgress
<1>1. /\ Announcements' = Announcements /\ Announcements >= 1 /\ Announcements \in Nat
      /\ task = build.tasks[Announcements]
  BY <1>t, Counters DEF Announcements, OneByOne, QueueInv, UnderWay, MoveInProgress
<1>2. Finished = Announcements - 1 /\ Finished \in Nat /\ Finished' = Finished + 1
      /\ Finished + 1 = Announcements
  BY <1>t, <1>1 DEF Finished, Pending
<1>3. OneByOne'
  BY <1>t, <1>1 DEF OneByOne, QueueInv, UnderWay, MoveInProgress
<1>g. \A d \in RawDir : Gone(d)' = Gone(d) + (IF d = task.src THEN ChunkLength ELSE 0) /\ Gone(d) \in Nat
  <2> SUFFICES ASSUME NEW d \in RawDir
               PROVE  Gone(d)' = Gone(d) + (IF d = task.src THEN ChunkLength ELSE 0) /\ Gone(d) \in Nat
    OBVIOUS
  <2> DEFINE c == Cardinality(Earlier(build.tasks, Finished, d))
             e == Cardinality(Earlier(build.tasks, Finished + 1, d))
  <2>1. c \in Nat /\ e = c + (IF d = task.src THEN 1 ELSE 0)
    BY <1>1, <1>2, <1>f, EarlierCounts DEF RawMove
  <2>2. Gone(d) = ChunkLength * c /\ Gone(d)' = ChunkLength * e
    BY <1>t, <1>2 DEF Gone
  <2> HIDE DEF c, e
  <2> QED
    BY <2>1, <2>2, <1>f
<1>4. \A d \in Dir : db'[d] = IF d = task.src THEN src ELSE db[d]
  BY <1>t DEF IInv, TypeOK, AreStores
<1>5. ASSUME NEW d \in Dir \intersect RawDir PROVE TakenUpTo(db[d], d, Gone(d))'
  <2>1. CASE d = task.src
    <3>1. db'[d] = src /\ Gone(d)' = Gone(d) + ChunkLength
      BY <1>4, <1>g, <2>1
    <3>2. TakenUpTo(src, d, Gone(d) + ChunkLength)
      BY <1>t, <2>1 DEF ChunksGone
    <3> QED
      BY <3>1, <3>2, <1>t DEF TakenUpTo
  <2>2. CASE d # task.src
    <3>1. db'[d] = db[d] /\ Gone(d)' = Gone(d)
      BY <1>4, <1>g, <2>2
    <3> QED
      BY <3>1, <1>t DEF TakenUpTo, ChunksGone
  <2> QED
    BY <2>1, <2>2
<1>6. task.dst \in RawDir => \A k \in DOMAIN dst : k > 2 * Gone(task.dst)'
  <2>1. task.dst \in RawDir => Gone(task.dst)' = Gone(task.dst)
    BY <1>g, <1>f, <1>t
  <2> QED
    BY <2>1, <1>t DEF ChunksGone
<1> QED
  BY <1>3, <1>5, <1>6, <1>t DEF ChunksGone

LEMMA NamedCommitDest ==
  ASSUME IInv, OneByOne, ChunksGone, CommitDest
  PROVE  OneByOne' /\ ChunksGone'
<1>t. /\ pc = "commitDest" /\ pc' = "send" /\ db' = [db EXCEPT ![task.dst] = dst]
      /\ UNCHANGED <<build, queue, sched, task, dst>>
  BY DEF CommitDest, loopVars, moveVars
<1>1. Announcements' = Announcements
  BY <1>t DEF Announcements
<1>2. Finished' = Finished
  BY <1>t, <1>1 DEF Finished, Pending
<1>3. OneByOne'
  BY <1>t, <1>1 DEF OneByOne, QueueInv, UnderWay, MoveInProgress
<1>g. \A d : Gone(d)' = Gone(d)
  BY <1>t, <1>2 DEF Gone
<1>4. \A d \in Dir : db'[d] = IF d = task.dst THEN dst ELSE db[d]
  BY <1>t DEF IInv, TypeOK, AreStores
<1>5. PartOf(db[task.dst], dst)
  BY <1>t DEF IInv, CarryInv
<1>6. ASSUME NEW d \in Dir \intersect RawDir PROVE TakenUpTo(db[d], d, Gone(d))'
  BY <1>t, <1>g, <1>4, <1>5 DEF TakenUpTo, ChunksGone, PartOf
<1> QED
  BY <1>3, <1>6, <1>t DEF ChunksGone

LEMMA NamedStep == TasksInOrder /\ IInv /\ NamedInv /\ [Next]_vars => NamedInv'
<1> SUFFICES ASSUME TasksInOrder, IInv, NamedInv, [Next]_vars PROVE NamedInv'
  OBVIOUS
<1>d. deaths \in Nat
  BY DEF IInv, TypeOK
<1>1. ASSUME OpenEmpty \/ FrameFails \/ ChunkMissing \/ Encode \/ CommitFails \/ Crash PROVE NamedInv'
  <2>1. PICK why : Die(why)
    BY <1>1, Deaths
  <2>2. deaths' > 0
    BY <2>1, <1>d DEF Die
  <2> QED
    BY <2>2, <1>d DEF NamedInv
<1>2. CASE Restart
  <2>1. deaths' > 0
    BY <1>2 DEF Restart, NamedInv
  <2> QED
    BY <2>1 DEF NamedInv
<1>3. ASSUME Loop \/ Open \/ MoveFrame \/ MoveChunk \/ SendToDecoder \/ CommitSource \/ CommitDest
      PROVE  NamedInv'
  <2>1. deaths' = deaths
    BY <1>3 DEF Loop, Announce, Announced, NothingToAnnounce, Permission, Open, MoveFrame, MoveChunk,
      SendToDecoder, CommitSource, CommitDest
  <2>2. pc' # "dead"
    <3>1. CASE Open
      <4>1. pc = "open" /\ pc' = Transfer
        BY <3>1 DEF Open
      <4>2. task.mode \in 0..2
        BY <4>1, TaskFacts
      <4> QED
        BY <4>1, <4>2 DEF Transfer
    <3> QED
      BY <1>3, <3>1 DEF Loop, Announce, Announced, NothingToAnnounce, Permission, MoveFrame, MoveChunk,
        SendToDecoder, CommitSource, CommitDest
  <2>3. ASSUME deaths = 0 PROVE OneByOne' /\ ChunksGone'
    <3>1. OneByOne /\ ChunksGone
      BY <2>3 DEF NamedInv
    <3>2. CASE MoveChunk
      <4>1. /\ pc = "chunk" /\ pc' = "commitSource" /\ UNCHANGED <<build, db, queue, sched, task>>
        BY <3>2 DEF MoveChunk, loopVars
      <4>2. task.src \notin RawDir /\ task.dst \notin RawDir
        BY <4>1, TaskFacts DEF IInv, ChunkInv, MoveInProgress
      <4>3. Pending /\ Pending'
        BY <4>1 DEF Pending
      <4>4. OneByOne' /\ Finished' = Finished
        BY <4>1, <4>3, <3>1, StillPending
      <4>5. \A d : Gone(d)' = Gone(d)
        BY <4>1, <4>4 DEF Gone
      <4> QED
        BY <4>1, <4>2, <4>4, <4>5, <3>1 DEF ChunksGone, TakenUpTo
    <3>3. CASE SendToDecoder
      <4>1. /\ pc = "decode" /\ pc' = "decoding" /\ UNCHANGED <<build, db, queue, sched, task>>
        BY <3>3 DEF SendToDecoder, loopVars
      <4>2. Pending /\ Pending'
        BY <4>1 DEF Pending
      <4>3. OneByOne' /\ Finished' = Finished
        BY <4>1, <4>2, <3>1, StillPending
      <4> QED
        BY <4>1, <4>3, <3>1, NamedResting
    <3> QED
      BY <1>3, <3>1, <3>2, <3>3, NamedLoop, NamedOpen, NamedMoveFrame, NamedCommitSource, NamedCommitDest
  <2> QED
    BY <2>1, <2>2, <2>3 DEF NamedInv
<1>4. CASE UNCHANGED vars
  <2>1. UNCHANGED <<build, db, queue, sched, task, pc, src, dst, keyS, n, deaths>>
    BY <1>4 DEF vars, loopVars, moveVars
  <2>2. Announcements' = Announcements /\ Finished' = Finished /\ (MoveInProgress' <=> MoveInProgress)
    BY <2>1 DEF Announcements, Finished, Pending, MoveInProgress
  <2>3. OneByOne => OneByOne'
    BY <2>1, <2>2 DEF OneByOne, QueueInv, UnderWay
  <2>4. \A d : Gone(d)' = Gone(d)
    BY <2>1, <2>2 DEF Gone
  <2>5. ChunksGone => ChunksGone'
    BY <2>1, <2>4 DEF ChunksGone, TakenUpTo
  <2> QED
    BY <2>1, <2>3, <2>5 DEF NamedInv
<1> QED
  BY <1>1, <1>2, <1>3, <1>4 DEF Next, Move, Failure

LEMMA NamedFrame == TasksInOrder /\ IInv /\ NamedInv => MovedAsNamed
<1> SUFFICES ASSUME TasksInOrder, IInv, NamedInv, deaths = 0, pc = "frames", n = 0
             PROVE  IsFrame(task, 0, src[keyS])
  BY DEF MovedAsNamed
<1>1. OneByOne /\ ChunksGone /\ RawMove(task) /\ task.src \in Dir
  BY TaskFacts DEF NamedInv, IInv, FramesInv, RawMove, MoveInProgress
<1> DEFINE g == Gone(task.src)
<1>2. /\ g \in Nat /\ g = ChunkLength * task.chunk
      /\ 2 * (g + 1) \in DOMAIN build.store[task.src]
  BY <1>1, ChunkNamed, GoneType
<1>3. TakenUpTo(src, task.src, g + n) /\ keyS = 2 * (g + n + 1)
  BY <1>1 DEF ChunksGone
<1> HIDE DEF g
<1>4. keyS = 2 * (g + 1) /\ keyS > 2 * (g + n)
  BY <1>2, <1>3
<1>5. src[keyS] = build.store[task.src][keyS]
  BY <1>2, <1>3, <1>4 DEF TakenUpTo
<1>6. task.chunk \in Int /\ ChunkLength \in Nat
  <2>1. task \in TaskType
    BY TaskFacts DEF MoveInProgress
  <2> QED
    BY <2>1, SizesAssumption DEF TaskType
<1>7. keyS = Step * ChunkLength * task.chunk + Step * (0 + 1)
  BY <1>2, <1>4, <1>6 DEF Step
<1> QED
  BY <1>2, <1>4, <1>5, <1>7 DEF IsFrame

(* Without a restart the frame that a move starts with is the first of the *)
(* chunk the task names: for all tables that count the raw moves from a    *)
(* tier by its chunks.                                                     *)
THEOREM MovedAsNamedThm == ASSUME TasksInOrder PROVE Spec => []MovedAsNamed
<1>1. Init => NamedInv
  BY InitNamed
<1>2. IInv /\ NamedInv /\ [Next]_vars => NamedInv'
  BY NamedStep
<1>3. IInv /\ NamedInv => MovedAsNamed
  BY NamedFrame
<1> QED
  BY <1>1, <1>2, <1>3, InductiveInvariant, PTL DEF Spec

-----------------------------------------------------------------------------
(* Footage stays in order. *)

LEMMA FootageOrder ==
  ASSUME IInv, InFootageOrder
  PROVE  LET T == build.tasks IN
    /\ \A d \in RawDir : Ordered(build.store[d])
    /\ \A i, j \in DOMAIN T : T[i].mode = 0 => T[i].dst # T[j].src
    /\ \A i, j, k \in DOMAIN T : i < j /\ j < k /\ T[i].src = T[k].src => T[j].src = T[i].src
    /\ \A i \in DOMAIN T : RawMove(T[i]) =>
         /\ AllBefore(build.store[T[i].dst], build.store[T[i].src])
         /\ \A k \in DOMAIN build.store[T[i].src] : \A c \in 0..k : k = FirstKey(c) =>
              \E j \in DOMAIN T : RawMove(T[j]) /\ T[j].src = T[i].src /\ T[j].chunk = c
    /\ \A i, j \in DOMAIN T :
         i < j /\ RawMove(T[i]) /\ RawMove(T[j]) /\ T[i].dst = T[j].dst /\ T[i].src # T[j].src
           => AllBefore(build.store[T[i].src], build.store[T[j].src])
BY TaskList DEF InFootageOrder

LEMMA ATask ==
  ASSUME IInv, NEW i \in DOMAIN build.tasks
  PROVE  /\ i \in Nat /\ i >= 1 /\ i <= Len(build.tasks)
         /\ build.tasks[i] \in TaskType
         /\ build.tasks[i].src \in Dir /\ build.tasks[i].dst \in Dir
         /\ build.tasks[i].mode = 0 =>
              (build.tasks[i].src \in RawDir <=> build.tasks[i].dst \in RawDir)
<1>1. build.tasks \in Seq(TaskType)
  BY TaskList
<1>2. build.tasks[i] \in TaskType /\ i \in Nat /\ i >= 1 /\ i <= Len(build.tasks)
  BY <1>1
<1> QED
  BY <1>2 DEF TaskType

(* The keys that the builder gave. *)
LEMMA BuiltKeys ==
  ASSUME IInv, NEW d \in Dir
  PROVE  /\ \A k \in DOMAIN build.store[d] : k \in Nat /\ k % 2 = 0 /\ k > 0
         /\ \A k \in DOMAIN build.store[d] : \A a \in Nat :
              2 * a < k => 2 * (a + 1) \in DOMAIN build.store[d]
<1> DEFINE m == Cardinality(DOMAIN build.store[d])
<1>1. IsFiniteSet(DOMAIN build.store[d]) /\ DOMAIN build.store[d] = {2 * i : i \in 1..m}
  BY AsBuilt, TaskList
<1>2. m \in Nat
  BY <1>1, FS_CardinalityType
<1> HIDE DEF m
<1>3. \A k \in DOMAIN build.store[d] : \E i \in 1..m : k = 2 * i
  BY <1>1
<1>4. \A k \in DOMAIN build.store[d] : k \in Nat /\ k % 2 = 0 /\ k > 0
  BY <1>2, <1>3
<1>5. ASSUME NEW k \in DOMAIN build.store[d], NEW a \in Nat, 2 * a < k
      PROVE  2 * (a + 1) \in DOMAIN build.store[d]
  <2>1. a + 1 \in 1..m
    BY <1>2, <1>3, <1>5
  <2> QED
    BY <2>1, <1>1
<1> QED
  BY <1>4, <1>5

(* Parts of ordered stores. *)
LEMMA PartOrdered ==
  ASSUME NEW s, NEW whole, PartOf(s, whole), Ordered(whole)
  PROVE  Ordered(s)
BY DEF PartOf, Ordered

LEMMA PartsBefore ==
  ASSUME NEW s, NEW whole, PartOf(s, whole), NEW t, NEW all, PartOf(t, all), AllBefore(whole, all)
  PROVE  AllBefore(s, t)
BY DEF PartOf, AllBefore

LEMMA PartOfPart ==
  ASSUME NEW s, NEW t, NEW u, PartOf(s, t), PartOf(t, u)
  PROVE  PartOf(s, u)
BY DEF PartOf

(* What is left of a tier of raw frames begins with its next record. *)
LEMMA FirstOfRest ==
  ASSUME IInv, NEW d \in Dir, NEW s, NEW a \in Nat, Rest(s, d, a)
  PROVE  /\ \A k \in DOMAIN s : k \in Nat /\ k >= 2 * (a + 1)
         /\ DOMAIN s # {} => 2 * (a + 1) \in DOMAIN s /\ 2 * (a + 1) \in DOMAIN build.store[d]
<1>1. \A k \in DOMAIN s : k \in DOMAIN build.store[d] /\ k \in Nat /\ k % 2 = 0 /\ k > 2 * a
  BY BuiltKeys DEF Rest, PartOf
<1>2. \A k \in DOMAIN s : k >= 2 * (a + 1)
  BY <1>1
<1>3. ASSUME NEW k \in DOMAIN s PROVE 2 * (a + 1) \in DOMAIN s /\ 2 * (a + 1) \in DOMAIN build.store[d]
  <2>1. 2 * (a + 1) \in DOMAIN build.store[d] /\ 2 * (a + 1) > 2 * a
    BY <1>1, BuiltKeys
  <2> QED
    BY <2>1 DEF Rest
<1> QED
  BY <1>1, <1>2, <1>3

(* When the tasks of a tier are done, the tier is empty. *)
LEMMA Emptied ==
  ASSUME IInv, InFootageOrder, TiersInv, NEW i \in DOMAIN build.tasks, NEW j \in DOMAIN build.tasks,
         i < j, RawMove(build.tasks[i]), build.tasks[i].src # build.tasks[j].src, OthersDone(j)
  PROVE  DOMAIN db[build.tasks[i].src] = {}
<1> DEFINE d == build.tasks[i].src
<1>1. d \in Dir
  BY ATask
<1>2. PICK c \in Nat : Rest(db[d], d, Chunks(c))
  BY DEF TiersInv
<1> SUFFICES ASSUME DOMAIN db[d] # {} PROVE FALSE
  OBVIOUS
<1>3. FirstKey(c) \in DOMAIN db[d] /\ FirstKey(c) \in DOMAIN build.store[d]
  BY <1>1, <1>2, ChunkArithmetic, FirstOfRest DEF FirstKey, Step
<1>4. c \in 0..FirstKey(c)
  <2>1. ChunkLength * c >= c
    BY SizesAssumption
  <2> QED
    BY <2>1, SizesAssumption DEF FirstKey, Chunks, Step
<1>5. PICK l \in DOMAIN build.tasks :
        RawMove(build.tasks[l]) /\ build.tasks[l].src = d /\ build.tasks[l].chunk = c
  BY <1>3, <1>4, FootageOrder
<1>6. l < j
  BY <1>5, FootageOrder, ATask
<1>7. l \in Done
  BY <1>5, <1>6, ATask DEF OthersDone
<1> QED
  BY <1>3, <1>5, <1>7 DEF Done, MoveKey, RawMove

-----------------------------------------------------------------------------
(* Announcements. *)

LEMMA QueueStep == IInv /\ QueueInv /\ [Next]_vars => QueueInv'
<1> SUFFICES ASSUME IInv, QueueInv, [Next]_vars PROVE QueueInv'
  OBVIOUS
<1>q. build.tasks \in Seq(TaskType) /\ queue \in Seq(TaskType) /\ Len(queue) <= Len(build.tasks)
      /\ (\A i \in DOMAIN queue : queue[i] = build.tasks[Announcements + i])
      /\ Announcements = Len(build.tasks) - Len(queue) /\ build' = build
  BY TaskList, SameBuild DEF QueueInv, Announcements
<1>1. CASE queue' = queue
  BY <1>1, <1>q DEF QueueInv, Announcements
<1>2. CASE Announced
  <2>1. queue # <<>> /\ queue' = Tail(queue)
    BY <1>2 DEF Announced, IInv, TypeOK
  <2>2. Len(queue') = Len(queue) - 1 /\ Len(queue) >= 1 /\ Len(queue) \in Nat
        /\ Len(build.tasks) \in Nat /\ queue' \in Seq(TaskType)
        /\ \A i \in DOMAIN queue' : i \in Nat /\ queue'[i] = queue[i + 1] /\ i + 1 \in DOMAIN queue
    BY <2>1, <1>q
  <2>3. Announcements' = Announcements + 1 /\ Announcements \in Nat
    BY <2>2, <1>q DEF Announcements
  <2>4. \A i \in DOMAIN queue' : queue'[i] = build.tasks[Announcements' + i]
    <3> SUFFICES ASSUME NEW i \in DOMAIN queue' PROVE queue'[i] = build.tasks[Announcements' + i]
      OBVIOUS
    <3>1. queue'[i] = build.tasks[Announcements + (i + 1)]
      BY <2>2, <1>q
    <3>2. Announcements + (i + 1) = Announcements' + i
      BY <2>2, <2>3
    <3> QED
      BY <3>1, <3>2
  <2> QED
    BY <2>2, <2>4, <1>q DEF QueueInv
<1>3. CASE Restart
  <2>1. queue' = build.tasks /\ Len(build.tasks) \in Nat
    BY <1>3, <1>q DEF Restart
  <2>2. Announcements' = 0
    BY <2>1, <1>q DEF Announcements
  <2>3. \A i \in DOMAIN queue' : queue'[i] = build.tasks[Announcements' + i]
    BY <2>1, <2>2, <1>q
  <2> QED
    BY <2>1, <2>3, <1>q DEF QueueInv
<1> QED
  BY <1>1, <1>2, <1>3
     DEF Next, Loop, Move, Failure, Announce, NothingToAnnounce, Permission, OpenEmpty,
       Open, FrameFails, MoveFrame, MoveChunk, ChunkMissing, SendToDecoder, Encode, CommitSource,
       CommitDest, CommitFails, Crash, Die, vars, loopVars

-----------------------------------------------------------------------------
(* Done tasks. *)

LEMMA DoneFinite == IInv => IsFiniteSet(Done) /\ Cardinality(Done) \in Nat
<1> SUFFICES ASSUME IInv PROVE IsFiniteSet(Done) /\ Cardinality(Done) \in Nat
  OBVIOUS
<1>1. Done \subseteq 1..Len(build.tasks) /\ Len(build.tasks) \in Nat
  BY TaskList DEF Done
<1>2. IsFiniteSet(1..Len(build.tasks))
  BY <1>1, FS_Interval
<1> QED
  BY <1>1, <1>2, FS_Subset, FS_CardinalityType

(* What is announced next is ready: as many tasks are done as have been    *)
(* announced, so either those are done, or one that comes later is.        *)
LEMMA NextIsReady ==
  ASSUME IInv, InFootageOrder, QueueInv, DoneInv, pc = "send", queue # <<>>
  PROVE  Ready(Head(queue))
<1> DEFINE a == Announcements
<1>1. /\ build.tasks \in Seq(TaskType) /\ queue \in Seq(TaskType) /\ Len(queue) >= 1
      /\ Len(queue) \in Nat /\ Len(build.tasks) \in Nat
  BY TaskList
<1>2. a \in Nat /\ a + 1 <= Len(build.tasks)
  BY <1>1 DEF QueueInv, Announcements
<1>3. Head(queue) = build.tasks[a + 1]
  BY <1>1 DEF QueueInv
<1>4. a <= Cardinality(Done)
  BY DEF DoneInv
<1> HIDE DEF a
<1>5. a + 1 \in DOMAIN build.tasks
  BY <1>1, <1>2
<1>6. ASSUME NEW i \in 1..a, build.tasks[i].src # build.tasks[a + 1].src PROVE i \in Done
  <2>0. i \in DOMAIN build.tasks /\ i \in Nat /\ i <= a
    BY <1>1, <1>2
  <2>1. CASE Done \subseteq 1..a
    <3>1. IsFiniteSet(1..a) /\ Cardinality(1..a) = a
      <4>1. a \in Int /\ 1 \in Int
        BY <1>2
      <4>2. IsFiniteSet(1..a) /\ Cardinality(1..a) = IF 1 > a THEN 0 ELSE a - 1 + 1
        BY <4>1, FS_Interval
      <4> QED
        BY <4>2, <1>2
    <3>2. Cardinality(Done) <= Cardinality(1..a) /\ (Cardinality(1..a) = Cardinality(Done) => 1..a = Done)
      BY <2>1, <3>1, FS_Subset
    <3>3. Cardinality(Done) = a
      BY <3>1, <3>2, <1>2, <1>4, DoneFinite
    <3> QED
      BY <3>1, <3>2, <3>3
  <2>2. CASE \E l \in Done : l \notin 1..a
    <3>1. PICK l \in Done : l \notin 1..a
      BY <2>2
    <3>2. l \in DOMAIN build.tasks /\ l \in Nat /\ l >= a + 1
      BY <3>1, <1>1, <1>2 DEF Done
    <3>3. OthersDone(l) /\ i \in 1..(l - 1)
      BY <3>1, <3>2, <2>0, <1>2 DEF DoneInv
    <3>4. build.tasks[i].src # build.tasks[l].src
      <4> SUFFICES ASSUME build.tasks[i].src = build.tasks[l].src PROVE FALSE
        OBVIOUS
      <4>1. l # a + 1 /\ i < a + 1 /\ a + 1 < l
        BY <1>6, <2>0, <3>2, <1>2
      <4> QED
        BY <4>1, <1>5, <1>6, <2>0, <3>2, FootageOrder
    <3> QED
      BY <3>3, <3>4 DEF OthersDone
  <2> QED
    BY <2>1, <2>2
<1>7. (a + 1) - 1 = a
  BY <1>2
<1>8. OthersDone(a + 1)
  BY <1>6, <1>7 DEF OthersDone
<1> QED
  BY <1>3, <1>5, <1>8 DEF Ready

(* Tasks stay done when no tier that sends gets a record. *)
LEMMA DoneStays ==
  ASSUME IInv, DoneInv, build' = build, Done \subseteq Done'
  PROVE  /\ \A i : OthersDone(i) => OthersDone(i)'
         /\ \A t : Ready(t) => Ready(t)'
<1>1. \A i : OthersDone(i) => OthersDone(i)'
  BY DEF OthersDone
<1> QED
  BY <1>1 DEF Ready

LEMMA DoneLoop ==
  ASSUME IInv, InFootageOrder, QueueInv, DoneInv, Loop
  PROVE  DoneInv'
<1>b. build' = build /\ db' = db
  BY DEF Loop, Announce, Announced, NothingToAnnounce, Permission
<1>d. Done' = Done /\ Cardinality(Done) \in Nat
  BY <1>b, DoneFinite DEF Done
<1>r. /\ \A i : OthersDone(i) => OthersDone(i)'
      /\ \A t : Ready(t) => Ready(t)'
  BY <1>b, <1>d, DoneStays
<1>i. \A i \in Done' : OthersDone(i)'
  BY <1>d, <1>r DEF DoneInv
<1>q. /\ queue \in Seq(TaskType) /\ sched \in Seq(TaskType) /\ Len(build.tasks) \in Nat
      /\ Len(queue) \in Nat
  BY TaskList DEF IInv, TypeOK
<1>s. \A i \in DOMAIN sched : Ready(sched[i])
  BY DEF DoneInv
<1>1. CASE Announce
  <2>1. /\ pc = "send" /\ pc' = "reply" /\ queue' = queue /\ queue # <<>>
        /\ sched' = Append(sched, Head(queue))
    BY <1>1 DEF Announce
  <2>2. Ready(Head(queue))
    BY <2>1, NextIsReady
  <2>3. \A i \in DOMAIN sched' : Ready(sched'[i])
    <3>1. Head(queue) \in TaskType
      BY <2>1, <1>q
    <3>2. \A i \in DOMAIN sched' : sched'[i] = Head(queue) \/ (i \in DOMAIN sched /\ sched'[i] = sched[i])
      BY <2>1, <3>1, <1>q
    <3> QED
      BY <3>2, <2>2, <1>s
  <2>4. Announcements' = Announcements
    BY <2>1, <1>b DEF Announcements
  <2>5. Announcements <= Cardinality(Done) /\ Announcements - 1 <= Cardinality(Done)
    BY <2>1 DEF DoneInv
  <2> QED
    BY <1>d, <1>r, <1>i, <2>1, <2>3, <2>4, <2>5 DEF DoneInv, UnderWay, MoveInProgress
<1>2. CASE Announced
  <2>1. pc = "reply" /\ pc' = "grant" /\ queue' = Tail(queue) /\ sched' = sched /\ queue # <<>>
    BY <1>2 DEF Announced, IInv, TypeOK
  <2>2. Announcements' = Announcements + 1 /\ Announcements \in Int
    <3>1. Len(queue') = Len(queue) - 1
      BY <2>1, <1>q
    <3> QED
      BY <3>1, <1>q, <1>b DEF Announcements
  <2>3. Announcements <= Cardinality(Done)
    BY <2>1 DEF DoneInv
  <2>4. Announcements' - 1 <= Cardinality(Done')
    BY <2>2, <2>3, <1>d
  <2> QED
    BY <1>r, <1>i, <1>s, <2>1, <2>4 DEF DoneInv, UnderWay, MoveInProgress
<1>3. CASE NothingToAnnounce
  <2>1. pc = "send" /\ pc' = "grant" /\ UNCHANGED <<queue, sched>>
    BY <1>3 DEF NothingToAnnounce, loopVars
  <2>2. Announcements' = Announcements /\ Announcements - 1 <= Cardinality(Done)
    BY <2>1, <1>b DEF Announcements, DoneInv
  <2> QED
    BY <1>d, <1>r, <1>i, <1>s, <2>1, <2>2 DEF DoneInv, UnderWay, MoveInProgress
<1>4. CASE Permission
  <2>1. /\ pc = "grant" /\ pc' = "open" /\ queue' = queue /\ sched # <<>>
        /\ task' = Head(sched) /\ sched' = Tail(sched)
    BY <1>4 DEF Permission
  <2>2. Announcements' = Announcements /\ Announcements - 1 <= Cardinality(Done)
    BY <2>1, <1>b DEF Announcements, DoneInv
  <2>3. 1 \in DOMAIN sched /\ task' = sched[1]
    BY <2>1, <1>q
  <2>4. \A i \in DOMAIN sched' : i + 1 \in DOMAIN sched /\ sched'[i] = sched[i + 1]
    BY <2>1, <1>q
  <2> QED
    BY <1>d, <1>r, <1>i, <1>s, <2>1, <2>2, <2>3, <2>4 DEF DoneInv
<1> QED
  BY <1>1, <1>2, <1>3, <1>4 DEF Loop

(* A step of a move that commits nothing. *)
LEMMA DoneMoving ==
  ASSUME IInv, DoneInv, UNCHANGED <<build, db, queue, sched, task>>, UnderWay, UnderWay',
         pc # "dead", pc' # "commitDest"
  PROVE  DoneInv'
<1>1. Done' = Done /\ Announcements' = Announcements
  BY DEF Done, Announcements
<1>2. /\ \A i : OthersDone(i) => OthersDone(i)'
      /\ \A t : Ready(t) => Ready(t)'
  BY <1>1, DoneStays
<1>3. pc' \notin {"send", "reply", "commitDest"}
  BY DEF UnderWay, MoveInProgress
<1> QED
  BY <1>1, <1>2, <1>3 DEF DoneInv

(* The first commit of a move: one more task is done. *)
LEMMA DoneCommitSource ==
  ASSUME IInv, InFootageOrder, TiersInv, DoneInv, CommitSource
  PROVE  DoneInv'
<1>t. /\ pc = "commitSource" /\ pc' = "commitDest" /\ db' = [db EXCEPT ![task.src] = src]
      /\ UNCHANGED <<build, queue, sched, task>> /\ MoveInProgress
  BY DEF CommitSource, loopVars, MoveInProgress
<1>f. task.src \in Dir /\ PartOf(src, db[task.src])
  BY <1>t, TaskFacts DEF IInv, ViewInv
<1>1. \A d \in Dir : db'[d] = IF d = task.src THEN src ELSE db[d]
  BY <1>t DEF IInv, TypeOK, AreStores
<1>2. PICK new \in DOMAIN build.tasks :
        /\ build.tasks[new].mode = 0 /\ build.tasks[new].src = task.src
        /\ MoveKey(build.tasks[new]) \in DOMAIN db[task.src] \ DOMAIN src
  BY <1>t DEF TiersInv
<1>3. new \notin Done /\ new \in Done'
  <2>1. MoveKey(build.tasks[new]) \in DOMAIN build.store[task.src]
    BY <1>2 DEF TiersInv, PartOf
  <2>2. (MoveKey(build.tasks[new]))' = MoveKey(build.tasks[new])
    BY <1>t DEF MoveKey
  <2> QED
    BY <1>1, <1>2, <1>f, <1>t, <2>1, <2>2 DEF Done
<1>4. Done \subseteq Done' /\ \A i \in Done' \ Done : build.tasks[i].src = task.src
  <2>1. \A i \in DOMAIN build.tasks : DOMAIN db'[build.tasks[i].src] \subseteq DOMAIN db[build.tasks[i].src]
    BY <1>1, <1>f, ATask DEF PartOf
  <2>2. \A i \in DOMAIN build.tasks : build.tasks[i].src # task.src => db'[build.tasks[i].src] = db[build.tasks[i].src]
    BY <1>1, ATask
  <2>3. \A i \in Done' : i \in DOMAIN build.tasks
    BY <1>t DEF Done
  <2>4. Done \subseteq Done'
    BY <1>t, <2>1 DEF Done, MoveKey
  <2>5. \A i \in Done' \ Done : build.tasks[i].src = task.src
    BY <1>t, <2>2, <2>3 DEF Done, MoveKey
  <2> QED
    BY <2>4, <2>5
<1>5. Cardinality(Done') >= Cardinality(Done) + 1 /\ Cardinality(Done) \in Nat /\ Cardinality(Done') \in Nat
  <2>1. IsFiniteSet(Done) /\ Cardinality(Done) \in Nat
    BY DoneFinite
  <2>2. Cardinality(Done \union {new}) = Cardinality(Done) + 1
    BY <2>1, <1>3, FS_AddElement
  <2>3. IsFiniteSet(Done') /\ Cardinality(Done') \in Nat
    <3>1. IInv'
      BY CommitSourceStep
    <3>2. (IInv => IsFiniteSet(Done) /\ Cardinality(Done) \in Nat)'
      BY DoneFinite, PTL
    <3> QED
      BY <3>1, <3>2
  <2>4. Done \union {new} \subseteq Done'
    BY <1>3, <1>4
  <2>5. Cardinality(Done \union {new}) <= Cardinality(Done')
    BY <2>3, <2>4, FS_Subset
  <2> QED
    BY <2>1, <2>2, <2>3, <2>5
<1>6. Announcements' = Announcements /\ Announcements - 1 <= Cardinality(Done) /\ Announcements \in Int
  BY <1>t, TaskList DEF Announcements, DoneInv
<1>7. /\ \A i : OthersDone(i) => OthersDone(i)'
      /\ \A t : Ready(t) => Ready(t)'
  BY <1>t, <1>4, DoneStays
<1>8. \A i \in Done' : OthersDone(i)'
  <2> SUFFICES ASSUME NEW i \in Done', i \notin Done PROVE OthersDone(i)'
    BY <1>7 DEF DoneInv
  <2>1. build.tasks[i].src = task.src /\ i \in DOMAIN build.tasks /\ i \in Nat
    <3>1. i \in DOMAIN build.tasks
      BY <1>t DEF Done
    <3> QED
      BY <3>1, <1>4, ATask
  <2>2. PICK j \in DOMAIN build.tasks : build.tasks[j] = task /\ OthersDone(j)
    BY <1>t DEF DoneInv, UnderWay, Ready
  <2>3. ASSUME NEW l \in 1..(i - 1), build.tasks[l].src # build.tasks[i].src PROVE l \in Done
    <3>1. l \in DOMAIN build.tasks /\ l < i /\ j \in Nat
      BY <2>1, <2>2, ATask, TaskList
    <3>2. l < j
      <4>1. l # j
        BY <2>1, <2>2, <2>3
      <4>2. ~(j < l)
        BY <2>1, <2>2, <2>3, <3>1, FootageOrder
      <4> QED
        BY <3>1, <4>1, <4>2
    <3>3. l \in 1..(j - 1)
      BY <3>1, <3>2
    <3> QED
      BY <2>1, <2>2, <2>3, <3>3 DEF OthersDone
  <2> QED
    BY <2>3, <1>4, <1>t DEF OthersDone
<1> QED
  BY <1>t, <1>5, <1>6, <1>7, <1>8 DEF DoneInv, UnderWay

LEMMA DoneCommitDest ==
  ASSUME IInv, InFootageOrder, DoneInv, CommitDest
  PROVE  DoneInv'
<1>t. /\ pc = "commitDest" /\ pc' = "send" /\ db' = [db EXCEPT ![task.dst] = dst]
      /\ UNCHANGED <<build, queue, sched, task>> /\ task.mode = 0
  BY DEF CommitDest, loopVars, moveVars, IInv, CarryInv
<1>1. \A d \in Dir : d # task.dst => db'[d] = db[d]
  BY <1>t DEF IInv, TypeOK, AreStores
<1>2. PICK j \in DOMAIN build.tasks : build.tasks[j] = task
  BY <1>t DEF DoneInv, UnderWay, Ready
<1>3. \A i \in DOMAIN build.tasks : db'[build.tasks[i].src] = db[build.tasks[i].src]
  BY <1>1, <1>2, <1>t, FootageOrder, ATask
<1>4. Done' = Done /\ Announcements' = Announcements
  BY <1>3, <1>t DEF Done, MoveKey, Announcements
<1>5. /\ \A i : OthersDone(i) => OthersDone(i)'
      /\ \A t : Ready(t) => Ready(t)'
  BY <1>4, <1>t, DoneStays
<1> QED
  BY <1>t, <1>4, <1>5 DEF DoneInv, UnderWay, MoveInProgress

LEMMA DoneStep ==
  ASSUME IInv, InFootageOrder, OrderInv, [Next]_vars
  PROVE  DoneInv'
<1>o. QueueInv /\ DoneInv /\ TiersInv
  BY DEF OrderInv
<1>n. Cardinality(Done) \in Nat
  BY DoneFinite
<1>1. ASSUME UNCHANGED <<build, db>>, sched' \in {sched, <<>>}, ~UnderWay', pc' = "dead" \/ (pc' = "send" /\ Announcements' = 0)
      PROVE  DoneInv'
  <2>1. Done' = Done
    BY <1>1 DEF Done
  <2>2. /\ \A i : OthersDone(i) => OthersDone(i)'
        /\ \A t : Ready(t) => Ready(t)'
    BY <1>1, <1>o, <2>1, DoneStays
  <2>3. \A i \in DOMAIN sched' : Ready(sched[i])'
    <3>1. CASE sched' = <<>>
      BY <3>1
    <3>2. CASE sched' = sched
      BY <1>o, <2>2, <3>2 DEF DoneInv
    <3> QED
      BY <1>1, <3>1, <3>2
  <2>4. \A i \in Done' : OthersDone(i)'
    BY <1>o, <2>1, <2>2 DEF DoneInv
  <2>5. pc' \in {"send", "dead"} /\ (pc' = "send" => Announcements' = 0) /\ Cardinality(Done') \in Nat
    BY <1>1, <1>n, <2>1
  <2>6. /\ pc' \in {"send", "reply", "commitDest"} => Announcements' <= Cardinality(Done')
        /\ pc' # "dead" => Announcements' - 1 <= Cardinality(Done')
    BY <2>5
  <2> QED
    BY <1>1, <2>3, <2>4, <2>6 DEF DoneInv
<1>2. ASSUME OpenEmpty \/ FrameFails \/ ChunkMissing \/ Encode \/ CommitFails \/ Crash PROVE DoneInv'
  <2>1. PICK why : Die(why)
    BY <1>2, Deaths
  <2>2. pc' = "dead" /\ UNCHANGED <<build, db, sched>>
    BY <2>1 DEF Die, loopVars
  <2>3. ~UnderWay'
    BY <2>2 DEF UnderWay, MoveInProgress
  <2> QED
    BY <1>1, <2>2, <2>3
<1>3. CASE Restart
  <2>1. /\ pc' = "send" /\ UNCHANGED <<build, db>> /\ queue' = build.tasks
        /\ sched' \in {sched, <<>>}
    BY <1>3 DEF Restart
  <2>2. ~UnderWay' /\ Announcements' = 0
    BY <2>1, TaskList DEF UnderWay, MoveInProgress, Announcements
  <2> QED
    BY <1>1, <2>1, <2>2
<1>4. CASE Open
  <2>1. pc = "open" /\ pc' = Transfer /\ UNCHANGED <<build, db, queue, sched, task>>
    BY <1>4 DEF Open, loopVars
  <2>2. task.mode \in 0..2
    BY <2>1, TaskFacts
  <2>3. pc' \in {"frames", "chunk", "decode", "encode"}
    BY <2>1, <2>2 DEF Transfer
  <2> QED
    BY <2>1, <2>3, <1>o, DoneMoving DEF UnderWay, MoveInProgress
<1>5. CASE MoveFrame
  BY <1>5, <1>o, DoneMoving DEF MoveFrame, loopVars, UnderWay, MoveInProgress
<1>6. CASE MoveChunk
  BY <1>6, <1>o, DoneMoving DEF MoveChunk, loopVars, UnderWay, MoveInProgress
<1>7. CASE SendToDecoder
  BY <1>7, <1>o, DoneMoving DEF SendToDecoder, loopVars, UnderWay, MoveInProgress
<1>8. CASE UNCHANGED vars
  <2>1. UNCHANGED <<build, db, queue, sched, task, pc>>
    BY <1>8 DEF vars, loopVars
  <2>2. Done' = Done /\ Announcements' = Announcements /\ (UnderWay' <=> UnderWay)
    BY <2>1 DEF Done, Announcements, UnderWay, MoveInProgress
  <2>3. /\ \A i : OthersDone(i) => OthersDone(i)'
        /\ \A t : Ready(t) => Ready(t)'
    BY <2>1, <2>2, <1>o, DoneStays
  <2> QED
    BY <2>1, <2>2, <2>3, <1>o DEF DoneInv
<1> QED
  BY <1>o, <1>2, <1>3, <1>4, <1>5, <1>6, <1>7, <1>8, DoneLoop, DoneCommitSource, DoneCommitDest
     DEF Next, Move, Failure

-----------------------------------------------------------------------------
(* Tiers and views. *)

(* The task under way is one of the tables'. *)
LEMMA TaskOfTables ==
  ASSUME IInv, DoneInv, UnderWay
  PROVE  \E j \in DOMAIN build.tasks : build.tasks[j] = task /\ OthersDone(j)
BY DEF DoneInv, Ready

LEMMA TiersResting ==
  ASSUME TiersInv, db' = db, build' = build, pc' \notin {"frames", "commitSource", "commitDest"}
  PROVE  TiersInv'
BY DEF TiersInv, Rest

LEMMA TiersOpen ==
  ASSUME IInv, DoneInv, TiersInv, Open
  PROVE  TiersInv'
<1>t. /\ pc = "open" /\ pc' = Transfer /\ UNCHANGED <<build, db, task>> /\ n' = 0
      /\ src' = db[task.src] /\ UnderWay
  BY DEF Open, loopVars, UnderWay
<1>f. task.src \in Dir /\ task.mode \in 0..2
  BY <1>t, TaskFacts
<1>m. /\ pc' \in {"frames", "chunk", "decode", "encode"}
      /\ pc' = "frames" => RawMove(task)
  BY <1>t, <1>f DEF Transfer, RawMove
<1>1. CASE pc' = "frames"
  <2>1. PICK c \in Nat : Rest(db[task.src], task.src, Chunks(c))
    BY <1>1, <1>t, <1>m, TaskOfTables DEF TiersInv
  <2>2. PICK first \in DOMAIN db[task.src] : IsFirst(db[task.src], first) /\ keyS' = first
    BY DEF Open
  <2>3. Chunks(c) \in Nat /\ ChunkLength \in Nat \ {0}
    BY ChunkArithmetic
  <2>4. /\ first \in Nat /\ first >= 2 * (Chunks(c) + 1)
        /\ 2 * (Chunks(c) + 1) \in DOMAIN db[task.src]
    BY <2>1, <2>2, <2>3, <1>f, FirstOfRest
  <2>5. first = 2 * (Chunks(c) + 1)
    BY <2>2, <2>3, <2>4 DEF IsFirst
  <2>6. FirstKey(c) \in DOMAIN db[task.src] /\ Chunks(c) + n' = Chunks(c)
    BY <2>3, <2>4, <1>t DEF FirstKey, Step
  <2>7. /\ Rest(src, task.src, Chunks(c) + n)'
        /\ keyS' = 2 * (Chunks(c) + n' + 1) /\ n' < ChunkLength
    BY <2>1, <2>2, <2>3, <2>5, <2>6, <1>t DEF Rest, Chunks
  <2>8. \E e \in Nat :
          /\ FirstKey(e) \in DOMAIN db'[task'.src]
          /\ Rest(src, task.src, Chunks(e) + n)' /\ keyS' = 2 * (Chunks(e) + n' + 1)
          /\ n' < ChunkLength
    BY <2>6, <2>7, <1>t
  <2> QED
    BY <1>1, <1>t, <2>8 DEF TiersInv, Rest
<1>2. CASE pc' # "frames"
  BY <1>2, <1>t, <1>m, TiersResting
<1> QED
  BY <1>1, <1>2

LEMMA TiersMoveFrame ==
  ASSUME IInv, InFootageOrder, DoneInv, TiersInv, MoveFrame
  PROVE  TiersInv'
<1>t. /\ pc = "frames" /\ UNCHANGED <<build, db, task>> /\ n' = n + 1 /\ n \in Nat
      /\ keyS' = keyS + 2 /\ src' = Del(src, keyS) /\ UnderWay
      /\ \/ LastFrame /\ pc' = "commitSource"
         \/ ~LastFrame /\ pc' = "frames"
  BY DEF MoveFrame, FrameCanMove, DeleteAtCursor, Step, IInv, FramesInv, TypeOK, loopVars, UnderWay,
    MoveInProgress
<1>f. task.src \in Dir /\ RawMove(task)
  BY <1>t, TaskFacts DEF IInv, FramesInv, RawMove, MoveInProgress
<1>1. PICK c \in Nat :
        /\ FirstKey(c) \in DOMAIN db[task.src]
        /\ Rest(src, task.src, Chunks(c) + n) /\ keyS = 2 * (Chunks(c) + n + 1) /\ n < ChunkLength
  BY <1>t DEF TiersInv
<1>2. /\ Chunks(c) \in Nat /\ Chunks(c + 1) = Chunks(c) + ChunkLength
      /\ ChunkLength \in Nat \ {0} /\ c + 1 \in Nat
  BY ChunkArithmetic
<1>3. Rest(src, task.src, Chunks(c) + n)'
  <2>1. DOMAIN src' = DOMAIN src \ {keyS} /\ \A k \in DOMAIN src' : src'[k] = src[k]
    BY <1>t DEF Del
  <2>2. PartOf(src', build.store[task.src])
    BY <2>1, <1>1 DEF Rest, PartOf
  <2>3. ASSUME NEW k \in DOMAIN build.store[task.src]
        PROVE  k \in DOMAIN src' <=> k > 2 * (Chunks(c) + n')
    <3>1. k \in Nat /\ k % 2 = 0
      BY <1>f, <2>3, BuiltKeys
    <3>2. k \in DOMAIN src <=> k > 2 * (Chunks(c) + n)
      BY <1>1, <2>3 DEF Rest
    <3>3. k > 2 * (Chunks(c) + n') <=> k > 2 * (Chunks(c) + n) /\ k # keyS
      BY <3>1, <1>1, <1>2, <1>t
    <3> QED
      BY <3>2, <3>3, <2>1
  <2> QED
    BY <2>2, <2>3, <1>t DEF Rest, Chunks
<1>4. CASE pc' = "commitSource" /\ LastFrame
  <2>1. Chunks(c) + n' = Chunks(c + 1)
    BY <1>4, <1>t, <1>2 DEF LastFrame
  <2>2. Rest(src, task.src, Chunks(c + 1))'
    BY <1>3, <1>t, <2>1 DEF Rest, Chunks
  <2>3. FirstKey(c) \notin DOMAIN src' /\ FirstKey(c) \in DOMAIN build.store[task.src]
    <3>1. FirstKey(c) \in DOMAIN build.store[task.src]
      BY <1>1, <1>t, TaskOfTables DEF TiersInv, PartOf
    <3>2. ~(FirstKey(c) > 2 * Chunks(c + 1))
      BY <1>2 DEF FirstKey, Step
    <3> QED
      BY <3>1, <3>2, <1>3, <2>1, <1>t DEF Rest, Chunks
  <2>4. c \in 0..FirstKey(c)
    <3>1. ChunkLength * c >= c
      BY SizesAssumption
    <3> QED
      BY <3>1, SizesAssumption DEF FirstKey, Chunks, Step
  <2>5. PICK i \in DOMAIN build.tasks :
          RawMove(build.tasks[i]) /\ build.tasks[i].src = task.src /\ build.tasks[i].chunk = c
    BY <1>f, <1>t, <2>3, <2>4, TaskOfTables, FootageOrder
  <2>6. /\ build.tasks[i].mode = 0 /\ MoveKey(build.tasks[i]) = FirstKey(c)
        /\ MoveKey(build.tasks[i]) \in DOMAIN db[task.src] \ DOMAIN src'
    BY <2>3, <2>5, <1>1 DEF MoveKey, RawMove
  <2> QED
    BY <1>4, <1>t, <1>2, <2>2, <2>5, <2>6 DEF TiersInv, Rest, MoveKey
<1>5. CASE pc' = "frames" /\ ~LastFrame
  <2>1. n' < ChunkLength /\ keyS' = 2 * (Chunks(c) + n' + 1)
    BY <1>5, <1>1, <1>2, <1>t DEF LastFrame
  <2> QED
    BY <1>5, <1>t, <1>1, <1>3, <2>1 DEF TiersInv, Rest, Chunks, FirstKey
<1> QED
  BY <1>4, <1>5, <1>t

LEMMA TiersMoveChunk ==
  ASSUME IInv, DoneInv, TiersInv, MoveChunk
  PROVE  TiersInv'
<1>t. /\ pc = "chunk" /\ pc' = "commitSource" /\ UNCHANGED <<build, db, task>>
      /\ task.chunk \in DOMAIN src /\ src' = Del(src, task.chunk) /\ MoveInProgress /\ UnderWay
  BY DEF MoveChunk, loopVars, UnderWay, MoveInProgress
<1>f. task.src \notin RawDir /\ task.mode = 0
  BY <1>t DEF IInv, ChunkInv
<1>1. PICK j \in DOMAIN build.tasks : build.tasks[j] = task
  BY <1>t, TaskOfTables
<1>2. MoveKey(task) = task.chunk /\ task.chunk \in DOMAIN db[task.src] /\ task.chunk \notin DOMAIN src'
  BY <1>t, <1>f DEF MoveKey, Del, IInv, ViewInv, PartOf
<1>3. \E i \in DOMAIN build.tasks :
        /\ build.tasks[i].mode = 0 /\ build.tasks[i].src = task.src
        /\ MoveKey(build.tasks[i]) \in DOMAIN db[task.src] \ DOMAIN src'
  BY <1>1, <1>2, <1>f
<1> QED
  BY <1>t, <1>f, <1>3 DEF TiersInv, Rest, MoveKey

LEMMA TiersCommitSource ==
  ASSUME IInv, DoneInv, TiersInv, CommitSource
  PROVE  TiersInv'
<1>t. /\ pc = "commitSource" /\ pc' = "commitDest" /\ db' = [db EXCEPT ![task.src] = src]
      /\ UNCHANGED <<build, task, src>> /\ MoveInProgress
  BY DEF CommitSource, loopVars, moveVars, MoveInProgress
<1>f. task.src \in Dir /\ PartOf(src, db[task.src])
  BY <1>t, TaskFacts DEF IInv, ViewInv
<1>1. \A d \in Dir : db'[d] = IF d = task.src THEN src ELSE db[d]
  BY <1>t DEF IInv, TypeOK, AreStores
<1>2. ASSUME NEW i \in DOMAIN build.tasks
      PROVE  /\ PartOf(db'[build.tasks[i].src], build.store[build.tasks[i].src])
             /\ RawMove(build.tasks[i]) =>
                  \E c \in Nat : Rest(db'[build.tasks[i].src], build.tasks[i].src, Chunks(c))
  <2>1. build.tasks[i].src \in Dir
    BY ATask
  <2>2. CASE build.tasks[i].src = task.src
    <3>1. PartOf(src, build.store[task.src])
      BY <1>f, <2>2, PartOfPart DEF TiersInv
    <3>2. RawMove(build.tasks[i]) => \E c \in Nat : Rest(src, task.src, Chunks(c))
      BY <1>t, <2>2 DEF TiersInv, RawMove
    <3> QED
      BY <3>1, <3>2, <2>2, <1>1, <1>f
  <2>3. CASE build.tasks[i].src # task.src
    BY <2>1, <2>3, <1>1 DEF TiersInv
  <2> QED
    BY <2>2, <2>3
<1> QED
  BY <1>t, <1>f, <1>1, <1>2 DEF TiersInv, Rest

LEMMA TiersCommitDest ==
  ASSUME IInv, InFootageOrder, DoneInv, TiersInv, CommitDest
  PROVE  TiersInv'
<1>t. /\ pc = "commitDest" /\ pc' = "send" /\ db' = [db EXCEPT ![task.dst] = dst]
      /\ UNCHANGED <<build, task>> /\ task.mode = 0 /\ UnderWay
  BY DEF CommitDest, loopVars, moveVars, IInv, CarryInv, UnderWay
<1>1. \A d \in Dir : d # task.dst => db'[d] = db[d]
  BY <1>t DEF IInv, TypeOK, AreStores
<1>2. PICK j \in DOMAIN build.tasks : build.tasks[j] = task
  BY <1>t, TaskOfTables
<1>3. \A i \in DOMAIN build.tasks : db'[build.tasks[i].src] = db[build.tasks[i].src]
  BY <1>1, <1>2, <1>t, FootageOrder, ATask
<1> QED
  BY <1>t, <1>3 DEF TiersInv, Rest

-----------------------------------------------------------------------------
(* The order of the footage. *)

LEMMA FollowResting ==
  ASSUME FollowInv, db' = db, build' = build, pc' \notin {"frames", "commitSource", "commitDest"}
  PROVE  FollowInv'
BY DEF FollowInv, Ordered, AllBefore, RawMove

LEMMA FollowOpen ==
  ASSUME IInv, FollowInv, Open
  PROVE  FollowInv'
<1>t. /\ pc = "open" /\ pc' = Transfer /\ UNCHANGED <<build, db, task>>
      /\ src' = db[task.src] /\ dst' = db[task.dst]
  BY DEF Open, loopVars
<1>1. \A i \in DOMAIN build.tasks :
        RawMove(build.tasks[i]) /\ build.tasks[i].dst = task.dst =>
          AllBefore(dst', IF build.tasks[i].src = task.src THEN src' ELSE db[build.tasks[i].src])
  BY <1>t DEF FollowInv
<1>2. task.dst \in RawDir => Ordered(dst')
  BY <1>t DEF FollowInv
<1> QED
  BY <1>t, <1>1, <1>2 DEF FollowInv, Ordered, AllBefore, RawMove

LEMMA FollowMoveFrame ==
  ASSUME IInv, InFootageOrder, DoneInv, TiersInv, FollowInv, MoveFrame
  PROVE  FollowInv'
<1>t. /\ pc = "frames" /\ UNCHANGED <<build, db, task>> /\ n \in Nat
      /\ keyS \in DOMAIN src /\ src' = Del(src, keyS) /\ dst' = Put(dst, keyD + 2, src[keyS])
      /\ UnderWay /\ MoveInProgress /\ pc' \in {"frames", "commitSource"}
  BY DEF MoveFrame, FrameCanMove, DeleteAtCursor, Step, IInv, FramesInv, TypeOK, loopVars, UnderWay,
    MoveInProgress
<1>f. task.src \in Dir /\ task.dst \in RawDir /\ RawMove(task)
  BY <1>t, TaskFacts DEF IInv, FramesInv, RawMove
<1>v. keyD \in Int /\ \A k \in DOMAIN dst : k \in Nat /\ k < keyD + 2
  BY <1>t DEF IInv, TypeOK, ViewInv, IsLast, IsStore
<1>j. PICK j \in DOMAIN build.tasks : build.tasks[j] = task /\ OthersDone(j)
  BY <1>t, TaskOfTables
<1>c. PICK c \in Nat :
        Rest(src, task.src, Chunks(c) + n) /\ keyS = 2 * (Chunks(c) + n + 1)
  BY <1>t DEF TiersInv
<1> DEFINE x == src[keyS]
<1>x. x = build.store[task.src][keyS] /\ keyS \in DOMAIN build.store[task.src]
  BY <1>c, <1>t DEF Rest, PartOf
<1>s. Ordered(src)
  <2>1. Ordered(build.store[task.src])
    BY <1>f, FootageOrder DEF RawMove
  <2> QED
    BY <1>c, <2>1, PartOrdered DEF Rest
<1>b. AllBefore(dst, src) /\ Ordered(dst)
  BY <1>t, <1>f, <1>j DEF FollowInv
<1>1. /\ DOMAIN src' = DOMAIN src \ {keyS} /\ \A k \in DOMAIN src' : src'[k] = src[k]
      /\ DOMAIN dst' = DOMAIN dst \union {keyD + 2} /\ dst'[keyD + 2] = x
      /\ \A k \in DOMAIN dst : dst'[k] = dst[k]
  <2>1. DOMAIN src' = DOMAIN src \ {keyS} /\ \A k \in DOMAIN src' : src'[k] = src[k]
    BY <1>t DEF Del
  <2>2. keyD + 2 \notin DOMAIN dst
    BY <1>v
  <2> QED
    BY <2>1, <2>2, <1>t DEF Put
<1>k. \A k \in DOMAIN src' : keyS < k
  <2>1. Chunks(c) + n \in Nat
    BY <1>t, ChunkArithmetic
  <2>2. \A k \in DOMAIN src : k \in Nat /\ k >= 2 * (Chunks(c) + n + 1)
    BY <2>1, <1>c, <1>f, FirstOfRest
  <2> QED
    BY <2>1, <2>2, <1>1, <1>c
<1> HIDE DEF x
<1>2. Ordered(dst')
  <2> SUFFICES ASSUME NEW k \in DOMAIN dst', NEW l \in DOMAIN dst', k < l, dst'[k].temp = dst'[l].temp
               PROVE  Before(dst'[k], dst'[l])
    BY DEF Ordered
  <2>1. k \in DOMAIN dst
    BY <1>1, <1>v
  <2>2. CASE l \in DOMAIN dst
    BY <2>1, <2>2, <1>1, <1>b DEF Ordered
  <2>3. CASE l = keyD + 2
    BY <2>1, <2>3, <1>1, <1>b, <1>t DEF AllBefore, x
  <2> QED
    BY <2>2, <2>3, <1>1
<1>3. ASSUME NEW i \in DOMAIN build.tasks, RawMove(build.tasks[i]), build.tasks[i].dst = task.dst
      PROVE  AllBefore(dst', IF build.tasks[i].src = task.src THEN src' ELSE db[build.tasks[i].src])
  <2>1. CASE build.tasks[i].src = task.src
    <3>1. ASSUME NEW k \in DOMAIN dst', NEW l \in DOMAIN src', dst'[k].temp = src'[l].temp
          PROVE  Before(dst'[k], src'[l])
      <4>1. l \in DOMAIN src /\ src'[l] = src[l] /\ keyS < l
        BY <1>1, <1>k
      <4>2. CASE k \in DOMAIN dst
        BY <3>1, <4>1, <4>2, <1>1, <1>b DEF AllBefore
      <4>3. CASE k = keyD + 2
        BY <3>1, <4>1, <4>3, <1>1, <1>s, <1>t DEF Ordered, x
      <4> QED
        BY <4>2, <4>3, <1>1
    <3> QED
      BY <2>1, <3>1 DEF AllBefore
  <2>2. CASE build.tasks[i].src # task.src
    <3> DEFINE d == build.tasks[i].src
    <3>1. AllBefore(dst, db[d])
      BY <1>3, <1>t, <1>f, <2>2 DEF FollowInv
    <3>2. \A l \in DOMAIN db[d] : x.temp = db[d][l].temp => Before(x, db[d][l])
      <4>1. CASE i < j
        <5>1. DOMAIN db[d] = {}
          BY <1>3, <1>j, <2>2, <4>1, Emptied
        <5> QED
          BY <5>1
      <4>2. CASE j < i
        <5>1. AllBefore(build.store[task.src], build.store[d])
          BY <1>3, <1>j, <1>f, <2>2, <4>2, FootageOrder
        <5>2. PartOf(db[d], build.store[d])
          BY DEF TiersInv
        <5> QED
          BY <5>1, <5>2, <1>x DEF AllBefore, PartOf
      <4>3. i # j /\ i \in Nat /\ j \in Nat
        BY <1>j, <2>2, ATask
      <4> QED
        BY <4>1, <4>2, <4>3
    <3>3. AllBefore(dst', db[d])
      BY <3>1, <3>2, <1>1 DEF AllBefore
    <3> QED
      BY <2>2, <3>3
  <2> QED
    BY <2>1, <2>2
<1> QED
  BY <1>t, <1>2, <1>3 DEF FollowInv, Ordered, AllBefore, RawMove

LEMMA FollowCommitSource ==
  ASSUME IInv, InFootageOrder, DoneInv, TiersInv, FollowInv, CommitSource
  PROVE  FollowInv'
<1>t. /\ pc = "commitSource" /\ pc' = "commitDest" /\ db' = [db EXCEPT ![task.src] = src]
      /\ UNCHANGED <<build, task, src, dst>> /\ MoveInProgress /\ UnderWay
  BY DEF CommitSource, loopVars, moveVars, MoveInProgress, UnderWay
<1>f. task.src \in Dir /\ PartOf(src, db[task.src]) /\ task.mode = 0
  BY <1>t, TaskFacts DEF IInv, ViewInv, SourceInv
<1>j. PICK j \in DOMAIN build.tasks : build.tasks[j] = task
  BY <1>t, TaskOfTables
<1>1. \A d \in Dir : db'[d] = IF d = task.src THEN src ELSE db[d]
  BY <1>t DEF IInv, TypeOK, AreStores
<1>2. \A d \in Dir : PartOf(db'[d], db[d])
  BY <1>1, <1>f DEF PartOf
<1>3. \A d \in RawDir : Ordered(db'[d])
  BY <1>2, PartOrdered, SizesAssumption DEF FollowInv
<1>4. ASSUME NEW i \in DOMAIN build.tasks, RawMove(build.tasks[i])
      PROVE  AllBefore(db'[build.tasks[i].dst], db'[build.tasks[i].src])
  <2>1. build.tasks[i].src \in Dir /\ build.tasks[i].dst \in Dir
    BY ATask
  <2>2. AllBefore(db[build.tasks[i].dst], db[build.tasks[i].src])
    BY <1>4 DEF FollowInv
  <2> QED
    BY <2>1, <2>2, <1>2, PartsBefore
<1>5. ASSUME NEW i \in DOMAIN build.tasks, RawMove(build.tasks[i]), build.tasks[i].dst = task.dst,
             task.dst \in RawDir
      PROVE  AllBefore(dst, IF build.tasks[i].src = task.src THEN src ELSE db'[build.tasks[i].src])
  <2>1. AllBefore(dst, IF build.tasks[i].src = task.src THEN src ELSE db[build.tasks[i].src])
    BY <1>5, <1>t DEF FollowInv
  <2> QED
    BY <2>1, <1>1, ATask
<1> QED
  BY <1>t, <1>3, <1>4, <1>5 DEF FollowInv, Ordered, AllBefore, RawMove

LEMMA FollowCommitDest ==
  ASSUME IInv, InFootageOrder, DoneInv, TiersInv, FollowInv, CommitDest
  PROVE  FollowInv'
<1>t. /\ pc = "commitDest" /\ pc' = "send" /\ db' = [db EXCEPT ![task.dst] = dst]
      /\ UNCHANGED <<build, task, src, dst>> /\ task.mode = 0 /\ UnderWay
  BY DEF CommitDest, loopVars, moveVars, IInv, CarryInv, UnderWay
<1>f. task.dst \in Dir
  BY <1>t, TaskFacts
<1>j. PICK j \in DOMAIN build.tasks : build.tasks[j] = task
  BY <1>t, TaskOfTables
<1>1. \A d \in Dir : db'[d] = IF d = task.dst THEN dst ELSE db[d]
  BY <1>t DEF IInv, TypeOK, AreStores
<1>2. \A d \in RawDir : Ordered(db'[d])
  BY <1>1, <1>t, SizesAssumption DEF FollowInv
<1>3. ASSUME NEW i \in DOMAIN build.tasks, RawMove(build.tasks[i])
      PROVE  AllBefore(db'[build.tasks[i].dst], db'[build.tasks[i].src])
  <2>1. /\ build.tasks[i].src \in Dir /\ build.tasks[i].dst \in Dir /\ build.tasks[i].dst \in RawDir
    BY <1>3, ATask DEF RawMove
  <2>2. db'[build.tasks[i].src] = db[build.tasks[i].src]
    BY <2>1, <1>1, <1>j, <1>t, FootageOrder
  <2>3. CASE build.tasks[i].dst = task.dst
    <3>1. AllBefore(dst, IF build.tasks[i].src = task.src THEN src ELSE db[build.tasks[i].src])
      BY <1>3, <2>1, <2>3, <1>t DEF FollowInv
    <3>2. db[task.src] = src
      BY <1>t DEF TiersInv
    <3> QED
      BY <3>1, <3>2, <2>1, <2>2, <2>3, <1>1
  <2>4. CASE build.tasks[i].dst # task.dst
    BY <1>3, <2>1, <2>2, <2>4, <1>1 DEF FollowInv
  <2> QED
    BY <2>3, <2>4
<1> QED
  BY <1>t, <1>2, <1>3 DEF FollowInv, Ordered, AllBefore, RawMove

LEMMA InitOrder == InFootageOrder /\ Init => OrderInv
<1> SUFFICES ASSUME InFootageOrder, Init PROVE OrderInv
  OBVIOUS
<1>i. /\ IInv /\ pc = "send" /\ queue = build.tasks /\ sched = <<>> /\ db = build.store
  BY InitInv DEF Init
<1>q. build.tasks \in Seq(TaskType) /\ Len(build.tasks) \in Nat
  BY <1>i, TaskList
<1>a. Announcements = 0
  BY <1>i, <1>q DEF Announcements
<1>d. Done = {}
  BY <1>i DEF Done
<1>u. ~UnderWay
  BY <1>i DEF UnderWay, MoveInProgress
<1>1. QueueInv
  <2>1. \A i \in DOMAIN queue : queue[i] = build.tasks[0 + i]
    BY <1>i, <1>q
  <2> QED
    BY <1>i, <1>q, <1>a, <2>1 DEF QueueInv
<1>2. DoneInv
  BY <1>i, <1>a, <1>d, <1>u, FS_EmptySet DEF DoneInv
<1>3. TiersInv
  <2>1. ASSUME NEW i \in DOMAIN build.tasks PROVE Rest(db[build.tasks[i].src], build.tasks[i].src, Chunks(0))
    <3>1. Chunks(0) = 0
      BY SizesAssumption DEF Chunks
    <3>2. \A k \in DOMAIN build.store[build.tasks[i].src] : k > 0
      BY <1>i, ATask, BuiltKeys
    <3> QED
      BY <1>i, <3>1, <3>2 DEF Rest, PartOf
  <2> QED
    BY <1>i, <2>1 DEF TiersInv, Rest
<1>4. FollowInv
  BY <1>i, FootageOrder DEF FollowInv
<1> QED
  BY <1>1, <1>2, <1>3, <1>4 DEF OrderInv

LEMMA OrderStep == InFootageOrder /\ IInv /\ OrderInv /\ [Next]_vars => OrderInv'
<1> SUFFICES ASSUME InFootageOrder, IInv, OrderInv, [Next]_vars PROVE OrderInv'
  OBVIOUS
<1>o. DoneInv /\ TiersInv /\ FollowInv
  BY DEF OrderInv
<1>q. QueueInv' /\ DoneInv'
  BY QueueStep, DoneStep DEF OrderInv
<1>1. CASE Loop \/ Restart \/ SendToDecoder
  <2>1. db' = db /\ build' = build /\ pc' \notin {"frames", "commitSource", "commitDest"}
    BY <1>1 DEF Loop, Announce, Announced, NothingToAnnounce, Permission, Restart, SendToDecoder
  <2> QED
    BY <2>1, <1>o, <1>q, TiersResting, FollowResting DEF OrderInv
<1>2. CASE OpenEmpty \/ FrameFails \/ ChunkMissing \/ Encode \/ CommitFails \/ Crash
  <2>1. PICK why : Die(why)
    BY <1>2, Deaths
  <2>2. db' = db /\ build' = build /\ pc' = "dead"
    BY <2>1 DEF Die
  <2> QED
    BY <2>2, <1>o, <1>q, TiersResting, FollowResting DEF OrderInv
<1>3. CASE MoveChunk
  <2>1. /\ pc = "chunk" /\ pc' = "commitSource" /\ UNCHANGED <<build, db, task>>
    BY <1>3 DEF MoveChunk, loopVars
  <2>2. task.dst \notin RawDir
    BY <2>1, TaskFacts DEF IInv, ChunkInv, MoveInProgress
  <2>3. FollowInv'
    BY <2>1, <2>2, <1>o DEF FollowInv, Ordered, AllBefore, RawMove
  <2> QED
    BY <1>3, <2>3, <1>o, <1>q, TiersMoveChunk DEF OrderInv
<1>4. CASE UNCHANGED vars
  <2>1. UNCHANGED <<build, db, task, pc, src, dst, keyS, n>>
    BY <1>4 DEF vars, loopVars, moveVars
  <2>2. TiersInv'
    BY <2>1, <1>o DEF TiersInv, Rest, MoveKey
  <2>3. FollowInv'
    BY <2>1, <1>o DEF FollowInv, Ordered, AllBefore, RawMove
  <2> QED
    BY <2>2, <2>3, <1>q DEF OrderInv
<1>5. CASE Open
  BY <1>5, <1>o, <1>q, TiersOpen, FollowOpen DEF OrderInv
<1>6. CASE MoveFrame
  BY <1>6, <1>o, <1>q, TiersMoveFrame, FollowMoveFrame DEF OrderInv
<1>7. CASE CommitSource
  BY <1>7, <1>o, <1>q, TiersCommitSource, FollowCommitSource DEF OrderInv
<1>8. CASE CommitDest
  BY <1>8, <1>o, <1>q, TiersCommitDest, FollowCommitDest DEF OrderInv
<1> QED
  BY <1>1, <1>2, <1>3, <1>4, <1>5, <1>6, <1>7, <1>8 DEF Next, Move, Failure

(* The keys of raw frames order them as the footage does, whatever tasks   *)
(* of earlier runs the scheduler still holds: for all tables that send     *)
(* whole tiers, one after the other, to where the footage before them is.  *)
THEOREM OrderKeptThm == ASSUME InFootageOrder PROVE Spec => []OrderKept
<1>1. Init => OrderInv
  BY InitOrder
<1>2. IInv /\ OrderInv /\ [Next]_vars => OrderInv'
  BY OrderStep
<1>3. OrderInv => OrderKept
  BY DEF OrderInv, FollowInv, Ordered, OrderKept
<1> QED
  BY <1>1, <1>2, <1>3, InductiveInvariant, PTL DEF Spec
=============================================================================

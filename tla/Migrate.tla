------------------------------- MODULE Migrate -------------------------------
(***************************************************************************)
(* The migrator (test-migrate.cpp): it announces its tasks to the run-time *)
(* scheduler one at a time, waits for permission, and carries out the task *)
(* it is given: videoMove, videoDecodeMove or videoEncodeMove.  A move is  *)
(* two write transactions, one in each environment, committed one after    *)
(* the other.  xzl_bug_on ends the process, and so may a crash at any      *)
(* point; what it had not committed is lost, and it starts afresh with all *)
(* its tasks.  The scheduler answers an announcement only when it is free  *)
(* of the task before: one it still holds from the last run makes the two  *)
(* wait for each other, until the scheduler is started again as well.      *)
(***************************************************************************)
EXTENDS Integers, Sequences, FiniteSets, KeyStore

CONSTANTS
  Dir,          (* the directories, one environment each                    *)
  Items,        (* raw frames and encoded chunks                            *)
  Builds,       (* builds of the program: the tasks its tables lead to, and *)
                (* what each environment holds before any migration         *)
  RawDir,       (* the directories that hold raw frames                     *)
  ChunkLength,  (* CHUNK_LENGTH                                             *)
  MaxDeaths     (* bound: how often the process may end and start again     *)

(* A move has two ends; one without a codec keeps the format. *)
TaskType ==
  {t \in [mode : 0..2, src : Dir, dst : Dir, chunk : Int] :
    t.src # t.dst /\ (t.mode = 0 => (t.src \in RawDir <=> t.dst \in RawDir))}
Idle == [mode |-> 0, chunk |-> 0]

ASSUME SizesAssumption ==
  ChunkLength \in Nat \ {0} /\ MaxDeaths \in Nat /\ RawDir \subseteq Dir

ASSUME TasksAssumption == \A b \in Builds : b.tasks \in Seq(TaskType)

(* A database under integer keys. *)
IsStore(s) ==
  /\ DOMAIN s \subseteq Nat
  /\ s = [k \in DOMAIN s |-> s[k]]
  /\ \A k \in DOMAIN s : s[k] \in Items

AreStores(f) ==
  /\ DOMAIN f = Dir /\ f = [d \in Dir |-> f[d]]
  /\ \A d \in Dir : IsStore(f[d])

Even(s) == \A k \in DOMAIN s : k % 2 = 0

Distinct(f) ==
  \A d, e \in Dir : \A j \in DOMAIN f[d], k \in DOMAIN f[e] :
    f[d][j] = f[e][k] => d = e /\ j = k

(* The builder's databases: even keys, and no item twice. *)
ASSUME StoreAssumption ==
  \A b \in Builds :
    AreStores(b.store) /\ Distinct(b.store) /\ \A d \in Dir : Even(b.store[d])

(* The builder leaves no gap: the m records of a database have the first m *)
(* even keys (WholeRuns of DbBuild).                                       *)
ASSUME AsBuilt ==
  \A b \in Builds : \A d \in Dir :
    LET keys == DOMAIN b.store[d]
    IN  IsFiniteSet(keys) /\ keys = {2 * i : i \in 1..Cardinality(keys)}

VARIABLES
  build,   (* the build that runs                                         *)
  db,      (* the committed content of each environment                    *)
  queue,   (* the tasks not yet announced                                  *)
  sched,   (* tasks the scheduler holds, oldest first                      *)
  pc,      (* where the process is, or "dead"                              *)
  task,    (* the task it has permission for                               *)
  src,     (* txnSource's view of the source database                      *)
  dst,     (* txnDest's view of the destination database                   *)
  keyS,    (* lastest_keySource: the key to read                           *)
  keyD,    (* last_key: the last key written or found                      *)
  cur,     (* the key under cursorSource                                   *)
  n,       (* frames of the chunk moved so far                             *)
  deaths,  (* how often the process has ended                              *)
  bug      (* what the last assertion that fired was about                 *)

loopVars == <<queue, sched, task>>
moveVars == <<src, dst, keyS, keyD, cur, n>>
vars == <<build, db, loopVars, pc, moveVars, deaths, bug>>

Init ==
  /\ build \in Builds
  /\ db = build.store
  /\ queue = build.tasks
  /\ sched = <<>>
  /\ pc = "send"
  /\ task = Idle
  /\ src = Empty /\ dst = Empty
  /\ keyS = 0 /\ keyD = 0 /\ cur = 0 /\ n = 0
  /\ deaths = 0
  /\ bug = "none"

-----------------------------------------------------------------------------
(* The main loop. *)

(* Mutant: the task leaves the queue before it is answered. *)
AnnounceAndPop ==
  /\ pc = "send" /\ queue # <<>>
  /\ sched' = Append(sched, Head(queue))
  /\ queue' = Tail(queue)
  /\ pc' = "reply"
  /\ UNCHANGED <<build, db, task, moveVars, deaths, bug>>

(* sv_send.send: the task at the front goes to the scheduler. *)
Announce ==
  /\ pc = "send" /\ queue # <<>>
  /\ sched' = Append(sched, Head(queue))
  /\ pc' = "reply"
  /\ UNCHANGED <<build, db, queue, task, moveVars, deaths, bug>>

(* The scheduler is back at its client socket: it holds no task but the    *)
(* one that was just sent.  With an older one it waits in mr_send.recv for *)
(* an answer that only comes after this process has gone on.               *)
SchedulerAnswers == Len(sched) = 1

(* Mutant: the task stays in the queue. *)
AnnouncedKept ==
  /\ pc = "reply" /\ SchedulerAnswers
  /\ pc' = "grant"
  /\ UNCHANGED <<build, db, loopVars, moveVars, deaths, bug>>

(* Mutant: two tasks leave the queue for one that was announced. *)
AnnouncedTwo ==
  /\ pc = "reply" /\ SchedulerAnswers
  /\ queue' = SubSeq(queue, 3, Len(queue))
  /\ pc' = "grant"
  /\ UNCHANGED <<build, db, sched, task, moveVars, deaths, bug>>

(* sv_send.recv, and the task leaves the queue. *)
Announced ==
  /\ pc = "reply" /\ SchedulerAnswers
  /\ queue' = Tail(queue)
  /\ pc' = "grant"
  /\ UNCHANGED <<build, db, sched, task, moveVars, deaths, bug>>

NothingToAnnounce ==
  /\ pc = "send" /\ queue = <<>>
  /\ pc' = "grant"
  /\ UNCHANGED <<build, db, loopVars, moveVars, deaths, bug>>

(* mr_recv.recv, permission for the task the scheduler holds, and          *)
(* mr_recv.send, the answer the scheduler waits for.  A crash between the  *)
(* two leaves what a crash before them leaves: a scheduler that waits.     *)
Permission ==
  /\ pc = "grant" /\ sched # <<>>
  /\ task' = Head(sched)
  /\ sched' = Tail(sched)
  /\ pc' = "open"
  /\ UNCHANGED <<build, db, queue, moveVars, deaths, bug>>

-----------------------------------------------------------------------------
(* The moves.  All three begin alike. *)

(* xzl_bug_on: the process ends, both transactions with it. *)
Die(why) ==
  /\ pc' = "dead"
  /\ bug' = why
  /\ deaths' = deaths + 1
  /\ UNCHANGED <<build, db, loopVars, moveVars>>

(* Which transfer follows the opening of the cursors. *)
Transfer ==
  CASE task.mode = 0 /\ task.src \in RawDir -> "frames"
    [] task.mode = 0 /\ task.src \notin RawDir -> "chunk"
    [] task.mode = 1 -> "decode"
    [] task.mode = 2 -> "encode"

(* Both cursors must find a record: an empty database is a bug. *)
OpenEmpty == pc = "open" /\ (db[task.src] = Empty \/ db[task.dst] = Empty) /\ Die("empty")

Open ==
  /\ pc = "open" /\ db[task.src] # Empty /\ db[task.dst] # Empty
  /\ src' = db[task.src] /\ dst' = db[task.dst]
  /\ \E first \in DOMAIN db[task.src], last \in DOMAIN db[task.dst] :
       /\ IsFirst(db[task.src], first) /\ keyS' = first /\ cur' = first
       /\ IsLast(db[task.dst], last) /\ keyD' = last
  /\ n' = 0
  /\ pc' = Transfer
  /\ UNCHANGED <<build, db, loopVars, deaths, bug>>

(* Mutant: one frame too many. *)
LastFrameLate == n = ChunkLength

LastFrame == n = ChunkLength - 1

Step == 2 (* 60/fps *)

(* What an iteration asserts: the frame is there, its new key is free, and *)
(* the cursor finds a next record unless this was the last.                *)
FrameCanMove ==
  /\ keyS \in DOMAIN src
  /\ keyD + Step \notin DOMAIN dst
  /\ LastFrame \/ \E k \in DOMAIN src : cur < k

FrameFails == pc = "frames" /\ ~FrameCanMove /\ Die("frame")

(* Mutant: the record the cursor is at stays. *)
NothingDeleted == UNCHANGED src

(* mdb_cursor_del: the record under the cursor. *)
DeleteAtCursor == src' = Del(src, cur)

(* One iteration: put the frame under the next key, delete at the cursor, *)
(* and go on with MDB_NEXT.                                                *)
MoveFrame ==
  /\ pc = "frames" /\ FrameCanMove
  /\ keyD' = keyD + Step
  /\ dst' = Put(dst, keyD + Step, src[keyS])
  /\ DeleteAtCursor
  /\ keyS' = keyS + Step
  /\ \/ LastFrame /\ cur' = cur /\ pc' = "commitSource"
     \/ ~LastFrame /\ pc' = "frames" /\ \E k \in DOMAIN src : IsNext(src, cur, k) /\ cur' = k
  /\ n' = n + 1
  /\ UNCHANGED <<build, db, loopVars, deaths, bug>>

(* An encoded chunk is looked up under its number and appended. *)
MoveChunk ==
  /\ pc = "chunk" /\ task.chunk \in DOMAIN src
  /\ keyS' = task.chunk
  /\ keyD' = keyD + 1
  /\ dst' = Put(dst, keyD + 1, src[task.chunk])
  /\ src' = Del(src, task.chunk)
  /\ pc' = "commitSource"
  /\ UNCHANGED <<build, db, loopVars, cur, n, deaths, bug>>

ChunkMissing == pc \in {"chunk", "decode"} /\ task.chunk \notin DOMAIN src /\ Die("lookup")

(* videoDecodeMove sends the chunk to the decoder and waits for frames.    *)
(* The decoder's branch for MIGRATE_TID is commented out: none ever come.  *)
SendToDecoder ==
  /\ pc = "decode" /\ task.chunk \in DOMAIN src
  /\ keyS' = task.chunk
  /\ pc' = "decoding"
  /\ UNCHANGED <<build, db, loopVars, src, dst, keyD, cur, n, deaths, bug>>

(* videoEncodeMove reads the record at key 2 * CHUNK_LENGTH * chunk and    *)
(* the ChunkLength after it, then asserts that it can open a file that its *)
(* own "rm -rf" has just removed.                                          *)
ToEncode == {Step * ChunkLength * task.chunk + Step * f : f \in 0..ChunkLength}

Encode ==
  /\ pc = "encode"
  /\ Die(IF ToEncode \subseteq DOMAIN src THEN "file" ELSE "lookup")

-----------------------------------------------------------------------------
(* The commits. *)

(* Mutant: the destination is committed first. *)
CommitDestFirst ==
  /\ pc = "commitSource"
  /\ db' = [db EXCEPT ![task.dst] = dst]
  /\ pc' = "commitDest"
  /\ UNCHANGED <<build, loopVars, moveVars, deaths, bug>>

CommitSource ==
  /\ pc = "commitSource"
  /\ db' = [db EXCEPT ![task.src] = src]
  /\ pc' = "commitDest"
  /\ UNCHANGED <<build, loopVars, moveVars, deaths, bug>>

(* Mutant: the destination's transaction is never committed. *)
CommitDestForgotten ==
  /\ pc = "commitDest"
  /\ pc' = "send"
  /\ UNCHANGED <<build, db, loopVars, moveVars, deaths, bug>>

CommitDest ==
  /\ pc = "commitDest"
  /\ db' = [db EXCEPT ![task.dst] = dst]
  /\ pc' = "send"
  /\ UNCHANGED <<build, loopVars, moveVars, deaths, bug>>

(* A commit may fail (a full disk): it is an assertion in both cases. *)
CommitFails ==
  /\ pc \in {"commitSource", "commitDest"}
  /\ deaths < MaxDeaths
  /\ Die("commit")

Crash ==
  /\ pc # "dead"
  /\ deaths < MaxDeaths
  /\ Die("crash")

(* The operator starts the process again; perhaps the scheduler too, whose *)
(* queues are in memory only.                                              *)
Restart ==
  /\ pc = "dead"
  /\ deaths <= MaxDeaths
  /\ queue' = build.tasks
  /\ sched' \in {sched, <<>>}
  /\ pc' = "send"
  /\ UNCHANGED <<build, db, task, moveVars, deaths, bug>>

Loop == Announce \/ Announced \/ NothingToAnnounce \/ Permission
Move ==
  \/ OpenEmpty \/ Open
  \/ FrameFails \/ MoveFrame
  \/ MoveChunk \/ ChunkMissing \/ SendToDecoder
  \/ Encode
  \/ CommitSource \/ CommitDest
Failure == CommitFails \/ Crash \/ Restart

Next == Loop \/ Move \/ Failure

Spec == Init /\ [][Next]_vars

(* The migrator and the scheduler's permission go on; failures may happen. *)
FairSpec == Spec /\ WF_vars(Loop \/ Move)

-----------------------------------------------------------------------------
(* Properties. *)

(* Type invariant: tasks, keys and the two views have their types, and a   *)
(* task has been granted whenever a move is under way.                     *)
TypeOK ==
  /\ build \in Builds
  /\ AreStores(db)
  /\ queue \in Seq(TaskType) /\ sched \in Seq(TaskType)
  /\ pc \in {"send", "reply", "grant", "open", "frames", "chunk", "decode", "decoding",
             "encode", "commitSource", "commitDest", "dead"}
  /\ task \in TaskType \union {Idle}
  /\ keyS \in Int /\ keyD \in Int /\ cur \in Int /\ n \in Nat /\ deaths \in Nat
  /\ pc = "reply" => queue # <<>>
  /\ pc \in {"open", "frames", "chunk", "decode", "decoding", "encode", "commitSource",
            "commitDest"} => task \in TaskType

-----------------------------------------------------------------------------
(* The inductive invariant. *)

Taken == DOMAIN db[task.src] \ DOMAIN src
Added == DOMAIN dst \ DOMAIN db[task.dst]

(* A store that only lacks records of another, and one that only adds some. *)
PartOf(s, whole) ==
  DOMAIN s \subseteq DOMAIN whole /\ \A k \in DOMAIN s : s[k] = whole[k]

MoveInProgress == pc \in {"frames", "chunk", "decode", "decoding", "encode", "commitSource"}

(* What is missing from the view of the source is what the view of the     *)
(* destination has more, record by record.                                 *)
ViewInv ==
  MoveInProgress =>
    /\ IsStore(src) /\ IsStore(dst)
    /\ PartOf(src, db[task.src]) /\ PartOf(db[task.dst], dst)
    /\ \A k \in Added : \E j \in Taken : dst[k] = db[task.src][j]
    /\ \A j \in Taken : \E k \in Added : dst[k] = db[task.src][j]
    /\ \A k, l \in Added : dst[k] = dst[l] => k = l
    /\ IsLast(dst, keyD)

(* The key to read and the cursor are in step; they part only when the     *)
(* source has a gap, and then the next read fails.                         *)
FramesInv ==
  pc = "frames" =>
    /\ task.mode = 0 /\ task.src \in RawDir
    /\ cur \in Nat /\ cur % 2 = 0 /\ keyS % 2 = 0 /\ keyS <= cur
    /\ keyS \in DOMAIN src => keyS = cur

ChunkInv == pc = "chunk" => task.mode = 0 /\ task.src \notin RawDir

SourceInv ==
  pc = "commitSource" => Taken # {} /\ task.mode = 0

(* Between the commits the records added are in no environment. *)
CarryInv ==
  pc = "commitDest" =>
    /\ task.mode = 0 /\ IsStore(dst) /\ Added # {}
    /\ PartOf(db[task.dst], dst)
    /\ task.dst \in RawDir => Even(dst)
    /\ \A k \in Added : \A d \in Dir : \A j \in DOMAIN db[d] : db[d][j] # dst[k]
    /\ \A k, l \in Added : dst[k] = dst[l] => k = l

(* Directories of raw frames keep even keys. *)
EvenInv ==
  /\ \A d \in Dir \intersect RawDir : Even(db[d])
  /\ MoveInProgress /\ task.dst \in RawDir /\ task.mode = 0 => Even(dst)

(* No item is ever stored twice, in one environment or in two, whatever    *)
(* the point at which the process died: videoMove commits the deletion     *)
(* first, and a cursor and a key walk the source in step.                  *)
NeverTwice == Distinct(db)

(* The invariant the proofs use. *)
IInv ==
  /\ TypeOK
  /\ NeverTwice
  /\ ViewInv
  /\ FramesInv
  /\ ChunkInv
  /\ SourceInv
  /\ CarryInv
  /\ EvenInv

-----------------------------------------------------------------------------
(* What has been taken from the source and is committed in no environment. *)
Carried == IF pc = "commitDest" THEN Stored(dst) \ Stored(db[task.dst]) ELSE {}

Held == [d \in Dir |-> Stored(db[d])]

Everything == UNION {Stored(build.store[d]) : d \in Dir}

Lost == Everything \ (Carried \union UNION {Stored(db[d]) : d \in Dir})

(* Every directory of raw frames holds whole chunks. *)
WholeChunks == \A d \in RawDir : Cardinality(DOMAIN build.store[d]) % ChunkLength = 0

(* Once the cursors of videoMove are open, no assertion of its loop fires, *)
(* after any crashes: the two walks agree, and tiers keep whole chunks.    *)
MoveFinishes == WholeChunks => bug # "frame"

(* Why: a directory of raw frames keeps m frames under the m even keys     *)
(* that follow 2 * a, and m is a number of whole chunks.                   *)
Keys(a, m) == {2 * i : i \in (a + 1)..(a + m)}
Chunks(c) == c * ChunkLength
HoldsChunks(s) == \E a, c \in Nat : DOMAIN s = Keys(a, Chunks(c))

(* While a chunk moves, n frames of it have left one end and come to the   *)
(* other, and both the key to read and the cursor are at the next.         *)
FrameWalk ==
  /\ n < ChunkLength /\ keyS = cur
  /\ \E a, c \in Nat :
       /\ DOMAIN src = Keys(a + n, Chunks(c + 1) - n)
       /\ keyS = 2 * (a + n + 1)
  /\ \E a, c \in Nat : DOMAIN dst = Keys(a, Chunks(c) + n)

WalkInv ==
  /\ \A d \in Dir \intersect RawDir : HoldsChunks(db[d])
  /\ pc = "frames" => FrameWalk
  /\ pc = "commitSource" /\ task.src \in RawDir => HoldsChunks(src)
  /\ pc \in {"commitSource", "commitDest"} /\ task.dst \in RawDir => HoldsChunks(dst)
  /\ bug # "frame"
FinishInv == WholeChunks => WalkInv

(* Each end of the process costs at most the one chunk it was carrying.    *)
LossBound == Cardinality(Lost) <= ChunkLength * deaths

(* Why: a move takes at most a chunk, and only what it carries can be lost. *)
CountInv ==
  /\ pc = "frames" => IsFiniteSet(Added) /\ Cardinality(Added) = n /\ n < ChunkLength
  /\ pc = "chunk" => Added = {}
  /\ pc \in {"commitSource", "commitDest"} =>
       IsFiniteSet(Added) /\ Cardinality(Added) <= ChunkLength
LossInv == CountInv /\ IsFiniteSet(Lost) /\ LossBound

(* An earlier frame of the footage: within one temperature. *)
Before(a, b) ==
  a.temp = b.temp /\ (a.chunk < b.chunk \/ (a.chunk = b.chunk /\ a.frame < b.frame))

(* The keys of a directory of raw frames order them as the footage does,   *)
(* although tiers are appended to each other across restarts and crashes:  *)
(* readers find a frame by its rank.                                       *)
OrderKept ==
  \A d \in RawDir : \A j, k \in DOMAIN db[d] :
    j < k /\ db[d][j].temp = db[d][k].temp => Before(db[d][j], db[d][k])

(* Why: a tier is emptied in the order of its keys, and a task is announced *)
(* only when all that the tasks of other tiers before it name has left.    *)
Ordered(s) == \A j, k \in DOMAIN s : j < k /\ s[j].temp = s[k].temp => Before(s[j], s[k])
AllBefore(s, t) ==
  \A j \in DOMAIN s, k \in DOMAIN t : s[j].temp = t[k].temp => Before(s[j], t[k])

RawMove(t) == t.mode = 0 /\ t.src \in RawDir

FirstKey(chunk) == Step * (Chunks(chunk) + 1)

(* What the tables must give.  No tier both sends and receives; the tasks  *)
(* of a tier follow each other and name every chunk that the tier holds;   *)
(* tiers are filled in the footage's order, and a tier receives what       *)
(* follows on what it has and has received.                                *)
InFootageOrder ==
  \A b \in Builds : LET T == b.tasks IN
    /\ \A d \in RawDir : Ordered(b.store[d])
    /\ \A i, j \in DOMAIN T : T[i].mode = 0 => T[i].dst # T[j].src
    /\ \A i, j, k \in DOMAIN T : i < j /\ j < k /\ T[i].src = T[k].src => T[j].src = T[i].src
    /\ \A i \in DOMAIN T : RawMove(T[i]) =>
         /\ AllBefore(b.store[T[i].dst], b.store[T[i].src])
         /\ \A k \in DOMAIN b.store[T[i].src] : \A c \in 0..k : k = FirstKey(c) =>
              \E j \in DOMAIN T : RawMove(T[j]) /\ T[j].src = T[i].src /\ T[j].chunk = c
    /\ \A i, j \in DOMAIN T :
         i < j /\ RawMove(T[i]) /\ RawMove(T[j]) /\ T[i].dst = T[j].dst /\ T[i].src # T[j].src
           => AllBefore(b.store[T[i].src], b.store[T[j].src])

(* The tasks of whose chunk the first record has been taken: by that task, *)
(* or by another of the same tier in its place.                            *)
MoveKey(t) == IF t.src \in RawDir THEN FirstKey(t.chunk) ELSE t.chunk
Done ==
  {i \in DOMAIN build.tasks :
    LET t == build.tasks[i]
    IN  t.mode = 0 /\ MoveKey(t) \in DOMAIN build.store[t.src] \ DOMAIN db[t.src]}

OthersDone(i) ==
  \A j \in 1..(i - 1) : build.tasks[j].src # build.tasks[i].src => j \in Done
Ready(t) == \E i \in DOMAIN build.tasks : build.tasks[i] = t /\ OthersDone(i)

Announcements == Len(build.tasks) - Len(queue)
QueueInv ==
  /\ Len(queue) <= Len(build.tasks)
  /\ \A i \in DOMAIN queue : queue[i] = build.tasks[Announcements + i]

UnderWay == pc \in {"open", "commitDest"} \/ MoveInProgress

(* As many tasks are done as this process has announced and carried out.   *)
DoneInv ==
  /\ \A i \in Done : OthersDone(i)
  /\ \A i \in DOMAIN sched : Ready(sched[i])
  /\ UnderWay => Ready(task)
  /\ pc \in {"send", "reply", "commitDest"} => Announcements <= Cardinality(Done)
  /\ pc # "dead" => Announcements - 1 <= Cardinality(Done)

(* What is left of a tier when its first "a" records are gone. *)
Rest(s, d, a) ==
  /\ PartOf(s, build.store[d])
  /\ \A k \in DOMAIN build.store[d] : k \in DOMAIN s <=> k > 2 * a

TiersInv ==
  /\ \A i \in DOMAIN build.tasks : LET d == build.tasks[i].src IN
       /\ PartOf(db[d], build.store[d])
       /\ RawMove(build.tasks[i]) => \E c \in Nat : Rest(db[d], d, Chunks(c))
  /\ pc = "frames" => \E c \in Nat :
       /\ FirstKey(c) \in DOMAIN db[task.src]
       /\ Rest(src, task.src, Chunks(c) + n) /\ keyS = 2 * (Chunks(c) + n + 1) /\ n < ChunkLength
  /\ pc = "commitSource" =>
       /\ task.src \in RawDir => \E c \in Nat : Rest(src, task.src, Chunks(c))
       /\ \E i \in DOMAIN build.tasks :
            /\ build.tasks[i].mode = 0 /\ build.tasks[i].src = task.src
            /\ MoveKey(build.tasks[i]) \in DOMAIN db[task.src] \ DOMAIN src
  /\ pc = "commitDest" => db[task.src] = src

FollowInv ==
  /\ \A d \in RawDir : Ordered(db[d])
  /\ \A i \in DOMAIN build.tasks : LET t == build.tasks[i] IN
       RawMove(t) => AllBefore(db[t.dst], db[t.src])
  /\ pc \in {"frames", "commitSource", "commitDest"} /\ task.dst \in RawDir =>
       /\ Ordered(dst)
       /\ \A i \in DOMAIN build.tasks : LET t == build.tasks[i] IN
            RawMove(t) /\ t.dst = task.dst =>
              AllBefore(dst, IF t.src = task.src THEN src ELSE db[t.src])

OrderInv == QueueInv /\ DoneInv /\ TiersInv /\ FollowInv

(* Frame f of the chunk that has this number in a tier, as the builder    *)
(* filled the tier.                                                        *)
IsFrame(t, f, item) ==
  \E k \in DOMAIN build.store[t.src] :
    k = Step * ChunkLength * t.chunk + Step * (f + 1) /\ build.store[t.src][k] = item

(* videoMove logs "lmdb moved frame ... in chunk" by the task's number: as *)
(* long as the process has not been restarted, the first frame it moves is *)
(* the first of that chunk, although it is looked for with MDB_FIRST.      *)
MovedAsNamed ==
  deaths = 0 /\ pc = "frames" /\ n = 0 => IsFrame(task, 0, src[keyS])

(* Why: the raw moves from a directory take its chunks in their order.     *)
Earlier(tasks, l, d) == {i \in 1..l : RawMove(tasks[i]) /\ tasks[i].src = d}

(* What the tables must give: the number of a raw move's chunk in its tier *)
(* counts the raw moves from that tier before it, and the chunk exists.    *)
TasksInOrder ==
  \A b \in Builds : \A i \in DOMAIN b.tasks :
    LET t == b.tasks[i]
    IN  RawMove(t) =>
          /\ t.chunk = Cardinality(Earlier(b.tasks, i - 1, t.src))
          /\ Step * ChunkLength * t.chunk + Step \in DOMAIN b.store[t.src]

(* The task announced last has not been carried out. *)
Pending ==
  \/ pc \in {"open", "frames", "chunk", "decode", "decoding", "encode", "commitSource"}
  \/ pc = "grant" /\ sched # <<>>

Finished == IF Pending THEN Announcements - 1 ELSE Announcements

(* Without a restart the tasks are announced and carried out one by one. *)
OneByOne ==
  /\ QueueInv
  /\ pc = "reply" => sched = <<Head(queue)>>
  /\ pc = "grant" /\ sched # <<>> =>
       Announcements >= 1 /\ sched = <<build.tasks[Announcements]>>
  /\ pc \notin {"reply", "grant"} => sched = <<>>
  /\ UnderWay => Announcements >= 1 /\ task = build.tasks[Announcements]

(* A store from which all that was built up to key 2 * a is gone, and none *)
(* of the rest.                                                            *)
TakenUpTo(s, d, a) ==
  /\ \A k \in DOMAIN s : k > 2 * a
  /\ \A k \in DOMAIN build.store[d] : k > 2 * a => k \in DOMAIN s /\ s[k] = build.store[d][k]

Gone(d) == ChunkLength * Cardinality(Earlier(build.tasks, Finished, d))

(* The tiers of raw frames, and the two views of a move of raw frames. *)
ChunksGone ==
  /\ \A d \in Dir \intersect RawDir : TakenUpTo(db[d], d, Gone(d))
  /\ pc = "frames" => /\ TakenUpTo(src, task.src, Gone(task.src) + n)
                      /\ keyS = 2 * (Gone(task.src) + n + 1) /\ n < ChunkLength
  /\ pc = "commitSource" /\ task.src \in RawDir =>
       TakenUpTo(src, task.src, Gone(task.src) + ChunkLength)
  /\ pc \in {"frames", "commitSource", "commitDest"} /\ task.dst \in RawDir =>
       \A k \in DOMAIN dst : k > 2 * Gone(task.dst)

NamedInv ==
  /\ pc = "dead" => deaths > 0
  /\ deaths = 0 => OneByOne /\ ChunksGone

Delivered(t) ==
  \A f \in 0..(ChunkLength - 1) : \E item \in Stored(db[t.dst]) : IsFrame(t, f, item)

(* When nothing fails, every chunk that is to move before the first task   *)
(* with a codec arrives in its new tier.                                   *)
FirstMoves ==
  {build.tasks[i] : i \in {i \in DOMAIN build.tasks : \A j \in 1..i : RawMove(build.tasks[j])}}

EventuallyMoved ==
  WholeChunks => <>(bug \in {"crash", "commit"} \/ \A t \in FirstMoves : Delivered(t))

(* The two commits of a move implement Relocate. *)
Footage == INSTANCE Relocate WITH held <- Held, carried <- Carried, Items <- Items

ImplementsRelocate == Footage!Spec
=============================================================================

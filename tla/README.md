# VStore: a TLA+ verification project

VStore is a video store built on LMDB, ZeroMQ and FFmpeg (`src/VStore-OpenALPR/src`). A *source* serves
frames and encoded chunks of a video out of LMDB environments, a *decoder* turns chunks into frames, a *sink*
finds motion in small frames and recognises licence plates in the full-size ones, a *migrator* moves old
footage to cheaper tiers, and a *run-time scheduler* orders what they ask of each other. A *builder* fills the
environments, and a *daemon* recognises plates live and uploads what it finds. This directory holds
TLA+ modules of those parts, the TLC configurations that check them on small instances, and TLAPS proofs of the
results that hold for every value of the constants.

All source paths below are relative to `src/VStore-OpenALPR/src/`. `src/VStore-NoScope/vstore/src` is a
near-identical copy of the same files and is not modelled again. How each definition corresponds to lines of
code is listed, definition by definition, in `PROJECT.json` under `map`.

## 1. Inventory

| Component | State | Operations | Hard behaviour |
|---|---|---|---|
| Zero-copy sender (`rxtx.cpp`: `send_multi_from_db`, `send_chunk_from_db`; `mm.cpp`: `my_free`) | an LMDB read transaction and cursor, `my_alloc_hint.refcnt`, the socket's queue | send a key range, bump the count, free a message, close the transaction | the caller's thread races with ZeroMQ's I/O thread over the count; bytes are read from mapped pages after `send` has returned |
| Frame manager (`RxManager.h`) | a map of chunks to maps of frames, end markers, a watermark | `DepositAFrame`, `DepositADesc`, `RetrieveAFrame`, `GetWatermarks` | chunks arrive interleaved, end markers early or late; assertions abort the process |
| Run-time scheduler (`test/test-rt-scheduler.cpp`) | three queues, one REP socket to clients, two REQ sockets to servers | accept, scan by priority, dispatch, wait, pop | a ring of REQ/REP waits with a process that is client and server at once |
| Source (`test/test-source.cpp`) | the environments, per-thread sockets to the decoder | answer a request, serve a chunk or a range | the next transaction of an environment begins while the last one may be alive |
| Decoder (`decode-serv.cpp`, `mydecoder.cpp`) | the chunk in hand, a socket per sink thread | receive a chunk, send frames and an end marker, give up on a bad file | blocks on a full socket; ignores the result of decoding |
| Sink (`test/test-sink.cpp`) | per-thread prefetch buffer and `status_en_720`, decoded small frames | initial retrieval, then a parallel loop: look, fetch a chunk, use a frame | OpenMP threads, blocking fetches, a buffer whose freshness is judged by frame distance |
| Message receivers (`rxtx.cpp`: `recv_one_*`) | none | receive a desc and its data | a desc without data, an uninitialised `tid` |
| Migrator (`test/test-migrate.cpp`) | an environment per directory, a queue of tasks, two write transactions and their cursors | plan from the tables, announce a task, wait for permission, move a chunk | two commits without a common transaction; a cursor and a key that walk in step; restarts from the same plan |
| Database builder (`test/test-db-build.cpp`) | one write transaction, the last key | load the files of a directory, load the frames of a video | several processes on one environment; crashes in mid-run |
| Profiling sink and source (`test/*-profiling.cpp`) | as the sink and source, with statistics | measurement variants | the retrieval is behind `#if 0` |
| ALPR daemon (`daemon.cpp`) | a process per camera with a frame queue; a beanstalkd tube all share | capture, analyse, store a result, reserve, post, delete or release | check-then-push on the queue; reservations that run out, posts that fail, processes that die |
| Statistics (`CallBackTimer.h`, `StatCollector.h`, `measure.c`) | counters, a ring of samples | collect, report | relaxed atomics, a ring that wraps |
| Test programs, configuration | constants, message records | manual drivers | - |

How the parts meet. A sink thread asks the scheduler (REQ/REP, answered at once); the scheduler hands the
request to the source or the migrator (REQ/REP, answered before the work is done) and only then takes the next
one. The source pushes the chunk to the decoder (PUSH/PULL), lending it LMDB's own pages; the decoder pushes
frames to the socket of the thread whose `tid` travelled with the chunk. The migrator sends the scheduler its
next task and waits for permission to carry out a task. Nothing is acknowledged end to end and there are no
timeouts: an answer only says that a request has been read. Nothing survives a crash but LMDB's own commits.

What makes each part correct:

* **Sender**: no byte is read from a transaction that has ended; the transaction ends once, and does end; the
  receiver is sent each record of the range once, in order, with the right end marker.
* **Frame manager**: the consumer is given the stream in order, whatever the interleaving; no assertion fires on
  a well-formed stream; of a stream numbered from 0, "again" is only said when what is needed is missing, and it ends.
* **Scheduler**: each request is handed over once, in order of acceptance, and none is starved.
* **Source, decoder, sink**: a thread is given its own chunks, frames sit in their own slots, the frame used for
  number *j* is frame *j*, a fetch leaves nothing behind and ends.
* **Migrator**: footage is never in two tiers; a failure costs at most the chunk being carried; what a task names
  is what moves, in the footage's order, and it gets there.
* **Database builder**: the database is a sequence of whole runs under the keys 2, 4, ... without a gap, since readers
  compute their ranges from frame numbers; nobody waits for a dead writer.
* **ALPR daemon**: frames are analysed once and the newest first; a result in the tube is lost only by a post that was
  reported as a success, and is posted so in the end.

`PROJECT.json` lists under `hazards` what is hard to test in this code, each at its line, with the properties
that would catch it going wrong, or the reason none does yet.

## 2. Modules

Four abstract specifications say what a component promises:

* **TxnLease**: a transaction lends records, is sealed, and is closed once, when all have come back.
* **FrameStream**: frames are revealed once each, in order; the end comes after the last.
* **FifoServer**: accepted requests are started in order, each once.
* **Relocate**: items leave one directory together and arrive in another together; a failure in between loses what
  is being carried, and nothing else.

**ZeroCopyTx** implements TxnLease. One behaviour is one call of `send_multi_from_db` or `send_chunk_from_db`
with its `my_free` callbacks. `Sender` has a step per effect of the calling thread (`BeginTxn`, `SkipRecord`,
`SendRecord`, `EndOfRange`, `AbortEarly` for the single-frame and multipart shapes, `SendEof`, `BumpRefcnt`,
`SenderClose`), `IoThread` those of ZeroMQ's (`Transmit`, `MyFree`, `IoClose`). The `fetch_add` and what is
done on its result are two steps, so are `fetch_sub` and the close. `msgs` is every message given to the
socket; the high-water mark `Hwm` blocks the sender. `stale` records reads of a page whose transaction is over.
Requests that are not deferred never get as far as a lease (`LeaseState`, `Lent`, `Sealed`), so the refinement is
stated for all requests.

**RxManager** has the class's map as `present`, `frames`, `eofF`, the watermark, and an action per method; the
`goto again` loop of `RetrieveAFrame` is one step, as the method holds its object for its whole run.
The read of an empty map's last key is undefined behaviour: `DepositFrameEof` sets `ub` and then aborts or
goes on. **RxStream** implements FrameStream: it feeds RxManager with chunks that interleave freely, and a
consumer that polls or waits until all has arrived (`phased`, either from the start). Frames are numbered as `sender`,
either from the start too, numbers them: from 0 by `send_multi_from_db` (`rxtx.cpp:153`), from 1 by the decoder
(`mydecoder.cpp:164`), each with the end marker's number to match. Of the second kind of stream the consumer is given nothing,
and the properties say so. In the sinks of this commit deposits are commented out and the retrieval loop
(`test-sink-profiling.cpp:540-597`) is behind `#if 0`; RxStream's consumer is that loop.

**RtScheduler** implements FifoServer: the clients' requests, the scheduler's loop (`Accept`, `Dispatch`,
`ScanNothing`, `FinishDispatch`) and the servers as far as their sockets go (`AnswerScheduler`, `FinishWork`).
The migrator sends one task per round and waits for permission in between (`MayAsk`, `AtSocket`). `accepted`
and `started` are history variables.

**QueryPath** composes **SourceServer**, **DecodeServer** and **SinkPrefetch** over the sockets of **QueryNet**.
A desc and its data are one item, as the parts of a multipart message arrive together. The scheduler is its
interface (`Forward`): one request at a time to the source, clients in turn, which is what RtScheduler and its
proofs show of it. SourceServer keeps from ZeroCopyTx what a query depends on: the transaction of a chunk stays
alive until the I/O thread's last `my_free` (`CloseTxn`); beginning one while the last is alive
ends the process (the environments are opened without `MDB_NOTLS`: one reader slot per thread). SinkPrefetch has
the parallel loop: `TakeBlock` (OpenMP's dynamic schedule), `SkipFrame`, `AskForChunk`/`UseBuffered`,
`ReceiveItem` (the receiving loop, an iteration at a time), `UseFrame`. Motion is nondeterministic: a frame of
`Moving` certainly has motion, any other may. The decoder gives a chunk of `Unreadable` up without an end marker (a file
without a video stream), and goes no further than one of `Broken` (a file that cannot be opened or probed: `xzl_bug_on`).

**KeyStore** has what the next two share: an environment as a function from keys to items, the cursor's operations, `Put`
and `Del`. **MigrationPlan** has the operators that build the task list from the tables of `config.h`, with the integer
truncation of `getTier` and of the chunk's number within its tier.

**Migrate** implements Relocate. It has the main loop (`Announce`, `Announced`, `NothingToAnnounce`, `Permission`), the
opening both cursors must survive (`OpenEmpty`, `Open`), an iteration of `videoMove` for frames (`MoveFrame`,
`FrameFails`), its move of an encoded chunk (`MoveChunk`, `ChunkMissing`), `videoDecodeMove` and `videoEncodeMove` up to
where they stop (`SendToDecoder`, `Encode`), and the two commits. `CommitFails`, `Crash` and `Restart` are the faults: what a
transaction has not committed is lost, and the plan starts over. The scheduler may then still hold the last run's task, and
wait for its answer; it answers an announcement only when it is free of it (`SchedulerAnswers`). So a restarted migrator
and the scheduler may wait for each other for ever, unless the scheduler is started again as well, with empty queues.

**DbBuild** has a process per builder, `Begin`, `PutItem`, `Commit` and `Finish`, on one write lock; `Crash` at any
point, `CommitFails`, and `Rerun` by the operator. `kept` is a history variable: the inputs committed so far.

**AlprDaemon** has the capture thread (`Grab` tests `framesQueue`, `PushFrame` pushes: two steps, as in the code), the
analysis threads (`PopFrame`, `DropResult`, `StoreResult`), the upload thread (`Connect`, `Reserve`, `Post`, `Settle`) and the
faults (`Disconnect`, `Expire`, `Crash`; `Post` and `Connect` may fail by themselves). `Post` has the four ends of
`uploadPost`: taken, refused with an HTTP error, not performed for want of a handle, and failed. The first three it reports as
a success (`ReportedPosted`), and the history variables `received`, `refused` and `unsent` tell them apart. beanstalkd and curl are external.

The MC modules hold instances only. The `_proofs` modules hold theorems only. Operators whose name ends in a
word such as `Loose`, `Late`, `OffByOne` and whose comment begins with "Mutant" are deliberately wrong versions of the
operator after them; they are used by no specification, only to test that a property can fail.

## 3. Runs

| Run | Instance | Shows |
|---|---|---|
| `zerocopy_all` | six records; every range of one to five frames from each position, also past the end, every single chunk, a range of chunks, the whole database; `ChunkSize` 3, `Hwm` 2 | `NoDanglingMessage`, `ClosedOnce`, `HintLiveWhileUsed`, `RangeDelivered`, `OpenOnlyWhenCut`, `EventuallyClosed`, `ImplementsLease`, and `IInv`, the invariant the proofs use |
| `zerocopy_early` | one single-frame request | violated: `SentFromLiveTxn` |
| `rxstream_all` | chunks of 2, 1 and 3 frames, numbered from 0 and from 1, consumers that poll and that wait | `IInv`, `NoSpuriousAbort`, `NoStaleChunk`, `PhasedDefined`, `AgainMeansMissing`, `EndsOrStalls`, `ImplementsStream` |
| `rxstream_eof` | two chunks | violated: `FutureEofDefined` |
| `rtscheduler_all` | two retrieving clients, one ingesting, the migrator (two tasks), one of unknown type | `IInv`, `QueuesNeverCompete`, `ImplementsFifo`, `RequestsServed` |
| `query_steady` | two threads, an environment each, three chunks, chunks one frame shorter than `CHUNK_LENGTH`, motion in the first frame of each block | `RightChunk`, `NothingLeftOver`, `EveryFetchEnds` |
| `query_any` | two threads, one environment, five chunks of length 1 and 2 (`CHUNK_LENGTH` 2), one unreadable, one broken, one missing, any motion | `IInv`, `SlotAligned`, `OwnChunks` |
| `query_eof` | chunks of exactly `CHUNK_LENGTH` frames | violated: `EofOfCurrentChunk` |
| `query_txn` | two threads, an environment each | violated: `TxnBeginAlone` |
| `migrate_all` | eight variants of the tables of `config.h` over less footage, `ChunkLength` 2, two deaths | `IInv`, `NeverTwice`, `MoveFinishes`, `LossBound`, `OrderKept`, `MovedAsNamed`, `ImplementsRelocate`, `EventuallyMoved` |
| `dbbuild_all` | three builders (two items, one item, a video without a whole frame), three crashes or failing commits | `WholeRuns`, `IInv`, `EveryRunEnds` |
| `daemon_all` | two cameras with two and one analysis threads and two and one frames, two faults | `IInv`, `FreshFrames`, `LostOnlyAsReported`, `EveryResultPosted` |

**Bounds.** In ZeroCopyTx `Hwm` 2 blocks the sender, the I/O thread can be any number of messages behind or level, and both
orders of the last `fetch_sub` and the `fetch_add` occur; with `ChunkSize` 3 and ranges up to five records, a range is one
message, a multipart message, a deferred range of exactly `ChunkSize` records or more, and is cut short by the end of the
database after each possible number of records. Three chunks of different lengths let one chunk
be drained, one partial, one only begun, with the chunk end marker before or after any of them. In RtScheduler
every type of request and every pair of them meets, and the migrator goes round twice. In QueryPath a thread
fetches at least twice, `FrameHwm` 2 blocks the decoder, and both threads' chunks queue at once. `query_any` has one
environment because its question is about buffers; `alive` then makes the source abort early in some behaviours
and late in others. In Migrate the variants are the tables that are compiled in, those behind `#if 0` (which do move hot
raw footage) at two sizes, two in which decoding moves find or do not find their chunk, one with a move between encoded
tiers, one with an encoding, and one whose tiers do not hold whole chunks; two deaths let a restarted process die again,
with the scheduler waiting for it or started again too. Chunks of two frames have a first frame, a last, and a cursor step between. In
DbBuild every pair of runs can overlap, and each step can be the one that is cut off. In AlprDaemon one camera has two
analysis threads, so that pops race with a push; two faults let a reservation expire during a post that then fails.

The deadlock check is off where the system really stops. QueryPath: the sink's threads end with their loop,
the source may abort, a broken chunk ends the decoder, and a missing chunk is waited for without end; `EveryFetchEnds` covers unwanted stops where
the chunks are all there. Migrate: the last task is done, or a decoding is waited for without end, or a restarted migrator and
the scheduler wait for each other, or the bound on deaths is used up. DbBuild: all builders have ended. AlprDaemon: the cameras have no more frames, or all processes have died.

**Conditions of `query_steady`.** `RightChunk` is not true of every instance, and it is worth knowing why. (1) A
thread whose first motion is in mid-block fetches there, and judges the buffer fresh for `CHUNK_LENGTH` frames from that
frame on, so it goes on using it in the next block it is dealt, if that is the neighbouring one. (2) A chunk of
`CHUNK_LENGTH` frames leaves its end marker behind, and later fetches lag (`query_eof`). (3) A chunk more than one frame
shorter than an earlier one leaves that one's last frames in the slots past its own end: its end marker clears one slot
only (TLC: chunks of 3, 1 and 1 frames with `CHUNK_LENGTH` 4). The run takes an instance without the three (motion in each
block's first frame, chunks of equal length below `CHUNK_LENGTH`); `RightChunkThm` proves that there is no fourth. `SlotAligned` and `OwnChunks` hold in all cases, and `query_any` checks them in all.
With full chunks and enough chunks, TLC also finds that the decoder can block for ever on the full socket of a
thread that has finished (`EveryFetchEnds` fails with 4 chunks of 2 frames and `FrameHwm` 2).

**Conditions of `migrate_all`.** `MoveFinishes` and `EventuallyMoved` are about tables under which raw tiers hold whole
chunks (`WholeChunks`); `HotOnly(1)` is a variant where they do not, and there the loop's assertion does fire.
`EventuallyMoved` is about the raw moves before the first task with a codec, as that task ends the process or waits for
ever (section 4). `MovedAsNamed` is about a process that has not been restarted; after a restart it is not true.
`TablesInOrder` in MCMigrate has TLC evaluate, on the tables of the run, what the proofs of `MovedAsNamed` and `OrderKept`
take of the tables (section 5). For `OrderKept` that is sufficient and not known to be necessary: on tables that do not
give it (`4, 4, 2` with shares `50, 50, 0 | 50, 25, 25 | 100, 0, 0` and then `75, 25, 0 | 100, 0, 0 | 100, 0, 0`, where a
tier sends only half of its chunks) TLC finds no violation either, with four deaths.

**Fairness.** Threads and processes run on (WF): nothing in the code stops one that is able to step, and a ZeroMQ
socket delivers. RtScheduler has SF on `Accept(c)`, and QueryPath on the scheduler's step for a thread: a REP socket
takes from its peers by fair queuing, so a waiting client's turn comes although the scheduler is busy in between.
`FinishWork` is weakly fair: each server's work is a finite loop. There is no fairness on the clients asking, on the
close of a transaction in QueryPath, or on which block a thread is dealt. Migrate's `FairSpec` has WF of `Loop \/ Move`, which
includes the scheduler's permission, and none on failures or restarts. DbBuild has WF of each builder's steps and of
its rerun, and a bound on failures: the operator starts what has crashed. AlprDaemon has WF of each upload
thread, and no fairness on capture or analysis; uploading is taken to be enabled for every camera.

## 4. What the code does otherwise than it says

The four runs that expect a violation; `findings` in `PROJECT.json` quotes the lines.

1. `send_multi_from_db` ends the transaction of single-frame and multipart requests right after `send`, while the
   I/O thread has yet to read the mapped bytes (`zerocopy_early`).
2. `DepositADesc` reads the last key of a map that `RetrieveAFrame` may have emptied (`rxstream_eof`).
3. The receiving loop of the sink leaves the end marker of a full chunk in the socket (`query_eof`).
4. The source begins a transaction that may meet the last one, still alive (`query_txn`).

Observed while modelling, and part of the models, but without a run of their own, as each is certain rather than possible:

* The decoder numbers frames from 1 (`mydecoder.cpp:164`), RxManager waits for frame 0: of such a chunk nothing is ever
  revealed, and its consumer is told "again" for ever (`EndsOrStalls`, `DecodedNeverRevealedThm`).
* `videoMove` takes the first record of the source, `MDB_FIRST` (`test/test-migrate.cpp:217`), while its log (203, 291) and
  comment (248) name the task's chunk. After a restart, when the plan starts over, it moves another chunk.
* An empty destination fails the assertion at 235 (also 174, 398, 554) before the case that handles `MDB_NOTFOUND`: with the
  tables that are compiled in, the first task that is granted ends the process.
* An encoded chunk is looked up under its number (185), while the builder stores chunks under even keys from 2.
* After a crash between the commits the chunk is lost, and the last task of that tier finds an empty source.
* When the migrator dies with a task announced that it has not answered, and is started again, it waits in `sv_send.recv`
  (`test/test-migrate.cpp:755`) for the scheduler, and the scheduler in `mr_send.recv` (`test/test-rt-scheduler.cpp:119`) for it.
* A file the decoder cannot open or probe ends it (`mydecoder.cpp:231, 239`); for one without a video stream it sends no
  end marker (243), and the thread that fetches it waits for ever.
* A decoding waits for ever, as the decoder's branch for `MIGRATE_TID` is commented out; an encoding always aborts, as it
  loads a file from a directory it has just removed.
* `uploadPost` reports a success without a curl handle (`daemon.cpp:468`) and when the service answers with an HTTP error
  (482-491, `CURLOPT_FAILONERROR` is not set); the job is then deleted (426), and the result lost. The result of
  `writeToQueue` is not looked at (310).

## 5. Proofs

TLAPS proves the following for every value of the constants that satisfies the modules' `ASSUME`s (TLC evaluates
these on every run). Each `_proofs` module has the same argument: an invariant `IInv` of the module, checked by
TLC first, then `Init => IInv`, `IInv /\ [Next]_vars => IInv'` with a step per action, and the results from it.

* **ZeroCopyTx_proofs** (any database, requests, `ChunkSize`, `Hwm`). `NoDanglingMessage` is not inductive: that
  the transaction is open says nothing of why nobody closes it. `IInv` adds `CountInv`, the balance of the count
  (what the sender added minus what `my_free` took), `FreeInv`, that the frees follow the wire, and
  `OwnerInv`, who may still close the transaction in each phase. `InductiveInvariant`,
  `NoDanglingThm`, `ClosedOnceThm`, `HintLiveThm`; `LeaseRefinement`: every step is a step of TxnLease or a stutter.
  `RangeDeliveredThm` and `OpenOnlyWhenCutThm` rest on a second invariant, `RangeInv`: the cursor has stepped over records
  before the range only, then sent all up to where it is, and the end marker's number is the count. It speaks of the
  set of keys in the range and of their order, so that no induction over the database is needed.
  `DeferredReadsLive` is the other side of `zerocopy_early`: requests that leave the close to the count never have a record
  read from a transaction that is over, so the two shapes that abort early are the only ones that can.
* **RxStream_proofs** (any chunk count and lengths, consumer polling or waiting, frames numbered from 0 or from 1). `IInv` is a
  disjunction. `RawInv`, for frames from 0, says, while no assertion has fired, that the map holds exactly what has arrived and
  not been passed; `DecoderInv`, for frames from 1, that it holds all that has arrived, that the watermark has not
  moved and that the consumer has been given nothing. `InductiveInvariant`, `NoSpuriousAbortThm`, `NoStaleChunkThm`,
  `PhasedDefinedThm` (a consumer that waits never meets the empty map), `StreamRefinement`: RxManager implements
  FrameStream. `AgainMeansMissingThm` (an action property, from the invariant) is about frames from 0, as it is false of
  others; `DecodedNeverRevealedThm` is about frames from 1.
* **RtScheduler_proofs** (any clients, types, quotas). `FlowInv` says that the queues hold the one request the scheduler is
  busy with, and how `started` and `accepted` then differ. `InductiveInvariant`, `QueuesNeverCompeteThm` (the
  priority scan never has a choice), `FifoRefinement`.
* **QueryPath_proofs** (any threads, chunks, chunk lengths up to `CHUNK_LENGTH`, missing, unreadable and broken chunks,
  motion, environments). `SlotAligned` needs to know what is still in the socket: `FlowInv` says that its items are
  numbered without a gap from the slot the thread has come to up to the frame the decoder has come to, the one exception
  being the end marker of a full chunk. `OwnerInv` follows a request from the thread's block through the scheduler,
  source and decoder. `InductiveInvariant`, `SlotAlignedThm`, `OwnChunksThm`.
  Three results are about chunks with fewer than `CHUNK_LENGTH` frames (`AllShort`, a condition on the input: with a full
  chunk they are false, `query_eof`). `LoneFetch`: a thread has one thing under way, its request, its chunk, or the rest
  of that chunk's frames up to the end marker. From it `NothingLeftOverThm` and `EofOfCurrentChunkThm`. `RightChunkThm` adds
  conditions (1) and (3) of section 3 (`StartsMove`, `BarelyShorter`); its invariant `RightInv` says that blocks are dealt in
  order, that the buffer's status is the start of the block last fetched for, and that a slot holds a frame of its chunk or none.
* **Migrate_proofs** (any directories, tasks, chunk length, number of failures; databases as the builder leaves them: distinct
  items, and `AsBuilt`, n records under the keys 2 to 2n, which is DbBuild's `NoGapsThm`). `NeverTwice` needs to know how
  the two views of a move differ from the databases: `ViewInv` says record by record that what the source's lacks is what the
  destination's has more, `FramesInv` that key and cursor agree, `CarryInv` that between the commits the records added are in
  no environment. `InductiveInvariant`, `NeverTwiceThm`, `RelocateRefinement`. On top of it:
  * `LossBoundThm`: `CountInv` bounds a move by `ChunkLength`, and each step that loses anything is an end of the
    process and loses at most what is carried.
  * `MoveFinishesThm`: `WalkInv` says that every raw directory holds whole chunks under consecutive even keys, and `FrameWalk`
    that after n frames the rest of one chunk is missing on both sides, so neither walk ends before the other.
  * `MovedAsNamedThm`, for tables with `TasksInOrder` (the number of a task's chunk counts the raw moves from its tier before
    it, and the tier holds it). `OneByOne`: without a restart a task is announced when those before it are done; `ChunksGone`: a tier
    has then lost as many chunks as there were moves from it, and its first record is that of the next one.
  * `OrderKeptThm`, for tables with `InFootageOrder`: no tier both sends and receives, a tier's tasks follow each other and name
    every chunk it holds, tiers are filled in the footage's order. A restarted process announces its tasks from the
    beginning, so tasks and moves part company. What survives is a count (`DoneInv`): as many
    tasks are done as this process has announced and carried out. Tasks of one tier are interchangeable, so
    the one announced next finds the tiers before its own empty, and what it appends follows on what is there (`FollowInv`).
* **DbBuild_proofs** (any builders, inputs, number of failures). `WholeRuns` needs `ViewInv`: the open transaction holds what
  was committed before it and then a prefix of its own input, and stands on its last key. `InductiveInvariant`, `WholeRunsThm`,
  and `NoGapsThm`, which ties the builder to what Migrate assumes.
* **AlprDaemon_proofs** (any cameras, analysis threads, frames and faults). `QueueInv` says that what waits has been captured,
  `UploadInv` that a connection holds only the job its thread is at, and that what is about to be deleted has been
  reported as posted. `InductiveInvariant`, `FreshFramesThm`, `LostOnlyAsReportedThm`: a result leaves the tube only by such
  a report. A post refused with an HTTP error, or made without a handle, is reported so too, and its result is lost.

`TasksInOrder` and `InFootageOrder` are conditions on the tables, which are data: TLC evaluates both on all the tables of
`migrate_all`, among them those of `config.h`. That MigrationPlan's operators give them for every table cannot be proved (a
fold, so an induction over data) and is not even true: tables that send part of a tier break the second. So does hot footage
of another size than the warm where the warm goes to several tiers, because the number of a chunk within its tier
(`ChunkInTier`) is scaled by the size of the hot footage for every temperature.

**Only model-checked.** Liveness (`EventuallyClosed`, `EndsOrStalls`, `RequestsServed`, `EveryFetchEnds`, `EventuallyMoved`,
`EveryRunEnds`, `EveryResultPosted`): fairness and ENABLED are out of TLAPS 1.4.5's reach here. Every invariant that a passing run
checks has a theorem, and so has every refinement. The four expected violations are TLC's, as there is nothing to prove.

## 6. Plan

Done: the sender, because every read of the store goes through it and its two threads race on every call; the frame
manager; the scheduler; the query path that composes source, decoder and sink; the migrator and the builder, which write
the store; the daemon.

What could come next, in this order:

1. That the source never aborts when requests of one environment are apart (`query_txn` shows what happens otherwise).
2. For `OrderKept`, a weaker condition on the tables than `InFootageOrder`, for tiers that send a part of their chunks.
3. The sink's first phase (below), with raw ranges as requests in SourceServer.

**Not modelled.**

* The sink's initial retrieval (`test/test-sink.cpp:500-575`): a sequential loop over one socket that counts 143 end
  markers. It is wrong in a way that needs no model: with fewer than 36000 frames stored it waits for ever (548).
* The chunk end marker the decoder would pass through (`recv_one_chunk_tofile` leaves its `tid` uninitialised and promises
  -1): no program of the repository sends one to the decoder. The decoder's feedback socket: nobody reads it, and it
  blocks after some 2000 chunks, more than a database of 36000 frames has.
* The other hints of `my_free` and the senders from files. malloc, avmalloc and a file mapped for one message have one
  owner; the count of a file mapped for many starts at the number of frames (`test/test-source.cpp:252`) before any is sent,
  so that only ZeroMQ's thread ever changes it.
* The profiling sink and source: older variants for measurement, most of their retrieval behind `#if 0`. The timer, the
  statistics and the ring of samples: reports only. The small test programs: a function each.
* The configuration of the daemon, and its teardown: `daemon_active` is never reset.
* What is in a frame, recognition, FFmpeg's decoding, ZeroMQ's and LMDB's insides (external, modelled by how
  the code uses them), command lines, logging and measurement output.

The models cover the programs' own control. Much of the source tree is something else: the C++ binding of ZeroMQ (`in/zmq.hpp`,
`in/zmq_addon.hpp`), FFmpeg's example (`examples/decode.c`), and the NoScope copy of the same files, which the models cover
as far as it is the same code.

----------------------------- MODULE ZeroCopyTx -----------------------------
(***************************************************************************)
(* One call of the source's zero-copy senders, send_multi_from_db and      *)
(* send_chunk_from_db (rxtx.cpp), racing with the ZeroMQ I/O thread that   *)
(* runs my_free (mm.cpp) on each message it has put on the wire.           *)
(*                                                                         *)
(* Both threads share one my_alloc_hint: its refcnt, the transaction and   *)
(* the cursor.  The sender never counts the messages it sends one by one:  *)
(* the I/O thread decrements from zero, the sender adds the total at the   *)
(* end, and whoever brings the count back to zero closes the transaction.  *)
(*                                                                         *)
(* A message handed to the socket is an element of "msgs" and stays there: *)
(* tx counts those on the wire, freed the calls of my_free that have run.  *)
(***************************************************************************)
EXTENDS Integers, Sequences

CONSTANTS
  Db,         (* the keys stored in the database, ascending                 *)
  Requests,   (* the calls that may be made: [fn, type, start, end]         *)
  ChunkSize,  (* CHUNK_SIZE: frames per multipart message                   *)
  Hwm         (* high-water mark of the socket, in messages                 *)

ASSUME DbAssumption ==
  /\ Db \in Seq(Nat)
  /\ \A i, j \in 1..Len(Db) : i < j => Db[i] < Db[j]

ASSUME RequestsAssumption ==
  Requests \subseteq
    [fn : {"multi", "chunk"}, type : {"raw", "chunk"}, start : Nat, end : Nat]

ASSUME SizesAssumption == ChunkSize \in Nat \ {0} /\ Hwm \in Nat \ {0}

VARIABLES
  req,     (* the arguments of the call                                     *)
  pc,      (* where the sender thread is                                    *)
  pos,     (* cursor: number of records already stepped over                *)
  cnt,     (* records sent so far, also the next sequence number            *)
  refcnt,  (* hint->refcnt                                                  *)
  txn,     (* the read transaction: none, open, closed, or aborted "twice"  *)
  hint,    (* the shared my_alloc_hint: none, live, deleted                 *)
  msgs,    (* every message given to the socket                             *)
  tx,      (* how many of them the I/O thread has put on the wire           *)
  freed,   (* how many times my_free has decremented refcnt                 *)
  io,      (* I/O thread: idle, about to run my_free, about to close        *)
  stale    (* data messages whose bytes were read after the txn had ended   *)

vars == <<req, pc, pos, cnt, refcnt, txn, hint, msgs, tx, freed, io, stale>>
sharedVars == <<refcnt, txn, hint>>
ioVars == <<tx, freed, io, stale>>

Message == [kind : {"data", "eof"}, desc : BOOLEAN, key : Nat, seq : Nat, more : BOOLEAN]

TypeOK ==
  /\ req \in Requests
  /\ pc \in {"begin", "walk", "after", "bump", "close", "done", "abort"}
  /\ pos \in 0..Len(Db)
  /\ cnt \in Nat
  /\ refcnt \in Int
  /\ txn \in {"none", "open", "closed", "twice"}
  /\ hint \in {"none", "live", "deleted"}
  /\ msgs \in Seq(Message)
  /\ tx \in 0..Len(msgs)
  /\ freed \in Nat
  /\ io \in {"idle", "free", "close"}
  /\ stale \subseteq 1..Len(msgs)

-----------------------------------------------------------------------------
(* The three shapes of a request, told apart by its key range alone. *)

SingleFrame == req.fn = "multi" /\ req.start + 1 = req.end

MultiPart == req.fn = "multi" /\ req.start + 1 + (ChunkSize - 1) * 2 = req.end

(* The range is sent record by record and the close is left to refcnt. *)
Deferred == ~SingleFrame /\ ~MultiPart

(* Mutant: every part of a multipart message promises a further part. *)
MoreFollowsOffByOne == MultiPart /\ cnt < ChunkSize

(* ZMQ_SNDMORE on all parts of a multipart message but the last. *)
MoreFollows == MultiPart /\ cnt < ChunkSize - 1

(* The message built for the record under the cursor. *)
DataMsg(key) ==
  [kind |-> "data", desc |-> Deferred, key |-> key, seq |-> cnt, more |-> MoreFollows]

EofMsg == [kind |-> "eof", desc |-> TRUE, key |-> 0, seq |-> cnt, more |-> FALSE]

InMultipart == msgs # <<>> /\ msgs[Len(msgs)].more

(* A blocking send waits at the high-water mark, never inside a message. *)
CanSend == InMultipart \/ Len(msgs) - tx < Hwm

(* mdb_txn_abort: a second call on the same handle is an error. *)
AbortTxn == txn' = IF txn = "open" THEN "closed" ELSE "twice"

(* Mutant: the first key of the range is taken to lie before it. *)
BeforeRangeInclusive(key) == key <= req.start

BeforeRange(key) == key < req.start

(* Mutant: a release that only looks for a count that is not positive. *)
AllBackLoose(before) == before <= 0

(* fetch_add found that every message sent has already been freed. *)
AllBack(before) == before = -cnt

(* Mutants: a release at every count up to one; a release one free late. *)
LastReferenceLoose(before) == before <= 1
LastReferenceLate(before) == before = 0

(* fetch_sub found that this was the last message outstanding. *)
LastReference(before) == before = 1

-----------------------------------------------------------------------------
Init ==
  /\ req \in Requests
  /\ pc = "begin"
  /\ pos = 0
  /\ cnt = 0
  /\ refcnt = 0
  /\ txn = "none"
  /\ hint = "none"
  /\ msgs = <<>>
  /\ tx = 0
  /\ freed = 0
  /\ io = "idle"
  /\ stale = {}

(* mdb_txn_begin, mdb_cursor_open and a fresh hint with refcnt 0. *)
BeginTxn ==
  /\ pc = "begin"
  /\ pc' = "walk"
  /\ txn' = "open"
  /\ hint' = "live"
  /\ UNCHANGED <<req, pos, cnt, refcnt, msgs, ioVars>>

(* MDB_NEXT returns a key below the range: continue. *)
SkipRecord ==
  /\ pc = "walk"
  /\ pos < Len(Db)
  /\ BeforeRange(Db[pos + 1])
  /\ pos' = pos + 1
  /\ UNCHANGED <<req, pc, cnt, msgs, sharedVars, ioVars>>

(* MDB_NEXT returns a key of the range: lend its bytes to the socket. *)
SendRecord ==
  /\ pc = "walk"
  /\ pos < Len(Db)
  /\ ~BeforeRange(Db[pos + 1])
  /\ Db[pos + 1] < req.end
  /\ CanSend
  /\ msgs' = Append(msgs, DataMsg(Db[pos + 1]))
  /\ pos' = pos + 1
  /\ cnt' = cnt + 1
  /\ UNCHANGED <<req, pc, sharedVars, ioVars>>

(* MDB_NOTFOUND, or a key at or past the end of the range. *)
EndOfRange ==
  /\ pc = "walk"
  /\ pos < Len(Db) => ~BeforeRange(Db[pos + 1]) /\ Db[pos + 1] >= req.end
  /\ pc' = "after"
  /\ UNCHANGED <<req, pos, cnt, msgs, sharedVars, ioVars>>

(* "abort here1": the single-frame and multipart shapes end the            *)
(* transaction at once and never touch refcnt.                             *)
AbortEarly ==
  /\ pc = "after"
  /\ ~Deferred
  /\ AbortTxn
  /\ pc' = "done"
  /\ UNCHANGED <<req, pos, cnt, refcnt, hint, msgs, ioVars>>

(* send_multi_from_db marks the end of the range; send_chunk_from_db sends *)
(* no end marker.                                                          *)
SendEof ==
  /\ pc = "after"
  /\ Deferred
  /\ IF req.fn = "multi"
       THEN CanSend /\ msgs' = Append(msgs, EofMsg)
       ELSE UNCHANGED msgs
  /\ pc' = "bump"
  /\ UNCHANGED <<req, pos, cnt, sharedVars, ioVars>>

(* before = refcnt.fetch_add(cnt); xzl_bug_on(before < -cnt); and the      *)
(* sender closes when every message is already back.                       *)
BumpRefcnt ==
  /\ pc = "bump"
  /\ refcnt' = refcnt + cnt
  /\ pc' = CASE refcnt < -cnt -> "abort"
             [] AllBack(refcnt) -> "close"
             [] OTHER -> "done"
  /\ UNCHANGED <<req, pos, cnt, txn, hint, msgs, ioVars>>

(* mdb_cursor_close and mdb_txn_abort by the sender; the hint stays. *)
SenderClose ==
  /\ pc = "close"
  /\ AbortTxn
  /\ pc' = "done"
  /\ UNCHANGED <<req, pos, cnt, refcnt, hint, msgs, ioVars>>

-----------------------------------------------------------------------------
(* xzl_bug_on ends the whole process. *)
Running == pc # "abort"

(* The I/O thread puts the next message on the wire, reading its bytes     *)
(* from the mapped page; parts of an unfinished message are held back.     *)
Transmit ==
  /\ Running
  /\ io = "idle"
  /\ tx < Len(msgs)
  /\ \E k \in (tx + 1)..Len(msgs) : ~msgs[k].more
  /\ tx' = tx + 1
  /\ IF msgs[tx + 1].kind = "data"
       THEN /\ io' = "free"
            /\ stale' = IF txn = "open" THEN stale ELSE stale \union {tx + 1}
       ELSE UNCHANGED <<io, stale>>
  /\ UNCHANGED <<req, pc, pos, cnt, msgs, sharedVars, freed>>

(* my_free, USE_LMDB_REFCNT: fetch_sub(1), and return unless it gave 1. *)
MyFree ==
  /\ Running
  /\ io = "free"
  /\ refcnt' = refcnt - 1
  /\ freed' = freed + 1
  /\ io' = IF LastReference(refcnt) THEN "close" ELSE "idle"
  /\ UNCHANGED <<req, pc, pos, cnt, txn, hint, msgs, tx, stale>>

(* The last my_free closes cursor and transaction and deletes the hint. *)
IoClose ==
  /\ Running
  /\ io = "close"
  /\ AbortTxn
  /\ hint' = "deleted"
  /\ io' = "idle"
  /\ UNCHANGED <<req, pc, pos, cnt, refcnt, msgs, tx, freed, stale>>

Sender ==
  \/ BeginTxn \/ SkipRecord \/ SendRecord \/ EndOfRange
  \/ AbortEarly \/ SendEof \/ BumpRefcnt \/ SenderClose

IoThread == Transmit \/ MyFree \/ IoClose

(* The call has returned and the I/O thread has nothing it may send. *)
Quiescent ==
  /\ pc = "done"
  /\ io = "idle"
  /\ \A k \in (tx + 1)..Len(msgs) : msgs[k].more

Terminated == Quiescent /\ UNCHANGED vars

Next == Sender \/ IoThread \/ Terminated

Fairness == WF_vars(Sender) /\ WF_vars(IoThread)

Spec == Init /\ [][Next]_vars /\ Fairness

-----------------------------------------------------------------------------
(* The inductive invariant of the reference count. *)

(* The sender has added its total to refcnt. *)
Bumped == Deferred /\ pc \in {"close", "done"}

(* What is in the socket: cnt data messages, then at most one end marker. *)
MsgsInv ==
  /\ cnt <= pos
  /\ Len(msgs) = cnt \/ Len(msgs) = cnt + 1
  /\ pc \in {"begin", "walk", "after"} => Len(msgs) = cnt
  /\ \A i \in 1..Len(msgs) : msgs[i].kind = "data" <=> i <= cnt

(* my_free runs once for each data message, in the order of the wire. *)
FreeInv ==
  /\ io = "free" => tx = freed + 1 /\ tx <= cnt
  /\ io # "free" => freed = (IF tx <= cnt THEN tx ELSE cnt)

(* The count balances: nothing but the bump and the frees moves it. *)
CountInv ==
  /\ refcnt = (IF Bumped THEN cnt ELSE 0) - freed
  /\ pc = "begin" => cnt = 0

(* Who may still close the transaction in each phase of the call. *)
OwnerInv ==
  /\ pc = "begin" => txn = "none" /\ io = "idle"
  /\ pc \in {"walk", "after", "bump", "close"} =>
       txn = "open" /\ hint = "live" /\ io # "close"
  /\ pc = "bump" => Deferred
  /\ pc = "close" => Deferred /\ freed = cnt
  /\ pc = "done" /\ ~Deferred => txn = "closed" /\ hint = "live" /\ io # "close"
  /\ pc = "done" /\ Deferred /\ freed < cnt =>
       txn = "open" /\ hint = "live" /\ io # "close"
  /\ pc = "done" /\ Deferred /\ freed = cnt =>
       IF io = "close" THEN txn = "open" /\ hint = "live" ELSE txn = "closed"
  /\ pc # "abort"

IInv == TypeOK /\ MsgsInv /\ FreeInv /\ CountInv /\ OwnerInv

-----------------------------------------------------------------------------
(* No message that still points into the database outlives the             *)
(* transaction, whichever of the two threads closes it (the deferred close *)
(* of send_multi_from_db and send_chunk_from_db).                          *)
NoDanglingMessage == Deferred /\ freed < cnt /\ pc # "begin" => txn = "open"

(* The two threads never both close the transaction: "refcnt reaches zero" *)
(* is seen by exactly one of fetch_add and fetch_sub.                      *)
ClosedOnce == txn # "twice"

(* my_free and the sender never touch a hint the other has deleted, and    *)
(* the "impossible" assertion after fetch_add never fires.                 *)
HintLiveWhileUsed ==
  /\ pc # "abort"
  /\ io # "idle" \/ pc \in {"walk", "after", "bump"} => hint = "live"

(* Keys of the request's range in the database. *)
RangeKeys == {Db[j] : j \in 1..Len(Db)} \intersect req.start..(req.end - 1)

HasEof == Deferred /\ req.fn = "multi"

(* What the receiver sees when the call is over: every record of the range *)
(* once, in key order, numbered from 0 without a gap; for a deferred range *)
(* of send_multi_from_db one end marker whose number is the record count.  *)
RangeDelivered ==
  pc = "done" =>
    /\ Len(msgs) = cnt + (IF HasEof THEN 1 ELSE 0)
    /\ {msgs[i].key : i \in 1..cnt} = RangeKeys
    /\ \A i \in 1..cnt :
         /\ msgs[i].kind = "data" /\ msgs[i].seq = i - 1
         /\ \A j \in 1..(i - 1) : msgs[j].key < msgs[i].key
    /\ HasEof => msgs[cnt + 1].kind = "eof" /\ msgs[cnt + 1].seq = cnt

(* Why: the cursor has stepped over records before the range, then sent    *)
(* all up to where it is.                                                  *)
SentInv ==
  \A i \in 1..cnt :
    /\ msgs[i].key = Db[pos - cnt + i] /\ msgs[i].seq = i - 1
    /\ req.start <= msgs[i].key /\ msgs[i].key < req.end
    /\ msgs[i].more <=> MultiPart /\ i < ChunkSize

RangeInv ==
  /\ \A i \in 1..(pos - cnt) : Db[i] < req.start
  /\ SentInv
  /\ pc \notin {"begin", "walk"} /\ pos < Len(Db) => Db[pos + 1] >= req.end
  /\ pc \in {"bump", "close", "done"} => Len(msgs) = cnt + (IF HasEof THEN 1 ELSE 0)
  /\ Len(msgs) = cnt + 1 => msgs[cnt + 1] = EofMsg

(* A message left open swallows the next request's first message.  It      *)
(* happens exactly when a multipart range is cut short by the end of the   *)
(* database (fewer than CHUNK_SIZE records sent, and at least one).        *)
OpenOnlyWhenCut ==
  pc = "done" => (InMultipart <=> MultiPart /\ cnt \in 1..(ChunkSize - 1))

(* Every bumped transaction is eventually closed, by one thread or the     *)
(* other, so that its reader slot and its snapshot are released.           *)
EventuallyClosed == (pc = "bump") ~> (txn = "closed")

(* The protocol implements the lease: the records lent and not returned    *)
(* are those sent and not yet freed; the bump seals the lease.  A request  *)
(* that is not deferred never gets as far as a lease.                      *)
LeaseState == IF Deferred THEN txn ELSE "none"
Lent == {i \in 1..cnt : Deferred /\ i > freed}
Sealed == Deferred /\ pc \in {"close", "done"}
Lease == INSTANCE TxnLease
           WITH Records <- 1..Len(Db), lease <- LeaseState, lent <- Lent, sealed <- Sealed
ImplementsLease == Lease!LeaseSpec

(* Stated by the comment of send_one_from_db, "send one buf (chunk or      *)
(* frame) returned from a live lmdb transaction": the bytes of every data  *)
(* message are read while the transaction is open.                         *)
SentFromLiveTxn == stale = {}
=============================================================================

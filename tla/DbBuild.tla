------------------------------ MODULE DbBuild ------------------------------
(***************************************************************************)
(* The database builder (test-db-build.cpp): processes that load files,    *)
(* encoded chunks or raw frames, into one environment.  Each run is one    *)
(* write transaction, and LMDB lets one process write at a time.  A run    *)
(* appends after the last key; a process may crash, and be started again.  *)
(***************************************************************************)
EXTENDS Integers, Sequences, KeyStore

CONSTANTS
  Builder,   (* the processes                                        *)
  Items,     (* encoded chunks and raw frames                        *)
  Input,     (* Input[b]: what process b is to load, in order        *)
  IsRaw,     (* IsRaw[b]: frames of a raw video, not a directory     *)
  NoOne,     (* the write lock is free                               *)
  MaxFails   (* bound: crashes and failing commits                   *)

ASSUME BuilderAssumption ==
  /\ NoOne \notin Builder
  /\ MaxFails \in Nat
  /\ IsRaw \in [Builder -> BOOLEAN]
  /\ DOMAIN Input = Builder
  /\ \A b \in Builder : Input[b] \in Seq(Items)

VARIABLES
  db,      (* the committed content                                  *)
  pc,      (* pc[b]: "idle", "load", "committed", "ended", "dead"    *)
  writer,  (* who holds the environment's write lock                 *)
  view,    (* the write transaction's view                           *)
  key,     (* last_key                                               *)
  loaded,  (* how many items the writer has put                      *)
  fails,
  kept     (* history: the items of the committed runs, in order     *)

txnVars == <<writer, view, key, loaded>>
vars == <<db, pc, txnVars, fails, kept>>

Init ==
  /\ db = Empty
  /\ pc = [b \in Builder |-> "idle"]
  /\ writer = NoOne
  /\ view = Empty /\ key = 0 /\ loaded = 0
  /\ fails = 0
  /\ kept = <<>>

Step == 2 (* 60/fps *)

(* xzl_bug_on(n_frames == 0): a raw video without a whole frame. *)
NoFrames(b) ==
  /\ pc[b] = "idle"
  /\ IsRaw[b] /\ Input[b] = <<>>
  /\ pc' = [pc EXCEPT ![b] = "ended"]
  /\ UNCHANGED <<db, txnVars, fails, kept>>

(* Mutant: a reader's transaction, which waits for nobody. *)
Unserialised(b) == TRUE

(* mdb_txn_begin without MDB_RDONLY waits for the write lock. *)
MayWrite(b) == writer = NoOne

(* Mutant: a step too far for a database that is not empty. *)
LastKeyTooHigh ==
  IF db = Empty THEN {0} ELSE {k + Step : k \in {j \in DOMAIN db : IsLast(db, j)}}

(* MDB_LAST, or 0 when there is none. *)
LastKey == IF db = Empty THEN {0} ELSE {k \in DOMAIN db : IsLast(db, k)}

Begin(b) ==
  /\ pc[b] = "idle" /\ MayWrite(b)
  /\ ~(IsRaw[b] /\ Input[b] = <<>>)
  /\ writer' = b
  /\ view' = db
  /\ key' \in LastKey
  /\ loaded' = 0
  /\ pc' = [pc EXCEPT ![b] = "load"]
  /\ UNCHANGED <<db, fails, kept>>

(* mdb_put with MDB_NOOVERWRITE of the next item. *)
PutItem(b) ==
  /\ pc[b] = "load" /\ loaded < Len(Input[b])
  /\ key + Step \notin DOMAIN view
  /\ key' = key + Step
  /\ view' = Put(view, key + Step, Input[b][loaded + 1])
  /\ loaded' = loaded + 1
  /\ UNCHANGED <<db, pc, writer, fails, kept>>

Commit(b) ==
  /\ pc[b] = "load" /\ loaded = Len(Input[b])
  /\ db' = view
  /\ writer' = NoOne
  /\ pc' = [pc EXCEPT ![b] = "committed"]
  /\ kept' = kept \o Input[b]
  /\ UNCHANGED <<view, key, loaded, fails>>

(* A failing commit stores nothing; its result is not looked at. *)
CommitFails(b) ==
  /\ pc[b] = "load" /\ loaded = Len(Input[b])
  /\ fails < MaxFails
  /\ writer' = NoOne
  /\ pc' = [pc EXCEPT ![b] = "ended"]
  /\ fails' = fails + 1
  /\ UNCHANGED <<db, view, key, loaded, kept>>

(* The statistics and the closing of the environment, to the exit. *)
Finish(b) ==
  /\ pc[b] = "committed"
  /\ pc' = [pc EXCEPT ![b] = "ended"]
  /\ UNCHANGED <<db, txnVars, fails, kept>>

(* Mutant: a dead process keeps the lock. *)
Unlocked(b) == writer

(* LMDB's lock is robust: it does not outlive its owner. *)
Released(b) == IF writer = b THEN NoOne ELSE writer

(* At any point before its exit, so also with everything committed. *)
Crash(b) ==
  /\ pc[b] \in {"idle", "load", "committed"}
  /\ fails < MaxFails
  /\ pc' = [pc EXCEPT ![b] = "dead"]
  /\ writer' = Released(b)
  /\ fails' = fails + 1
  /\ UNCHANGED <<db, view, key, loaded, kept>>

(* The operator starts the process again. *)
Rerun(b) ==
  /\ pc[b] = "dead"
  /\ pc' = [pc EXCEPT ![b] = "idle"]
  /\ UNCHANGED <<db, txnVars, fails, kept>>

Run(b) == NoFrames(b) \/ Begin(b) \/ PutItem(b) \/ Commit(b) \/ Finish(b)

Next == \E b \in Builder : Run(b) \/ CommitFails(b) \/ Crash(b) \/ Rerun(b)

(* A process that can go on does; those that crash are started again. *)
Spec ==
  /\ Init /\ [][Next]_vars
  /\ \A b \in Builder : WF_vars(Run(b)) /\ WF_vars(Rerun(b))

-----------------------------------------------------------------------------
(* A database that holds a sequence of items under the keys 2, 4, ... *)
Keyed(s) == [k \in {2 * i : i \in 1..Len(s)} |-> s[k \div 2]]

(* Type invariant: the lock is held by the one process that loads. *)
TypeOK ==
  /\ pc \in [Builder -> {"idle", "load", "committed", "ended", "dead"}]
  /\ writer \in Builder \union {NoOne}
  /\ \A b \in Builder : pc[b] = "load" <=> writer = b
  /\ key \in Nat /\ loaded \in Nat /\ fails \in Nat

(* The database holds whole runs, in the order of their commits, under the *)
(* keys 2, 4, ... without a gap: what readers compute their ranges from,   *)
(* whatever processes overlapped, crashed or failed to commit.             *)
WholeRuns == db = Keyed(kept)

(* Inductive strengthening: the transaction that is open holds what its  *)
(* predecessors committed and then a prefix of its own input, and it is   *)
(* positioned on the last key of that.                                    *)
SoFar(b) == kept \o SubSeq(Input[b], 1, loaded)
ViewInv ==
  \A b \in Builder : pc[b] = "load" =>
    /\ loaded <= Len(Input[b])
    /\ view = Keyed(SoFar(b))
    /\ key = 2 * Len(SoFar(b))
IInv == TypeOK /\ kept \in Seq(Items) /\ WholeRuns /\ ViewInv

(* Every process comes to its end, also when others die holding the lock.  *)
EveryRunEnds == \A b \in Builder : <>(pc[b] = "ended")
=============================================================================

------------------------------ MODULE TxnLease ------------------------------
(***************************************************************************)
(* What the zero-copy path promises, and nothing of how it keeps it.       *)
(*                                                                         *)
(* A read-only LMDB transaction hands out pointers into the database's     *)
(* own pages.  Every such pointer is LENT to the messaging layer, which    *)
(* RETURNS it when the bytes are on the wire.  The transaction may be      *)
(* closed only once the caller has SEALED it (no further pointer will be   *)
(* lent) and every pointer has come back; it is closed once.               *)
(***************************************************************************)
CONSTANT Records   (* the records a transaction may lend *)

VARIABLES
  lease,   (* "none", "open" or "closed": the state of the transaction      *)
  lent,    (* the records whose bytes are lent and not yet returned         *)
  sealed   (* TRUE once the caller lends no more                            *)

leaseVars == <<lease, lent, sealed>>

LeaseTypeOK ==
  /\ lease \in {"none", "open", "closed"}
  /\ lent \subseteq Records
  /\ sealed \in BOOLEAN

LeaseInit ==
  /\ lease = "none"
  /\ lent = {}
  /\ sealed = FALSE

Open ==
  /\ lease = "none"
  /\ lease' = "open"
  /\ UNCHANGED <<lent, sealed>>

Lend(r) ==
  /\ lease = "open"
  /\ ~sealed
  /\ r \notin lent
  /\ lent' = lent \union {r}
  /\ UNCHANGED <<lease, sealed>>

Return(r) ==
  /\ r \in lent
  /\ lent' = lent \ {r}
  /\ UNCHANGED <<lease, sealed>>

Seal ==
  /\ lease = "open"
  /\ ~sealed
  /\ sealed' = TRUE
  /\ UNCHANGED <<lease, lent>>

Close ==
  /\ lease = "open"
  /\ sealed
  /\ lent = {}
  /\ lease' = "closed"
  /\ UNCHANGED <<lent, sealed>>

LeaseNext ==
  \/ Open \/ Seal \/ Close
  \/ \E r \in Records : Lend(r) \/ Return(r)

LeaseSpec == LeaseInit /\ [][LeaseNext]_leaseVars
=============================================================================

------------------------------ MODULE KeyStore ------------------------------
(***************************************************************************)
(* An LMDB environment as VStore uses it: one unnamed database under       *)
(* integer keys, here a function from keys to items.  A write transaction  *)
(* works on a copy that becomes the database when it commits; a process    *)
(* that dies leaves the database as of its last commit.                    *)
(***************************************************************************)
EXTENDS Integers

Empty == [k \in {} |-> 0]

(* The record mdb_cursor_get finds with MDB_FIRST, MDB_LAST and MDB_NEXT. *)
IsFirst(s, key) == key \in DOMAIN s /\ \A k \in DOMAIN s : key <= k
IsLast(s, key) == key \in DOMAIN s /\ \A k \in DOMAIN s : k <= key
IsNext(s, from, key) ==
  /\ key \in DOMAIN s /\ from < key
  /\ \A k \in DOMAIN s : from < k => key <= k

(* mdb_put of a key that is not there yet, and mdb_del. *)
Put(s, key, item) == [k \in DOMAIN s \union {key} |-> IF k = key THEN item ELSE s[k]]
Del(s, key) == [k \in DOMAIN s \ {key} |-> s[k]]

Stored(s) == {s[k] : k \in DOMAIN s}
=============================================================================

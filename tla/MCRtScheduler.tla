--------------------------- MODULE MCRtScheduler ---------------------------
(* An instance of RtScheduler for TLC: two sink threads, an ingesting      *)
(* client, the migrator, and a client whose requests have no known type.   *)
EXTENDS RtScheduler, TLC

CONSTANTS sink1, sink2, camera, migrator, stray

Clients == {sink1, sink2, camera, migrator, stray}
Kinds ==
  (sink1 :> "retrieval") @@ (sink2 :> "retrieval") @@ (camera :> "ingestion")
    @@ (migrator :> "migration") @@ (stray :> "other")
Quotas == (sink1 :> 1) @@ (sink2 :> 1) @@ (camera :> 1) @@ (migrator :> 2) @@ (stray :> 1)
=============================================================================

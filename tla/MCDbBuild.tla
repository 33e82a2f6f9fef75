----------------------------- MODULE MCDbBuild -----------------------------
(* Instance of DbBuild for TLC: a process with two items, one with one, and *)
(* a raw video that is too short for a frame.                              *)
EXTENDS DbBuild

CONSTANTS b1, b2, b3

MCBuilder == {b1, b2, b3}
MCInput == [b \in MCBuilder |-> CASE b = b1 -> <<"x1", "x2">> [] b = b2 -> <<"y1">> [] b = b3 -> <<>>]
MCItems == {"x1", "x2", "y1"}
MCIsRaw == [b \in MCBuilder |-> b # b2]
=============================================================================

------------------------------ MODULE Relocate ------------------------------
(***************************************************************************)
(* What moving footage between tiers promises: an item is in one place.    *)
(* A move takes items out of one directory and puts them into another; a   *)
(* failure in between loses what is being carried, and nothing else.       *)
(***************************************************************************)
CONSTANTS Dir, Items

VARIABLES
  held,     (* held[d]: the items stored in directory d *)
  carried   (* the items that are between two directories *)

Init ==
  /\ held \in [Dir -> SUBSET Items]
  /\ \A d, e \in Dir : d # e => held[d] \intersect held[e] = {}
  /\ carried = {}

Take(d) ==
  /\ carried = {}
  /\ carried' # {} /\ carried' \subseteq held[d]
  /\ held' = [held EXCEPT ![d] = @ \ carried']

PutDown(d) ==
  /\ carried # {}
  /\ held' = [held EXCEPT ![d] = @ \union carried]
  /\ carried' = {}

Lose ==
  /\ carried # {}
  /\ carried' = {}
  /\ UNCHANGED held

Next ==
  \/ \E d \in Dir : Take(d) \/ PutDown(d)
  \/ Lose

Spec == Init /\ [][Next]_<<held, carried>>
=============================================================================

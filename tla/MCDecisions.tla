---------------------------- MODULE MCDecisions ----------------------------
(* Decisions on small instances.                                           *)
EXTENDS Decisions

(* The options an agent may offer: both grants, and none. *)
SmallOffers == {{"allow_once", "reject_once"}, {"reject_once"}}
=============================================================================

------------------------------- MODULE MCRoom -------------------------------
(* Room on small instances: two agents with one lane each, two callers.    *)
EXTENDS Room, TLC

(* Callers differ in nothing but their names, and neither do agents (all or *)
(* none of them are opened): permuting either is sound for safety.          *)
RoomSymmetry == Permutations(Agents) \cup Permutations(Clients)
=============================================================================

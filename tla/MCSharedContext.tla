-------------------------- MODULE MCSharedContext --------------------------
(* SharedContext on small instances.                                       *)
EXTENDS SharedContext, TLC

(* Callers differ in nothing but their names, and neither do keys. *)
ContextSymmetry == Permutations(Callers) \cup Permutations(Keys)
=============================================================================

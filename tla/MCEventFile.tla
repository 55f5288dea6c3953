---------------------------- MODULE MCEventFile ----------------------------
(* EventFile on small instances.                                           *)
EXTENDS EventFile, TLC

(* Callers differ in nothing but their names. *)
CallerSymmetry == Permutations(Callers)
=============================================================================

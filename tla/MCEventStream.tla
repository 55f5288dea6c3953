--------------------------- MODULE MCEventStream ---------------------------
(* EventStream on small instances.                                         *)
EXTENDS EventStream, TLC

(* Writers differ in nothing but their names. *)
StreamSymmetry == Permutations(Writers)
=============================================================================

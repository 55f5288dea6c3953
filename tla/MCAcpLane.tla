----------------------------- MODULE MCAcpLane -----------------------------
(* AcpLane on small instances.                                             *)
EXTENDS AcpLane
=============================================================================

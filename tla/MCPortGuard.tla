----------------------------- MODULE MCPortGuard -----------------------------
(* Instances of PortGuard for TLC. *)
EXTENDS PortGuard

CONSTANTS p1, p2
=============================================================================

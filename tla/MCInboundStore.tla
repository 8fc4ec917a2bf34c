---------------------------- MODULE MCInboundStore ----------------------------
(* Instances of InboundStore for TLC. *)
EXTENDS InboundStore, TLC

CONSTANTS p1, p2

(* Pages are interchangeable: they differ in name only.                    *)
PageSymmetry == Permutations(Pages)
=============================================================================

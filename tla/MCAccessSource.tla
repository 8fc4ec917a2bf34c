---------------------------- MODULE MCAccessSource ----------------------------
(* Instances of AccessSource for TLC. *)
EXTENDS AccessSource, TLC

(* Nothing orders requests or paths. *)
RequestSymmetry == Permutations(Requests)
=============================================================================

-------------------------- MODULE MCRuntimeHistory --------------------------
(* Small instances of RuntimeHistory. *)
EXTENDS RuntimeHistory, MCTables

(* Runs of the apply job are interchangeable: they differ in name only.    *)
ApplySymmetry == Permutations(ApplyJobs)
=============================================================================

-------------------------- MODULE MCRuntimeManager --------------------------
(* Small instances of RuntimeManager. *)
EXTENDS RuntimeManager, MCTables

(* Nothing looks into a template: they are compared and stored only.       *)
TemplateSymmetry == Permutations(Templates)
=============================================================================

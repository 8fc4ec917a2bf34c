--------------------------- MODULE MCPanelSettings ---------------------------
(* PanelSettings for TLC: keys with the same default; pages and requests may
   each be exchanged. *)
EXTENDS PanelSettings, TLC

CONSTANTS v1, v2

DefaultDef == [k \in AllKeys |-> v1]
Symmetry ==
  {f @@ g : f \in Permutations(Pages), g \in Permutations(Requests)}
=============================================================================

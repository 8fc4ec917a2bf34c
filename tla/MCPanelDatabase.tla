--------------------------- MODULE MCPanelDatabase ---------------------------
(* PanelDatabase for TLC. *)
EXTENDS PanelDatabase
=============================================================================

----------------------------- MODULE MCPlanApply -----------------------------
(* Every pair of snapshots over two tags, two cores, two emails and two    *)
(* credentials.                                                            *)
EXTENDS PlanApply
=============================================================================

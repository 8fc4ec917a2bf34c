--------------------------- MODULE MCInboundForm ---------------------------
(* Instances for TLC: a legacy mKCP row among the initial states.           *)
EXTENDS InboundForm

LegacyRows ==
  {[protocol |-> "vless", settings |-> Blank, enable |-> TRUE,
    stream |-> [NoStream EXCEPT !.network = "kcp", !.security = "none"]]}

\* A closed modal keeps its last form, which nothing reads before Show
\* overwrites it: states that differ in it alone are one.
View == <<IF visible THEN <<form, edits>> ELSE <<>>, server, fields, visible, loading,
          forms, tasks>>
=============================================================================

------------------------------ MODULE SyncPromise ------------------------------
(***************************************************************************)
(* What the runtime layer promises of Xray, without mutex, snapshots,      *)
(* plans, API calls or processes: one reconcile at a time changes Xray,    *)
(* it ends with all that this reconcile read from the database or with no  *)
(* Xray at all, in between nothing changes it, and runtimeDirty is reset   *)
(* by a reconcile that leaves no other contents in Xray than its own.      *)
(* RuntimeManager implements it through failing calls, half-applied plans, *)
(* restarts and crashes.                                                   *)
(*                                                                         *)
(* A set of at most one member stands for a value that may be missing.     *)
(***************************************************************************)
CONSTANTS
  Reconciles,  \* goroutines that reconcile
  Contents     \* what the inbounds table may hold

VARIABLES
  database,  \* contents of the database
  dirty,     \* setting runtimeDirty
  read,      \* what each reconcile has read
  changing,  \* the reconcile that is changing Xray
  serves     \* what Xray serves; {} while it is changed and when it is down

vars == <<database, dirty, read, changing, serves>>

Init ==
  /\ database \in Contents
  /\ dirty \in BOOLEAN
  /\ read = [r \in Reconciles |-> {}]
  /\ changing = {}
  /\ serves = {}

Commit ==
  /\ database' \in Contents
  /\ UNCHANGED <<dirty, read, changing, serves>>

Read(r) ==
  /\ read' = [read EXCEPT ![r] = {database}]
  /\ UNCHANGED <<database, dirty, changing, serves>>

Begin(r) ==
  /\ changing = {} /\ read[r] # {}
  /\ changing' = {r}
  /\ serves' = {}
  /\ UNCHANGED <<database, dirty, read>>

(* The change ends with everything done, or with Xray gone. *)
End(r) ==
  /\ changing = {r}
  /\ changing' = {}
  /\ serves' \in {read[r], {}}
  /\ UNCHANGED <<database, dirty, read>>

Record ==
  /\ dirty' = TRUE
  /\ UNCHANGED <<database, read, changing, serves>>

Finish(r) ==
  /\ changing # {r} /\ read[r] # {}
  /\ read' = [read EXCEPT ![r] = {}]
  /\ \/ dirty' \in {dirty, TRUE}
     \/ dirty' = FALSE /\ serves \subseteq read[r]
  /\ UNCHANGED <<database, changing, serves>>

XrayDies ==
  /\ serves' = {}
  /\ UNCHANGED <<database, dirty, read, changing>>

PanelDies ==
  /\ read' = [r \in Reconciles |-> {}]
  /\ changing' = {}
  /\ serves' = {}
  /\ UNCHANGED <<database, dirty>>

Next ==
  \/ Commit \/ Record \/ XrayDies \/ PanelDies
  \/ \E r \in Reconciles : Read(r) \/ Begin(r) \/ End(r) \/ Finish(r)

Spec == Init /\ [][Next]_vars
=============================================================================

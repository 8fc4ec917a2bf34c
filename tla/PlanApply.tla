------------------------------ MODULE PlanApply ------------------------------
(***************************************************************************)
(* Planner.Plan followed by Client.Apply, alone: from any snapshot of the  *)
(* running Xray to any desired snapshot, call by call.  No call fails      *)
(* here; RuntimeManager adds the failures.                                 *)
(***************************************************************************)
EXTENDS RuntimePlan

VARIABLES
  current,  \* table of Manager.snapshot: what the running Xray was given
  desired,  \* table of the desired snapshot
  running,  \* table Xray really has
  pending   \* operations not issued yet

applyVars == <<current, desired, running, pending>>

ApplyTypeOK ==
  /\ current \in BuiltTable
  /\ desired \in BuiltTable
  /\ running \in Table
  /\ pending \subseteq Operation

ApplyInit ==
  /\ current \in BuiltTable
  /\ desired \in BuiltTable
  /\ running = current
  /\ pending = Plan(current, desired)

(* Client.Apply: the next call of the plan. *)
Apply(op) ==
  /\ op \in Ready(pending)
  /\ Accepts(op, running)
  /\ running' = ApplyOperation(op, running, desired)
  /\ pending' = Remaining(op, pending)
  /\ UNCHANGED <<current, desired>>

ApplyNext == \E op \in pending : Apply(op)

ApplySpec == ApplyInit /\ [][ApplyNext]_applyVars

-----------------------------------------------------------------------------
(* Xray never rejects a call of the plan (runtime/client.go stops at the   *)
(* first rejected call, and the manager then restarts everything): no tag  *)
(* added twice, no missing tag removed, no user added over another one.    *)
NoCallRejected == \A op \in Ready(pending) : Accepts(op, running)

(* When the calls of the plan are all done, Xray has every inbound and     *)
(* every named user of the desired snapshot, and nothing else.             *)
PlanReachesDesired == pending = {} => SameManagedTable(running, desired)

(* An incremental sync exists to leave the others alone: an inbound that   *)
(* does not change is never down, and in an inbound that keeps its core a  *)
(* user that does not change keeps its credential at every moment.         *)
BystandersUndisturbed ==
  \A t \in Tags :
    /\ SameManaged(current[t], desired[t]) => running[t] = current[t]
    /\ (current[t] # NoInbound /\ desired[t] # NoInbound
          /\ Comparable(current[t]) = Comparable(desired[t]))
         => /\ running[t] # NoInbound
            /\ \A e \in Emails :
                 Users(current[t])[e] = Users(desired[t])[e]
                   => Users(running[t])[e] = Users(current[t])[e]

(* A step that changes Xray while t is still to be withdrawn withdraws an  *)
(* inbound, t or another.                                                  *)
Withdraws(t) ==
  (current[t] # NoInbound /\ desired[t] = NoInbound
     /\ running[t] # NoInbound /\ running' # running)
    => \E u \in Tags : /\ desired[u] = NoInbound
                       /\ running[u] # NoInbound
                       /\ running' = [running EXCEPT ![u] = NoInbound]

(* Inbounds that go away are gone before any change of another tag: a step *)
(* that gives Xray a new inbound or user finds no withdrawn inbound left.  *)
WithdrawnFirst == [][\A t \in Tags : Withdraws(t)]_applyVars
=============================================================================

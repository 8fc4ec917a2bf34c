----------------------------- MODULE RuntimePlan -----------------------------
(***************************************************************************)
(* The data of the runtime layer and its two pure algorithms: the planner  *)
(* (runtime/planner.go), which turns a pair of snapshots into Runtime API  *)
(* operations, and the effect one Runtime API call has on the inbounds of  *)
(* a running Xray (the service runtime/client.go calls).                   *)
(*                                                                         *)
(* A table maps every tag to the inbound a snapshot holds under it.  An    *)
(* inbound is what the builder splits it into: "core" is everything but    *)
(* the users (InboundState.Comparable), "users" the credentials filed      *)
(* under an email (InboundState.Users), "anon" the credential of the user  *)
(* whose email is empty, which splitUsersFromTypedMessage leaves out of    *)
(* both.                                                                   *)
(***************************************************************************)
CONSTANTS
  Tags,       \* inbound tags ("inbound-<port>")
  Cores,      \* values of an inbound stripped of its users
  Emails,     \* non-empty user emails
  Ids,        \* user credentials (uuid, password)
  NoUser,     \* no credential under an email
  NoInbound,  \* no inbound under a tag
  NoEmail     \* email field of an operation on a whole inbound

ASSUME RuntimePlanAssumption ==
  /\ NoUser \notin Ids
  /\ NoEmail \notin Emails
  /\ NoInbound \notin [core : Cores,
                       users : [Emails -> Ids \cup {NoUser}],
                       anon : Ids \cup {NoUser}]

Inbound == [core : Cores,
            users : [Emails -> Ids \cup {NoUser}],
            anon : Ids \cup {NoUser}]

Table == [Tags -> Inbound \cup {NoInbound}]

EmptyTable == [t \in Tags |-> NoInbound]

(* The inbounds the protocol factory emits: of the clients in the database *)
(* only the first reaches the configuration, with or without an email.     *)
Credentials(inbound) ==
  {e \in Emails : inbound.users[e] # NoUser}
  \cup (IF inbound.anon = NoUser THEN {} ELSE {NoEmail})

BuiltInbound ==
  {inbound \in Inbound : \A a, b \in Credentials(inbound) : a = b}

BuiltTable == [Tags -> BuiltInbound \cup {NoInbound}]

(* The parts of an inbound the planner compares. *)
Comparable(inbound) == inbound.core
Users(inbound) == inbound.users

(* Two inbounds, and two tables, that agree on everything the planner can  *)
(* see: only anonymous credentials may differ.                             *)
SameManaged(a, b) ==
  IF a = NoInbound \/ b = NoInbound
  THEN a = b
  ELSE Comparable(a) = Comparable(b) /\ Users(a) = Users(b)

SameManagedTable(a, b) == \A t \in Tags : SameManaged(a[t], b[t])

(* What the planner can see of a table. *)
Managed(table) ==
  [t \in Tags |-> IF table[t] = NoInbound THEN NoInbound
                 ELSE [core |-> Comparable(table[t]), users |-> Users(table[t])]]

-----------------------------------------------------------------------------
(* Operations.  Their payload (Operation.Inbound, Operation.User) points   *)
(* into the desired snapshot, so an operation only names its target.       *)

OperationType == {"RemoveInbound", "AddInbound", "ReplaceInbound",
                  "RemoveClient", "AddClient"}

Operation == [type : OperationType, tag : Tags, email : Emails \cup {NoEmail}]

InboundOperation(type, t) == [type |-> type, tag |-> t, email |-> NoEmail]
ClientOperation(type, t, e) == [type |-> type, tag |-> t, email |-> e]

(* Mutant: a changed user is added without being removed first.            *)
BugAddOverOld(t, current, desired) ==
  {ClientOperation("RemoveClient", t, e) :
     e \in {x \in Emails : current[x] # NoUser /\ desired[x] = NoUser}}
  \cup
  {ClientOperation("AddClient", t, e) :
     e \in {x \in Emails : desired[x] # NoUser /\ current[x] # desired[x]}}

(* appendUserDiffs: a changed user is removed and added again. *)
AppendUserDiffs(t, current, desired) ==
  {ClientOperation("RemoveClient", t, e) :
     e \in {x \in Emails : current[x] # NoUser /\ current[x] # desired[x]}}
  \cup
  {ClientOperation("AddClient", t, e) :
     e \in {x \in Emails : desired[x] # NoUser /\ current[x] # desired[x]}}

(* Mutant: an inbound that keeps its core is taken for unchanged.          *)
BugIgnoreUsers(t, current, desired) ==
  IF desired = NoInbound
  THEN IF current = NoInbound THEN {} ELSE {InboundOperation("RemoveInbound", t)}
  ELSE IF current = NoInbound
  THEN {InboundOperation("AddInbound", t)}
  ELSE IF Comparable(current) # Comparable(desired)
  THEN {InboundOperation("ReplaceInbound", t)}
  ELSE {}

(* Mutant: the whole inbound is compared, so a new user replaces it.       *)
BugReplaceForUsers(t, current, desired) ==
  IF desired = NoInbound
  THEN IF current = NoInbound THEN {} ELSE {InboundOperation("RemoveInbound", t)}
  ELSE IF current = NoInbound
  THEN {InboundOperation("AddInbound", t)}
  ELSE IF current # desired
  THEN {InboundOperation("ReplaceInbound", t)}
  ELSE {}

(* The operations of one tag: what the two loops of Planner.Plan append.   *)
TagPlan(t, current, desired) ==
  IF desired = NoInbound
  THEN IF current = NoInbound THEN {} ELSE {InboundOperation("RemoveInbound", t)}
  ELSE IF current = NoInbound
  THEN {InboundOperation("AddInbound", t)}
  ELSE IF Comparable(current) # Comparable(desired)
  THEN {InboundOperation("ReplaceInbound", t)}
  ELSE AppendUserDiffs(t, Users(current), Users(desired))

(* Planner.Plan.  The order of the list is kept by Ready below, not here.  *)
Plan(current, desired) ==
  UNION {TagPlan(t, current[t], desired[t]) : t \in Tags}

(* The operations Client.Apply may issue next: inbounds that go away come  *)
(* first, and a changed user is removed before it is added.  The order     *)
(* between tags (sortedKeys) is abstracted to any order.                   *)
Ready(plan) ==
  {op \in plan :
     /\ op.type # "RemoveInbound" => \A o \in plan : o.type # "RemoveInbound"
     /\ op.type = "AddClient" =>
          ClientOperation("RemoveClient", op.tag, op.email) \notin plan}

-----------------------------------------------------------------------------
(* One Runtime API call against the inbounds of the running Xray.          *)

(* External: when HandlerService accepts the call of an operation. *)
Accepts(op, live) ==
  /\ op.type = "AddInbound" <=> live[op.tag] = NoInbound
  /\ op.type = "RemoveClient" => live[op.tag].users[op.email] # NoUser
  /\ op.type = "AddClient" => live[op.tag].users[op.email] = NoUser

(* applyOperation: what the call makes of the inbound under the tag.       *)
(* Replacing an inbound is two calls; the first removes it.                *)
Altered(op, inbound, desired) ==
  IF op.type \in {"RemoveInbound", "ReplaceInbound"} THEN NoInbound
  ELSE IF op.type = "AddInbound" THEN desired
  ELSE [inbound EXCEPT !.users =
          [@ EXCEPT ![op.email] =
             IF op.type = "AddClient" THEN desired.users[op.email] ELSE NoUser]]

ApplyOperation(op, live, desired) ==
  [live EXCEPT ![op.tag] = Altered(op, live[op.tag], desired[op.tag])]

(* What is left to do after that call. *)
Remaining(op, plan) ==
  IF op.type = "ReplaceInbound"
  THEN (plan \ {op}) \cup {InboundOperation("AddInbound", op.tag)}
  ELSE plan \ {op}
=============================================================================

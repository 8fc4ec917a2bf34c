--------------------------- MODULE PlanApplyProofs ---------------------------
(***************************************************************************)
(* The planner, the Runtime API calls and the state machine PlanApply, for *)
(* every set of tags, cores, emails and credentials.  The fact everything  *)
(* rests on, here and in RuntimeManagerProofs: after each call the         *)
(* operations that remain are exactly the plan from what Xray has now to   *)
(* what is desired.                                                        *)
(***************************************************************************)
EXTENDS PlanApply, TLAPS

(* TagPlan, case by case. *)
LEMMA TagPlanCases ==
  ASSUME NEW t, NEW c, NEW d
  PROVE  /\ c = NoInbound /\ d = NoInbound => TagPlan(t, c, d) = {}
         /\ c # NoInbound /\ d = NoInbound =>
              TagPlan(t, c, d) = {InboundOperation("RemoveInbound", t)}
         /\ c = NoInbound /\ d # NoInbound =>
              TagPlan(t, c, d) = {InboundOperation("AddInbound", t)}
         /\ c # NoInbound /\ d # NoInbound /\ Comparable(c) # Comparable(d) =>
              TagPlan(t, c, d) = {InboundOperation("ReplaceInbound", t)}
         /\ c # NoInbound /\ d # NoInbound /\ Comparable(c) = Comparable(d) =>
              TagPlan(t, c, d) = AppendUserDiffs(t, Users(c), Users(d))
BY DEF TagPlan

(* The operations on one user of a tag. *)
LEMMA UserDiffMembers ==
  ASSUME NEW t, NEW cu, NEW du, NEW op
  PROVE  op \in AppendUserDiffs(t, cu, du) <=>
           \E e \in Emails :
             /\ cu[e] # du[e]
             /\ \/ cu[e] # NoUser /\ op = ClientOperation("RemoveClient", t, e)
                \/ du[e] # NoUser /\ op = ClientOperation("AddClient", t, e)
BY DEF AppendUserDiffs

(* Every operation of a tag's plan is an operation on that tag. *)
LEMMA TagPlanTyped ==
  ASSUME NEW t \in Tags, NEW c, NEW d, NEW op \in TagPlan(t, c, d)
  PROVE  op \in Operation /\ op.tag = t
<1>1. CASE op = InboundOperation("RemoveInbound", t)
             \/ op = InboundOperation("AddInbound", t)
             \/ op = InboundOperation("ReplaceInbound", t)
  BY <1>1 DEF InboundOperation, Operation, OperationType
<1>2. CASE op \in AppendUserDiffs(t, Users(c), Users(d))
  BY <1>2, UserDiffMembers DEF ClientOperation, Operation, OperationType
<1> QED BY <1>1, <1>2, TagPlanCases

LEMMA PlanMembers ==
  ASSUME NEW c, NEW d, NEW op
  PROVE  op \in Plan(c, d) <=>
           \E t \in Tags : op \in TagPlan(t, c[t], d[t])
BY DEF Plan

(* An operation belongs to the plan of its own tag. *)
LEMMA PlanOfTag ==
  ASSUME NEW c, NEW d, NEW op \in Plan(c, d)
  PROVE  op \in Operation /\ op \in TagPlan(op.tag, c[op.tag], d[op.tag])
<1>1. PICK t \in Tags : op \in TagPlan(t, c[t], d[t])
  BY PlanMembers
<1> QED BY <1>1, TagPlanTyped

LEMMA PlanTyped ==
  ASSUME NEW c, NEW d
  PROVE  Plan(c, d) \subseteq Operation
BY PlanOfTag

(* The planner sees nothing but cores and named users. *)
LEMMA PlanOfSameManaged ==
  ASSUME NEW a, NEW b, NEW d, SameManagedTable(a, b)
  PROVE  Plan(a, d) = Plan(b, d)
<1>1. ASSUME NEW t \in Tags
      PROVE  TagPlan(t, a[t], d[t]) = TagPlan(t, b[t], d[t])
  <2>1. SameManaged(a[t], b[t])
    BY DEF SameManagedTable
  <2>2. CASE a[t] = NoInbound \/ b[t] = NoInbound
    BY <2>1, <2>2 DEF SameManaged
  <2>3. CASE a[t] # NoInbound /\ b[t] # NoInbound
    <3>1. Comparable(a[t]) = Comparable(b[t]) /\ Users(a[t]) = Users(b[t])
      BY <2>1, <2>3 DEF SameManaged
    <3> QED BY <3>1, <2>3 DEF TagPlan
  <2> QED BY <2>2, <2>3
<1> QED BY <1>1 DEF Plan

(* An empty plan: nothing the planner sees differs. *)
LEMMA EmptyPlan ==
  ASSUME NEW c \in Table, NEW d \in Table
  PROVE  Plan(c, d) = {} <=> SameManagedTable(c, d)
<1>1. ASSUME NEW t \in Tags
      PROVE  TagPlan(t, c[t], d[t]) = {} <=> SameManaged(c[t], d[t])
  <2>1. CASE c[t] = NoInbound \/ d[t] = NoInbound
    BY <2>1, TagPlanCases DEF SameManaged
  <2>2. CASE c[t] # NoInbound /\ d[t] # NoInbound
    <3>1. c[t] \in Inbound /\ d[t] \in Inbound
      BY <2>2 DEF Table
    <3>2. CASE Comparable(c[t]) # Comparable(d[t])
      BY <2>2, <3>2, TagPlanCases DEF SameManaged
    <3>3. CASE Comparable(c[t]) = Comparable(d[t])
      <4> DEFINE cu == Users(c[t])  du == Users(d[t])
      <4>1. cu \in [Emails -> Ids \cup {NoUser}] /\ du \in [Emails -> Ids \cup {NoUser}]
        BY <3>1 DEF Inbound, Users
      <4>2. TagPlan(t, c[t], d[t]) = AppendUserDiffs(t, cu, du)
        BY <2>2, <3>3, TagPlanCases
      <4>3. SameManaged(c[t], d[t]) <=> cu = du
        BY <2>2, <3>3 DEF SameManaged
      <4>4. AppendUserDiffs(t, cu, du) = {} <=> \A e \in Emails : cu[e] = du[e]
        BY DEF AppendUserDiffs
      <4> QED BY <4>1, <4>2, <4>3, <4>4
    <3> QED BY <3>2, <3>3
  <2> QED BY <2>1, <2>2
<1>2. Plan(c, d) = {} <=> \A t \in Tags : TagPlan(t, c[t], d[t]) = {}
  BY DEF Plan
<1> QED BY <1>1, <1>2 DEF SameManagedTable

-----------------------------------------------------------------------------
(* One call. *)

(* Xray accepts every operation of the plan from what it has, in an order  *)
(* Ready allows.                                                           *)
LEMMA ReadyAccepted ==
  ASSUME NEW l \in Table, NEW d \in Table, NEW op \in Ready(Plan(l, d))
  PROVE  Accepts(op, l)
<1>1. op \in Operation /\ op \in TagPlan(op.tag, l[op.tag], d[op.tag])
  BY PlanOfTag DEF Ready
<1> DEFINE t == op.tag
<1>2. t \in Tags
  BY <1>1 DEF Operation
<1>3. CASE l[t] = NoInbound \/ d[t] = NoInbound
             \/ Comparable(l[t]) # Comparable(d[t])
  BY <1>1, <1>3 DEF TagPlan, InboundOperation, Accepts
<1>4. CASE l[t] # NoInbound /\ d[t] # NoInbound
             /\ Comparable(l[t]) = Comparable(d[t])
  <2>1. op \in AppendUserDiffs(t, Users(l[t]), Users(d[t]))
    BY <1>1, <1>4, TagPlanCases
  <2>2. PICK e \in Emails :
          /\ Users(l[t])[e] # Users(d[t])[e]
          /\ \/ /\ Users(l[t])[e] # NoUser
                /\ op = ClientOperation("RemoveClient", t, e)
             \/ /\ Users(d[t])[e] # NoUser
                /\ op = ClientOperation("AddClient", t, e)
    BY <2>1, UserDiffMembers
  <2>3. CASE op = ClientOperation("RemoveClient", t, e)
    <3>1. Users(l[t])[e] # NoUser
      BY <2>2, <2>3 DEF ClientOperation
    <3> QED BY <3>1, <2>3, <1>4 DEF ClientOperation, Accepts, Users
  <2>4. CASE op = ClientOperation("AddClient", t, e)
    <3>1. ClientOperation("RemoveClient", t, e) \notin Plan(l, d)
      BY <2>4 DEF Ready, ClientOperation
    <3>2. ClientOperation("RemoveClient", t, e) \notin
            AppendUserDiffs(t, Users(l[t]), Users(d[t]))
      BY <3>1, <1>2, <1>4, TagPlanCases, PlanMembers
    <3>3. Users(l[t])[e] = NoUser
      BY <3>2, <2>2, UserDiffMembers
    <3> QED BY <3>3, <2>4, <1>4 DEF ClientOperation, Accepts, Users
  <2> QED BY <2>2, <2>3, <2>4
<1> QED BY <1>3, <1>4

(* A call leaves a table a table. *)
LEMMA ApplyTyped ==
  ASSUME NEW l \in Table, NEW d \in Table, NEW op \in Ready(Plan(l, d))
  PROVE  /\ ApplyOperation(op, l, d) \in Table
         /\ Remaining(op, Plan(l, d)) \subseteq Operation
<1>1. op \in Operation /\ op \in TagPlan(op.tag, l[op.tag], d[op.tag])
  BY PlanOfTag DEF Ready
<1> DEFINE t == op.tag
<1>2. t \in Tags /\ l[t] \in Inbound \cup {NoInbound} /\ d[t] \in Inbound \cup {NoInbound}
  BY <1>1 DEF Operation, Table
<1>3. Altered(op, l[t], d[t]) \in Inbound \cup {NoInbound}
  <2>1. CASE op.type \in {"RemoveInbound", "ReplaceInbound", "AddInbound"}
    BY <2>1, <1>2 DEF Altered
  <2>2. CASE op.type \notin {"RemoveInbound", "ReplaceInbound", "AddInbound"}
    <3>1. /\ l[t] \in Inbound /\ d[t] \in Inbound
          /\ op \in AppendUserDiffs(t, Users(l[t]), Users(d[t]))
      BY <2>2, <1>1, <1>2 DEF TagPlan, InboundOperation
    <3>2. PICK e \in Emails : op.email = e
      BY <3>1 DEF AppendUserDiffs, ClientOperation
    <3>3. /\ l[t].users \in [Emails -> Ids \cup {NoUser}]
          /\ d[t].users[e] \in Ids \cup {NoUser}
      BY <3>1 DEF Inbound
    <3> DEFINE u == [l[t].users EXCEPT ![e] =
                       IF op.type = "AddClient" THEN d[t].users[e] ELSE NoUser]
    <3>4. u \in [Emails -> Ids \cup {NoUser}]
      BY <3>3
    <3>5. Altered(op, l[t], d[t]) = [l[t] EXCEPT !.users = u]
      BY <2>2, <3>2 DEF Altered
    <3> HIDE DEF u
    <3> QED BY <3>1, <3>4, <3>5 DEF Inbound
  <2> QED BY <2>1, <2>2
<1>4. ApplyOperation(op, l, d) \in Table
  BY <1>2, <1>3 DEF ApplyOperation, Table
<1>5. Remaining(op, Plan(l, d)) \subseteq Operation
  BY <1>2, PlanTyped DEF Remaining, InboundOperation, Operation, OperationType
<1> QED BY <1>4, <1>5

(* A user has at most one operation of each kind. *)
LEMMA ClientOperationInjective ==
  ASSUME NEW t, NEW a, NEW b
  PROVE  /\ ClientOperation("RemoveClient", t, a) = ClientOperation("RemoveClient", t, b)
              => a = b
         /\ ClientOperation("AddClient", t, a) = ClientOperation("AddClient", t, b)
              => a = b
         /\ ClientOperation("RemoveClient", t, a) # ClientOperation("AddClient", t, b)
BY DEF ClientOperation

(* Removing a user leaves the other operations to do: the others' and,     *)
(* for a changed user, its own addition.                                   *)
LEMMA UserDiffRemoved ==
  ASSUME NEW t, NEW cu, NEW nu, NEW du, NEW e \in Emails,
         cu[e] # du[e], cu[e] # NoUser, nu[e] = NoUser,
         \A x \in Emails : x # e => nu[x] = cu[x]
  PROVE  AppendUserDiffs(t, nu, du) =
           AppendUserDiffs(t, cu, du) \ {ClientOperation("RemoveClient", t, e)}
<1> DEFINE op == ClientOperation("RemoveClient", t, e)
<1>1. ASSUME NEW o \in AppendUserDiffs(t, nu, du)
      PROVE  o \in AppendUserDiffs(t, cu, du) /\ o # op
  <2>1. PICK x \in Emails :
          /\ nu[x] # du[x]
          /\ \/ nu[x] # NoUser /\ o = ClientOperation("RemoveClient", t, x)
             \/ du[x] # NoUser /\ o = ClientOperation("AddClient", t, x)
    BY <1>1, UserDiffMembers
  <2>2. CASE x = e
    BY <2>1, <2>2, UserDiffMembers, ClientOperationInjective
  <2>3. CASE x # e
    <3>1. o \in AppendUserDiffs(t, cu, du)
      BY <2>1, <2>3, UserDiffMembers
    <3> QED BY <3>1, <2>1, <2>3, ClientOperationInjective
  <2> QED BY <2>2, <2>3
<1>2. ASSUME NEW o \in AppendUserDiffs(t, cu, du), o # op
      PROVE  o \in AppendUserDiffs(t, nu, du)
  <2>1. PICK x \in Emails :
          /\ cu[x] # du[x]
          /\ \/ cu[x] # NoUser /\ o = ClientOperation("RemoveClient", t, x)
             \/ du[x] # NoUser /\ o = ClientOperation("AddClient", t, x)
    BY <1>2, UserDiffMembers
  <2>2. CASE x = e
    BY <2>1, <2>2, <1>2, UserDiffMembers
  <2>3. CASE x # e
    BY <2>1, <2>3, UserDiffMembers
  <2> QED BY <2>2, <2>3
<1> QED BY <1>1, <1>2

(* Adding a user leaves the others' operations to do. *)
LEMMA UserDiffAdded ==
  ASSUME NEW t, NEW cu, NEW nu, NEW du, NEW e \in Emails,
         cu[e] = NoUser, du[e] # NoUser, nu[e] = du[e],
         \A x \in Emails : x # e => nu[x] = cu[x]
  PROVE  AppendUserDiffs(t, nu, du) =
           AppendUserDiffs(t, cu, du) \ {ClientOperation("AddClient", t, e)}
<1> DEFINE op == ClientOperation("AddClient", t, e)
<1>1. ASSUME NEW o \in AppendUserDiffs(t, nu, du)
      PROVE  o \in AppendUserDiffs(t, cu, du) /\ o # op
  <2>1. PICK x \in Emails :
          /\ nu[x] # du[x]
          /\ \/ nu[x] # NoUser /\ o = ClientOperation("RemoveClient", t, x)
             \/ du[x] # NoUser /\ o = ClientOperation("AddClient", t, x)
    BY <1>1, UserDiffMembers
  <2>2. x # e
    BY <2>1
  <2>3. o \in AppendUserDiffs(t, cu, du)
    BY <2>1, <2>2, UserDiffMembers
  <2> QED BY <2>1, <2>2, <2>3, ClientOperationInjective
<1>2. ASSUME NEW o \in AppendUserDiffs(t, cu, du), o # op
      PROVE  o \in AppendUserDiffs(t, nu, du)
  <2>1. PICK x \in Emails :
          /\ cu[x] # du[x]
          /\ \/ cu[x] # NoUser /\ o = ClientOperation("RemoveClient", t, x)
             \/ du[x] # NoUser /\ o = ClientOperation("AddClient", t, x)
    BY <1>2, UserDiffMembers
  <2>2. x # e
    BY <2>1, <1>2
  <2> QED BY <2>1, <2>2, UserDiffMembers
<1> QED BY <1>1, <1>2

(* What is left to do on the users of a tag after a call is the difference *)
(* from the users the call leaves.                                         *)
LEMMA UserDiffStep ==
  ASSUME NEW t,
         NEW cu, NEW du, NEW nu,
         NEW op \in AppendUserDiffs(t, cu, du),
         nu[op.email] = (IF op.type = "AddClient" THEN du[op.email] ELSE NoUser),
         \A x \in Emails : x # op.email => nu[x] = cu[x],
         op.type = "AddClient" =>
           ClientOperation("RemoveClient", t, op.email) \notin AppendUserDiffs(t, cu, du)
  PROVE  /\ op.type \in {"RemoveClient", "AddClient"} /\ op.email \in Emails
         /\ AppendUserDiffs(t, nu, du) = AppendUserDiffs(t, cu, du) \ {op}
<1>1. PICK e \in Emails :
        /\ cu[e] # du[e]
        /\ \/ cu[e] # NoUser /\ op = ClientOperation("RemoveClient", t, e)
           \/ du[e] # NoUser /\ op = ClientOperation("AddClient", t, e)
  BY UserDiffMembers
<1>2. op.email = e /\ op.type \in {"RemoveClient", "AddClient"}
  BY <1>1 DEF ClientOperation
<1>3. AppendUserDiffs(t, nu, du) = AppendUserDiffs(t, cu, du) \ {op}
  <2>1. \A x \in Emails : x # e => nu[x] = cu[x]
    BY <1>2
  <2>2. CASE cu[e] # NoUser /\ op = ClientOperation("RemoveClient", t, e)
    <3>1. nu[e] = NoUser
      BY <1>2, <2>2 DEF ClientOperation
    <3> QED BY <1>1, <2>1, <2>2, <3>1, UserDiffRemoved
  <2>3. CASE du[e] # NoUser /\ op = ClientOperation("AddClient", t, e)
    <3>1. nu[e] = du[e]
      BY <1>2, <2>3 DEF ClientOperation
    <3>2. cu[e] = NoUser
      <4>1. op.type = "AddClient"
        BY <2>3 DEF ClientOperation
      <4> QED BY <4>1, <1>1, <1>2, UserDiffMembers
    <3>3. AppendUserDiffs(t, nu, du) =
            AppendUserDiffs(t, cu, du) \ {ClientOperation("AddClient", t, e)}
      BY ONLY <2>1, <2>3, <3>1, <3>2, e \in Emails, UserDiffAdded
    <3> QED BY <3>3, <2>3
  <2> QED BY <1>1, <2>2, <2>3
<1> QED BY <1>2, <1>3

(* What is left of a tag's plan after one of its calls is the plan from    *)
(* what the call made of the inbound.                                      *)
LEMMA TagPlanStep ==
  ASSUME NEW t \in Tags,
         NEW c \in Inbound \cup {NoInbound}, NEW d \in Inbound \cup {NoInbound},
         NEW op \in TagPlan(t, c, d),
         op.type = "AddClient" =>
           ClientOperation("RemoveClient", t, op.email) \notin TagPlan(t, c, d)
  PROVE  TagPlan(t, Altered(op, c, d), d) = Remaining(op, TagPlan(t, c, d))
<1>1. CASE d = NoInbound
  <2>1. /\ TagPlan(t, c, d) = {InboundOperation("RemoveInbound", t)}
        /\ op = InboundOperation("RemoveInbound", t)
    BY <1>1, TagPlanCases
  <2>2. Altered(op, c, d) = NoInbound /\ Remaining(op, TagPlan(t, c, d)) = {}
    BY <2>1 DEF Altered, Remaining, InboundOperation
  <2> QED BY <2>2, <1>1, TagPlanCases
<1>2. CASE d # NoInbound /\ c = NoInbound
  <2>1. TagPlan(t, c, d) = {InboundOperation("AddInbound", t)}
    BY <1>2, TagPlanCases
  <2>2. Altered(op, c, d) = d /\ Remaining(op, TagPlan(t, c, d)) = {}
    BY <2>1 DEF Altered, Remaining, InboundOperation
  <2>3. TagPlan(t, d, d) = {}
    BY <1>2 DEF TagPlan, AppendUserDiffs
  <2> QED BY <2>2, <2>3
<1>3. CASE d # NoInbound /\ c # NoInbound /\ Comparable(c) # Comparable(d)
  <2>1. op = InboundOperation("ReplaceInbound", t)
        /\ TagPlan(t, c, d) = {InboundOperation("ReplaceInbound", t)}
    BY <1>3, TagPlanCases
  <2>2. Altered(op, c, d) = NoInbound
        /\ Remaining(op, TagPlan(t, c, d)) = {InboundOperation("AddInbound", t)}
    BY <2>1 DEF Altered, Remaining, InboundOperation
  <2> QED BY <2>2, <1>3, TagPlanCases
<1>4. CASE d # NoInbound /\ c # NoInbound /\ Comparable(c) = Comparable(d)
  <2>1. c \in Inbound /\ d \in Inbound
    BY <1>4
  <2>2. /\ Users(c) \in [Emails -> Ids \cup {NoUser}]
        /\ Users(d) \in [Emails -> Ids \cup {NoUser}]
    BY <2>1 DEF Users, Inbound
  <2>3. TagPlan(t, c, d) = AppendUserDiffs(t, Users(c), Users(d))
    BY <1>4, TagPlanCases
  <2>4. PICK nu : nu = [Users(c) EXCEPT ![op.email] =
                          IF op.type = "AddClient" THEN Users(d)[op.email] ELSE NoUser]
    OBVIOUS
  <2>5. /\ op.type \in {"RemoveClient", "AddClient"}
        /\ AppendUserDiffs(t, nu, Users(d)) = TagPlan(t, c, d) \ {op}
    <3>1. /\ op \in AppendUserDiffs(t, Users(c), Users(d))
          /\ op.type = "AddClient" =>
               ClientOperation("RemoveClient", t, op.email)
                 \notin AppendUserDiffs(t, Users(c), Users(d))
      BY <2>3
    <3>2. PICK cu, du : cu = Users(c) /\ du = Users(d)
      OBVIOUS
    <3>3. /\ op \in AppendUserDiffs(t, cu, du)
          /\ op.type = "AddClient" =>
               ClientOperation("RemoveClient", t, op.email)
                 \notin AppendUserDiffs(t, cu, du)
          /\ \A x \in Emails : x # op.email => nu[x] = cu[x]
      BY <2>2, <2>4, <3>1, <3>2
    <3>5. nu[op.email] = (IF op.type = "AddClient" THEN du[op.email] ELSE NoUser)
      <4>1. op.email \in Emails
        BY <3>1, UserDiffMembers DEF ClientOperation
      <4> QED BY <2>2, <2>4, <3>2, <4>1
    <3>4. /\ op.type \in {"RemoveClient", "AddClient"}
          /\ AppendUserDiffs(t, nu, du) = AppendUserDiffs(t, cu, du) \ {op}
      BY ONLY <3>3, <3>5, UserDiffStep
    <3> QED BY <2>3, <3>2, <3>4
  <2>6. Altered(op, c, d) = [c EXCEPT !.users = nu]
    BY <2>4, <2>5 DEF Altered, Users
  <2>7. nu \in [Emails -> Ids \cup {NoUser}]
    BY <2>2, <2>4
  <2>8. PICK n : n = Altered(op, c, d)
    OBVIOUS
  <2>9. n \in Inbound /\ Comparable(n) = Comparable(d) /\ Users(n) = nu
    BY <2>1, <2>6, <2>7, <2>8, <1>4 DEF Inbound, Comparable, Users
  <2>10. n # NoInbound
    BY <2>9, RuntimePlanAssumption DEF Inbound
  <2>11. TagPlan(t, n, d) = AppendUserDiffs(t, nu, Users(d))
    BY <2>9, <2>10, <1>4, TagPlanCases
  <2> QED BY <2>5, <2>8, <2>11 DEF Remaining
<1> QED BY <1>1, <1>2, <1>3, <1>4

(* After a call, the remaining operations are the plan from what Xray now  *)
(* has to what is desired.                                                 *)
THEOREM RemainingIsPlan ==
  ASSUME NEW l \in Table, NEW d \in Table, NEW op \in Ready(Plan(l, d))
  PROVE  Plan(ApplyOperation(op, l, d), d) = Remaining(op, Plan(l, d))
<1>1. op \in Operation /\ op \in TagPlan(op.tag, l[op.tag], d[op.tag])
  BY PlanOfTag DEF Ready
<1> DEFINE t == op.tag
           n == ApplyOperation(op, l, d)
<1>2. /\ t \in Tags
      /\ l[t] \in Inbound \cup {NoInbound}
      /\ d[t] \in Inbound \cup {NoInbound}
  BY <1>1 DEF Operation, Table
<1>3. /\ n[t] = Altered(op, l[t], d[t])
      /\ \A u \in Tags : u # t => n[u] = l[u]
  BY <1>2 DEF ApplyOperation, Table
<1>4. TagPlan(t, n[t], d[t]) = Remaining(op, TagPlan(t, l[t], d[t]))
  <2>1. op.type = "AddClient" =>
          ClientOperation("RemoveClient", t, op.email) \notin TagPlan(t, l[t], d[t])
    BY <1>2, PlanMembers DEF Ready
  <2> QED BY <1>1, <1>2, <1>3, <2>1, TagPlanStep
<1>5. \A o : o \in Plan(n, d) <=> o \in Remaining(op, Plan(l, d))
  <2> SUFFICES ASSUME NEW o
               PROVE  o \in Plan(n, d) <=> o \in Remaining(op, Plan(l, d))
    OBVIOUS
  <2>1. o \in Plan(n, d) <=>
          \/ o \in Remaining(op, TagPlan(t, l[t], d[t]))
          \/ \E u \in Tags : u # t /\ o \in TagPlan(u, l[u], d[u])
    BY <1>2, <1>3, <1>4, PlanMembers
  <2>2. \A u \in Tags : op \in TagPlan(u, l[u], d[u]) => u = t
    BY TagPlanTyped
  <2>3. o \in Plan(l, d) <=>
          \/ o \in TagPlan(t, l[t], d[t])
          \/ \E u \in Tags : u # t /\ o \in TagPlan(u, l[u], d[u])
    BY <1>2, PlanMembers
  <2> QED BY <2>1, <2>2, <2>3 DEF Remaining
<1> QED BY <1>5

-----------------------------------------------------------------------------
(* From a snapshot to another.                                             *)

(* What TypeOK and the safety properties rest on: the operations not yet   *)
(* issued are the plan from what Xray has to what is desired.              *)
ApplyInv == ApplyTypeOK /\ pending = Plan(running, desired)

LEMMA BuiltIsTable == BuiltTable \subseteq Table
BY DEF BuiltTable, BuiltInbound, Table

LEMMA ApplyInitInv == ApplyInit => ApplyInv
BY BuiltIsTable, PlanTyped DEF ApplyInit, ApplyInv, ApplyTypeOK

LEMMA ApplyNextInv == ApplyInv /\ [ApplyNext]_applyVars => ApplyInv'
<1> SUFFICES ASSUME ApplyInv, [ApplyNext]_applyVars
             PROVE  ApplyInv'
  OBVIOUS
<1>1. ASSUME NEW op \in pending, Apply(op)
      PROVE  ApplyInv'
  <2>1. running \in Table /\ desired \in Table
    BY BuiltIsTable DEF ApplyInv, ApplyTypeOK
  <2>2. op \in Ready(Plan(running, desired))
    BY <1>1 DEF ApplyInv, Apply
  <2>3. /\ running' = ApplyOperation(op, running, desired)
        /\ pending' = Remaining(op, Plan(running, desired))
        /\ UNCHANGED <<current, desired>>
    BY <1>1 DEF ApplyInv, Apply
  <2>4. pending' = Plan(running', desired')
    BY <2>1, <2>2, <2>3, RemainingIsPlan
  <2>5. ApplyTypeOK'
    BY <2>1, <2>2, <2>3, ApplyTyped DEF ApplyInv, ApplyTypeOK
  <2> QED BY <2>4, <2>5 DEF ApplyInv
<1>2. CASE UNCHANGED applyVars
  BY <1>2 DEF applyVars, ApplyInv, ApplyTypeOK
<1> QED BY <1>1, <1>2 DEF ApplyNext

LEMMA ApplyInvariance == ApplySpec => []ApplyInv
BY ApplyInitInv, ApplyNextInv, PTL DEF ApplySpec

(* Types: the live configuration stays a configuration Xray can have, and  *)
(* the plan a set of operations on known tags and users.                   *)
THEOREM PlanApplyTypeOK == ApplySpec => []ApplyTypeOK
<1>1. ApplyInv => ApplyTypeOK
  BY DEF ApplyInv
<1> QED BY <1>1, ApplyInvariance, PTL

(* Xray accepts every call Client.Apply makes of Planner.Plan's output.    *)
THEOREM CallsAreAccepted == ApplySpec => []NoCallRejected
<1>1. ApplyInv => NoCallRejected
  BY BuiltIsTable, ReadyAccepted DEF ApplyInv, ApplyTypeOK, NoCallRejected
<1> QED BY <1>1, ApplyInvariance, PTL

(* When Client.Apply is through, Xray has the inbounds and named users of  *)
(* the desired snapshot.                                                   *)
THEOREM AppliedIsDesired == ApplySpec => []PlanReachesDesired
<1>1. ApplyInv => PlanReachesDesired
  BY BuiltIsTable, EmptyPlan DEF ApplyInv, ApplyTypeOK, PlanReachesDesired
<1> QED BY <1>1, ApplyInvariance, PTL

(* What a step may not touch, tag by tag: the strengthening that makes     *)
(* BystandersUndisturbed inductive.                                        *)
KeptTag(t) ==
  /\ SameManaged(current[t], desired[t]) => running[t] = current[t]
  /\ (current[t] # NoInbound /\ desired[t] # NoInbound
        /\ Comparable(current[t]) = Comparable(desired[t]))
       => /\ running[t] # NoInbound
          /\ Comparable(running[t]) = Comparable(desired[t])
          /\ \A e \in Emails :
               Users(current[t])[e] = Users(desired[t])[e]
                 => Users(running[t])[e] = Users(current[t])[e]

LEMMA KeptStep ==
  ASSUME ApplyInv, NEW op \in pending, Apply(op), NEW t \in Tags, KeptTag(t)
  PROVE  KeptTag(t)'
<1>1. running \in Table /\ desired \in Table /\ current \in Table
  BY BuiltIsTable DEF ApplyInv, ApplyTypeOK
<1>2. /\ op \in Operation
      /\ op \in TagPlan(op.tag, running[op.tag], desired[op.tag])
  BY PlanOfTag DEF ApplyInv
<1>3. /\ UNCHANGED <<current, desired>>
      /\ running'[op.tag] = Altered(op, running[op.tag], desired[op.tag])
      /\ \A u \in Tags : u # op.tag => running'[u] = running[u]
  BY <1>1, <1>2 DEF Apply, ApplyOperation, Table, Operation
<1>4. CASE t # op.tag
  BY <1>3, <1>4 DEF KeptTag
<1>5. CASE t = op.tag
  <2>1. ~SameManaged(current[t], desired[t])
    <3> SUFFICES ASSUME SameManaged(current[t], desired[t])
                 PROVE  FALSE
      OBVIOUS
    <3>1. running[t] = current[t]
      BY DEF KeptTag
    <3>2. TagPlan(t, running[t], desired[t]) = {}
      BY <3>1 DEF SameManaged, TagPlan, AppendUserDiffs
    <3> QED BY <1>2, <1>5, <3>2
  <2>2. ASSUME current[t] # NoInbound, desired[t] # NoInbound,
               Comparable(current[t]) = Comparable(desired[t])
        PROVE  /\ running'[t] # NoInbound
               /\ Comparable(running'[t]) = Comparable(desired[t])
               /\ \A e \in Emails :
                    Users(current[t])[e] = Users(desired[t])[e]
                      => Users(running'[t])[e] = Users(current[t])[e]
    <3>1. /\ running[t] # NoInbound
          /\ Comparable(running[t]) = Comparable(desired[t])
          /\ \A e \in Emails :
               Users(current[t])[e] = Users(desired[t])[e]
                 => Users(running[t])[e] = Users(current[t])[e]
      BY <2>2 DEF KeptTag
    <3>2. PICK x \in Emails :
            /\ Users(running[t])[x] # Users(desired[t])[x]
            /\ \/ op = ClientOperation("RemoveClient", t, x)
               \/ op = ClientOperation("AddClient", t, x)
      BY <1>2, <1>5, <2>2, <3>1, TagPlanCases, UserDiffMembers
    <3>3. running[t] \in Inbound
      BY <1>1, <3>1 DEF Table
    <3>4. PICK users \in [Emails -> Ids \cup {NoUser}] :
            /\ running'[t] = [running[t] EXCEPT !.users = users]
            /\ \A e \in Emails : e # x => users[e] = Users(running[t])[e]
      <4>1. desired[t].users[x] \in Ids \cup {NoUser}
        BY <1>1, <2>2 DEF Table, Inbound
      <4>2. running'[t] = [running[t] EXCEPT !.users =
                          [@ EXCEPT ![x] = IF op.type = "AddClient"
                                           THEN desired[t].users[x] ELSE NoUser]]
        BY <1>3, <1>5, <3>2 DEF Altered, ClientOperation
      <4>3. running[t].users \in [Emails -> Ids \cup {NoUser}]
        BY <3>3 DEF Inbound
      <4> DEFINE users == [running[t].users EXCEPT ![x] =
                             IF op.type = "AddClient"
                             THEN desired[t].users[x] ELSE NoUser]
      <4>4. /\ users \in [Emails -> Ids \cup {NoUser}]
            /\ \A e \in Emails : e # x => users[e] = Users(running[t])[e]
        BY <4>1, <4>3 DEF Users
      <4> QED BY <4>2, <4>4
    <3>5. /\ running'[t] \in Inbound
          /\ Comparable(running'[t]) = Comparable(running[t])
          /\ Users(running'[t]) = users
      BY <3>3, <3>4 DEF Inbound, Comparable, Users
    <3>6. running'[t] # NoInbound
      BY <3>5, RuntimePlanAssumption DEF Inbound
    <3>7. ASSUME NEW e \in Emails,
                 Users(current[t])[e] = Users(desired[t])[e]
          PROVE  Users(running'[t])[e] = Users(current[t])[e]
      BY <3>1, <3>2, <3>4, <3>5, <3>7
    <3> QED BY <3>1, <3>5, <3>6, <3>7
  <2> QED BY <1>3, <2>1, <2>2 DEF KeptTag
<1> QED BY <1>4, <1>5

(* An incremental sync leaves the others alone: what does not change is    *)
(* never down, not for a moment.                                           *)
THEOREM BystandersAreLeftAlone == ApplySpec => []BystandersUndisturbed
<1> DEFINE Kept == \A t \in Tags : KeptTag(t)
<1>1. ApplyInit => Kept
  BY DEF ApplyInit, KeptTag
<1>2. ApplyInv /\ Kept /\ [ApplyNext]_applyVars => Kept'
  <2> SUFFICES ASSUME ApplyInv, Kept, [ApplyNext]_applyVars, NEW t \in Tags
               PROVE  KeptTag(t)'
    OBVIOUS
  <2>1. CASE UNCHANGED applyVars
    BY <2>1 DEF applyVars, KeptTag
  <2>2. CASE ApplyNext
    BY <2>2, KeptStep DEF ApplyNext
  <2> QED BY <2>1, <2>2
<1>3. Kept => BystandersUndisturbed
  BY DEF KeptTag, BystandersUndisturbed
<1> QED BY <1>1, <1>2, <1>3, ApplyInvariance, PTL DEF ApplySpec

(* Inbounds that go away are gone before Xray is given anything new.       *)
THEOREM WithdrawnGoFirst == ApplySpec => WithdrawnFirst
<1>1. ASSUME ApplyInv, NEW op \in pending, Apply(op), NEW t \in Tags
      PROVE  Withdraws(t)
  <2> SUFFICES ASSUME desired[t] = NoInbound, running[t] # NoInbound
               PROVE  \E u \in Tags : /\ desired[u] = NoInbound
                                      /\ running[u] # NoInbound
                                      /\ running' = [running EXCEPT ![u] = NoInbound]
    BY DEF Withdraws
  <2>1. InboundOperation("RemoveInbound", t) \in pending
    <3>1. InboundOperation("RemoveInbound", t) \in TagPlan(t, running[t], desired[t])
      BY TagPlanCases
    <3> QED BY <1>1, <3>1, PlanMembers DEF ApplyInv
  <2>2. op.type = "RemoveInbound"
    <3>1. op \in Ready(pending)
      BY <1>1 DEF Apply
    <3>2. \E o \in pending : o.type = "RemoveInbound"
      BY <2>1 DEF InboundOperation
    <3> QED BY <3>1, <3>2 DEF Ready
  <2>3. op.tag \in Tags /\ op \in TagPlan(op.tag, running[op.tag], desired[op.tag])
    <3>1. op \in Operation /\ op \in TagPlan(op.tag, running[op.tag], desired[op.tag])
      BY <1>1, PlanOfTag DEF ApplyInv
    <3> QED BY <3>1 DEF Operation
  <2>4. desired[op.tag] = NoInbound /\ running[op.tag] # NoInbound
    <3>1. \A e : op # ClientOperation("RemoveClient", op.tag, e)
                  /\ op # ClientOperation("AddClient", op.tag, e)
      BY <2>2 DEF ClientOperation
    <3>2. op \notin AppendUserDiffs(op.tag, Users(running[op.tag]), Users(desired[op.tag]))
      BY <3>1, UserDiffMembers
    <3>3. /\ op # InboundOperation("AddInbound", op.tag)
          /\ op # InboundOperation("ReplaceInbound", op.tag)
      BY <2>2 DEF InboundOperation
    <3> QED BY <2>3, <3>2, <3>3, TagPlanCases
  <2>5. running' = [running EXCEPT ![op.tag] = NoInbound]
    BY <1>1, <2>2 DEF Apply, ApplyOperation, Altered
  <2> QED BY <2>3, <2>4, <2>5
<1>2. ApplyInv /\ [ApplyNext]_applyVars => [\A t \in Tags : Withdraws(t)]_applyVars
  BY <1>1 DEF ApplyNext
<1> QED BY <1>2, ApplyInvariance, PTL DEF ApplySpec, WithdrawnFirst
=============================================================================

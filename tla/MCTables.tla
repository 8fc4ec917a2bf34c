------------------------------ MODULE MCTables ------------------------------
(* Tables of inbounds and kinds of disturbance for the instances of        *)
(* RuntimeManager and RuntimeHistory.                                      *)
EXTENDS RuntimePlan, TLC

CONSTANTS t1, t2, t3, c1, c2, e1, i1, i2

None == [e \in Emails |-> NoUser]
User(e, i) == [None EXCEPT ![e] = i]
Inb(core, users, anon) == [core |-> core, users |-> users, anon |-> anon]

(* Two tables whose difference takes operations of every type: the user of *)
(* the first inbound changes, the core of the second is replaced, and the  *)
(* third is added or, the other way round, removed.                        *)
Mixed(i, core, third) ==
  (t1 :> Inb(c1, User(e1, i), NoUser)) @@ (t2 :> Inb(core, None, NoUser))
    @@ (t3 :> third)
MixedTables == {Mixed(i1, c1, NoInbound), Mixed(i2, c2, Inb(c1, None, NoUser))}

(* A smaller pair: the user of the first inbound changes and the second    *)
(* inbound is added.                                                       *)
Small(i, second) ==
  (t1 :> Inb(c1, User(e1, i), NoUser)) @@ (t2 :> second)
SmallTables == {Small(i1, NoInbound), Small(i2, Inb(c1, None, NoUser))}

SyncFailures == {"crash", "api", "start", "slow", "save"}

AllDisturbances == {"crash", "panel", "sighup", "update", "build", "save",
                    "api", "start", "slow"}
=============================================================================

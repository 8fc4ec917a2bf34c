------------------------- MODULE RuntimeManagerProofs -------------------------
(***************************************************************************)
(* RuntimeManager, and its history, for every set of workers, tables and   *)
(* disturbances.                                                           *)
(***************************************************************************)
EXTENDS RuntimeHistory, PlanApplyProofs

(* A worker past the read of the template has a snapshot in its hands.     *)
HasSnapshot ==
  \A w \in Workers :
    pc[w] \in Locked \cup {"rows", "acquire"} => want[w] \in Config

(* An Xray that runs has a configuration. *)
RunsSomething == IsRunning => live \in Config

(* The plan in hand leads from what Xray has to what the holder of the     *)
(* mutex wants; before the first call, from the manager's snapshot.        *)
PlanTracksXray ==
  \A w \in Workers :
    /\ pc[w] = "ping" =>
         /\ snapshot \in Config
         /\ plan = Plan(snapshot.inbounds, want[w].inbounds)
    /\ (pc[w] = "apply" /\ IsRunning) =>
         plan = Plan(live.inbounds, want[w].inbounds)

(* Where a sync is about to end clean, or has just found nothing to do,    *)
(* the manager's snapshot shows the planner the desired inbounds.          *)
Adopted ==
  \A w \in Workers :
    pc[w] \in {"verify", "wait", "clear"} =>
      /\ snapshot \in Config
      /\ SameManagedTable(snapshot.inbounds, want[w].inbounds)

IInv ==
  /\ TypeOK
  /\ LockDiscipline
  /\ HasSnapshot
  /\ RunsSomething
  /\ LiveMatchesSnapshot
  /\ PlanTracksXray
  /\ Adopted

-----------------------------------------------------------------------------
USE DEF dbVars, flagVars, jobVars, xrayVars

(* How a worker moves: Goto and Return keep the types. *)
LEMMA GotoTyped ==
  ASSUME TypeOK, NEW w \in Workers, NEW label \in Labels, Goto(w, label)
  PROVE  pc' \in [Workers -> Labels]
BY DEF TypeOK, Goto

LEMMA ReturnTyped ==
  ASSUME TypeOK, NEW w \in Workers, NEW ok, Return(w, ok)
  PROVE  /\ pc' \in [Workers -> Labels]
         /\ want' \in [Workers -> Config \cup {NoSnapshot}]
         /\ checkTime' \in 0..2
         /\ serving' \in BOOLEAN
<1>1. pc' \in [Workers -> Labels]
  BY GotoTyped DEF Return, Labels
<1>2. want' \in [Workers -> Config \cup {NoSnapshot}]
  BY DEF TypeOK, Return
<1>3. checkTime' \in 0..2
  BY DEF TypeOK, Return
<1>4. serving' \in BOOLEAN
  BY DEF TypeOK, Return
<1> QED BY <1>1, <1>2, <1>3, <1>4

LEMMA DisturbTyped ==
  ASSUME TypeOK, NEW kind
  PROVE  Disturb(kind) \/ Undisturbed => disturbed' \in 0..MaxDisturbances
BY RuntimeManagerAssumption DEF TypeOK, Disturb, Undisturbed

LEMMA NextTypeOK == IInv /\ [Next]_vars => TypeOK'
<1> SUFFICES ASSUME IInv, [Next]_vars
             PROVE  TypeOK'
  OBVIOUS
<1> USE DEF TypeOK
<1>0. TypeOK /\ HasSnapshot /\ RunsSomething
  BY DEF IInv
<1>1. ASSUME NEW table \in Tables, EditInbounds(table)
      PROVE  TypeOK'
  <2>1. db' \in Config
    BY <1>0, <1>1, RuntimeManagerAssumption DEF EditInbounds, Config
  <2>2. edits' \in 0..MaxEdits /\ unflagged' \in Nat
    BY <1>0, <1>1, RuntimeManagerAssumption DEF EditInbounds
  <2> QED BY <1>0, <1>1, <2>1, <2>2 DEF EditInbounds
<1>2. ASSUME NEW template \in Templates, EditTemplate(template)
      PROVE  TypeOK'
  <2>1. db' \in Config
    BY <1>0, <1>2 DEF EditTemplate, Config
  <2>2. edits' \in 0..MaxEdits
    BY <1>0, <1>2, RuntimeManagerAssumption DEF EditTemplate
  <2> QED BY <1>0, <1>2, <2>1, <2>2 DEF EditTemplate
<1>3. CASE SetToNeedRestart
  BY <1>0, <1>3 DEF SetToNeedRestart
<1>4. ASSUME NEW w \in ApplyJobs, BeginApply(w)
      PROVE  TypeOK'
  <2>1. pc' \in [Workers -> Labels]
    BY <1>0, <1>4, GotoTyped DEF BeginApply, Workers, Labels
  <2> QED BY <1>0, <1>4, <2>1 DEF BeginApply
<1>5. ASSUME NEW w \in CheckJobs, BeginCheck(w) \/ CheckStep(w)
      PROVE  TypeOK'
  <2>1. w \in Workers
    BY DEF Workers
  <2>2. CASE BeginCheck(w)
    <3>1. pc' \in [Workers -> Labels]
      BY <1>0, <2>1, <2>2, GotoTyped DEF BeginCheck, Labels
    <3> QED BY <1>0, <2>2, <3>1 DEF BeginCheck
  <2>3. CASE Probe(w)
    <3>1. CASE Return(w, TRUE)
      BY <1>0, <2>1, <2>3, <3>1, ReturnTyped DEF Probe
    <3>2. CASE Goto(w, "recover") /\ UNCHANGED jobVars
      <4>1. pc' \in [Workers -> Labels]
        BY <1>0, <2>1, <3>2, GotoTyped DEF Labels
      <4> QED BY <1>0, <2>3, <3>2, <4>1 DEF Probe
    <3> QED BY <2>3, <3>1, <3>2 DEF Probe
  <2>4. CASE Recover(w)
    <3>1. pc' \in [Workers -> Labels]
      BY <1>0, <2>1, <2>4, GotoTyped DEF Recover, Labels
    <3>2. disturbed' \in 0..MaxDisturbances
      BY <1>0, <2>4, DisturbTyped DEF Recover
    <3> QED BY <1>0, <2>4, <3>1, <3>2 DEF Recover
  <2>5. CASE Reprobe(w)
    BY <1>0, <2>1, <2>5, ReturnTyped DEF Reprobe
  <2>6. CASE CountFailure(w)
    <3>1. pc' \in [Workers -> Labels]
      BY <1>0, <2>1, <2>6, GotoTyped DEF CountFailure, Labels
    <3>2. checkTime' \in 0..2 /\ need' \in BOOLEAN
      BY <1>0, <2>6 DEF CountFailure
    <3> QED BY <1>0, <2>6, <3>1, <3>2 DEF CountFailure
  <2> QED BY <1>5, <2>2, <2>3, <2>4, <2>5, <2>6 DEF CheckStep
<1>6. ASSUME NEW w \in {Main} \cup Admins, NEW kind, BeginRestart(w, kind)
      PROVE  TypeOK'
  <2>1. pc' \in [Workers -> Labels]
    BY <1>0, <1>6, GotoTyped DEF BeginRestart, Workers, Labels
  <2>2. disturbed' \in 0..MaxDisturbances
    BY <1>0, <1>6, DisturbTyped DEF BeginRestart
  <2> QED BY <1>0, <1>6, <2>1, <2>2 DEF BeginRestart
<1>7. ASSUME NEW w \in {Main} \cup Admins, Stop(w)
      PROVE  TypeOK'
  <2>1. pc' \in [Workers -> Labels]
    BY <1>0, <1>7, GotoTyped DEF Stop, Workers, Labels
  <2>2. proc' \in ProcStates
    BY <1>0, <1>7 DEF Stop, ProcStates
  <2> QED BY <1>0, <1>7, <2>1, <2>2 DEF Stop
<1>8. ASSUME NEW w \in Workers, Reconcile(w)
      PROVE  TypeOK'
  <2>1. CASE ReadTemplate(w)
    <3>1. pc' \in [Workers -> Labels]
      BY <1>0, <2>1, GotoTyped DEF ReadTemplate, Labels
    <3>2. [template |-> db.template, inbounds |-> EmptyTable] \in Config
      BY <1>0 DEF Config, Table, EmptyTable
    <3>3. want' \in [Workers -> Config \cup {NoSnapshot}]
      BY <1>0, <2>1, <3>2 DEF ReadTemplate
    <3> QED BY <1>0, <2>1, <3>1, <3>3 DEF ReadTemplate
  <2>2. CASE ReadInbounds(w)
    <3>1. pc' \in [Workers -> Labels]
      BY <1>0, <2>2, GotoTyped DEF ReadInbounds, Labels
    <3>2. [want[w] EXCEPT !.inbounds = db.inbounds] \in Config
      BY <1>0, <2>2 DEF HasSnapshot, ReadInbounds, Config
    <3>3. want' \in [Workers -> Config \cup {NoSnapshot}]
      BY <1>0, <2>2, <3>2 DEF ReadInbounds
    <3> QED BY <1>0, <2>2, <3>1, <3>3 DEF ReadInbounds
  <2>3. CASE BuildFails(w)
    <3>1. disturbed' \in 0..MaxDisturbances
      BY <1>0, <2>3, DisturbTyped DEF BuildFails
    <3> QED BY <1>0, <2>3, <3>1, ReturnTyped DEF BuildFails
  <2>4. CASE Acquire(w)
    <3>1. pc' \in [Workers -> Labels]
      BY <1>0, <2>4, GotoTyped DEF Acquire, Labels, Locked
    <3>2. plan' \subseteq Operation
      BY <2>4, PlanTyped DEF Acquire
    <3> QED BY <1>0, <2>4, <3>1, <3>2 DEF Acquire
  <2>5. ASSUME NEW here, NEW healthy \in Labels, HealthCheck(w, here, healthy)
        PROVE  TypeOK'
    <3>1. pc' \in [Workers -> Labels]
      BY <1>0, <2>5, GotoTyped DEF HealthCheck, Labels, Locked
    <3>2. disturbed' \in 0..MaxDisturbances
      BY <1>0, <2>5, DisturbTyped DEF HealthCheck
    <3>3. plan' \subseteq Operation
      BY <1>0, <2>5 DEF HealthCheck
    <3> QED BY <1>0, <2>5, <3>1, <3>2, <3>3 DEF HealthCheck
  <2>6. CASE Verify(w) \/ Ping(w)
    BY <2>5, <2>6 DEF Verify, Ping, Labels, Locked
  <2>7. ASSUME NEW op \in plan, ApplyCall(w, op)
        PROVE  TypeOK'
    <3>1. want[w] \in Config /\ live \in Config
          /\ plan = Plan(live.inbounds, want[w].inbounds)
      BY <1>0, <2>7 DEF IInv, HasSnapshot, RunsSomething, PlanTracksXray,
         ApplyCall, IsRunning, Locked
    <3>2. /\ live'.inbounds \in Table
          /\ live' \in Config
          /\ plan' \subseteq Operation
      BY <2>7, <3>1, ApplyTyped DEF ApplyCall, Config
    <3>3. snapshot' \in Config \cup {NoSnapshot} /\ pc' \in [Workers -> Labels]
      BY <1>0, <2>7, <3>1, GotoTyped DEF ApplyCall, Labels, Locked
    <3> QED BY <1>0, <2>7, <3>2, <3>3 DEF ApplyCall
  <2>8. ASSUME NEW op \in plan, ApplyCallFails(w, op)
        PROVE  TypeOK'
    <3>1. pc' \in [Workers -> Labels]
      BY <1>0, <2>8, GotoTyped DEF ApplyCallFails, Labels, Locked
    <3>2. disturbed' \in 0..MaxDisturbances
      BY <1>0, <2>8, DisturbTyped DEF ApplyCallFails
    <3>3. live' \in Config \cup {NoSnapshot}
      <4>1. CASE UNCHANGED live
        BY <1>0, <4>1
      <4>2. CASE proc = "up" /\ live' = [live EXCEPT !.inbounds =
                   ApplyOperation(op, live.inbounds, want[w].inbounds)]
        <5>1. want[w] \in Config /\ live \in Config
              /\ plan = Plan(live.inbounds, want[w].inbounds)
          BY <1>0, <2>8, <4>2 DEF IInv, HasSnapshot, RunsSomething,
             PlanTracksXray, ApplyCallFails, IsRunning, Locked
        <5>2. op \in Ready(Plan(live.inbounds, want[w].inbounds))
          BY <2>8, <5>1 DEF ApplyCallFails
        <5>3. ApplyOperation(op, live.inbounds, want[w].inbounds) \in Table
          BY <5>1, <5>2, ApplyTyped DEF Config
        <5> QED BY <4>2, <5>1, <5>3 DEF Config
      <4> QED BY <2>8, <4>1, <4>2 DEF ApplyCallFails
    <3> QED BY <1>0, <2>8, <3>1, <3>2, <3>3 DEF ApplyCallFails
  <2>9. CASE Fallback(w)
    <3>1. pc' \in [Workers -> Labels]
      BY <1>0, <2>9, GotoTyped DEF Fallback, Labels, Locked
    <3>2. disturbed' \in 0..MaxDisturbances /\ dirty' \in BOOLEAN
      BY <1>0, <2>9, DisturbTyped DEF Fallback, MarkRuntimeIssue
    <3> QED BY <1>0, <2>9, <3>1, <3>2 DEF Fallback
  <2>10. CASE Restart(w)
    <3>1. pc' \in [Workers -> Labels]
      BY <1>0, <2>10, GotoTyped DEF Restart, Labels, Locked
    <3> QED BY <1>0, <2>10, <3>1 DEF Restart, ProcStates
  <2>11. CASE StartFails(w)
    <3>1. pc' \in [Workers -> Labels]
      BY <1>0, <2>11, GotoTyped DEF StartFails, Labels, Locked
    <3>2. disturbed' \in 0..MaxDisturbances
      BY <1>0, <2>11, DisturbTyped DEF StartFails
    <3> QED BY <1>0, <2>11, <3>1, <3>2 DEF StartFails, ProcStates
  <2>12. CASE WaitForHealthy(w)
    <3>1. pc' \in [Workers -> Labels]
      BY <1>0, <2>12, GotoTyped DEF WaitForHealthy, Labels, Locked
    <3>2. disturbed' \in 0..MaxDisturbances
      BY <1>0, <2>12, DisturbTyped DEF WaitForHealthy
    <3> QED BY <1>0, <2>12, <3>1, <3>2 DEF WaitForHealthy
  <2>13. CASE GiveUp(w)
    <3>1. disturbed' \in 0..MaxDisturbances /\ dirty' \in BOOLEAN
      BY <1>0, <2>13, DisturbTyped DEF GiveUp, MarkRuntimeIssue
    <3> QED BY <1>0, <2>13, <3>1, ReturnTyped DEF GiveUp
  <2>14. CASE ClearRuntimeStatus(w)
    <3>1. disturbed' \in 0..MaxDisturbances /\ dirty' \in BOOLEAN
      BY <1>0, <2>14, DisturbTyped DEF ClearRuntimeStatus
    <3> QED BY <1>0, <2>14, <3>1, ReturnTyped DEF ClearRuntimeStatus
  <2> QED BY <1>8, <2>1, <2>2, <2>3, <2>4, <2>6, <2>7, <2>8, <2>9, <2>10,
             <2>11, <2>12, <2>13, <2>14 DEF Reconcile
<1>9. CASE XrayUp
  BY <1>0, <1>9 DEF XrayUp, ProcStates
<1>10. CASE XrayExit
  <2>1. disturbed' \in 0..MaxDisturbances
    BY <1>0, <1>10, DisturbTyped DEF XrayExit
  <2> QED BY <1>0, <1>10, <2>1 DEF XrayExit, ProcStates
<1>11. CASE PanelCrash
  <2>1. disturbed' \in 0..MaxDisturbances
    BY <1>0, <1>11, DisturbTyped DEF PanelCrash
  <2>2. /\ pc' \in [Workers -> Labels]
        /\ want' \in [Workers -> Config \cup {NoSnapshot}]
    BY <1>11 DEF PanelCrash, Labels
  <2>3. checkTime' \in 0..2 /\ unflagged' \in Nat
    BY <1>11 DEF PanelCrash
  <2> QED BY <1>0, <1>11, <2>1, <2>2, <2>3 DEF PanelCrash, ProcStates
<1>12. CASE UNCHANGED vars
  BY <1>0, <1>12 DEF vars
<1> QED BY <1>1, <1>2, <1>3, <1>4, <1>5, <1>6, <1>7, <1>8, <1>9, <1>10,
           <1>11, <1>12 DEF Next

-----------------------------------------------------------------------------
(* The mutex. *)

(* A worker that moves without touching the mutex stays on its side of it. *)
LEMMA MoveKeepsLock ==
  ASSUME TypeOK, LockDiscipline, NEW w \in Workers, NEW label \in Labels,
         Goto(w, label), UNCHANGED mu, pc[w] \in Locked <=> label \in Locked
  PROVE  LockDiscipline'
BY DEF TypeOK, LockDiscipline, Goto

(* A worker that leaves Sync unlocks. *)
LEMMA ReturnUnlocks ==
  ASSUME TypeOK, LockDiscipline, NEW w \in Workers, NEW ok, Return(w, ok),
         mu' = NoWorker, pc[w] \in Locked
  PROVE  LockDiscipline'
<1>1. /\ pc' \in [Workers -> Labels]
      /\ pc'[w] \notin Locked
      /\ \A x \in Workers \ {w} : pc'[x] = pc[x]
  BY DEF TypeOK, Return, Goto, Labels, Locked
<1>2. mu = w
  BY DEF LockDiscipline
<1>3. \A x \in Workers : pc'[x] \notin Locked
  BY <1>1, <1>2 DEF LockDiscipline
<1> QED BY <1>3, RuntimeManagerAssumption DEF LockDiscipline

(* A worker that ends outside Sync never had the mutex. *)
LEMMA ReturnOutside ==
  ASSUME TypeOK, LockDiscipline, NEW w \in Workers, NEW ok, Return(w, ok),
         UNCHANGED mu, pc[w] \notin Locked
  PROVE  LockDiscipline'
<1>1. Goto(w, "idle") \/ Goto(w, "failed")
  BY DEF Return
<1> QED BY <1>1, MoveKeepsLock DEF Labels, Locked

LEMMA NextLockDiscipline == IInv /\ [Next]_vars => LockDiscipline'
<1> SUFFICES ASSUME IInv, [Next]_vars
             PROVE  LockDiscipline'
  OBVIOUS
<1>0. TypeOK /\ LockDiscipline
  BY DEF IInv
<1>1. CASE UNCHANGED <<pc, mu>>
  BY <1>0, <1>1 DEF LockDiscipline
<1>2. ASSUME NEW w \in ApplyJobs, BeginApply(w)
      PROVE  LockDiscipline'
  BY <1>0, <1>2, MoveKeepsLock DEF BeginApply, Workers, Labels, Locked
<1>3. ASSUME NEW w \in CheckJobs, BeginCheck(w) \/ CheckStep(w)
      PROVE  LockDiscipline'
  <2>1. w \in Workers
    BY DEF Workers
  <2>2. CASE BeginCheck(w)
    BY <1>0, <2>1, <2>2, MoveKeepsLock DEF BeginCheck, Labels, Locked
  <2>3. CASE Probe(w)
    BY <1>0, <2>1, <2>3, MoveKeepsLock, ReturnOutside DEF Probe, Labels, Locked
  <2>4. CASE Recover(w)
    BY <1>0, <2>1, <2>4, MoveKeepsLock DEF Recover, Labels, Locked
  <2>5. CASE Reprobe(w)
    BY <1>0, <2>1, <2>5, ReturnOutside DEF Reprobe, Locked
  <2>6. CASE CountFailure(w)
    BY <1>0, <2>1, <2>6, MoveKeepsLock DEF CountFailure, Labels, Locked
  <2> QED BY <1>3, <2>2, <2>3, <2>4, <2>5, <2>6 DEF CheckStep
<1>4. ASSUME NEW w \in {Main} \cup Admins, NEW kind, BeginRestart(w, kind)
      PROVE  LockDiscipline'
  BY <1>0, <1>4, MoveKeepsLock DEF BeginRestart, Workers, Labels, Locked
<1>5. ASSUME NEW w \in {Main} \cup Admins, Stop(w)
      PROVE  LockDiscipline'
  BY <1>0, <1>5, MoveKeepsLock DEF Stop, Workers, Labels, Locked
<1>6. ASSUME NEW w \in Workers, Reconcile(w)
      PROVE  LockDiscipline'
  <2>1. CASE ReadTemplate(w)
    BY <1>0, <2>1, MoveKeepsLock DEF ReadTemplate, Labels, Locked
  <2>2. CASE ReadInbounds(w)
    BY <1>0, <2>2, MoveKeepsLock DEF ReadInbounds, Labels, Locked
  <2>3. CASE BuildFails(w)
    BY <1>0, <2>3, ReturnOutside DEF BuildFails, Locked
  <2>4. CASE Acquire(w)
    <3>1. mu = NoWorker /\ mu' = w
      BY <2>4 DEF Acquire
    <3>2. PICK label \in Locked : Goto(w, label)
      BY <2>4 DEF Acquire, Locked
    <3>3. \A x \in Workers : pc[x] \notin Locked
      BY <1>0, <3>1, RuntimeManagerAssumption DEF LockDiscipline
    <3> QED BY <1>0, <3>1, <3>2, <3>3 DEF LockDiscipline, TypeOK, Goto
  <2>5. CASE Verify(w) \/ Ping(w)
    BY <1>0, <2>5, MoveKeepsLock DEF Verify, Ping, HealthCheck, Labels, Locked
  <2>6. ASSUME NEW op \in plan, ApplyCall(w, op)
        PROVE  LockDiscipline'
    BY <1>0, <1>1, <2>6, MoveKeepsLock DEF ApplyCall, Labels, Locked
  <2>7. ASSUME NEW op \in plan, ApplyCallFails(w, op)
        PROVE  LockDiscipline'
    BY <1>0, <2>7, MoveKeepsLock DEF ApplyCallFails, Labels, Locked
  <2>8. CASE Fallback(w)
    BY <1>0, <2>8, MoveKeepsLock DEF Fallback, Labels, Locked
  <2>9. CASE Restart(w)
    BY <1>0, <2>9, MoveKeepsLock DEF Restart, Labels, Locked
  <2>10. CASE StartFails(w)
    BY <1>0, <2>10, MoveKeepsLock DEF StartFails, Labels, Locked
  <2>11. CASE WaitForHealthy(w)
    BY <1>0, <2>11, MoveKeepsLock DEF WaitForHealthy, Labels, Locked
  <2>12. CASE GiveUp(w)
    BY <1>0, <2>12, ReturnUnlocks DEF GiveUp, Locked
  <2>13. CASE ClearRuntimeStatus(w)
    BY <1>0, <2>13, ReturnUnlocks DEF ClearRuntimeStatus, Locked
  <2> QED BY <1>6, <2>1, <2>2, <2>3, <2>4, <2>5, <2>6, <2>7, <2>8, <2>9,
             <2>10, <2>11, <2>12, <2>13 DEF Reconcile
<1>7. CASE PanelCrash
  BY <1>7, RuntimeManagerAssumption DEF PanelCrash, LockDiscipline, Locked
<1>8. CASE \/ \E table \in Tables : EditInbounds(table)
           \/ \E template \in Templates : EditTemplate(template)
           \/ SetToNeedRestart \/ XrayUp \/ XrayExit \/ UNCHANGED vars
  BY <1>1, <1>8 DEF EditInbounds, EditTemplate, SetToNeedRestart, XrayUp,
     XrayExit, vars
<1> QED BY <1>2, <1>3, <1>4, <1>5, <1>6, <1>7, <1>8 DEF Next

-----------------------------------------------------------------------------
(* What the workers hold, and what Xray runs. *)

LEMMA MoveKeepsSnapshot ==
  ASSUME TypeOK, HasSnapshot, NEW w \in Workers, NEW label,
         Goto(w, label), UNCHANGED want,
         pc[w] \in Locked \cup {"rows", "acquire"}
           \/ label \notin Locked \cup {"rows", "acquire"}
  PROVE  HasSnapshot'
BY DEF TypeOK, HasSnapshot, Goto

LEMMA ReturnKeepsSnapshot ==
  ASSUME TypeOK, HasSnapshot, NEW w \in Workers, NEW ok, Return(w, ok)
  PROVE  HasSnapshot'
<1>1. /\ pc'[w] \notin Locked \cup {"rows", "acquire"}
      /\ \A x \in Workers \ {w} : pc'[x] = pc[x] /\ want'[x] = want[x]
  BY DEF TypeOK, Return, Goto, Locked
<1> QED BY <1>1 DEF HasSnapshot

LEMMA NextHasSnapshot == IInv /\ [Next]_vars => HasSnapshot'
<1> SUFFICES ASSUME IInv, [Next]_vars
             PROVE  HasSnapshot'
  OBVIOUS
<1>0. TypeOK /\ HasSnapshot
  BY DEF IInv
<1>1. CASE UNCHANGED <<pc, want>>
  BY <1>0, <1>1 DEF HasSnapshot
<1>2. ASSUME NEW w \in ApplyJobs, BeginApply(w)
      PROVE  HasSnapshot'
  BY <1>0, <1>2, MoveKeepsSnapshot DEF BeginApply, Workers, Locked
<1>3. ASSUME NEW w \in CheckJobs, BeginCheck(w) \/ CheckStep(w)
      PROVE  HasSnapshot'
  <2>1. w \in Workers
    BY DEF Workers
  <2>2. CASE BeginCheck(w)
    BY <1>0, <2>1, <2>2, MoveKeepsSnapshot DEF BeginCheck, Locked
  <2>3. CASE Probe(w)
    BY <1>0, <2>1, <2>3, MoveKeepsSnapshot, ReturnKeepsSnapshot DEF Probe, Locked
  <2>4. CASE Recover(w)
    BY <1>0, <2>1, <2>4, MoveKeepsSnapshot DEF Recover, Locked
  <2>5. CASE Reprobe(w)
    BY <1>0, <2>1, <2>5, ReturnKeepsSnapshot DEF Reprobe
  <2>6. CASE CountFailure(w)
    BY <1>0, <2>1, <2>6, MoveKeepsSnapshot DEF CountFailure, Locked
  <2> QED BY <1>3, <2>2, <2>3, <2>4, <2>5, <2>6 DEF CheckStep
<1>4. ASSUME NEW w \in {Main} \cup Admins, NEW kind, BeginRestart(w, kind)
      PROVE  HasSnapshot'
  BY <1>0, <1>4, MoveKeepsSnapshot DEF BeginRestart, Workers, Locked
<1>5. ASSUME NEW w \in {Main} \cup Admins, Stop(w)
      PROVE  HasSnapshot'
  BY <1>0, <1>5, MoveKeepsSnapshot DEF Stop, Workers, Locked
<1>6. ASSUME NEW w \in Workers, Reconcile(w)
      PROVE  HasSnapshot'
  <2>1. CASE ReadTemplate(w)
    <3>1. [template |-> db.template, inbounds |-> EmptyTable] \in Config
      BY <1>0 DEF TypeOK, Config, Table, EmptyTable
    <3>2. /\ want'[w] \in Config
          /\ \A x \in Workers \ {w} : pc'[x] = pc[x] /\ want'[x] = want[x]
      BY <1>0, <2>1, <3>1 DEF TypeOK, ReadTemplate, Goto
    <3> QED BY <1>0, <3>2 DEF HasSnapshot
  <2>2. CASE ReadInbounds(w)
    <3>1. [want[w] EXCEPT !.inbounds = db.inbounds] \in Config
      BY <1>0, <2>2 DEF TypeOK, HasSnapshot, ReadInbounds, Config
    <3>2. /\ want'[w] \in Config
          /\ \A x \in Workers \ {w} : pc'[x] = pc[x] /\ want'[x] = want[x]
      BY <1>0, <2>2, <3>1 DEF TypeOK, ReadInbounds, Goto
    <3> QED BY <1>0, <3>2 DEF HasSnapshot
  <2>3. CASE BuildFails(w) \/ GiveUp(w) \/ ClearRuntimeStatus(w)
    BY <1>0, <2>3, ReturnKeepsSnapshot DEF BuildFails, GiveUp, ClearRuntimeStatus
  <2>4. CASE Acquire(w)
    BY <1>0, <2>4, MoveKeepsSnapshot DEF Acquire
  <2>5. CASE Verify(w) \/ Ping(w)
    BY <1>0, <2>5, MoveKeepsSnapshot DEF Verify, Ping, HealthCheck, Locked
  <2>6. ASSUME NEW op \in plan, ApplyCall(w, op) \/ ApplyCallFails(w, op)
        PROVE  HasSnapshot'
    BY <1>0, <1>1, <2>6, MoveKeepsSnapshot DEF ApplyCall, ApplyCallFails, Locked
  <2>7. CASE Fallback(w) \/ Restart(w) \/ StartFails(w) \/ WaitForHealthy(w)
    BY <1>0, <2>7, MoveKeepsSnapshot DEF Fallback, Restart, StartFails,
       WaitForHealthy, Locked
  <2> QED BY <1>6, <2>1, <2>2, <2>3, <2>4, <2>5, <2>6, <2>7 DEF Reconcile
<1>7. CASE PanelCrash
  BY <1>7 DEF PanelCrash, HasSnapshot, Locked
<1>8. CASE \/ \E table \in Tables : EditInbounds(table)
           \/ \E template \in Templates : EditTemplate(template)
           \/ SetToNeedRestart \/ XrayUp \/ XrayExit \/ UNCHANGED vars
  BY <1>1, <1>8 DEF EditInbounds, EditTemplate, SetToNeedRestart, XrayUp,
     XrayExit, vars
<1> QED BY <1>2, <1>3, <1>4, <1>5, <1>6, <1>7, <1>8 DEF Next

LEMMA NextRunsSomething == IInv /\ [Next]_vars => RunsSomething'
<1> SUFFICES ASSUME IInv, [Next]_vars
             PROVE  RunsSomething'
  OBVIOUS
<1>0. HasSnapshot /\ RunsSomething
  BY DEF IInv
<1>1. CASE UNCHANGED xrayVars
  BY <1>0, <1>1 DEF RunsSomething, IsRunning
<1>2. ASSUME NEW w \in Workers, Reconcile(w)
      PROVE  RunsSomething'
  <2>1. ASSUME NEW op \in plan, ApplyCall(w, op) \/ ApplyCallFails(w, op)
        PROVE  RunsSomething'
    <3>1. TypeOK'
      BY NextTypeOK
    <3>2. /\ proc' = proc
          /\ live' = live \/ (proc = "up" /\ live' = [live EXCEPT !.inbounds =
               ApplyOperation(op, live.inbounds, want[w].inbounds)])
      BY <2>1 DEF ApplyCall, ApplyCallFails
    <3>3. CASE live' = live
      BY <1>0, <3>2, <3>3 DEF RunsSomething, IsRunning
    <3>4. CASE proc = "up" /\ live' = [live EXCEPT !.inbounds =
                 ApplyOperation(op, live.inbounds, want[w].inbounds)]
      <4>1. live \in Config
        BY <1>0, <3>4 DEF RunsSomething, IsRunning
      <4>2. live' # NoSnapshot
        <5>1. /\ plan = Plan(live.inbounds, want[w].inbounds)
              /\ want[w] \in Config
              /\ op \in Ready(plan)
          BY <1>0, <2>1, <3>4 DEF IInv, HasSnapshot, PlanTracksXray, ApplyCall,
             ApplyCallFails, IsRunning, Locked
        <5>2. ApplyOperation(op, live.inbounds, want[w].inbounds) \in Table
          BY <4>1, <5>1, ApplyTyped DEF Config
        <5>3. live' \in Config
          BY <3>4, <4>1, <5>2 DEF Config
        <5> QED BY <5>3, RuntimeManagerAssumption
      <4> QED BY <3>1, <4>2 DEF TypeOK, RunsSomething
    <3> QED BY <3>2, <3>3, <3>4
  <2>2. CASE Restart(w)
    BY <1>0, <2>2 DEF Restart, HasSnapshot, RunsSomething, Locked
  <2>3. CASE StartFails(w)
    BY <2>3 DEF StartFails, RunsSomething, IsRunning
  <2>4. CASE \/ ReadTemplate(w) \/ ReadInbounds(w) \/ BuildFails(w) \/ Acquire(w)
             \/ Verify(w) \/ Ping(w) \/ Fallback(w) \/ WaitForHealthy(w)
             \/ GiveUp(w) \/ ClearRuntimeStatus(w)
    BY <1>1, <2>4 DEF ReadTemplate, ReadInbounds, BuildFails, Acquire, Verify,
       Ping, HealthCheck, Fallback, WaitForHealthy, GiveUp, ClearRuntimeStatus
  <2> QED BY <1>2, <2>1, <2>2, <2>3, <2>4 DEF Reconcile
<1>3. CASE \E w \in {Main} \cup Admins : Stop(w)
  BY <1>0, <1>3 DEF Stop, RunsSomething, IsRunning
<1>4. CASE XrayUp \/ XrayExit \/ PanelCrash
  BY <1>0, <1>4 DEF XrayUp, XrayExit, PanelCrash, RunsSomething, IsRunning
<1>5. CASE \/ \E table \in Tables : EditInbounds(table)
           \/ \E template \in Templates : EditTemplate(template)
           \/ SetToNeedRestart \/ UNCHANGED vars
  BY <1>1, <1>5 DEF EditInbounds, EditTemplate, SetToNeedRestart, vars
<1>6. CASE \/ \E w \in ApplyJobs : BeginApply(w)
           \/ \E w \in CheckJobs : BeginCheck(w) \/ CheckStep(w)
           \/ BeginRestart(Main, "sighup")
           \/ \E w \in Admins : BeginRestart(w, "update")
  BY <1>1, <1>6 DEF BeginApply, BeginCheck, CheckStep, Probe, Recover, Reprobe,
     CountFailure, BeginRestart
<1> QED BY <1>2, <1>3, <1>4, <1>5, <1>6 DEF Next

-----------------------------------------------------------------------------
(* The snapshot, the plan and Xray. *)

SyncInv == LiveMatchesSnapshot /\ PlanTracksXray /\ Adopted

(* A step outside Sync: no worker in Sync moves, and Xray keeps what it    *)
(* has or stops.                                                           *)
LEMMA OutsideSync ==
  ASSUME IInv, UNCHANGED <<mu, snapshot, plan>>,
         \A w \in Workers :
           \/ pc'[w] = pc[w] /\ (pc[w] \in Locked => want'[w] = want[w])
           \/ pc[w] \notin Locked /\ pc'[w] \notin Locked,
         IsRunning' => IsRunning /\ live' = live
  PROVE  SyncInv'
<1>1. LiveMatchesSnapshot'
  <2> SUFFICES ASSUME IsRunning', ~InTransit'
               PROVE  LiveMatchesSnapshot'
    BY DEF LiveMatchesSnapshot
  <2>1. ~InTransit
    BY DEF InTransit, IInv, TypeOK, Locked
  <2> QED BY <2>1 DEF LiveMatchesSnapshot, IInv
<1>2. PlanTracksXray'
  BY DEF PlanTracksXray, IInv, Locked
<1>3. Adopted'
  BY DEF Adopted, IInv, Locked
<1> QED BY <1>1, <1>2, <1>3 DEF SyncInv

(* A step of the worker in Sync: only its own place in it matters. *)
LEMMA InsideSync ==
  ASSUME LockDiscipline', NEW w \in Workers, mu' = w,
         LiveMatchesSnapshot',
         pc'[w] = "ping" => /\ snapshot' \in Config
                            /\ plan' = Plan(snapshot'.inbounds, want'[w].inbounds),
         (pc'[w] = "apply" /\ IsRunning') =>
            plan' = Plan(live'.inbounds, want'[w].inbounds),
         pc'[w] \in {"verify", "wait", "clear"} =>
            /\ snapshot' \in Config
            /\ SameManagedTable(snapshot'.inbounds, want'[w].inbounds)
  PROVE  SyncInv'
<1>1. \A x \in Workers : pc'[x] \in Locked => x = w
  BY DEF LockDiscipline
<1>2. PlanTracksXray'
  BY <1>1 DEF PlanTracksXray, Locked
<1>3. Adopted'
  BY <1>1 DEF Adopted, Locked
<1> QED BY <1>2, <1>3 DEF SyncInv

LEMMA SameManagedReflexive ==
  ASSUME NEW a
  PROVE  SameManagedTable(a, a)
BY DEF SameManagedTable, SameManaged

LEMMA NextSyncInv == IInv /\ [Next]_vars => SyncInv'
<1> SUFFICES ASSUME IInv, [Next]_vars
             PROVE  SyncInv'
  OBVIOUS
<1>0. TypeOK /\ LockDiscipline /\ HasSnapshot /\ RunsSomething
        /\ LiveMatchesSnapshot /\ PlanTracksXray /\ Adopted
  BY DEF IInv
<1>1. TypeOK' /\ LockDiscipline' /\ RunsSomething'
  BY NextTypeOK, NextLockDiscipline, NextRunsSomething
<1>2. CASE UNCHANGED <<pc, want, mu, snapshot, plan>>
           /\ (IsRunning' => IsRunning /\ live' = live)
  BY <1>2, OutsideSync
<1>3. ASSUME NEW w \in ApplyJobs, BeginApply(w)
      PROVE  SyncInv'
  BY <1>0, <1>3, OutsideSync DEF BeginApply, TypeOK, Goto, Locked, IsRunning, Workers
<1>4. ASSUME NEW w \in CheckJobs, BeginCheck(w) \/ CheckStep(w)
      PROVE  SyncInv'
  <2>1. w \in Workers
    BY DEF Workers
  <2>2. pc[w] \notin Locked /\ pc'[w] \notin Locked
        /\ \A x \in Workers \ {w} : pc'[x] = pc[x] /\ want'[x] = want[x]
    BY <1>0, <1>4, <2>1 DEF BeginCheck, CheckStep, Probe, Recover, Reprobe,
       CountFailure, Return, Goto, TypeOK, Locked
  <2>3. UNCHANGED <<mu, snapshot, plan, proc, live>>
    BY <1>4 DEF BeginCheck, CheckStep, Probe, Recover, Reprobe, CountFailure
  <2> QED BY <2>2, <2>3, OutsideSync DEF IsRunning
<1>5. ASSUME NEW w \in {Main} \cup Admins, NEW kind, BeginRestart(w, kind)
      PROVE  SyncInv'
  BY <1>0, <1>5, OutsideSync DEF BeginRestart, TypeOK, Goto, Locked, IsRunning, Workers
<1>6. ASSUME NEW w \in {Main} \cup Admins, Stop(w)
      PROVE  SyncInv'
  BY <1>0, <1>6, OutsideSync DEF Stop, TypeOK, Goto, Locked, IsRunning, Workers
<1>7. ASSUME NEW w \in Workers, Reconcile(w)
      PROVE  SyncInv'
  <2>1. CASE ReadTemplate(w) \/ ReadInbounds(w) \/ BuildFails(w)
    <3>1. pc[w] \notin Locked /\ pc'[w] \notin Locked
          /\ \A x \in Workers \ {w} : pc'[x] = pc[x] /\ want'[x] = want[x]
      BY <1>0, <2>1 DEF ReadTemplate, ReadInbounds, BuildFails, Return, Goto,
         TypeOK, Locked
    <3>2. UNCHANGED <<mu, snapshot, plan, proc, live>>
      BY <2>1 DEF ReadTemplate, ReadInbounds, BuildFails
    <3> QED BY <3>1, <3>2, OutsideSync DEF IsRunning
  <2>2. CASE Acquire(w)
    <3>1. mu = NoWorker /\ mu' = w /\ want[w] \in Config
          /\ UNCHANGED <<want, snapshot, proc, live>>
      BY <1>0, <2>2 DEF Acquire, HasSnapshot
    <3>2. ~InTransit
      BY <3>1 DEF InTransit
    <3>3. LiveMatchesSnapshot'
      BY <1>0, <3>1, <3>2 DEF LiveMatchesSnapshot, IsRunning
    <3>4. CASE pc'[w] = "restart"
      BY <1>1, <3>1, <3>3, <3>4, InsideSync
    <3>5. CASE Goto(w, "verify") /\ snapshot = want[w]
      <4>1. pc'[w] = "verify"
        BY <1>0, <3>5 DEF TypeOK, Goto
      <4> QED BY <1>1, <3>1, <3>3, <3>5, <4>1, InsideSync, SameManagedReflexive
    <3>6. CASE /\ snapshot # NoSnapshot
               /\ plan' = Plan(snapshot.inbounds, want[w].inbounds)
               /\ Goto(w, IF plan' = {} THEN "clear" ELSE "ping")
      <4>1. /\ snapshot \in Config
            /\ snapshot.inbounds \in Table /\ want[w].inbounds \in Table
        BY <1>0, <3>1, <3>6 DEF TypeOK, Config
      <4>2. CASE plan' = {}
        <5>1. pc'[w] = "clear"
          BY <1>0, <3>6, <4>2 DEF TypeOK, Goto
        <5>2. SameManagedTable(snapshot.inbounds, want[w].inbounds)
          BY <3>6, <4>1, <4>2, EmptyPlan
        <5> QED BY <1>1, <3>1, <3>3, <4>1, <5>1, <5>2, InsideSync
      <4>3. CASE plan' # {}
        <5>1. pc'[w] = "ping"
          BY <1>0, <3>6, <4>3 DEF TypeOK, Goto
        <5> QED BY <1>1, <3>1, <3>3, <3>6, <4>1, <5>1, InsideSync
      <4> QED BY <4>2, <4>3
    <3> QED BY <1>0, <2>2, <3>4, <3>5, <3>6 DEF Acquire, TypeOK, Goto
  <2>3. ASSUME pc[w] \in Locked
        PROVE  mu = w
    BY <1>0, <2>3 DEF LockDiscipline
  <2>4. CASE Verify(w)
    <3>1. mu' = w /\ mu = w /\ UNCHANGED <<want, snapshot, proc, live>>
          /\ pc[w] = "verify" /\ (pc'[w] = "clear" \/ pc'[w] = "fallback")
      BY <1>0, <2>3, <2>4 DEF Verify, HealthCheck, TypeOK, Goto, Locked
    <3>2. LiveMatchesSnapshot'
      BY <1>0, <3>1 DEF LiveMatchesSnapshot, InTransit, IsRunning
    <3> QED BY <1>0, <1>1, <3>1, <3>2, InsideSync DEF Adopted
  <2>5. CASE Ping(w)
    <3>1. mu' = w /\ mu = w /\ UNCHANGED <<want, snapshot, proc, live>>
          /\ pc[w] = "ping"
          /\ \/ pc'[w] = "apply" /\ plan' = plan /\ proc = "up"
             \/ pc'[w] = "fallback"
      BY <1>0, <2>3, <2>5 DEF Ping, HealthCheck, TypeOK, Goto, Locked
    <3>2. LiveMatchesSnapshot'
      BY <1>0, <3>1 DEF LiveMatchesSnapshot, InTransit, IsRunning
    <3>3. CASE pc'[w] = "apply" /\ plan' = plan /\ proc = "up"
      <4>1. SameManagedTable(live.inbounds, snapshot.inbounds)
        BY <1>0, <3>1, <3>3 DEF LiveMatchesSnapshot, InTransit, IsRunning
      <4>2. plan = Plan(snapshot.inbounds, want[w].inbounds)
        BY <1>0, <3>1 DEF PlanTracksXray
      <4>3. plan = Plan(live.inbounds, want[w].inbounds)
        BY <4>1, <4>2, PlanOfSameManaged
      <4> QED BY <1>1, <3>1, <3>2, <3>3, <4>3, InsideSync
    <3>4. CASE pc'[w] = "fallback"
      BY <1>1, <3>1, <3>2, <3>4, InsideSync
    <3> QED BY <3>1, <3>3, <3>4
  <2>6. ASSUME NEW op \in plan, ApplyCall(w, op)
        PROVE  SyncInv'
    <3>1. mu' = w /\ mu = w /\ pc[w] = "apply" /\ proc' = proc /\ IsRunning
          /\ want' = want
      BY <1>0, <2>3, <2>6 DEF ApplyCall, Locked, IsRunning
    <3>2. /\ live \in Config /\ want[w] \in Config
          /\ live.inbounds \in Table /\ want[w].inbounds \in Table
      BY <1>0, <3>1 DEF RunsSomething, HasSnapshot, Config, Locked
    <3>3. plan = Plan(live.inbounds, want[w].inbounds)
      BY <1>0, <3>1 DEF PlanTracksXray
    <3>4. /\ op \in Ready(Plan(live.inbounds, want[w].inbounds))
          /\ live'.inbounds = ApplyOperation(op, live.inbounds, want[w].inbounds)
          /\ plan' = Remaining(op, plan)
      BY <2>6, <3>2, <3>3 DEF ApplyCall, Config
    <3>5. plan' = Plan(live'.inbounds, want[w].inbounds) /\ live'.inbounds \in Table
      BY <3>2, <3>3, <3>4, RemainingIsPlan, ApplyTyped
    <3>6. CASE plan' = {}
      <4>1. pc'[w] = "clear" /\ snapshot' = want[w]
        BY <1>0, <2>6, <3>6 DEF ApplyCall, TypeOK, Goto
      <4>2. SameManagedTable(live'.inbounds, snapshot'.inbounds)
        BY <3>2, <3>5, <3>6, <4>1, EmptyPlan
      <4>3. LiveMatchesSnapshot'
        BY <3>2, <4>1, <4>2, RuntimeManagerAssumption DEF LiveMatchesSnapshot
      <4> QED BY <1>1, <3>1, <3>2, <4>1, <4>3, InsideSync, SameManagedReflexive
    <3>7. CASE plan' # {}
      <4>1. pc'[w] = "apply" /\ snapshot' = snapshot
        BY <2>6, <3>1, <3>7 DEF ApplyCall
      <4>2. InTransit'
        BY <3>1, <4>1, RuntimeManagerAssumption DEF InTransit
      <4>3. LiveMatchesSnapshot'
        BY <4>2 DEF LiveMatchesSnapshot
      <4> QED BY <1>1, <3>1, <3>5, <4>1, <4>3, InsideSync
    <3> QED BY <3>6, <3>7
  <2>7. ASSUME mu' = w, pc'[w] \in {"fallback", "restart"}
        PROVE  SyncInv'
    <3>1. LiveMatchesSnapshot'
      BY <2>7, RuntimeManagerAssumption DEF LiveMatchesSnapshot, InTransit
    <3> QED BY <1>1, <2>7, <3>1, InsideSync
  <2>8. ASSUME NEW op \in plan, ApplyCallFails(w, op)
        PROVE  SyncInv'
    BY <1>0, <2>3, <2>7, <2>8 DEF ApplyCallFails, TypeOK, Goto, Locked
  <2>9. CASE Fallback(w)
    BY <1>0, <2>3, <2>7, <2>9 DEF Fallback, TypeOK, Goto, Locked
  <2>10. CASE Restart(w)
    <3>1. /\ mu' = w /\ pc'[w] = "wait" /\ want' = want
          /\ live' = want[w] /\ snapshot' = want[w] /\ want[w] \in Config
      BY <1>0, <2>3, <2>10 DEF Restart, TypeOK, Goto, HasSnapshot, Locked
    <3>2. LiveMatchesSnapshot'
      BY <3>1, SameManagedReflexive, RuntimeManagerAssumption DEF LiveMatchesSnapshot
    <3> QED BY <1>1, <3>1, <3>2, InsideSync, SameManagedReflexive
  <2>11. CASE StartFails(w)
    <3>1. mu' = w /\ pc'[w] = "giveup" /\ proc' = "none"
      BY <1>0, <2>3, <2>11 DEF StartFails, TypeOK, Goto, Locked
    <3>2. LiveMatchesSnapshot'
      BY <3>1 DEF LiveMatchesSnapshot, IsRunning
    <3> QED BY <1>1, <3>1, <3>2, InsideSync
  <2>12. CASE WaitForHealthy(w)
    <3>1. mu' = w /\ mu = w /\ UNCHANGED <<want, snapshot, proc, live>>
          /\ pc[w] = "wait" /\ (pc'[w] = "clear" \/ pc'[w] = "giveup")
      BY <1>0, <2>3, <2>12 DEF WaitForHealthy, TypeOK, Goto, Locked
    <3>2. LiveMatchesSnapshot'
      BY <1>0, <3>1 DEF LiveMatchesSnapshot, InTransit, IsRunning
    <3> QED BY <1>0, <1>1, <3>1, <3>2, InsideSync DEF Adopted
  <2>13. CASE GiveUp(w) \/ ClearRuntimeStatus(w)
    <3>1. mu = w /\ mu' = NoWorker /\ UNCHANGED <<snapshot, proc, live>>
          /\ pc[w] \in {"giveup", "clear"}
      BY <2>3, <2>13 DEF GiveUp, ClearRuntimeStatus, Locked
    <3>2. \A x \in Workers : pc'[x] \notin Locked
      BY <1>1, <3>1, RuntimeManagerAssumption DEF LockDiscipline
    <3>3. LiveMatchesSnapshot'
      BY <1>0, <3>1 DEF LiveMatchesSnapshot, InTransit, IsRunning
    <3> QED BY <3>2, <3>3 DEF SyncInv, PlanTracksXray, Adopted, Locked
  <2> QED BY <1>7, <2>1, <2>2, <2>4, <2>5, <2>6, <2>8, <2>9, <2>10, <2>11,
             <2>12, <2>13 DEF Reconcile
<1>8. CASE XrayUp \/ XrayExit
  BY <1>2, <1>8 DEF XrayUp, XrayExit, IsRunning
<1>9. CASE PanelCrash
  BY <1>9 DEF PanelCrash, SyncInv, LiveMatchesSnapshot, PlanTracksXray,
     Adopted, IsRunning
<1>10. CASE \/ \E table \in Tables : EditInbounds(table)
            \/ \E template \in Templates : EditTemplate(template)
            \/ SetToNeedRestart \/ UNCHANGED vars
  BY <1>2, <1>10 DEF EditInbounds, EditTemplate, SetToNeedRestart, vars,
     IsRunning
<1> QED BY <1>3, <1>4, <1>5, <1>6, <1>7, <1>8, <1>9, <1>10 DEF Next

-----------------------------------------------------------------------------
LEMMA InitInv == Init => IInv
<1> SUFFICES ASSUME Init
             PROVE  IInv
  OBVIOUS
<1>1. TypeOK
  <2>1. db \in Config
    BY RuntimeManagerAssumption DEF Init, Config
  <2>2. pc \in [Workers -> Labels] /\ want \in [Workers -> Config \cup {NoSnapshot}]
    BY DEF Init, Labels
  <2>3. edits \in 0..MaxEdits /\ disturbed \in 0..MaxDisturbances /\ checkTime \in 0..2
    BY RuntimeManagerAssumption DEF Init
  <2> QED BY <2>1, <2>2, <2>3 DEF Init, TypeOK, ProcStates
<1>2. \A w \in Workers : pc[w] \in {"template", "idle"}
  BY DEF Init
<1>3. LockDiscipline
  BY <1>2, RuntimeManagerAssumption DEF Init, LockDiscipline, Locked
<1>4. HasSnapshot /\ PlanTracksXray /\ Adopted
  BY <1>2 DEF HasSnapshot, PlanTracksXray, Adopted, Locked
<1>5. RunsSomething /\ LiveMatchesSnapshot
  BY DEF Init, RunsSomething, LiveMatchesSnapshot, IsRunning
<1> QED BY <1>1, <1>3, <1>4, <1>5 DEF IInv

LEMMA NextInv == IInv /\ [Next]_vars => IInv'
BY NextTypeOK, NextLockDiscipline, NextHasSnapshot, NextRunsSomething,
   NextSyncInv DEF IInv, SyncInv

LEMMA Invariance == Spec => []IInv
BY InitInv, NextInv, PTL DEF Spec

(* Types. *)
THEOREM ManagerTypeOK == Spec => []TypeOK
<1>1. IInv => TypeOK
  BY DEF IInv
<1> QED BY <1>1, Invariance, PTL

(* A worker is inside Sync exactly while it holds Manager.mu: two syncs    *)
(* never interleave, whatever fails and however many jobs overlap.         *)
THEOREM SyncsExclude == Spec => []LockDiscipline
<1>1. IInv => LockDiscipline
  BY DEF IInv
<1> QED BY <1>1, Invariance, PTL

(* Outside a sync in progress, Manager.snapshot describes what the running *)
(* Xray has, as far as the planner can see.                                *)
THEOREM SnapshotIsTruthful == Spec => []LiveMatchesSnapshot
<1>1. IInv => LiveMatchesSnapshot
  BY DEF IInv
<1> QED BY <1>1, Invariance, PTL

(* A running Xray accepts every call of Client.Apply. *)
THEOREM PlansAreAcceptable == Spec => []PlanIsAcceptable
<1>1. ASSUME IInv
      PROVE  PlanIsAcceptable
  <2> SUFFICES ASSUME NEW w \in Workers, pc[w] = "apply", IsRunning,
                      NEW op \in Ready(plan)
               PROVE  Accepts(op, live.inbounds)
    BY DEF PlanIsAcceptable
  <2>1. /\ live.inbounds \in Table /\ want[w].inbounds \in Table
        /\ plan = Plan(live.inbounds, want[w].inbounds)
    BY <1>1 DEF IInv, RunsSomething, HasSnapshot, PlanTracksXray, Config, Locked
  <2> QED BY <2>1, ReadyAccepted
<1> QED BY <1>1, Invariance, PTL

(* A step of a worker moves nobody else. *)
LEMMA OthersStay ==
  ASSUME TypeOK, NEW w \in Workers, NEW x \in Workers, x # w,
         \/ \E label : Goto(w, label)
         \/ \E ok : Return(w, ok)
         \/ UNCHANGED pc
  PROVE  pc'[x] = pc[x]
BY DEF TypeOK, Goto, Return

(* When Sync returns with runtimeDirty reset, the manager is on the        *)
(* desired inbounds, unless the write of runtimeDirty itself failed.       *)
THEOREM CleanSyncIsOnDesired == Spec => CleanSyncHasDesired
<1>1. ASSUME IInv, Next
      PROVE  \A w \in Workers : EndsClean(w) => AdoptedDesired(w)
  <2> SUFFICES ASSUME NEW w \in Workers, EndsClean(w)
               PROVE  AdoptedDesired(w)
    OBVIOUS
  <2> USE DEF EndsClean, AdoptedDesired
  <2>0. TypeOK /\ Adopted /\ mu = w
    BY <1>1 DEF IInv, LockDiscipline
  <2>1. pc'[w] # pc[w]
    BY DEF Locked
  <2>2. \A kind : ~Disturb(kind)
    BY <2>0 DEF Disturb, TypeOK
  <2>3. CASE ClearRuntimeStatus(w)
    BY <2>0, <2>3, RuntimeManagerAssumption DEF ClearRuntimeStatus, Adopted
  <2>4. CASE GiveUp(w)
    BY <2>2, <2>4 DEF GiveUp, MarkRuntimeIssue
  <2>5. CASE PanelCrash
    BY <2>2, <2>5 DEF PanelCrash
  <2>6. ASSUME NEW x \in Workers, pc[x] \notin Locked,
               \/ \E label : Goto(x, label)
               \/ \E ok : Return(x, ok)
        PROVE  FALSE
    BY <2>0, <2>1, <2>6, OthersStay
  <2>7. ASSUME NEW x \in Workers, NEW label \in Locked, Goto(x, label)
        PROVE  FALSE
    <3>1. CASE x = w
      BY <2>0, <2>7, <3>1 DEF TypeOK, Goto, Locked
    <3>2. CASE x # w
      BY <2>0, <2>1, <2>7, <3>2, OthersStay
    <3> QED BY <3>1, <3>2
  <2>8. CASE \E x \in ApplyJobs : BeginApply(x)
    BY <2>6, <2>8 DEF BeginApply, Workers, Locked
  <2>9. ASSUME NEW x \in CheckJobs, BeginCheck(x) \/ CheckStep(x)
        PROVE  FALSE
    BY <2>6, <2>9 DEF BeginCheck, CheckStep, Probe, Recover, Reprobe,
       CountFailure, Workers, Locked
  <2>10. CASE \/ BeginRestart(Main, "sighup")
              \/ \E x \in Admins : BeginRestart(x, "update")
              \/ \E x \in {Main} \cup Admins : Stop(x)
    BY <2>6, <2>10 DEF BeginRestart, Stop, Workers, Locked
  <2>11. ASSUME NEW x \in Workers, Reconcile(x)
         PROVE  AdoptedDesired(w)
    <3>1. CASE x = w
      <4>1. CASE ReadTemplate(w) \/ ReadInbounds(w) \/ BuildFails(w) \/ Acquire(w)
        BY <2>0, <4>1 DEF ReadTemplate, ReadInbounds, BuildFails, Acquire, Locked
      <4>2. CASE Verify(w) \/ Ping(w)
        BY <4>2, <2>7 DEF Verify, Ping, HealthCheck, Locked
      <4>3. ASSUME NEW op \in plan, ApplyCall(w, op) \/ ApplyCallFails(w, op)
            PROVE  FALSE
        BY <4>3, <2>1, <2>7 DEF ApplyCall, ApplyCallFails, Locked
      <4>4. CASE Fallback(w) \/ Restart(w) \/ StartFails(w) \/ WaitForHealthy(w)
        BY <4>4, <2>7 DEF Fallback, Restart, StartFails, WaitForHealthy, Locked
      <4> QED BY <2>3, <2>4, <2>11, <3>1, <4>1, <4>2, <4>3, <4>4 DEF Reconcile
    <3>2. CASE x # w
      <4>1. pc[x] \notin Locked
        BY <1>1, <2>0, <3>2 DEF IInv, LockDiscipline
      <4>2. ReadTemplate(x) \/ ReadInbounds(x) \/ BuildFails(x) \/ Acquire(x)
        BY <2>11, <4>1 DEF Reconcile, Verify, Ping, HealthCheck, ApplyCall,
           ApplyCallFails, Fallback, Restart, StartFails, WaitForHealthy, GiveUp,
           ClearRuntimeStatus, Locked
      <4> QED BY <2>6, <4>1, <4>2 DEF ReadTemplate, ReadInbounds, BuildFails, Acquire
    <3> QED BY <3>1, <3>2
  <2>12. CASE UNCHANGED pc
    BY <2>1, <2>12
  <2>13. CASE \/ \E table \in Tables : EditInbounds(table)
              \/ \E template \in Templates : EditTemplate(template)
              \/ SetToNeedRestart \/ XrayUp \/ XrayExit
    BY <2>12, <2>13 DEF EditInbounds, EditTemplate, SetToNeedRestart, XrayUp,
       XrayExit
  <2> QED BY <1>1, <2>5, <2>8, <2>9, <2>10, <2>11, <2>13 DEF Next
<1>2. IInv /\ [Next]_vars => [\A w \in Workers : EndsClean(w) => AdoptedDesired(w)]_vars
  BY <1>1
<1> QED BY <1>2, Invariance, PTL DEF Spec, CleanSyncHasDesired
-----------------------------------------------------------------------------
(* The refinement of SyncPromise: what each step looks like from outside. *)

LEMMA ManagedOfSame ==
  ASSUME NEW a, NEW b, SameManagedTable(a, b)
  PROVE  Managed(a) = Managed(b)
BY DEF SameManagedTable, SameManaged, Managed

LEMMA ManagedTyped ==
  ASSUME NEW table \in Table
  PROVE  Managed(table) \in ManagedTable
BY DEF Table, Inbound, Managed, ManagedTable, Comparable, Users

LEMMA HeldStays ==
  ASSUME \A x \in Workers :
           /\ pc'[x] \in Carrying <=> pc[x] \in Carrying
           /\ pc[x] \in Carrying => want'[x] = want[x]
  PROVE  Held' = Held
BY DEF Held

(* A step outside Sync. *)
LEMMA OutsideLooksSame ==
  ASSUME IInv, UNCHANGED <<mu, live>>, IsRunning' <=> IsRunning,
         \A x \in Workers :
           \/ pc'[x] = pc[x]
           \/ pc[x] \notin Locked /\ pc'[x] \notin Locked
  PROVE  Changing' = Changing /\ Serves' = Serves
<1>1. mu # NoWorker => mu \in Workers /\ pc[mu] \in Locked
  BY DEF IInv, TypeOK, LockDiscipline
<1>2. InTransit' <=> InTransit
  BY <1>1 DEF InTransit
<1> QED BY <1>2 DEF Changing, Serves

LEMMA LooksSame ==
  ASSUME Held' = Held, Changing' = Changing, Serves' = Serves,
         db'.inbounds = db.inbounds
  PROVE  /\ dirty' = dirty => UNCHANGED Promise!vars
         /\ dirty' = TRUE => Promise!Record
BY DEF Promise!vars, Promise!Record

(* A worker that carries nothing, before and after, is not seen.           *)
LEMMA UnseenMove ==
  ASSUME IInv, NEW w \in Workers, pc[w] \notin Carrying, pc'[w] \notin Carrying,
         \A x \in Workers \ {w} : pc'[x] = pc[x] /\ want'[x] = want[x],
         UNCHANGED <<dirty, mu, live>>, db'.inbounds = db.inbounds,
         IsRunning' <=> IsRunning
  PROVE  UNCHANGED Promise!vars
<1>1. Held' = Held
  BY HeldStays
<1>2. Changing' = Changing /\ Serves' = Serves
  BY OutsideLooksSame DEF Carrying
<1> QED BY <1>1, <1>2, LooksSame

(* A step of the worker in Sync that keeps it there.                       *)
LEMMA SeenInSync ==
  ASSUME IInv, NEW w \in Workers, mu = w, mu' = w, pc'[w] \in Locked,
         \A x \in Workers \ {w} : pc'[x] = pc[x],
         UNCHANGED <<want, db>>
  PROVE  /\ Held' = Held /\ Held[w] = {Managed(want[w].inbounds)}
         /\ InTransit <=> pc[w] \in {"apply", "fallback", "restart"}
         /\ InTransit' <=> pc'[w] \in {"apply", "fallback", "restart"}
<1>1. pc[w] \in Locked
  BY DEF IInv, LockDiscipline
<1>2. Held' = Held
  BY <1>1, HeldStays DEF Carrying
<1>3. Held[w] = {Managed(want[w].inbounds)}
  BY <1>1 DEF Held, Carrying
<1> QED BY <1>2, <1>3, RuntimeManagerAssumption DEF InTransit

LEMMA SeenBegin ==
  ASSUME NEW w \in Workers, Held' = Held, Held[w] # {}, ~InTransit, InTransit',
         mu' = w, UNCHANGED <<db, dirty>>
  PROVE  Promise!Begin(w)
BY DEF Promise!Begin, Changing, Serves

LEMMA SeenEnd ==
  ASSUME NEW w \in Workers, Held' = Held, InTransit, ~InTransit', mu = w,
         UNCHANGED <<db, dirty>>,
         IsRunning' => {Managed(live'.inbounds)} = Held[w]
  PROVE  Promise!End(w)
<1>1. Changing = {w} /\ Changing' = {}
  BY DEF Changing
<1>2. Serves' \in {Held[w], {}}
  BY DEF Serves
<1> QED BY <1>1, <1>2 DEF Promise!End

(* A sync ends: nobody changes Xray, and the worker carries nothing more. *)
LEMMA SeenFinish ==
  ASSUME IInv, NEW w \in Workers, GiveUp(w) \/ ClearRuntimeStatus(w)
  PROVE  Promise!Finish(w)
<1>0. TypeOK /\ LockDiscipline /\ HasSnapshot /\ LiveMatchesSnapshot /\ Adopted
  BY DEF IInv
<1>1. /\ pc[w] \in {"giveup", "clear"} /\ mu = w /\ mu' = NoWorker
      /\ UNCHANGED <<db, proc, live>>
      /\ \E ok : Return(w, ok)
  BY <1>0 DEF GiveUp, ClearRuntimeStatus, LockDiscipline, Locked
<1>2. ~InTransit /\ ~InTransit'
  BY <1>1 DEF InTransit
<1>3. Changing = {} /\ Changing' = {} /\ Serves' = Serves
  BY <1>1, <1>2 DEF Changing, Serves, IsRunning
<1>4. pc[w] \in Carrying /\ pc'[w] \notin Carrying
  BY <1>0, <1>1 DEF Return, Goto, TypeOK, Carrying, Locked
<1>5. Held[w] = {Managed(want[w].inbounds)}
  BY <1>4 DEF Held
<1>6. Held' = [Held EXCEPT ![w] = {}]
  <2>1. \A x \in Workers \ {w} : pc'[x] = pc[x] /\ want'[x] = want[x]
    BY <1>0, <1>1 DEF Return, Goto, TypeOK
  <2> QED BY <1>4, <2>1 DEF Held
<1>7. \/ dirty' \in {dirty, TRUE}
      \/ dirty' = FALSE /\ Serves \subseteq Held[w]
  <2>1. CASE GiveUp(w)
    BY <2>1 DEF GiveUp, MarkRuntimeIssue
  <2>2. CASE ClearRuntimeStatus(w)
    <3>1. SameManagedTable(snapshot.inbounds, want[w].inbounds)
      BY <1>0, <2>2 DEF Adopted, ClearRuntimeStatus
    <3>2. ASSUME IsRunning
          PROVE  Managed(live.inbounds) = Managed(want[w].inbounds)
      BY <1>0, <1>2, <3>1, <3>2, ManagedOfSame DEF LiveMatchesSnapshot
    <3>3. Serves \subseteq Held[w]
      BY <1>5, <3>2 DEF Serves
    <3> QED BY <2>2, <3>3 DEF ClearRuntimeStatus
  <2> QED BY <2>1, <2>2
<1>8. Managed(db'.inbounds) = Managed(db.inbounds)
  BY <1>1
<1> QED BY <1>3, <1>5, <1>6, <1>7, <1>8 DEF Promise!Finish

LEMMA SeenRead ==
  ASSUME IInv, NEW w \in Workers, ReadInbounds(w)
  PROVE  Promise!Read(w)
<1>0. TypeOK /\ HasSnapshot
  BY DEF IInv
<1>1. /\ pc[w] = "rows" /\ pc'[w] = "acquire" /\ want'[w].inbounds = db.inbounds
      /\ \A x \in Workers \ {w} : pc'[x] = pc[x] /\ want'[x] = want[x]
      /\ UNCHANGED <<db, dirty, mu, proc, live>>
  BY <1>0 DEF ReadInbounds, Goto, TypeOK, HasSnapshot, Config
<1>2. Held' = [Held EXCEPT ![w] = {Managed(db.inbounds)}]
  BY <1>1 DEF Held, Carrying
<1>3. Changing' = Changing /\ Serves' = Serves
  BY <1>1, OutsideLooksSame DEF IsRunning, Locked
<1> QED BY <1>1, <1>2, <1>3 DEF Promise!Read

(* The mutex is taken; with a restart ahead, a change of Xray begins.      *)
LEMMA SeenAcquire ==
  ASSUME IInv, NEW w \in Workers, Acquire(w)
  PROVE  UNCHANGED Promise!vars \/ Promise!Begin(w)
<1>0. TypeOK
  BY DEF IInv
<1>1. /\ pc[w] = "acquire" /\ mu = NoWorker /\ mu' = w
      /\ pc'[w] \in {"restart", "verify", "clear", "ping"}
      /\ \A x \in Workers \ {w} : pc'[x] = pc[x]
      /\ UNCHANGED <<want, db, dirty, proc, live>>
  BY <1>0 DEF Acquire, Goto, TypeOK
<1>2. Held' = Held /\ Held[w] # {}
  <2>1. Held' = Held
    BY <1>1, HeldStays DEF Carrying, Locked
  <2>2. Held[w] # {}
    BY <1>1 DEF Held, Carrying
  <2> QED BY <2>1, <2>2
<1>3. ~InTransit /\ (InTransit' <=> pc'[w] = "restart")
  BY <1>1, RuntimeManagerAssumption DEF InTransit
<1>4. CASE pc'[w] = "restart"
  BY <1>1, <1>2, <1>3, <1>4, SeenBegin
<1>5. CASE pc'[w] # "restart"
  <2>1. Changing' = Changing /\ Serves' = Serves
    BY <1>1, <1>3, <1>5 DEF Changing, Serves, IsRunning
  <2> QED BY <1>1, <1>2, <2>1, LooksSame
<1> QED BY <1>4, <1>5

(* A call of the plan: only the last one is seen, as the end of a change. *)
LEMMA SeenCall ==
  ASSUME IInv, NEW w \in Workers, NEW op \in plan, ApplyCall(w, op)
  PROVE  UNCHANGED Promise!vars \/ Promise!End(w)
<1>0. TypeOK /\ LockDiscipline /\ HasSnapshot /\ RunsSomething /\ PlanTracksXray
  BY DEF IInv
<1>1. /\ mu = w /\ mu' = w /\ pc[w] = "apply" /\ IsRunning /\ proc' = proc
      /\ UNCHANGED <<want, db, dirty>>
  BY <1>0 DEF ApplyCall, LockDiscipline, Locked, IsRunning
<1>2. /\ pc'[w] = IF plan' = {} THEN "clear" ELSE "apply"
      /\ \A x \in Workers \ {w} : pc'[x] = pc[x]
  BY <1>0, <1>1 DEF ApplyCall, Goto, TypeOK
<1>3. /\ Held' = Held /\ Held[w] = {Managed(want[w].inbounds)}
      /\ InTransit /\ (InTransit' <=> plan' # {})
  BY <1>1, <1>2, SeenInSync DEF Locked
<1>4. CASE plan' # {}
  <2>1. Changing' = Changing /\ Serves' = Serves
    BY <1>1, <1>3, <1>4 DEF Changing, Serves
  <2> QED BY <1>1, <1>3, <2>1, LooksSame
<1>5. CASE plan' = {}
  <2>1. /\ live \in Config /\ live.inbounds \in Table /\ want[w].inbounds \in Table
    BY <1>0, <1>1 DEF RunsSomething, HasSnapshot, Config, Locked
  <2>2. plan = Plan(live.inbounds, want[w].inbounds)
    BY <1>0, <1>1 DEF PlanTracksXray
  <2>3. /\ op \in Ready(Plan(live.inbounds, want[w].inbounds))
        /\ live'.inbounds = ApplyOperation(op, live.inbounds, want[w].inbounds)
        /\ plan' = Remaining(op, plan)
    BY <2>1, <2>2 DEF ApplyCall, Config
  <2>4. plan' = Plan(live'.inbounds, want[w].inbounds) /\ live'.inbounds \in Table
    BY <2>1, <2>2, <2>3, RemainingIsPlan, ApplyTyped
  <2>5. Managed(live'.inbounds) = Managed(want[w].inbounds)
    BY <1>5, <2>1, <2>4, EmptyPlan, ManagedOfSame
  <2> QED BY <1>1, <1>3, <1>5, <2>5, SeenEnd
<1> QED BY <1>4, <1>5

(* The other steps inside Sync: a change begins where the worker leaves    *)
(* the health check for the plan or the fallback, and ends with the new    *)
(* process or with none.                                                   *)
LEMMA SeenInside ==
  ASSUME IInv, NEW w \in Workers,
         \/ Verify(w) \/ Ping(w) \/ Fallback(w) \/ Restart(w) \/ StartFails(w)
         \/ WaitForHealthy(w) \/ \E op \in plan : ApplyCallFails(w, op)
  PROVE  UNCHANGED Promise!vars \/ [Promise!Next]_(Promise!vars)
<1>0. TypeOK /\ LockDiscipline /\ HasSnapshot
  BY DEF IInv
<1>1. /\ pc[w] \in Locked /\ pc'[w] \in Locked /\ mu' = mu
      /\ \A x \in Workers \ {w} : pc'[x] = pc[x]
      /\ UNCHANGED <<want, db>>
  BY <1>0 DEF Verify, Ping, HealthCheck, Fallback, Restart, StartFails,
     WaitForHealthy, ApplyCallFails, Goto, TypeOK, Locked
<1>2. mu = w
  BY <1>0, <1>1 DEF LockDiscipline
<1>3. /\ Held' = Held /\ Held[w] = {Managed(want[w].inbounds)}
      /\ InTransit <=> pc[w] \in {"apply", "fallback", "restart"}
      /\ InTransit' <=> pc'[w] \in {"apply", "fallback", "restart"}
  BY <1>1, <1>2, SeenInSync
<1>4. CASE Verify(w) \/ Ping(w)
  <2>1. /\ pc[w] \in {"verify", "ping"}
        /\ pc'[w] \in {"clear", "apply", "fallback"}
        /\ UNCHANGED <<dirty, proc, live>>
    BY <1>0, <1>4 DEF Verify, Ping, HealthCheck, Goto, TypeOK
  <2>2. CASE InTransit'
    <3>1. Promise!Begin(w)
      BY <1>1, <1>2, <1>3, <2>1, <2>2, SeenBegin
    <3> QED BY <3>1 DEF Promise!Next
  <2>3. CASE ~InTransit'
    <3>1. Changing' = Changing /\ Serves' = Serves
      BY <1>3, <2>1, <2>3 DEF Changing, Serves, IsRunning
    <3> QED BY <1>1, <1>3, <2>1, <3>1, LooksSame
  <2> QED BY <2>2, <2>3
<1>5. CASE Fallback(w) \/ \E op \in plan : ApplyCallFails(w, op)
  <2>1. InTransit /\ InTransit'
    BY <1>0, <1>3, <1>5 DEF Fallback, ApplyCallFails, Goto, TypeOK
  <2>2. Changing' = Changing /\ Serves' = Serves
    BY <1>1, <2>1 DEF Changing, Serves
  <2>3. dirty' = dirty \/ dirty' = TRUE
    BY <1>5 DEF Fallback, MarkRuntimeIssue, ApplyCallFails
  <2>4. UNCHANGED Promise!vars \/ Promise!Record
    BY <1>1, <1>3, <2>2, <2>3, LooksSame
  <2> QED BY <2>4 DEF Promise!Next
<1>6. CASE Restart(w) \/ StartFails(w)
  <2>1. /\ pc[w] = "restart" /\ pc'[w] \in {"wait", "giveup"} /\ dirty' = dirty
        /\ live' = want[w] \/ proc' = "none"
    BY <1>0, <1>6 DEF Restart, StartFails, Goto, TypeOK
  <2>2. IsRunning' => {Managed(live'.inbounds)} = Held[w]
    BY <1>3, <2>1 DEF IsRunning
  <2>3. Promise!End(w)
    BY <1>1, <1>2, <1>3, <2>1, <2>2, SeenEnd
  <2> QED BY <2>3 DEF Promise!Next
<1>7. CASE WaitForHealthy(w)
  <2>1. /\ pc[w] = "wait" /\ pc'[w] \in {"clear", "giveup"}
        /\ UNCHANGED <<dirty, proc, live>>
    BY <1>0, <1>7 DEF WaitForHealthy, Goto, TypeOK
  <2>2. Changing' = Changing /\ Serves' = Serves
    BY <1>3, <2>1 DEF Changing, Serves, IsRunning
  <2> QED BY <1>1, <1>3, <2>1, <2>2, LooksSame
<1> QED BY <1>4, <1>5, <1>6, <1>7

(* The steps of workers that carry nothing.                                *)
LEMMA SeenOutside ==
  ASSUME IInv, NEW w \in Workers,
         \/ BeginApply(w) \/ BeginCheck(w) \/ CheckStep(w) \/ Stop(w)
         \/ \E kind : BeginRestart(w, kind)
         \/ ReadTemplate(w) \/ BuildFails(w)
  PROVE  UNCHANGED Promise!vars
<1>0. TypeOK
  BY DEF IInv
<1>1. /\ pc[w] \notin Carrying /\ pc'[w] \notin Carrying
      /\ \A x \in Workers \ {w} : pc'[x] = pc[x] /\ want'[x] = want[x]
  BY <1>0 DEF BeginApply, BeginCheck, CheckStep, Probe, Recover, Reprobe,
     CountFailure, Stop, BeginRestart, ReadTemplate, BuildFails, Return, Goto,
     TypeOK, Carrying, Locked
<1>2. UNCHANGED <<db, dirty, mu, live>> /\ (IsRunning' <=> IsRunning)
  BY DEF BeginApply, BeginCheck, CheckStep, Probe, Recover, Reprobe,
     CountFailure, Stop, BeginRestart, ReadTemplate, BuildFails, IsRunning
<1> QED BY <1>1, <1>2, UnseenMove

LEMMA SeenElsewhere ==
  ASSUME IInv,
         \/ \E table \in Tables : EditInbounds(table)
         \/ \E template \in Templates : EditTemplate(template)
         \/ SetToNeedRestart \/ XrayUp \/ XrayExit \/ PanelCrash
         \/ UNCHANGED vars
  PROVE  [Promise!Next]_(Promise!vars)
<1>0. TypeOK
  BY DEF IInv
<1>1. ASSUME UNCHANGED <<pc, want, mu>>
      PROVE  Held' = Held /\ Changing' = Changing /\ (InTransit' <=> InTransit)
  BY <1>1 DEF Held, Changing, InTransit
<1>2. ASSUME UNCHANGED <<pc, want, mu, live>>, IsRunning' <=> IsRunning
      PROVE  Serves' = Serves
  BY <1>1, <1>2 DEF Serves
<1>3. ASSUME NEW table \in Tables, EditInbounds(table)
      PROVE  Promise!Commit
  <2>1. db'.inbounds = table /\ table \in Table
    BY <1>0, <1>3, RuntimeManagerAssumption DEF EditInbounds, TypeOK, Config
  <2>2. UNCHANGED <<dirty, Held, Changing, Serves>>
    BY <1>1, <1>2, <1>3 DEF EditInbounds, IsRunning
  <2> QED BY <2>1, <2>2, ManagedTyped DEF Promise!Commit
<1>4. CASE \/ \E template \in Templates : EditTemplate(template)
           \/ SetToNeedRestart \/ XrayUp \/ UNCHANGED vars
  <2>1. /\ UNCHANGED <<dirty, pc, want, mu, live>> /\ db'.inbounds = db.inbounds
        /\ IsRunning' <=> IsRunning
    BY <1>0, <1>4 DEF EditTemplate, SetToNeedRestart, XrayUp, vars, IsRunning,
       TypeOK, Config
  <2> QED BY <1>1, <1>2, <2>1, LooksSame
<1>5. CASE XrayExit
  <2>1. UNCHANGED <<db, dirty, pc, want, mu>> /\ ~IsRunning'
    BY <1>5 DEF XrayExit, IsRunning
  <2>2. Serves' = {}
    BY <2>1 DEF Serves
  <2>3. Promise!XrayDies
    BY <1>1, <2>1, <2>2 DEF Promise!XrayDies
  <2> QED BY <2>3 DEF Promise!Next
<1>6. CASE PanelCrash
  <2>1. /\ UNCHANGED <<db, dirty>> /\ ~IsRunning' /\ mu' = NoWorker
        /\ \A x \in Workers : pc'[x] \notin Carrying
    BY <1>6 DEF PanelCrash, IsRunning, Carrying, Locked
  <2>2. /\ Held' = [x \in Workers |-> {}] /\ Changing' = {} /\ Serves' = {}
    BY <2>1 DEF Held, Changing, Serves, InTransit
  <2>3. Promise!PanelDies
    BY <2>1, <2>2 DEF Promise!PanelDies
  <2> QED BY <2>3 DEF Promise!Next
<1> QED BY <1>3, <1>4, <1>5, <1>6 DEF Promise!Next

LEMMA StepIsPromised == IInv /\ [Next]_vars => [Promise!Next]_(Promise!vars)
<1> SUFFICES ASSUME IInv, [Next]_vars
             PROVE  [Promise!Next]_(Promise!vars)
  OBVIOUS
<1>1. ASSUME NEW w \in Workers, Reconcile(w)
      PROVE  [Promise!Next]_(Promise!vars)
  <2>1. CASE ReadInbounds(w)
    BY <2>1, SeenRead DEF Promise!Next
  <2>2. CASE Acquire(w)
    BY <2>2, SeenAcquire DEF Promise!Next
  <2>3. ASSUME NEW op \in plan, ApplyCall(w, op)
        PROVE  [Promise!Next]_(Promise!vars)
    BY <2>3, SeenCall DEF Promise!Next
  <2>4. CASE GiveUp(w) \/ ClearRuntimeStatus(w)
    BY <2>4, SeenFinish DEF Promise!Next
  <2>5. CASE ReadTemplate(w) \/ BuildFails(w)
    BY <2>5, SeenOutside
  <2> QED BY <1>1, <2>1, <2>2, <2>3, <2>4, <2>5, SeenInside DEF Reconcile
<1>2. ASSUME NEW w \in Workers,
             \/ BeginApply(w) \/ BeginCheck(w) \/ CheckStep(w) \/ Stop(w)
             \/ \E kind : BeginRestart(w, kind)
      PROVE  [Promise!Next]_(Promise!vars)
  BY <1>2, SeenOutside
<1>3. CASE \/ \E w \in ApplyJobs : BeginApply(w)
           \/ \E w \in CheckJobs : BeginCheck(w) \/ CheckStep(w)
           \/ BeginRestart(Main, "sighup")
           \/ \E w \in Admins : BeginRestart(w, "update")
           \/ \E w \in {Main} \cup Admins : Stop(w)
  BY <1>2, <1>3 DEF Workers
<1> QED BY <1>1, <1>3, SeenElsewhere DEF Next

(* Seen from outside, the runtime layer is SyncPromise: a sync ends with   *)
(* all of what its reconcile read or without a configuration, syncs do not *)
(* mix, and runtimeDirty is reset by a sync Xray agrees with.              *)
THEOREM RuntimeImplementsPromise == Spec => ImplementsPromise
<1>1. Init => Promise!Init
  <2> SUFFICES ASSUME Init
               PROVE  Promise!Init
    OBVIOUS
  <2>1. Managed(db.inbounds) \in ManagedTable
    BY ManagedTyped, RuntimeManagerAssumption DEF Init
  <2>2. Held = [x \in Workers |-> {}] /\ Changing = {} /\ Serves = {}
    BY DEF Init, Held, Changing, Serves, InTransit, IsRunning, Carrying, Locked
  <2>3. dirty \in BOOLEAN
    BY DEF Init
  <2> QED BY <2>1, <2>2, <2>3 DEF Promise!Init
<1> QED BY <1>1, StepIsPromised, Invariance, PTL
           DEF Spec, ImplementsPromise, Promise!Spec
-----------------------------------------------------------------------------
(* With history: a running Xray follows the database. *)

SeenTyped == seen \in [Workers -> Nat] /\ newest \in Nat

(* The worker holds the inbounds the database has now. *)
Current(w) == want[w].inbounds = db.inbounds

(* What was read after the last change is what the database has. *)
ReadsAreDated ==
  /\ newest <= edits
  /\ \A w \in Workers :
       /\ seen[w] <= edits
       /\ pc[w] = "acquire" /\ seen[w] = edits => Current(w)

(* A sync that gives up leaves no Xray on other inbounds than it wanted. *)
GivesUpOnDesired ==
  \A w \in Workers :
    pc[w] = "giveup" =>
      \/ proc \notin {"starting", "up"}
      \/ SameManagedTable(snapshot.inbounds, want[w].inbounds)

(* The database will be read again. *)
ReadAhead ==
  \/ need
  \/ unflagged > 0
  \/ \E w \in ApplyJobs : pc[w] \in {"template", "rows"}

(* A worker waits for the mutex with the current inbounds; whoever has read *)
(* no earlier has them too.                                                 *)
Waits(w) ==
  /\ pc[w] = "acquire"
  /\ Current(w)
  /\ \A x \in Workers : pc[x] = "acquire" /\ seen[x] >= seen[w] => Current(x)

(* Whoever may still enter Sync without being overtaken brings the current *)
(* inbounds, as does who is in it; and if nobody is, Xray has them.        *)
Arrived ==
  /\ \A w \in Workers : pc[w] = "acquire" /\ seen[w] >= newest => Current(w)
  /\ mu # NoWorker => Current(mu)
  /\ mu = NoWorker /\ proc \in {"starting", "up"} =>
       SameManagedTable(snapshot.inbounds, db.inbounds)

ChangeOnItsWay ==
  \/ overtaken
  \/ lostBuild
  \/ ReadAhead
  \/ \E w \in Workers : Waits(w)
  \/ Arrived

HInv == IInv /\ SeenTyped /\ ReadsAreDated /\ GivesUpOnDesired /\ ChangeOnItsWay

LEMMA MaxOfTwo ==
  ASSUME NEW a \in Nat, NEW b \in Nat
  PROVE  /\ Max({a}) = a
         /\ Max({a} \cup {b}) = IF b > a THEN b ELSE a
<1> DEFINE IsMax(m, S) == m \in S /\ \A y \in S : m >= y
<1>1. \A S, m : IsMax(m, S) => IsMax(Max(S), S)
  BY DEF Max
<1>2. IsMax(a, {a}) /\ IsMax(IF b > a THEN b ELSE a, {a} \cup {b})
  OBVIOUS
<1>3. IsMax(Max({a}), {a}) /\ IsMax(Max({a} \cup {b}), {a} \cup {b})
  BY <1>1, <1>2
<1>4. Max({a} \cup {b}) \in {a, b} /\ Max({a} \cup {b}) >= a /\ Max({a} \cup {b}) >= b
  BY <1>3
<1> QED BY <1>3, <1>4

(* The history variables in a step. *)
LEMMA HistoryGrows ==
  ASSUME HistoryStep
  PROVE  /\ overtaken => overtaken'
         /\ lostBuild => lostBuild'
         /\ \A w \in ApplyJobs : BuildFails(w) => lostBuild'
         /\ \A w \in Workers : Entering(w) /\ seen[w] < newest => overtaken'
<1>1. overtaken' = (overtaken \/ \E w \in Workers : Entering(w) /\ seen[w] < newest)
  BY DEF HistoryStep
<1>2. lostBuild' = (lostBuild \/ \E w \in ApplyJobs : BuildFails(w))
  BY DEF HistoryStep
<1> QED BY <1>1, <1>2, Zenon

LEMMA SeenStep ==
  ASSUME TypeOK, SeenTyped, HistoryStep
  PROVE  /\ seen' \in [Workers -> Nat]
         /\ \A w \in Workers :
              /\ seen'[w] \in {0, edits, seen[w]}
              /\ pc[w] = "acquire" /\ pc'[w] = "acquire" => seen'[w] = seen[w]
              /\ pc[w] = "rows" /\ pc'[w] = "acquire" => seen'[w] = edits
<1>1. seen' = [w \in Workers |->
                IF pc[w] = "rows" /\ pc'[w] = "acquire" THEN edits
                ELSE IF pc'[w] \in {"idle", "failed"} THEN 0 ELSE seen[w]]
  BY DEF HistoryStep
<1>2. edits \in Nat
  BY DEF TypeOK
<1> QED BY <1>1, <1>2 DEF SeenTyped

(* Nobody enters Sync where the mutex does not change hands. *)
LEMMA NobodyEnters ==
  ASSUME IInv, SeenTyped, HistoryStep, mu' = mu \/ mu' = NoWorker
  PROVE  newest' = newest
<1>1. \A w \in Workers : ~Entering(w)
  BY RuntimeManagerAssumption DEF Entering, IInv, LockDiscipline, Locked
<1>2. {newest} \cup {seen[w] : w \in {x \in Workers : Entering(x)}} = {newest}
  BY <1>1
<1>3. newest' = Max({newest})
  BY <1>2 DEF HistoryStep
<1> QED BY <1>3, MaxOfTwo DEF SeenTyped

LEMMA OneEnters ==
  ASSUME IInv, SeenTyped, HistoryStep, NEW w \in Workers, Acquire(w)
  PROVE  newest' = IF seen[w] > newest THEN seen[w] ELSE newest
<1>1. \A x \in Workers : Entering(x) <=> x = w
  BY DEF Entering, Acquire
<1>2. {newest} \cup {seen[x] : x \in {y \in Workers : Entering(y)}} = {newest} \cup {seen[w]}
  BY <1>1
<1>3. newest' = Max({newest} \cup {seen[w]})
  BY <1>2 DEF HistoryStep
<1> QED BY <1>3, MaxOfTwo DEF SeenTyped

(* Where nobody comes to wait with another read, and the manager is left   *)
(* alone or in somebody's hands, a change stays on its way.                *)
LEMMA NothingArrives ==
  ASSUME HInv, HistoryStep,
         db'.inbounds = db.inbounds, mu' = mu,
         snapshot' = snapshot \/ mu # NoWorker,
         need => need', unflagged' = unflagged,
         \A w \in Workers :
           /\ pc'[w] = "acquire" <=> pc[w] = "acquire"
           /\ pc[w] \in Locked \cup {"acquire"} => want'[w] = want[w],
         \A w \in ApplyJobs : pc[w] \in {"template", "rows"} => pc'[w] \in {"template", "rows"},
         proc' \in {"starting", "up"} => proc \in {"starting", "up"} \/ mu # NoWorker
  PROVE  ChangeOnItsWay'
<1>1. newest' = newest
  BY NobodyEnters DEF HInv
<1>2. \A w \in Workers : pc[w] = "acquire" => seen'[w] = seen[w]
  BY SeenStep DEF HInv, IInv
<1>3. CASE overtaken \/ lostBuild
  BY <1>3, HistoryGrows DEF ChangeOnItsWay
<1>4. CASE ReadAhead
  BY <1>4 DEF ReadAhead, ChangeOnItsWay
<1>5. CASE \E w \in Workers : Waits(w)
  <2>1. PICK w \in Workers : Waits(w)
    BY <1>5
  <2>2. Waits(w)'
    BY <1>2, <2>1 DEF Waits, Current
  <2> QED BY <2>2 DEF ChangeOnItsWay
<1>6. CASE Arrived
  <2>1. mu # NoWorker => mu \in Workers /\ pc[mu] \in Locked
    BY DEF HInv, IInv, TypeOK, LockDiscipline
  <2>2. Arrived'
    BY <1>1, <1>2, <1>6, <2>1 DEF Arrived, Current
  <2> QED BY <2>2 DEF ChangeOnItsWay
<1> QED BY <1>3, <1>4, <1>5, <1>6 DEF HInv, ChangeOnItsWay

(* A worker outside Sync goes on outside Sync, not yet with a snapshot. *)
LEMMA OutsideMove ==
  ASSUME HInv, HistoryStep, NEW w \in Workers,
         pc[w] \notin Locked \cup {"acquire"},
         \/ \E label \in Labels \ (Locked \cup {"acquire"}) : Goto(w, label)
         \/ \E ok : Return(w, ok),
         w \in ApplyJobs /\ pc[w] \in {"template", "rows"} => pc'[w] \in {"template", "rows"},
         \A x \in Workers \ {w} : want'[x] = want[x],
         need => need', UNCHANGED <<db, unflagged, mu, snapshot>>,
         proc' \in {"starting", "up"} => proc \in {"starting", "up"}
  PROVE  ChangeOnItsWay'
<1>1. \A x \in Workers \ {w} : pc'[x] = pc[x]
  BY OthersStay DEF HInv, IInv
<1>2. pc'[w] \notin Locked \cup {"acquire"}
  BY DEF HInv, IInv, TypeOK, Goto, Return, Locked
<1>3. \A x \in Workers :
        /\ pc'[x] = "acquire" <=> pc[x] = "acquire"
        /\ pc[x] \in Locked \cup {"acquire"} => want'[x] = want[x]
  BY <1>1, <1>2
<1>4. \A x \in ApplyJobs : pc[x] \in {"template", "rows"} => pc'[x] \in {"template", "rows"}
  BY <1>1 DEF Workers
<1> QED BY <1>3, <1>4, NothingArrives

(* A step of the worker in Sync that does not end it. *)
LEMMA SyncMove ==
  ASSUME HInv, HistoryStep, NEW w \in Workers, pc[w] \in Locked, pc'[w] \in Locked,
         \/ \E label : Goto(w, label)
         \/ UNCHANGED pc,
         UNCHANGED <<db, need, unflagged, mu, want>>
  PROVE  ChangeOnItsWay'
<1>1. mu # NoWorker
  BY RuntimeManagerAssumption DEF HInv, IInv, LockDiscipline
<1>2. \A x \in Workers \ {w} : pc'[x] = pc[x]
  BY OthersStay DEF HInv, IInv
<1>3. \A x \in Workers :
        /\ pc'[x] = "acquire" <=> pc[x] = "acquire"
        /\ pc[x] \in Locked \cup {"acquire"} => want'[x] = want[x]
  BY <1>2 DEF Locked
<1>4. \A x \in ApplyJobs : pc[x] \in {"template", "rows"} => pc'[x] \in {"template", "rows"}
  BY <1>2 DEF Workers, Locked
<1> QED BY <1>1, <1>3, <1>4, NothingArrives

(* The inbounds are read: they are the newest there are. *)
LEMMA ReadIsCurrent ==
  ASSUME HInv, HistoryStep, NEW w \in Workers, ReadInbounds(w)
  PROVE  ChangeOnItsWay'
<1>1. /\ pc[w] = "rows" /\ pc'[w] = "acquire" /\ db' = db
      /\ \A x \in Workers \ {w} : pc'[x] = pc[x] /\ want'[x] = want[x]
  BY DEF ReadInbounds, Goto, HInv, IInv, TypeOK
<1>2. want'[w].inbounds = db.inbounds
  <2>1. want[w] \in Config
    BY <1>1 DEF HInv, IInv, HasSnapshot
  <2> QED BY <2>1 DEF ReadInbounds, Config, HInv, IInv, TypeOK
<1>3. seen'[w] = edits /\ \A x \in Workers : pc[x] = "acquire" => seen'[x] = seen[x]
  <2>1. \A x \in Workers : pc[x] = "acquire" => pc'[x] = "acquire"
    BY <1>1
  <2> QED BY <1>1, <2>1, SeenStep DEF HInv, IInv
<1>4. ASSUME NEW x \in Workers, pc'[x] = "acquire", seen'[x] >= edits
      PROVE  Current(x)'
  <2>1. CASE x = w
    BY <1>1, <1>2, <2>1 DEF Current
  <2>2. CASE x # w
    <3>1. pc[x] = "acquire" /\ seen[x] >= edits
      BY <1>1, <1>3, <1>4, <2>2
    <3>2. seen[x] \in Nat /\ edits \in Nat /\ seen[x] <= edits
      BY DEF HInv, IInv, TypeOK, SeenTyped, ReadsAreDated
    <3>3. Current(x)
      BY <3>1, <3>2 DEF HInv, ReadsAreDated
    <3> QED BY <1>1, <2>2, <3>3 DEF Current
  <2> QED BY <2>1, <2>2
<1>5. Waits(w)'
  BY <1>1, <1>2, <1>3, <1>4 DEF Waits, Current
<1> QED BY <1>5 DEF ChangeOnItsWay

(* Whoever enters Sync has the newest read of those that did, or is        *)
(* overtaken.                                                              *)
LEMMA EntryIsCurrent ==
  ASSUME HInv, HistoryStep, NEW w \in Workers, Acquire(w)
  PROVE  ChangeOnItsWay'
<1>1. /\ pc[w] = "acquire" /\ mu = NoWorker /\ mu' = w
      /\ UNCHANGED <<db, need, unflagged, want, snapshot, proc>>
  BY DEF Acquire
<1>2. pc'[w] # "acquire" /\ \A x \in Workers \ {w} : pc'[x] = pc[x]
  <2>1. \E label \in Locked : Goto(w, label)
    BY DEF Acquire, Locked
  <2> QED BY <2>1, OthersStay DEF Goto, HInv, IInv, TypeOK, Locked
<1>3. newest' = (IF seen[w] > newest THEN seen[w] ELSE newest) /\ seen[w] \in Nat /\ newest \in Nat
  BY OneEnters DEF HInv, SeenTyped
<1>4. \A x \in Workers \ {w} : pc[x] = "acquire" => seen'[x] = seen[x] /\ seen[x] \in Nat
  BY <1>2, SeenStep DEF HInv, IInv, SeenTyped
<1>5. CASE seen[w] < newest \/ overtaken \/ lostBuild
  BY <1>1, <1>5, HistoryGrows DEF Entering, ChangeOnItsWay
<1>6. CASE ReadAhead
  <2>1. \A x \in ApplyJobs : pc[x] \in {"template", "rows"} => pc'[x] = pc[x]
    BY <1>1, <1>2 DEF Workers
  <2> QED BY <1>1, <1>6, <2>1 DEF ReadAhead, ChangeOnItsWay
<1>7. CASE seen[w] >= newest /\ \E x \in Workers : Waits(x)
  <2>1. PICK x \in Workers : Waits(x)
    BY <1>7
  <2>2. CASE x = w
    <3>1. Current(w)' /\ mu' = w /\ newest' = seen[w]
      BY <1>1, <1>3, <1>7, <2>1, <2>2 DEF Waits, Current
    <3>2. ASSUME NEW y \in Workers, pc'[y] = "acquire", seen'[y] >= newest' PROVE Current(y)'
      BY <1>1, <1>2, <1>4, <2>1, <2>2, <3>1, <3>2 DEF Waits, Current
    <3>3. Arrived'
      BY <3>1, <3>2, RuntimeManagerAssumption DEF Arrived, Current
    <3> QED BY <3>3 DEF ChangeOnItsWay
  <2>3. CASE x # w
    <3>1. Waits(x)'
      BY <1>1, <1>2, <1>4, <2>1, <2>3 DEF Waits, Current
    <3> QED BY <3>1 DEF ChangeOnItsWay
  <2> QED BY <2>2, <2>3
<1>8. CASE seen[w] >= newest /\ Arrived
  <2>1. Current(w)' /\ mu' = w /\ newest' = seen[w]
    BY <1>1, <1>3, <1>8 DEF Arrived, Current
  <2>2. ASSUME NEW y \in Workers, pc'[y] = "acquire", seen'[y] >= newest' PROVE Current(y)'
    BY <1>1, <1>2, <1>3, <1>4, <1>8, <2>1, <2>2 DEF Arrived, Current
  <2>3. Arrived'
    BY <2>1, <2>2, RuntimeManagerAssumption DEF Arrived, Current
  <2> QED BY <2>3 DEF ChangeOnItsWay
<1> QED BY <1>3, <1>5, <1>6, <1>7, <1>8 DEF HInv, ChangeOnItsWay

(* A sync ends: Xray has what it wanted, or does not run. *)
LEMMA EndIsCurrent ==
  ASSUME HInv, HistoryStep, NEW w \in Workers, GiveUp(w) \/ ClearRuntimeStatus(w)
  PROVE  ChangeOnItsWay'
<1>1. /\ pc[w] \in {"giveup", "clear"} /\ mu' = NoWorker
      /\ UNCHANGED <<db, need, unflagged, snapshot, proc>>
      /\ \E ok : Return(w, ok)
  BY DEF GiveUp, ClearRuntimeStatus
<1>2. /\ mu = w /\ pc'[w] \in {"idle", "failed"}
      /\ \A x \in Workers \ {w} : pc'[x] = pc[x] /\ want'[x] = want[x]
  BY <1>1 DEF Return, Goto, HInv, IInv, TypeOK, LockDiscipline, Locked
<1>3. newest' = newest
  BY <1>1, NobodyEnters DEF HInv
<1>4. \A x \in Workers : pc'[x] = "acquire" => pc[x] = "acquire" /\ x # w /\ seen'[x] = seen[x]
  BY <1>2, SeenStep DEF HInv, IInv
<1>5. CASE overtaken \/ lostBuild
  BY <1>5, HistoryGrows DEF ChangeOnItsWay
<1>6. CASE ReadAhead
  <2>1. \A x \in ApplyJobs : pc[x] \in {"template", "rows"} => pc'[x] = pc[x]
    BY <1>1, <1>2 DEF Workers
  <2> QED BY <1>1, <1>6, <2>1 DEF ReadAhead, ChangeOnItsWay
<1>7. CASE \E x \in Workers : Waits(x)
  <2>1. PICK x \in Workers : Waits(x)
    BY <1>7
  <2>2. Waits(x)'
    BY <1>1, <1>2, <1>4, <2>1, SeenStep DEF Waits, Current, HInv, IInv
  <2> QED BY <2>2 DEF ChangeOnItsWay
<1>8. CASE Arrived
  <2>1. Current(w)
    BY <1>2, <1>8, RuntimeManagerAssumption DEF Arrived
  <2>2. proc \in {"starting", "up"} => SameManagedTable(snapshot.inbounds, want[w].inbounds)
    BY <1>1 DEF HInv, IInv, Adopted, GivesUpOnDesired
  <2>3. proc' \in {"starting", "up"} => SameManagedTable(snapshot'.inbounds, db'.inbounds)
    BY <1>1, <2>1, <2>2 DEF Current
  <2>4. ASSUME NEW x \in Workers, pc'[x] = "acquire", seen'[x] >= newest' PROVE Current(x)'
    BY <1>1, <1>2, <1>3, <1>4, <1>8, <2>4 DEF Arrived, Current
  <2>5. Arrived'
    BY <1>1, <2>3, <2>4 DEF Arrived
  <2> QED BY <2>5 DEF ChangeOnItsWay
<1> QED BY <1>5, <1>6, <1>7, <1>8 DEF HInv, ChangeOnItsWay

LEMMA NextOnItsWay ==
  ASSUME HInv, Next, HistoryStep
  PROVE  ChangeOnItsWay'
<1>0. TypeOK /\ HasSnapshot /\ SeenTyped
  BY DEF HInv, IInv
<1>1. ASSUME NEW table \in Tables, EditInbounds(table)
      PROVE  ChangeOnItsWay'
  BY <1>0, <1>1 DEF EditInbounds, TypeOK, ChangeOnItsWay, ReadAhead
<1>2. ASSUME NEW template \in Templates, EditTemplate(template)
      PROVE  ChangeOnItsWay'
  <2>1. db'.inbounds = db.inbounds
    BY <1>0, <1>2 DEF EditTemplate, TypeOK, Config
  <2> QED BY <1>2, <2>1, NothingArrives DEF EditTemplate
<1>3. CASE SetToNeedRestart
  BY <1>3 DEF SetToNeedRestart, ChangeOnItsWay, ReadAhead
<1>4. ASSUME NEW w \in ApplyJobs, BeginApply(w)
      PROVE  ChangeOnItsWay'
  <2>1. pc'[w] = "template"
    BY <1>0, <1>4 DEF BeginApply, Goto, TypeOK, Workers
  <2> QED BY <2>1 DEF ChangeOnItsWay, ReadAhead
<1>5. ASSUME NEW w \in CheckJobs, BeginCheck(w) \/ CheckStep(w)
      PROVE  ChangeOnItsWay'
  <2>1. w \in Workers /\ w \notin ApplyJobs
    BY RuntimeManagerAssumption DEF Workers
  <2>2. CASE BeginCheck(w)
    BY <2>1, <2>2, OutsideMove DEF BeginCheck, Labels, Locked
  <2>3. CASE Probe(w)
    <3>1. \A x \in Workers \ {w} : want'[x] = want[x]
      BY <1>0, <2>3 DEF Probe, Return, TypeOK
    <3> QED BY <2>1, <2>3, <3>1, OutsideMove DEF Probe, Labels, Locked
  <2>4. CASE Recover(w)
    BY <2>1, <2>4, OutsideMove DEF Recover, Labels, Locked
  <2>5. CASE Reprobe(w)
    <3>1. \A x \in Workers \ {w} : want'[x] = want[x]
      BY <1>0, <2>5 DEF Reprobe, Return, TypeOK
    <3> QED BY <2>1, <2>5, <3>1, OutsideMove DEF Reprobe, Locked
  <2>6. CASE CountFailure(w)
    <3>1. need => need'
      BY <2>6 DEF CountFailure
    <3> QED BY <2>1, <2>6, <3>1, OutsideMove DEF CountFailure, Labels, Locked
  <2> QED BY <1>5, <2>2, <2>3, <2>4, <2>5, <2>6 DEF CheckStep
<1>6. ASSUME NEW w \in {Main} \cup Admins, NEW kind, BeginRestart(w, kind)
      PROVE  ChangeOnItsWay'
  <2>1. w \in Workers /\ w \notin ApplyJobs
    BY RuntimeManagerAssumption DEF Workers
  <2> QED BY <1>6, <2>1, OutsideMove DEF BeginRestart, Labels, Locked
<1>7. ASSUME NEW w \in {Main} \cup Admins, Stop(w)
      PROVE  ChangeOnItsWay'
  <2>1. w \in Workers /\ w \notin ApplyJobs
    BY RuntimeManagerAssumption DEF Workers
  <2>2. proc' \in {"starting", "up"} => proc \in {"starting", "up"}
    BY <1>7 DEF Stop, IsRunning
  <2> QED BY <1>7, <2>1, <2>2, OutsideMove DEF Stop, Labels, Locked
<1>8. ASSUME NEW w \in Workers, Reconcile(w)
      PROVE  ChangeOnItsWay'
  <2>1. CASE ReadTemplate(w)
    <3>1. \A x \in Workers \ {w} : want'[x] = want[x]
      BY <1>0, <2>1 DEF ReadTemplate, TypeOK
    <3>2. pc'[w] = "rows"
      BY <1>0, <2>1 DEF ReadTemplate, Goto, TypeOK
    <3> QED BY <2>1, <3>1, <3>2, OutsideMove DEF ReadTemplate, Labels, Locked
  <2>2. CASE ReadInbounds(w)
    BY <2>2, ReadIsCurrent
  <2>3. CASE BuildFails(w)
    <3>1. CASE w \in ApplyJobs
      BY <2>3, <3>1, HistoryGrows DEF ChangeOnItsWay
    <3>2. CASE w \notin ApplyJobs
      <4>1. \A x \in Workers \ {w} : want'[x] = want[x]
        BY <1>0, <2>3 DEF BuildFails, Return, TypeOK
      <4> QED BY <2>3, <3>2, <4>1, OutsideMove DEF BuildFails, Locked
    <3> QED BY <3>1, <3>2
  <2>4. CASE Acquire(w)
    BY <2>4, EntryIsCurrent
  <2>5. CASE Verify(w) \/ Ping(w)
    <3>1. pc'[w] \in {"clear", "apply", "fallback"}
      BY <1>0, <2>5 DEF Verify, Ping, HealthCheck, Goto, TypeOK
    <3> QED BY <2>5, <3>1, SyncMove DEF Verify, Ping, HealthCheck, Locked
  <2>6. ASSUME NEW op \in plan, ApplyCall(w, op) \/ ApplyCallFails(w, op)
        PROVE  ChangeOnItsWay'
    <3>1. pc[w] = "apply" /\ pc'[w] \in {"apply", "clear", "fallback"}
      BY <1>0, <2>6 DEF ApplyCall, ApplyCallFails, Goto, TypeOK
    <3> QED BY <2>6, <3>1, SyncMove DEF ApplyCall, ApplyCallFails, Locked
  <2>7. CASE Fallback(w) \/ Restart(w) \/ StartFails(w) \/ WaitForHealthy(w)
    <3>1. pc[w] \in Locked /\ pc'[w] \in {"restart", "wait", "giveup", "clear"}
      BY <1>0, <2>7 DEF Fallback, Restart, StartFails, WaitForHealthy, Goto, TypeOK, Locked
    <3>2. UNCHANGED <<db, need, unflagged, mu, want>> /\ \E label : Goto(w, label)
      BY <2>7 DEF Fallback, Restart, StartFails, WaitForHealthy
    <3>3. pc'[w] \in Locked
      BY <3>1 DEF Locked
    <3> QED BY <3>1, <3>2, <3>3, SyncMove
  <2>8. CASE GiveUp(w) \/ ClearRuntimeStatus(w)
    BY <2>8, EndIsCurrent
  <2> QED BY <1>8, <2>1, <2>2, <2>3, <2>4, <2>5, <2>6, <2>7, <2>8 DEF Reconcile
<1>9. CASE XrayUp \/ XrayExit
  <2>1. /\ UNCHANGED <<db, need, unflagged, pc, want, mu, snapshot>>
        /\ proc' \in {"starting", "up"} => proc \in {"starting", "up"}
    BY <1>9 DEF XrayUp, XrayExit
  <2> QED BY <2>1, NothingArrives
<1>10. CASE PanelCrash
  <2>1. Arrived'
    BY <1>10 DEF PanelCrash, Arrived
  <2> QED BY <2>1 DEF ChangeOnItsWay
<1> QED BY <1>1, <1>2, <1>3, <1>4, <1>5, <1>6, <1>7, <1>8, <1>9, <1>10 DEF Next

(* A read is never newer than the database, and is of it if it is as new.  *)
LEMMA NextReadsAreDated ==
  ASSUME HInv, Next, HistoryStep
  PROVE  SeenTyped' /\ ReadsAreDated'
<1>0. TypeOK /\ SeenTyped /\ ReadsAreDated /\ IInv
  BY DEF HInv, IInv
<1>1. /\ edits \in Nat /\ seen' \in [Workers -> Nat]
      /\ \A w \in Workers : seen[w] \in Nat /\ seen'[w] \in {0, edits, seen[w]}
  BY <1>0, SeenStep DEF TypeOK, SeenTyped
<1>2. newest' \in Nat /\ newest' <= edits
  <2>1. CASE mu' = mu \/ mu' = NoWorker
    BY <1>0, <2>1, NobodyEnters DEF ReadsAreDated, SeenTyped
  <2>2. CASE \E w \in Workers : Acquire(w)
    BY <1>0, <1>1, <2>2, OneEnters DEF ReadsAreDated, SeenTyped
  <2>3. \/ mu' = mu \/ mu' = NoWorker
        \/ \E w \in Workers : Acquire(w)
    BY DEF HInv, Next, EditInbounds, EditTemplate, SetToNeedRestart, BeginApply,
       BeginCheck, CheckStep, Probe, Recover, Reprobe, CountFailure, BeginRestart, Stop,
       Reconcile, ReadTemplate, ReadInbounds, BuildFails, Verify, Ping, HealthCheck,
       ApplyCall, ApplyCallFails, Fallback, Restart, StartFails, WaitForHealthy, GiveUp,
       ClearRuntimeStatus, XrayUp, XrayExit, PanelCrash
  <2> QED BY <2>1, <2>2, <2>3
<1>3. CASE edits' = edits /\ UNCHANGED db /\ ~\E w \in Workers : ReadInbounds(w)
  <2>1. ASSUME NEW w \in Workers, pc'[w] = "acquire"
        PROVE  pc[w] = "acquire" /\ want'[w] = want[w]
    <3>1. ASSUME NEW x \in Workers, Reconcile(x)
          PROVE  pc[w] = "acquire" /\ want'[w] = want[w]
      <4>1. CASE x = w
        BY <1>0, <1>3, <2>1, <3>1, <4>1
        DEF Reconcile, ReadTemplate, BuildFails, Acquire, Verify, Ping, HealthCheck,
            ApplyCall, ApplyCallFails, Fallback, Restart, StartFails, WaitForHealthy,
            GiveUp, ClearRuntimeStatus, Goto, Return, TypeOK
      <4>2. CASE x # w
        BY <1>0, <1>3, <2>1, <3>1, <4>2
        DEF Reconcile, ReadTemplate, BuildFails, Acquire, Verify, Ping, HealthCheck,
            ApplyCall, ApplyCallFails, Fallback, Restart, StartFails, WaitForHealthy,
            GiveUp, ClearRuntimeStatus, Goto, Return, TypeOK
      <4> QED BY <4>1, <4>2
    <3>2. CASE ~\E x \in Workers : Reconcile(x)
      BY <1>0, <2>1, <3>2
      DEF Next, EditInbounds, EditTemplate, SetToNeedRestart, BeginApply, BeginCheck,
          CheckStep, Probe, Recover, Reprobe, CountFailure, BeginRestart, Stop, XrayUp,
          XrayExit, PanelCrash, Goto, Return, TypeOK, Workers
    <3> QED BY <3>1, <3>2
  <2> QED BY <1>0, <1>1, <1>2, <1>3, <2>1, SeenStep DEF SeenTyped, ReadsAreDated, Current
<1>4. CASE \E w \in Workers : ReadInbounds(w)
  <2>1. PICK w \in Workers : ReadInbounds(w)
    BY <1>4
  <2>2. /\ UNCHANGED <<db, edits>> /\ want'[w].inbounds = db.inbounds
        /\ \A x \in Workers \ {w} : pc'[x] = pc[x] /\ want'[x] = want[x]
    <3>1. want[w] \in Config
      BY <1>0, <2>1 DEF IInv, HasSnapshot, ReadInbounds
    <3> QED BY <1>0, <2>1, <3>1 DEF ReadInbounds, Config, Goto, TypeOK
  <2> QED BY <1>0, <1>1, <1>2, <2>2, SeenStep DEF SeenTyped, ReadsAreDated, Current
<1>5. CASE \/ \E table \in Tables : EditInbounds(table)
           \/ \E template \in Templates : EditTemplate(template)
  <2>1. edits' = edits + 1 /\ pc' = pc
    BY <1>5 DEF EditInbounds, EditTemplate
  <2>2. \A w \in Workers : pc'[w] = "acquire" => seen'[w] = seen[w]
    BY <1>0, <2>1, SeenStep
  <2> QED BY <1>0, <1>1, <1>2, <2>1, <2>2 DEF SeenTyped, ReadsAreDated
<1>6. \/ edits' = edits /\ UNCHANGED db
      \/ \E table \in Tables : EditInbounds(table)
      \/ \E template \in Templates : EditTemplate(template)
  BY DEF Next, SetToNeedRestart, BeginApply, BeginCheck, CheckStep, Probe, Recover,
     Reprobe, CountFailure, BeginRestart, Stop, Reconcile, ReadTemplate, ReadInbounds,
     BuildFails, Acquire, Verify, Ping, HealthCheck, ApplyCall, ApplyCallFails, Fallback,
     Restart, StartFails, WaitForHealthy, GiveUp, ClearRuntimeStatus, XrayUp, XrayExit,
     PanelCrash
<1> QED BY <1>3, <1>4, <1>5, <1>6

LEMMA NextGivesUp ==
  ASSUME HInv, Next
  PROVE  GivesUpOnDesired'
<1>0. TypeOK /\ LockDiscipline /\ Adopted /\ GivesUpOnDesired
  BY DEF HInv, IInv
<1> SUFFICES ASSUME NEW w \in Workers, pc'[w] = "giveup"
             PROVE  \/ proc' \notin {"starting", "up"}
                    \/ SameManagedTable(snapshot'.inbounds, want'[w].inbounds)
  BY DEF GivesUpOnDesired
<1>1. CASE StartFails(w)
  BY <1>1 DEF StartFails
<1>2. CASE WaitForHealthy(w)
  BY <1>0, <1>2 DEF WaitForHealthy, Adopted
<1>3. CASE ~StartFails(w) /\ ~WaitForHealthy(w)
  <2>1. /\ pc[w] = "giveup" /\ want'[w] = want[w] /\ snapshot' = snapshot
        /\ proc' \in {"starting", "up"} => proc \in {"starting", "up"}
    <3>1. CASE \E x \in Workers : Reconcile(x)
      <4>1. PICK x \in Workers : Reconcile(x)
        BY <3>1
      <4>2. CASE x = w
        BY <1>0, <1>3, <4>1, <4>2
        DEF Reconcile, ReadTemplate, ReadInbounds, BuildFails, Acquire, Verify, Ping,
            HealthCheck, ApplyCall, ApplyCallFails, Fallback, Restart, GiveUp,
            ClearRuntimeStatus, Goto, Return, TypeOK
      <4>3. CASE x # w
        <5>1. pc'[w] = pc[w] /\ want'[w] = want[w]
          BY <1>0, <4>1, <4>3
          DEF Reconcile, ReadTemplate, ReadInbounds, BuildFails, Acquire, Verify, Ping,
              HealthCheck, ApplyCall, ApplyCallFails, Fallback, Restart, StartFails,
              WaitForHealthy, GiveUp, ClearRuntimeStatus, Goto, Return, TypeOK
        <5>2. pc[x] \notin Locked
          BY <1>0, <4>3, <5>1 DEF LockDiscipline, Locked
        <5>3. ReadTemplate(x) \/ ReadInbounds(x) \/ BuildFails(x) \/ Acquire(x)
          BY <4>1, <5>2 DEF Reconcile, Verify, Ping, HealthCheck, ApplyCall,
             ApplyCallFails, Fallback, Restart, StartFails, WaitForHealthy, GiveUp,
             ClearRuntimeStatus, Locked
        <5> QED BY <5>1, <5>3 DEF ReadTemplate, ReadInbounds, BuildFails, Acquire
      <4> QED BY <4>2, <4>3
    <3>2. CASE ~\E x \in Workers : Reconcile(x)
      BY <1>0, <3>2
      DEF Next, EditInbounds, EditTemplate, SetToNeedRestart, BeginApply, BeginCheck,
          CheckStep, Probe, Recover, Reprobe, CountFailure, BeginRestart, Stop, XrayUp,
          XrayExit, PanelCrash, Goto, Return, TypeOK, Workers, IsRunning
    <3> QED BY <3>1, <3>2
  <2> QED BY <1>0, <2>1 DEF GivesUpOnDesired
<1> QED BY <1>1, <1>2, <1>3

LEMMA HistoryInvariance == HistorySpec => []HInv
<1>1. HistoryInit => HInv
  <2> SUFFICES ASSUME HistoryInit PROVE HInv
    OBVIOUS
  <2>1. IInv
    BY InitInv DEF HistoryInit
  <2>2. \A w \in Workers : pc[w] \in {"template", "idle"}
    BY DEF HistoryInit, Init
  <2>3. SeenTyped
    BY DEF HistoryInit, SeenTyped
  <2>4. ReadsAreDated /\ GivesUpOnDesired
    BY <2>2 DEF HistoryInit, Init, ReadsAreDated, GivesUpOnDesired
  <2>5. Arrived
    BY <2>2 DEF HistoryInit, Init, Arrived
  <2> QED BY <2>1, <2>3, <2>4, <2>5 DEF HInv, ChangeOnItsWay
<1>2. HInv /\ [HistoryNext]_allVars => HInv'
  <2>1. ASSUME HInv, Next, HistoryStep PROVE HInv'
    BY <2>1, NextInv, NextOnItsWay, NextReadsAreDated, NextGivesUp DEF HInv
  <2>2. ASSUME HInv, UNCHANGED allVars PROVE HInv'
    <3>1. IInv'
      BY <2>2, NextInv DEF allVars, HInv
    <3>2. SeenTyped' /\ ReadsAreDated' /\ GivesUpOnDesired'
      BY <2>2 DEF allVars, vars, historyVars, HInv, SeenTyped, ReadsAreDated,
         GivesUpOnDesired, Current
    <3>3. ChangeOnItsWay'
      <4>1. UNCHANGED <<overtaken, lostBuild>> /\ ReadAhead' = ReadAhead /\ Arrived' = Arrived
            /\ \A w \in Workers : Waits(w)' = Waits(w)
        BY <2>2 DEF allVars, vars, historyVars, ReadAhead, Arrived, Waits, Current
      <4> QED BY <2>2, <4>1 DEF HInv, ChangeOnItsWay
    <3> QED BY <3>1, <3>2, <3>3 DEF HInv
  <2> QED BY <2>1, <2>2 DEF HistoryNext
<1> QED BY <1>1, <1>2, PTL DEF HistorySpec

(* No committed change is forgotten: it is flagged, being read, waiting    *)
(* for the mutex in the newest hands, or in Xray; unless an older read     *)
(* overtook it or the apply run that took the flag could not build.        *)
THEOREM NoChangeIsLost == HistorySpec => []ChangeOnItsWay
<1>1. HInv => ChangeOnItsWay
  BY DEF HInv
<1> QED BY <1>1, HistoryInvariance, PTL

(* "The DB is the source of truth": when no job is under way and no change *)
(* is flagged, a running Xray has the inbounds and named users of the      *)
(* database, unless an older read overtook a newer one at the mutex or an  *)
(* apply run that consumed the flag could not build.                       *)
THEOREM QuietXrayIsInSync == HistorySpec => []QuietMeansInSync
<1>1. ASSUME HInv
      PROVE  QuietMeansInSync
  <2> SUFFICES ASSUME Quiescent, proc = "up", ~overtaken, ~lostBuild
               PROVE  SameManagedTable(live.inbounds, db.inbounds)
    BY DEF QuietMeansInSync, InSync
  <2>1. mu = NoWorker
    BY <1>1 DEF HInv, IInv, TypeOK, LockDiscipline, Quiescent, Locked
  <2>2. Arrived
    BY <1>1 DEF HInv, ChangeOnItsWay, ReadAhead, Waits, Quiescent, Workers
  <2>3. /\ SameManagedTable(snapshot.inbounds, db.inbounds)
        /\ SameManagedTable(live.inbounds, snapshot.inbounds)
    BY <1>1, <2>1, <2>2 DEF Arrived, HInv, IInv, LiveMatchesSnapshot, InTransit, IsRunning
  <2> QED BY <2>3 DEF SameManagedTable, SameManaged
<1> QED BY <1>1, HistoryInvariance, PTL
=============================================================================

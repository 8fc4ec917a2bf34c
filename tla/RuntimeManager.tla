--------------------------- MODULE RuntimeManager ---------------------------
(***************************************************************************)
(* The runtime layer of the panel: the goroutines that reconcile the Xray  *)
(* process with the database (web/service/xray.go, runtime/reconciler.go,  *)
(* the cron jobs of web/job and web/controller/inbound.go, startTask and   *)
(* Stop of web/web.go, UpdateXray of web/service/server.go), the manager   *)
(* they share under its mutex (runtime/manager.go) and the Xray process    *)
(* (xray/process.go).                                                      *)
(*                                                                         *)
(* A reconcile reads the database before it takes the mutex; everything    *)
(* from "verify" to "clear" below happens while it holds it.               *)
(***************************************************************************)
EXTENDS RuntimePlan, Naturals

CONSTANTS
  Main,             \* the goroutine of main: boot, SIGHUP
  ApplyJobs,        \* runs of the 10s cron entry of InboundController
  CheckJobs,        \* runs of CheckXrayRunningJob
  Admins,           \* HTTP handlers in UpdateXray
  NoWorker,         \* nobody holds Manager.mu
  Templates,        \* values of the xrayTemplateConfig setting
  Tables,           \* contents of the inbounds table the runs explore
  NoSnapshot,       \* nil snapshot; no Xray process to speak of
  Disturbances,     \* kinds of disturbance the environment may cause
  MaxDisturbances,  \* bound on how many happen
  MaxEdits          \* bound on committed changes of the database

Workers == {Main} \cup ApplyJobs \cup CheckJobs \cup Admins

Config == [template : Templates, inbounds : Table]

ASSUME RuntimeManagerAssumption ==
  /\ NoWorker \notin Workers
  /\ Main \notin ApplyJobs \cup CheckJobs \cup Admins
  /\ ApplyJobs \cap CheckJobs = {}
  /\ Admins \cap (ApplyJobs \cup CheckJobs) = {}
  /\ Tables \subseteq Table
  /\ NoSnapshot \notin Config
  /\ MaxDisturbances \in Nat
  /\ MaxEdits \in Nat

VARIABLES
  db,          \* committed configuration: template setting and inbounds table
  edits,       \* committed changes of db so far
  dirty,       \* setting runtimeDirty
  need,        \* isNeedXrayRestart
  unflagged,   \* handlers between their commit and SetToNeedRestart
  pc,          \* what each worker does next
  want,        \* snapshot each worker has read and built
  checkTime,   \* CheckXrayRunningJob.checkTime
  serving,     \* startTask has once come to its end: there may be handlers
  mu,          \* holder of Manager.mu
  snapshot,    \* Manager.snapshot
  plan,        \* operations Client.Apply has not issued yet
  proc,        \* state of Manager.process
  live,        \* configuration the Xray process has
  disturbed    \* disturbances so far

dbVars == <<db, edits>>
flagVars == <<need, unflagged>>
jobVars == <<want, checkTime, serving>>
xrayVars == <<proc, live>>

vars == <<db, edits, dirty, need, unflagged, pc, want, checkTime, serving,
          mu, snapshot, plan, proc, live, disturbed>>

(* Steps a worker takes while it holds the mutex. *)
Locked == {"verify", "ping", "apply", "fallback", "restart", "wait",
           "giveup", "clear"}

Labels == Locked \cup {"idle", "probe", "recover", "reprobe", "failed",
                       "stop", "template", "rows", "acquire"}

ProcStates == {"none", "starting", "up", "killed", "exited"}

TypeOK ==
  /\ db \in Config
  /\ edits \in 0..MaxEdits
  /\ dirty \in BOOLEAN
  /\ need \in BOOLEAN
  /\ unflagged \in Nat
  /\ pc \in [Workers -> Labels]
  /\ want \in [Workers -> Config \cup {NoSnapshot}]
  /\ checkTime \in 0..2
  /\ serving \in BOOLEAN
  /\ mu \in Workers \cup {NoWorker}
  /\ snapshot \in Config \cup {NoSnapshot}
  /\ plan \subseteq Operation
  /\ proc \in ProcStates
  /\ live \in Config \cup {NoSnapshot}
  /\ disturbed \in 0..MaxDisturbances

-----------------------------------------------------------------------------
(* The environment fails, or an operator intervenes, a bounded number of   *)
(* times.                                                                  *)
Disturb(kind) ==
  /\ kind \in Disturbances
  /\ disturbed < MaxDisturbances
  /\ disturbed' = disturbed + 1

Undisturbed == UNCHANGED disturbed

(* process.IsRunning: true from exec until Wait has returned, so a killed  *)
(* process counts until it is reaped.                                      *)
IsRunning == proc \in {"starting", "up", "killed"}

(* RestartXray(false) is called by the apply job alone; every other caller *)
(* forces a full restart.                                                  *)
IsForce(w) == w \notin ApplyJobs

Goto(w, label) == pc' = [pc EXCEPT ![w] = label]

(* The routine of a worker ends.  Errors are logged, and counted by the    *)
(* check job alone.  startTask ends by scheduling a new check job.         *)
Return(w, ok) ==
  /\ Goto(w, IF w \in CheckJobs /\ ~ok THEN "failed" ELSE "idle")
  /\ want' = [want EXCEPT ![w] = NoSnapshot]
  /\ checkTime' = IF w = Main \/ (w \in CheckJobs /\ ok) THEN 0 ELSE checkTime
  /\ serving' = (serving \/ w = Main)

-----------------------------------------------------------------------------
(* Changes of the database. *)

(* A handler of InboundController, or CheckInboundJob, commits a change of *)
(* the inbounds and only then calls SetToNeedRestart.                      *)
EditInbounds(table) ==
  /\ serving
  /\ edits < MaxEdits
  /\ table # db.inbounds
  /\ db' = [db EXCEPT !.inbounds = table]
  /\ edits' = edits + 1
  /\ unflagged' = unflagged + 1
  /\ UNCHANGED <<dirty, need, pc, jobVars, mu, snapshot, plan, xrayVars,
                 disturbed>>

SetToNeedRestart ==
  /\ unflagged > 0
  /\ unflagged' = unflagged - 1
  /\ need' = TRUE
  /\ UNCHANGED <<dbVars, dirty, pc, jobVars, mu, snapshot, plan, xrayVars,
                 disturbed>>

(* Saving the settings stores the template and flags nothing. *)
EditTemplate(template) ==
  /\ serving
  /\ edits < MaxEdits
  /\ template # db.template
  /\ db' = [db EXCEPT !.template = template]
  /\ edits' = edits + 1
  /\ UNCHANGED <<dirty, flagVars, pc, jobVars, mu, snapshot, plan, xrayVars,
                 disturbed>>

-----------------------------------------------------------------------------
(* How a worker sets out. *)

(* Cron entry of InboundController: IsNeedRestartAndSetFalse. *)
BeginApply(w) ==
  /\ pc[w] = "idle"
  /\ need
  /\ need' = FALSE
  /\ Goto(w, "template")
  /\ UNCHANGED <<dbVars, dirty, unflagged, jobVars, mu, snapshot, plan,
                 xrayVars, disturbed>>

(* Checks are scheduled, from the end of startTask on and until a SIGHUP   *)
(* stops cron; handlers it finds under way go on.                          *)
Scheduled == serving /\ pc[Main] \in {"idle", "stop"}

(* CheckXrayRunningJob.Run: IsXrayRunning takes the mutex for a moment. *)
BeginCheck(w) ==
  /\ pc[w] = "idle"
  /\ Scheduled
  /\ mu = NoWorker
  /\ Goto(w, IF IsRunning THEN "probe" ELSE "recover")
  /\ UNCHANGED <<dbVars, dirty, flagVars, jobVars, mu, snapshot, plan,
                 xrayVars, disturbed>>

(* CheckRuntimeHealth: the probe runs outside the mutex and may time out   *)
(* whatever Xray does.                                                     *)
Probe(w) ==
  /\ pc[w] = "probe"
  /\ \/ /\ proc = "up"
        /\ Return(w, TRUE)
     \/ /\ Goto(w, "recover")
        /\ UNCHANGED jobVars
  /\ UNCHANGED <<dbVars, dirty, flagVars, mu, snapshot, plan, xrayVars,
                 disturbed>>

(* RecoverIfDirty reads runtimeDirty; the read may fail. *)
Recover(w) ==
  /\ pc[w] = "recover"
  /\ \/ /\ Goto(w, IF dirty THEN "template" ELSE "reprobe")
        /\ Undisturbed
     \/ /\ Disturb("save")
        /\ Goto(w, "failed")
  /\ UNCHANGED <<dbVars, dirty, flagVars, jobVars, mu, snapshot, plan,
                 xrayVars>>

(* Not dirty: RecoverIfDirty only checks the health again. *)
Reprobe(w) ==
  /\ pc[w] = "reprobe"
  /\ \/ proc = "up" /\ Return(w, TRUE)
     \/ Return(w, FALSE)
  /\ UNCHANGED <<dbVars, dirty, flagVars, mu, snapshot, plan, xrayVars,
                 disturbed>>

(* Mutant: the threshold is one beyond what the counter is compared with.  *)
BugNeverAsks(w) ==
  /\ pc[w] = "failed"
  /\ checkTime' = IF checkTime < 2 THEN checkTime + 1 ELSE 2
  /\ need' = (need \/ checkTime' > 2)
  /\ Goto(w, "idle")
  /\ UNCHANGED <<dbVars, dirty, unflagged, want, serving, mu, snapshot, plan,
                 xrayVars, disturbed>>

(* The check job counts its failures; from the second on it asks for an    *)
(* apply.                                                                  *)
CountFailure(w) ==
  /\ pc[w] = "failed"
  /\ checkTime' = IF checkTime < 2 THEN checkTime + 1 ELSE 2
  /\ need' = (need \/ checkTime' = 2)
  /\ Goto(w, "idle")
  /\ UNCHANGED <<dbVars, dirty, unflagged, want, serving, mu, snapshot, plan,
                 xrayVars, disturbed>>

(* SIGHUP (Server.Stop, then a new Server), or UpdateXray replacing the    *)
(* binary: both stop Xray and then force a restart.                        *)
BeginRestart(w, kind) ==
  /\ pc[w] = "idle"
  /\ serving
  /\ Disturb(kind)
  /\ Goto(w, "stop")
  /\ UNCHANGED <<dbVars, dirty, flagVars, jobVars, mu, snapshot, plan,
                 xrayVars>>

(* Manager.Stop; its error, when nothing runs, is ignored. *)
Stop(w) ==
  /\ pc[w] = "stop"
  /\ mu = NoWorker
  /\ proc' = IF IsRunning THEN "killed" ELSE proc
  /\ Goto(w, "template")
  /\ UNCHANGED <<dbVars, dirty, flagVars, jobVars, mu, snapshot, plan, live,
                 disturbed>>

-----------------------------------------------------------------------------
(* Reconciler.Reconcile. *)

(* BuildRuntimeSnapshot, outside the mutex: the template is read first,    *)
(* then the inbounds, and then the snapshot is built from both.            *)
ReadTemplate(w) ==
  /\ pc[w] = "template"
  /\ want' = [want EXCEPT ![w] = [template |-> db.template,
                                  inbounds |-> EmptyTable]]
  /\ Goto(w, "rows")
  /\ UNCHANGED <<dbVars, dirty, flagVars, checkTime, serving, mu, snapshot,
                 plan, xrayVars, disturbed>>

ReadInbounds(w) ==
  /\ pc[w] = "rows"
  /\ want' = [want EXCEPT ![w].inbounds = db.inbounds]
  /\ Goto(w, "acquire")
  /\ UNCHANGED <<dbVars, dirty, flagVars, checkTime, serving, mu, snapshot,
                 plan, xrayVars, disturbed>>

(* A read fails, or one inbound does not build (a certificate file is      *)
(* gone): Reconcile returns before it reaches the manager.                 *)
BuildFails(w) ==
  /\ pc[w] \in {"template", "rows"}
  /\ Disturb("build")
  /\ Return(w, FALSE)
  /\ UNCHANGED <<dbVars, dirty, flagVars, mu, snapshot, plan, xrayVars>>

(* Manager.Sync takes the mutex and chooses its way. *)
Acquire(w) ==
  /\ pc[w] = "acquire"
  /\ mu = NoWorker
  /\ mu' = w
  /\ \/ /\ IsForce(w) \/ ~IsRunning \/ snapshot = NoSnapshot
        /\ Goto(w, "restart")
        /\ plan' = {}
     \/ /\ ~IsForce(w) /\ IsRunning /\ snapshot # NoSnapshot
        /\ IF snapshot = want[w]
           THEN Goto(w, "verify") /\ plan' = {}
           ELSE /\ plan' = Plan(snapshot.inbounds, want[w].inbounds)
                /\ Goto(w, IF plan' = {} THEN "clear" ELSE "ping")
  /\ UNCHANGED <<dbVars, dirty, flagVars, jobVars, snapshot, xrayVars,
                 disturbed>>

(* healthCheckLocked, on an unchanged configuration and before a plan. *)
HealthCheck(w, here, healthy) ==
  /\ pc[w] = here
  /\ \/ /\ proc = "up"
        /\ Goto(w, healthy)
        /\ Undisturbed
        /\ UNCHANGED plan
     \/ /\ IF proc = "up" THEN Disturb("api") ELSE Undisturbed
        /\ Goto(w, "fallback")
        /\ plan' = {}
  /\ UNCHANGED <<dbVars, dirty, flagVars, jobVars, mu, snapshot, xrayVars>>

Verify(w) == HealthCheck(w, "verify", "clear")
Ping(w) == HealthCheck(w, "ping", "apply")

(* Mutant: the loop over the plan returns after its first operation.       *)
BugAppliesOne(w, op) ==
  /\ pc[w] = "apply"
  /\ proc = "up"
  /\ op \in Ready(plan)
  /\ Accepts(op, live.inbounds)
  /\ live' = [live EXCEPT !.inbounds =
                ApplyOperation(op, live.inbounds, want[w].inbounds)]
  /\ plan' = {} /\ snapshot' = want[w] /\ Goto(w, "clear")
  /\ UNCHANGED <<dbVars, dirty, flagVars, jobVars, mu, proc, disturbed>>

(* Client.Apply: the next call succeeds; after the last one the manager    *)
(* adopts the snapshot.                                                    *)
ApplyCall(w, op) ==
  /\ pc[w] = "apply"
  /\ proc = "up"
  /\ op \in Ready(plan)
  /\ Accepts(op, live.inbounds)
  /\ live' = [live EXCEPT !.inbounds =
                ApplyOperation(op, live.inbounds, want[w].inbounds)]
  /\ plan' = Remaining(op, plan)
  /\ IF plan' = {}
     THEN snapshot' = want[w] /\ Goto(w, "clear")
     ELSE UNCHANGED <<snapshot, pc>>
  /\ UNCHANGED <<dbVars, dirty, flagVars, jobVars, mu, proc, disturbed>>

(* Mutant: a failed call is reported and the half-applied plan left there. *)
BugNoFallback(w, op) ==
  /\ pc[w] = "apply"
  /\ op \in Ready(plan)
  /\ IF proc = "up" /\ Accepts(op, live.inbounds)
     THEN Disturb("api") ELSE Undisturbed
  /\ plan' = {}
  /\ Goto(w, "giveup")
  /\ UNCHANGED <<dbVars, dirty, flagVars, jobVars, mu, snapshot, xrayVars>>

(* Mutant: after a failed call the plan is computed and tried once more.   *)
BugRetryPlan(w, op) ==
  /\ pc[w] = "apply"
  /\ op \in Ready(plan)
  /\ IF proc = "up" /\ Accepts(op, live.inbounds)
     THEN Disturb("api") ELSE Undisturbed
  /\ plan' = Plan(snapshot.inbounds, want[w].inbounds)
  /\ Goto(w, "ping")
  /\ UNCHANGED <<dbVars, dirty, flagVars, jobVars, mu, snapshot, xrayVars>>

(* The next call fails: nobody answers, Xray rejects it, or the deadline   *)
(* passes, with the call executed or not.                                  *)
ApplyCallFails(w, op) ==
  /\ pc[w] = "apply"
  /\ op \in Ready(plan)
  /\ IF proc = "up" /\ Accepts(op, live.inbounds)
     THEN /\ Disturb("api")
          /\ \/ UNCHANGED live
             \/ live' = [live EXCEPT !.inbounds =
                  ApplyOperation(op, live.inbounds, want[w].inbounds)]
     ELSE Undisturbed /\ UNCHANGED live
  /\ plan' = {}
  /\ Goto(w, "fallback")
  /\ UNCHANGED <<dbVars, dirty, flagVars, jobVars, mu, snapshot, proc>>

(* Mutant: the trouble is logged and not recorded.                         *)
BugNotRecorded ==
  UNCHANGED dirty /\ Undisturbed

(* markRuntimeIssueLocked: the write of runtimeDirty may fail. *)
MarkRuntimeIssue ==
  \/ dirty' = TRUE /\ Undisturbed
  \/ UNCHANGED dirty /\ Disturb("save")

(* fallbackFullRestartLocked records the cause, then restarts. *)
Fallback(w) ==
  /\ pc[w] = "fallback"
  /\ MarkRuntimeIssue
  /\ Goto(w, "restart")
  /\ UNCHANGED <<dbVars, flagVars, jobVars, mu, snapshot, plan, xrayVars>>

(* fullRestartLocked: kill the old process and start one on the desired    *)
(* configuration; the snapshot is adopted before anybody knows whether     *)
(* the process comes up.                                                   *)
Restart(w) ==
  /\ pc[w] = "restart"
  /\ proc' = "starting"
  /\ live' = want[w]
  /\ snapshot' = want[w]
  /\ Goto(w, "wait")
  /\ UNCHANGED <<dbVars, dirty, flagVars, jobVars, mu, plan, disturbed>>

(* Process.Start fails (config.json cannot be written): the old process is *)
(* gone and the snapshot stays what it was.                                *)
StartFails(w) ==
  /\ pc[w] = "restart"
  /\ Disturb("start")
  /\ proc' = "none"
  /\ live' = NoSnapshot
  /\ Goto(w, "giveup")
  /\ UNCHANGED <<dbVars, dirty, flagVars, jobVars, mu, snapshot, plan>>

(* waitForHealthyLocked, for ten seconds. *)
WaitForHealthy(w) ==
  /\ pc[w] = "wait"
  /\ \/ /\ proc = "up"
        /\ Goto(w, "clear")
        /\ Undisturbed
     \/ /\ IF proc \in {"starting", "up"} THEN Disturb("slow") ELSE Undisturbed
        /\ Goto(w, "giveup")
  /\ UNCHANGED <<dbVars, dirty, flagVars, jobVars, mu, snapshot, plan,
                 xrayVars>>

(* Sync returns an error after marking the runtime dirty. *)
GiveUp(w) ==
  /\ pc[w] = "giveup"
  /\ MarkRuntimeIssue
  /\ mu' = NoWorker
  /\ Return(w, FALSE)
  /\ UNCHANGED <<dbVars, flagVars, snapshot, plan, xrayVars>>

(* Mutant: a sync that ends well also resets isNeedXrayRestart.            *)
BugResetsNeed(w) ==
  /\ pc[w] = "clear"
  /\ mu' = NoWorker
  /\ dirty' = FALSE
  /\ need' = FALSE
  /\ Undisturbed
  /\ Return(w, TRUE)
  /\ UNCHANGED <<dbVars, unflagged, snapshot, plan, xrayVars>>

(* clearRuntimeStatusLocked: two settings are written, and Sync returns an *)
(* error when either write fails, before or after runtimeDirty is reset.   *)
ClearRuntimeStatus(w) ==
  /\ pc[w] = "clear"
  /\ mu' = NoWorker
  /\ \/ /\ dirty' = FALSE
        /\ Undisturbed
        /\ Return(w, TRUE)
     \/ /\ dirty' \in {dirty, FALSE}
        /\ Disturb("save")
        /\ Return(w, FALSE)
  /\ UNCHANGED <<dbVars, flagVars, snapshot, plan, xrayVars>>

-----------------------------------------------------------------------------
(* The Xray process, and the panel process itself. *)

XrayUp ==
  /\ proc = "starting"
  /\ proc' = "up"
  /\ UNCHANGED <<dbVars, dirty, flagVars, pc, jobVars, mu, snapshot, plan,
                 live, disturbed>>

(* Xray exits by itself (a crash, a port it cannot bind), or is reaped.    *)
XrayExit ==
  /\ IsRunning
  /\ IF proc = "killed" THEN Undisturbed ELSE Disturb("crash")
  /\ proc' = "exited"
  /\ live' = NoSnapshot
  /\ UNCHANGED <<dbVars, dirty, flagVars, pc, jobVars, mu, snapshot, plan>>

(* The panel dies with its child and systemd starts it again: only the     *)
(* database survives.                                                      *)
PanelCrash ==
  /\ Disturb("panel")
  /\ need' = FALSE
  /\ unflagged' = 0
  /\ pc' = [w \in Workers |-> IF w = Main THEN "template" ELSE "idle"]
  /\ want' = [w \in Workers |-> NoSnapshot]
  /\ checkTime' = 0
  /\ serving' = FALSE
  /\ mu' = NoWorker
  /\ snapshot' = NoSnapshot
  /\ plan' = {}
  /\ proc' = "none"
  /\ live' = NoSnapshot
  /\ UNCHANGED <<dbVars, dirty>>

-----------------------------------------------------------------------------
(* startTask begins with RestartXray(true); runtimeDirty is whatever the   *)
(* last run of the panel left.                                             *)
Init ==
  /\ db \in [template : Templates, inbounds : Tables]
  /\ edits = 0
  /\ dirty \in BOOLEAN
  /\ need = FALSE
  /\ unflagged = 0
  /\ pc = [w \in Workers |-> IF w = Main THEN "template" ELSE "idle"]
  /\ want = [w \in Workers |-> NoSnapshot]
  /\ checkTime = 0
  /\ serving = FALSE
  /\ mu = NoWorker
  /\ snapshot = NoSnapshot
  /\ plan = {}
  /\ proc = "none"
  /\ live = NoSnapshot
  /\ disturbed = 0

Reconcile(w) ==
  \/ ReadTemplate(w)
  \/ ReadInbounds(w)
  \/ BuildFails(w)
  \/ Acquire(w)
  \/ Verify(w)
  \/ Ping(w)
  \/ \E op \in plan : ApplyCall(w, op) \/ ApplyCallFails(w, op)
  \/ Fallback(w)
  \/ Restart(w)
  \/ StartFails(w)
  \/ WaitForHealthy(w)
  \/ GiveUp(w)
  \/ ClearRuntimeStatus(w)

CheckStep(w) == Probe(w) \/ Recover(w) \/ Reprobe(w) \/ CountFailure(w)

Next ==
  \/ \E table \in Tables : EditInbounds(table)
  \/ \E template \in Templates : EditTemplate(template)
  \/ SetToNeedRestart
  \/ \E w \in ApplyJobs : BeginApply(w)
  \/ \E w \in CheckJobs : BeginCheck(w) \/ CheckStep(w)
  \/ BeginRestart(Main, "sighup")
  \/ \E w \in Admins : BeginRestart(w, "update")
  \/ \E w \in {Main} \cup Admins : Stop(w)
  \/ \E w \in Workers : Reconcile(w)
  \/ XrayUp
  \/ XrayExit
  \/ PanelCrash

Spec == Init /\ [][Next]_vars

(* A handler that committed goes on, the cron entries fire, goroutines are *)
(* scheduled, an Xray that was started comes up and one that was killed is *)
(* reaped.  sync.Mutex hands itself over in order once a waiter starves,   *)
(* hence strong fairness where a worker waits for it.                      *)
Fairness ==
  /\ WF_vars(SetToNeedRestart)
  /\ WF_vars(XrayUp)
  /\ WF_vars(proc = "killed" /\ XrayExit)
  /\ \A w \in ApplyJobs : WF_vars(BeginApply(w))
  /\ \A w \in CheckJobs : SF_vars(BeginCheck(w)) /\ WF_vars(CheckStep(w))
  /\ \A w \in {Main} \cup Admins : SF_vars(Stop(w))
  /\ \A w \in Workers : SF_vars(Acquire(w)) /\ WF_vars(Reconcile(w))

FairSpec == Spec /\ Fairness

-----------------------------------------------------------------------------
(* Manager.mu: a worker is between Lock and Unlock of Sync exactly when it *)
(* holds the mutex, so two syncs never interleave their steps.             *)
LockDiscipline == \A w \in Workers : pc[w] \in Locked <=> mu = w

(* A sync is changing the running Xray, or has failed half-way through and *)
(* has not killed it yet.                                                  *)
InTransit == mu # NoWorker /\ pc[mu] \in {"apply", "fallback", "restart"}

(* Manager.snapshot is what the next plan is computed from, and nothing    *)
(* ever reads the real configuration back from Xray: outside a sync that   *)
(* is changing it, the snapshot must describe the running process, through *)
(* partial applies, failed starts, crashes and overlapping jobs.           *)
LiveMatchesSnapshot ==
  (IsRunning /\ ~InTransit) =>
    /\ snapshot # NoSnapshot
    /\ SameManagedTable(live.inbounds, snapshot.inbounds)

(* Xray never rejects a call of Client.Apply, whatever happened to it      *)
(* before: a full restart is caused by failures, never by a wrong plan.    *)
PlanIsAcceptable ==
  \A w \in Workers :
    (pc[w] = "apply" /\ IsRunning) =>
      \A op \in Ready(plan) : Accepts(op, live.inbounds)

(* Sync returns to w with runtimeDirty reset, no write of it having failed. *)
EndsClean(w) ==
  /\ pc[w] \in Locked /\ pc'[w] \in {"idle", "failed"}
  /\ ~dirty' /\ disturbed' = disturbed

AdoptedDesired(w) ==
  /\ snapshot' # NoSnapshot
  /\ SameManagedTable(snapshot'.inbounds, want[w].inbounds)

(* When Sync returns with runtimeDirty reset, the manager is on the        *)
(* desired inbounds: no error path of Sync (fallback, failed start, health *)
(* timeout) ends looking clean, unless the write of runtimeDirty itself    *)
(* failed.                                                                 *)
CleanSyncHasDesired ==
  [][\A w \in Workers : EndsClean(w) => AdoptedDesired(w)]_vars

(* Seen from outside: what each worker carries to Xray, who is changing    *)
(* Xray, and what Xray serves when nobody is; all as the planner sees it.  *)
ManagedTable ==
  [Tags -> [core : Cores, users : [Emails -> Ids \cup {NoUser}]] \cup {NoInbound}]

Carrying == Locked \cup {"acquire"}
Held == [w \in Workers |->
           IF pc[w] \in Carrying THEN {Managed(want[w].inbounds)} ELSE {}]
Changing == IF InTransit THEN {mu} ELSE {}
Serves == IF IsRunning /\ ~InTransit THEN {Managed(live.inbounds)} ELSE {}

Promise == INSTANCE SyncPromise WITH
  Reconciles <- Workers, Contents <- ManagedTable,
  database <- Managed(db.inbounds), dirty <- dirty,
  read <- Held, changing <- Changing, serves <- Serves

(* Every sync, however it fails, leaves Xray with all of what its          *)
(* reconcile read or without a configuration; syncs do not mix; and        *)
(* runtimeDirty is only reset by a sync that Xray agrees with.             *)
ImplementsPromise == Promise!Spec
=============================================================================

--------------------------- MODULE RuntimeHistory ---------------------------
(***************************************************************************)
(* RuntimeManager with history variables: which committed change of the    *)
(* database each reconcile has read, and the two ways the panel has of     *)
(* forgetting one.  They follow the steps of RuntimeManager and restrict   *)
(* none of them.                                                           *)
(***************************************************************************)
EXTENDS RuntimeManager, FiniteSetsExt

VARIABLES
  seen,       \* edits at the time each worker read the inbounds
  newest,     \* newest of the reads that have entered Manager.Sync
  overtaken,  \* a reconcile entered Sync after one with a newer read
  lostBuild   \* an apply run consumed isNeedXrayRestart and did not build

historyVars == <<seen, newest, overtaken, lostBuild>>
allVars == <<vars, historyVars>>

HistoryInit ==
  /\ Init
  /\ seen = [w \in Workers |-> 0]
  /\ newest = 0
  /\ overtaken = FALSE
  /\ lostBuild = FALSE

Entering(w) == pc[w] = "acquire" /\ mu' = w

HistoryStep ==
  /\ seen' = [w \in Workers |->
                IF pc[w] = "rows" /\ pc'[w] = "acquire" THEN edits
                ELSE IF pc'[w] \in {"idle", "failed"} THEN 0 ELSE seen[w]]
  /\ newest' = Max({newest} \cup {seen[w] : w \in {x \in Workers : Entering(x)}})
  /\ overtaken' = (overtaken \/ \E w \in Workers : Entering(w) /\ seen[w] < newest)
  /\ lostBuild' = (lostBuild \/ \E w \in ApplyJobs : BuildFails(w))

HistoryNext == Next /\ HistoryStep

HistorySpec == HistoryInit /\ [][HistoryNext]_allVars
HistoryFairSpec == HistorySpec /\ Fairness

-----------------------------------------------------------------------------
(* Nobody is about to bring Xray up to date. *)
Quiescent ==
  /\ \A w \in Workers : pc[w] = "idle"
  /\ ~need
  /\ unflagged = 0

(* Xray serves the inbounds and named users of the database. *)
InSync ==
  /\ proc = "up"
  /\ SameManagedTable(live.inbounds, db.inbounds)

(* "The DB is the source of truth": when no job is under way and no change *)
(* is flagged, a running Xray has what the database holds.  Holds through  *)
(* crashes, partial applies, restarts and overlapping jobs, except after   *)
(* the two accidents the history variables record.                         *)
QuietMeansInSync ==
  (Quiescent /\ proc = "up" /\ ~overtaken /\ ~lostBuild) => InSync

(* The runtime converges: after the last change and the last disturbance,  *)
(* Xray ends up running the database's inbounds and stays there.           *)
Converges == <>[](InSync \/ overtaken \/ lostBuild)
=============================================================================

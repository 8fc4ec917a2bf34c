--------------------------- MODULE PortGuardProofs ---------------------------
(***************************************************************************)
(* PortGuard for every set of ports, runs and handlers, and every bound.   *)
(***************************************************************************)
EXTENDS PortGuard, TLAPS

(* At most one run is past the lock file. *)
LockIsHeld == \A r \in Runs : pc[r] \in Locked => lock = r

(* The rules a run is about to record in desired.conf are in the table.    *)
SavedAreBuilt ==
  \A r \in Runs : pc[r] = "save" =>
    table # NoTable /\ table.rules = Managed(desired[r])

IInv ==
  /\ TypeOK
  /\ LockIsHeld
  /\ SavedAreBuilt
  /\ BlockedIsGuarded
  /\ StateTellsRules

-----------------------------------------------------------------------------
USE PortGuardAssumption DEF dbVars, runVars, handlerVars, boundVars

LEMMA TablesTyped ==
  /\ NoRules \in Rules
  /\ NoRules \in Desired
  /\ NoTimes \in [Ports -> Times]
  /\ EmptyTable \in Table
  /\ NoTable \notin Table
  /\ AnyPort \in Ports
BY DEF AnyPort, NoRules, NoTimes, EmptyTable, Rules, Desired, Times, Table

LEMMA ManagedTyped ==
  ASSUME NEW conf \in Desired
  PROVE  Managed(conf) \in Rules
BY DEF Managed, Desired, Rules

LEMMA FinishTyped ==
  ASSUME TypeOK, NEW r \in Runs, Finish(r)
  PROVE  /\ lock' = NoRun
         /\ pc' = [pc EXCEPT ![r] = "idle"]
         /\ pc' \in [Workers -> Labels]
         /\ desired' \in [Runs -> Desired]
         /\ desired' = [desired EXCEPT ![r] = NoRules]
         /\ listed' \in [Runs -> [Ports -> Times]]
         /\ chosen' \in [Workers -> Ports]
BY TablesTyped DEF TypeOK, Finish, Goto, Workers, Labels

LEMMA NextTypeOK == TypeOK /\ [Next]_vars => TypeOK'
<1> SUFFICES ASSUME TypeOK, [Next]_vars
             PROVE  TypeOK'
  OBVIOUS
<1> USE TablesTyped
<1>0. Runs \subseteq Workers /\ Admins \subseteq Workers
  BY DEF Workers
<1>a. ASSUME NEW r \in Runs, Start(r) \/ RunStep(r) \/ Kill(r)
      PROVE  TypeOK'
  <2>1. CASE Start(r)
    BY <1>0, <2>1 DEF Start, TypeOK, Goto, Labels
  <2>2. CASE TakeLock(r)
    BY <1>0, <2>2 DEF TakeLock, TypeOK, Goto, Labels, Locked
  <2>3. CASE Busy(r)
    BY <1>0, <2>3 DEF Busy, TypeOK, Goto, Labels
  <2>4. CASE ReadSettings(r)
    BY <1>0, <2>4 DEF ReadSettings, TypeOK, Goto, Labels, Locked, Desired
  <2>5. CASE ReadRows(r)
    BY <1>0, <2>5 DEF ReadRows, TypeOK, Goto, Labels, Locked, Desired, Rules
  <2>6. CASE Compare(r)
    BY <1>0, <2>6 DEF Compare, TypeOK, Goto, Labels, Locked
  <2>7. CASE DeleteTable(r)
    BY <1>0, <2>7 DEF DeleteTable, TypeOK, Goto, Labels, Locked
  <2>8. CASE CreateTable(r)
    BY <1>0, <2>8 DEF CreateTable, TypeOK, Goto, Labels, Locked
  <2>9. CASE \E p \in Ports : AddRules(r, p)
    <3> PICK p \in Ports : AddRules(r, p)
      BY <2>9
    <3>1. Managed(desired[r])[p] \in Limits \cup {Off}
      BY ManagedTyped DEF TypeOK, Rules
    <3>2. table' \in Table
      BY <3>1 DEF AddRules, TypeOK, Table, Rules
    <3> QED BY <3>2 DEF AddRules, TypeOK
  <2>10. CASE RulesDone(r)
    BY <1>0, <2>10 DEF RulesDone, TypeOK, Goto, Labels, Locked
  <2>11. CASE SaveState(r)
    BY <1>0, <2>11 DEF SaveState, TypeOK, Goto, Labels, Locked
  <2>12. CASE ListBans(r)
    <3>1. CASE \E p \in Ports : IsBlocked(p)
      <4>1. \A p \in Ports : IsBlocked(p) => table.until[p] \in Times
        BY DEF IsBlocked, TypeOK, Table
      <4>2. 0 \in Times
        BY DEF Times
      <4>3. listed' \in [Runs -> [Ports -> Times]]
        <5> DEFINE seen == [p \in Ports |-> IF IsBlocked(p) THEN table.until[p] ELSE 0]
        <5>1. seen \in [Ports -> Times]
          BY <4>1, <4>2
        <5>2. listed' = [listed EXCEPT ![r] = seen]
          BY <2>12, <3>1 DEF ListBans
        <5> HIDE DEF seen
        <5> QED BY <5>1, <5>2 DEF TypeOK
      <4>4. pc' = [pc EXCEPT ![r] = "select"] /\ UNCHANGED <<lock, desired, chosen>>
        BY <2>12, <3>1 DEF ListBans, Goto
      <4>5. pc' \in [Workers -> Labels]
        BY <1>0, <4>4 DEF TypeOK, Labels, Locked
      <4> QED BY <2>12, <4>3, <4>4, <4>5 DEF ListBans, TypeOK
    <3>2. CASE ~\E p \in Ports : IsBlocked(p)
      BY <2>12, <3>2, FinishTyped DEF ListBans, TypeOK
    <3> QED BY <3>1, <3>2
  <2>13. CASE SelectRow(r)
    <3>1. CASE Finish(r)
      BY <2>13, <3>1, FinishTyped DEF SelectRow, TypeOK
    <3>2. CASE \E p \in Ports : chosen' = [chosen EXCEPT ![r] = p]
               /\ Goto(r, "commit") /\ UNCHANGED <<lock, runVars>>
      BY <1>0, <2>13, <3>2 DEF SelectRow, TypeOK, Goto, Labels, Locked
    <3> QED BY <2>13, <3>1, <3>2 DEF SelectRow
  <2>14. CASE CommitBans(r)
    <3>1. bannedUntil' \in [Ports -> Times]
      BY <2>14 DEF CommitBans, TypeOK
    <3> QED BY <2>14, <3>1, FinishTyped DEF CommitBans, TypeOK
  <2>15. CASE Kill(r)
    BY <2>15, FinishTyped DEF Kill, Fault, TypeOK
  <2> QED BY <1>a, <2>1, <2>2, <2>3, <2>4, <2>5, <2>6, <2>7, <2>8, <2>9, <2>10, <2>11, <2>12, <2>13, <2>14, <2>15 DEF RunStep
<1>b. ASSUME NEW h \in Admins, NEW p \in Ports,
             BeginUnban(h, p) \/ ReadInbound(h, p)
      PROVE  TypeOK'
  <2>1. CASE BeginUnban(h, p)
    BY <1>0, <2>1 DEF BeginUnban, Edit, TypeOK, Goto, Labels
  <2>2. CASE ReadInbound(h, p)
    BY <1>0, <2>2 DEF ReadInbound, Edit, TypeOK, Goto, Labels
  <2> QED BY <1>b, <2>1, <2>2
<1>c. ASSUME NEW h \in Admins, HandlerStep(h)
      PROVE  TypeOK'
  <2>0. chosen[h] \in Ports /\ 0 \in Times
    BY <1>0 DEF TypeOK, Times
  <2>1. CASE Unblock(h)
    <3>1. table' \in Table \cup {NoTable}
      BY <2>0, <2>1 DEF Unblock, TypeOK, Table
    <3> QED BY <1>0, <2>1, <3>1 DEF Unblock, TypeOK, Goto, Labels
  <2>2. CASE FlushSources(h)
    <3>1. table' \in Table \cup {NoTable}
      BY <2>0, <2>2 DEF FlushSources, TypeOK, Table
    <3> QED BY <1>0, <2>2, <3>1 DEF FlushSources, TypeOK, Goto, Labels
  <2>3. CASE ForgetBan(h)
    BY <1>0, <2>0, <2>3 DEF ForgetBan, TypeOK, Goto, Labels
  <2>4. CASE \E l \in Limits \cup {Off} : SaveInbound(h, l)
    BY <1>0, <2>0, <2>4 DEF SaveInbound, TypeOK, Rules, Goto, Labels
  <2> QED BY <1>c, <2>1, <2>2, <2>3, <2>4 DEF HandlerStep
<1>d. ASSUME NEW ports \in SUBSET Ports, EditWhitelist(ports)
      PROVE  TypeOK'
  BY <1>d DEF EditWhitelist, Edit, TypeOK
<1>e. ASSUME NEW p \in Ports, NewSource(p) \/ SourceExpires(p)
      PROVE  TypeOK'
  <2>0. now + BanTime \in Times
    BY DEF TypeOK, Times
  <2>1. CASE NewSource(p)
    <3>1. table' \in Table
      <4>0. table \in Table
        BY <2>1 DEF NewSource, TypeOK
      <4>1. CASE table.sources[p] < table.rules[p]
        BY <2>1, <4>0, <4>1 DEF NewSource, Table
      <4>2. CASE ~(table.sources[p] < table.rules[p])
        BY <2>0, <2>1, <4>0, <4>2 DEF NewSource, Table
      <4> QED BY <4>1, <4>2
    <3> QED BY <2>1, <3>1 DEF NewSource, TypeOK
  <2>2. CASE SourceExpires(p)
    <3>1. table' \in Table
      BY <2>2 DEF SourceExpires, TypeOK, Table
    <3> QED BY <2>2, <3>1 DEF SourceExpires, TypeOK
  <2> QED BY <1>e, <2>1, <2>2
<1>f. CASE Tick
  BY <1>f DEF Tick, TypeOK
<1>g. CASE Reboot
  <2>1. pc' \in [Workers -> Labels]
    BY <1>g DEF Reboot, Labels
  <2>2. desired' \in [Runs -> Desired] /\ listed' \in [Runs -> [Ports -> Times]]
    BY <1>g DEF Reboot
  <2>3. faults' \in 0..MaxFaults
    BY <1>g DEF Reboot, Fault, TypeOK
  <2>4. chosen' \in [Workers -> Ports] /\ stale' \in [Admins -> Times]
    BY <1>g DEF Reboot, Times
  <2> QED BY <1>g, <2>1, <2>2, <2>3, <2>4 DEF Reboot, Fault, TypeOK
<1>h. CASE UNCHANGED vars
  BY <1>h DEF vars, TypeOK
<1> QED BY <1>a, <1>b, <1>c, <1>d, <1>e, <1>f, <1>g, <1>h DEF Next

LEMMA TableUpdated ==
  ASSUME NEW t \in Table, NEW p \in Ports
  PROVE  /\ \A n \in Times : /\ [t EXCEPT !.until[p] = n] \in Table
                            /\ [t EXCEPT !.until[p] = n].rules = t.rules
         /\ \A n \in Nat : /\ [t EXCEPT !.sources[p] = n] \in Table
                          /\ [t EXCEPT !.sources[p] = n].rules = t.rules
BY DEF Table

LEMMA BanUpdated ==
  ASSUME NEW t \in Table, NEW p \in Ports, NEW n \in Times
  PROVE  /\ [t EXCEPT !.until[p] = n] \in Table
         /\ [t EXCEPT !.until[p] = n].rules = t.rules
BY DEF Table

LEMMA SourcesUpdated ==
  ASSUME NEW t \in Table, NEW p \in Ports, NEW n \in Nat
  PROVE  /\ [t EXCEPT !.sources[p] = n] \in Table
         /\ [t EXCEPT !.sources[p] = n].rules = t.rules
BY DEF Table

(* The steps of handlers, kernel and clock. *)
Outside ==
  \/ \E h \in Admins, p \in Ports : BeginUnban(h, p) \/ ReadInbound(h, p)
  \/ \E h \in Admins : HandlerStep(h)
  \/ \E ports \in SUBSET Ports : EditWhitelist(ports)
  \/ \E p \in Ports : NewSource(p) \/ SourceExpires(p)
  \/ Tick
  \/ UNCHANGED vars

(* They leave the rules, and every run, where they are. *)
LEMMA OutsideKeepsRules ==
  ASSUME TypeOK, Outside
  PROVE  /\ UNCHANGED <<stateFile, lock, desired, torn>>
         /\ \A r \in Runs : pc'[r] = pc[r]
         /\ table' = NoTable <=> table = NoTable
         /\ table # NoTable => table'.rules = table.rules
<1> USE DEF TypeOK, Goto, Workers
<1> DEFINE Kept == /\ UNCHANGED <<stateFile, lock, desired, torn>>
                   /\ \A r \in Runs : pc'[r] = pc[r]
                   /\ table' = NoTable <=> table = NoTable
                   /\ table # NoTable => table'.rules = table.rules
<1>1. ASSUME NEW h \in Admins, NEW p \in Ports,
             BeginUnban(h, p) \/ ReadInbound(h, p)
      PROVE  Kept
  BY <1>1 DEF BeginUnban, ReadInbound
<1>2. ASSUME NEW h \in Admins, Unblock(h) \/ FlushSources(h)
      PROVE  Kept
  <2>1. UNCHANGED <<stateFile, lock, desired, torn>>
    BY <1>2 DEF Unblock, FlushSources
  <2>2. \A r \in Runs : pc'[r] = pc[r]
    BY <1>2 DEF Unblock, FlushSources
  <2>3. CASE table = NoTable
    BY <1>2, <2>1, <2>2, <2>3 DEF Unblock, FlushSources
  <2>4. CASE table # NoTable
    <3>1. table \in Table /\ chosen[h] \in Ports /\ 0 \in Times
      BY <2>4 DEF Times
    <3>2. \/ table' = [table EXCEPT !.until[chosen[h]] = 0]
          \/ table' = [table EXCEPT !.sources[chosen[h]] = 0]
      BY <1>2, <2>4 DEF Unblock, FlushSources
    <3>3. table' \in Table /\ table'.rules = table.rules
      <4>1. CASE table' = [table EXCEPT !.until[chosen[h]] = 0]
        BY <3>1, <4>1, BanUpdated
      <4>2. CASE table' = [table EXCEPT !.sources[chosen[h]] = 0]
        BY <3>1, <4>2, SourcesUpdated
      <4> QED BY <3>2, <4>1, <4>2
    <3>4. table' # NoTable
      BY <3>3, TablesTyped
    <3> QED BY <2>1, <2>2, <2>4, <3>3, <3>4
  <2> QED BY <2>3, <2>4
<1>3. ASSUME NEW h \in Admins, ForgetBan(h) \/ \E l \in Limits \cup {Off} : SaveInbound(h, l)
      PROVE  Kept
  BY <1>3 DEF ForgetBan, SaveInbound
<1>4. ASSUME NEW p \in Ports, NewSource(p) \/ SourceExpires(p)
      PROVE  Kept
  <2>1. UNCHANGED <<stateFile, lock, desired, torn, pc>> /\ table # NoTable
    BY <1>4 DEF NewSource, SourceExpires
  <2>2. table \in Table
    BY <2>1
  <2>3. /\ table.sources[p] + 1 \in Nat
        /\ table.sources[p] > 0 => table.sources[p] - 1 \in Nat
        /\ now + BanTime \in Times
    BY <2>2 DEF Table, Times
  <2>4. \/ table' = [table EXCEPT !.until[p] = now + BanTime]
        \/ table' = [table EXCEPT !.sources[p] = table.sources[p] + 1]
        \/ /\ table.sources[p] > 0
           /\ table' = [table EXCEPT !.sources[p] = table.sources[p] - 1]
    BY <1>4 DEF NewSource, SourceExpires
  <2>5. table' \in Table /\ table'.rules = table.rules
    <3>1. CASE table' = [table EXCEPT !.until[p] = now + BanTime]
      BY <2>2, <2>3, <3>1, BanUpdated
    <3>2. CASE table' = [table EXCEPT !.sources[p] = table.sources[p] + 1]
      BY <2>2, <2>3, <3>2, SourcesUpdated
    <3>3. CASE /\ table.sources[p] > 0
               /\ table' = [table EXCEPT !.sources[p] = table.sources[p] - 1]
      BY <2>2, <2>3, <3>3, SourcesUpdated
    <3> QED BY <2>4, <3>1, <3>2, <3>3
  <2>6. table' # NoTable
    BY <2>5, TablesTyped
  <2> QED BY <2>1, <2>5, <2>6
<1>5. CASE \/ \E ports \in SUBSET Ports : EditWhitelist(ports)
           \/ Tick
           \/ UNCHANGED vars
  BY <1>5 DEF EditWhitelist, Tick, vars
<1>6. Kept
  BY <1>1, <1>2, <1>3, <1>4, <1>5 DEF Outside, HandlerStep
<1> QED BY <1>6

(* The steps of a run that leave the table alone and do not lead to its    *)
(* filling.                                                                *)
Quiet(r) ==
  \/ Start(r) \/ TakeLock(r) \/ Busy(r)
  \/ ReadSettings(r) \/ ReadRows(r) \/ Compare(r)
  \/ ListBans(r) \/ SelectRow(r) \/ CommitBans(r)

LEMMA QuietKeepsRules ==
  ASSUME TypeOK, NEW r \in Runs, Quiet(r)
  PROVE  /\ UNCHANGED <<table, stateFile, now, torn>>
         /\ pc[r] \notin {"ports", "save"} /\ pc'[r] \notin {"ports", "save"}
         /\ \A q \in Runs \ {r} : pc'[q] = pc[q] /\ desired'[q] = desired[q]
BY DEF TypeOK, Workers, Goto, Quiet, Start, TakeLock, Busy, ReadSettings,
       ReadRows, Compare, ListBans, SelectRow, CommitBans, Finish

LEMMA Cases ==
  ASSUME [Next]_vars
  PROVE  \/ \E r \in Runs :
              \/ Quiet(r)
              \/ DeleteTable(r) \/ CreateTable(r)
              \/ \E p \in Ports : AddRules(r, p)
              \/ RulesDone(r) \/ SaveState(r)
              \/ Kill(r)
         \/ Outside
         \/ Reboot
BY DEF Next, RunStep, Quiet, Outside

LEMMA NextLockIsHeld == TypeOK /\ LockIsHeld /\ [Next]_vars => LockIsHeld'
<1> SUFFICES ASSUME TypeOK, LockIsHeld, [Next]_vars
             PROVE  LockIsHeld'
  OBVIOUS
<1> USE DEF TypeOK, LockIsHeld, Goto, Workers, Locked
<1>1. ASSUME NEW r \in Runs, Start(r) \/ Busy(r) \/ TakeLock(r)
      PROVE  LockIsHeld'
  BY <1>1 DEF Start, Busy, TakeLock
<1>2. ASSUME NEW r \in Runs,
             \/ ReadSettings(r) \/ ReadRows(r) \/ Compare(r)
             \/ DeleteTable(r) \/ CreateTable(r)
             \/ (\E p \in Ports : AddRules(r, p))
             \/ RulesDone(r) \/ SaveState(r)
      PROVE  LockIsHeld'
  BY <1>2 DEF ReadSettings, ReadRows, Compare, DeleteTable, CreateTable,
              AddRules, RulesDone, SaveState
<1>3. ASSUME NEW r \in Runs, pc[r] \in Locked, Finish(r)
      PROVE  LockIsHeld'
  BY <1>3 DEF Finish
<1>4. ASSUME NEW r \in Runs, ListBans(r) \/ SelectRow(r) \/ CommitBans(r) \/ Kill(r)
      PROVE  LockIsHeld'
  <2>1. pc[r] \in Locked
    BY <1>4 DEF ListBans, SelectRow, CommitBans, Kill
  <2>2. \/ Finish(r)
        \/ (\E label \in Locked : Goto(r, label)) /\ UNCHANGED lock
    BY <1>4 DEF ListBans, SelectRow, CommitBans, Kill
  <2> QED BY <1>3, <2>1, <2>2
<1>5. CASE Outside
  BY <1>5, OutsideKeepsRules
<1>6. CASE Reboot
  BY <1>6 DEF Reboot
<1> QED BY <1>1, <1>2, <1>4, <1>5, <1>6, Cases DEF Quiet

LEMMA NextSavedAreBuilt ==
  TypeOK /\ LockIsHeld /\ SavedAreBuilt /\ [Next]_vars => SavedAreBuilt'
<1> SUFFICES ASSUME TypeOK, LockIsHeld, SavedAreBuilt, [Next]_vars,
                    NEW q \in Runs, pc'[q] = "save"
             PROVE  table' # NoTable /\ table'.rules = Managed(desired[q])'
  BY DEF SavedAreBuilt
<1> USE DEF TypeOK, LockIsHeld, SavedAreBuilt, Goto, Workers, Locked, Managed
<1>1. ASSUME NEW r \in Runs, Quiet(r)
      PROVE  table' # NoTable /\ table'.rules = Managed(desired[q])'
  BY <1>1, QuietKeepsRules
<1>2. ASSUME NEW r \in Runs,
             \/ DeleteTable(r) \/ CreateTable(r)
             \/ (\E p \in Ports : AddRules(r, p))
             \/ SaveState(r)
      PROVE  FALSE
  <2>1. \/ pc[r] \in Locked /\ pc[r] # "save"
        \/ pc[r] = "save" /\ pc'[r] = "list"
    BY <1>2 DEF DeleteTable, CreateTable, AddRules, SaveState
  <2>2. pc'[r] # "save" /\ \A s \in Runs \ {r} : pc'[s] = pc[s]
    BY <1>2 DEF DeleteTable, CreateTable, AddRules, SaveState
  <2> QED BY <2>1, <2>2
<1>3. ASSUME NEW r \in Runs, RulesDone(r)
      PROVE  table' # NoTable /\ table'.rules = Managed(desired[q])'
  BY <1>3 DEF RulesDone
<1>4. ASSUME NEW r \in Runs, Kill(r)
      PROVE  table' # NoTable /\ table'.rules = Managed(desired[q])'
  BY <1>4 DEF Kill, Finish
<1>5. CASE Outside
  BY <1>5, OutsideKeepsRules
<1>6. CASE Reboot
  BY <1>6 DEF Reboot
<1> QED BY <1>1, <1>2, <1>3, <1>4, <1>5, <1>6, Cases

LEMMA NextStateTellsRules ==
  TypeOK /\ LockIsHeld /\ SavedAreBuilt /\ StateTellsRules /\ [Next]_vars
    => StateTellsRules'
<1> SUFFICES ASSUME TypeOK, LockIsHeld, SavedAreBuilt, StateTellsRules,
                    [Next]_vars, table' # NoTable, ~torn',
                    \A q \in Runs : pc'[q] \notin {"ports", "save"}
             PROVE  table'.rules = Managed(stateFile)'
  BY DEF StateTellsRules
<1> USE DEF TypeOK, Goto, Workers
<1>1. ASSUME NEW r \in Runs, Quiet(r)
      PROVE  table'.rules = Managed(stateFile)'
  <2>1. /\ UNCHANGED <<table, stateFile, torn>>
        /\ pc[r] \notin {"ports", "save"}
        /\ \A q \in Runs \ {r} : pc'[q] = pc[q]
    BY <1>1, QuietKeepsRules
  <2>2. \A q \in Runs : pc[q] \notin {"ports", "save"}
    BY <2>1
  <2> QED BY <2>1, <2>2 DEF StateTellsRules, Managed
<1>2. ASSUME NEW r \in Runs,
             \/ DeleteTable(r) \/ CreateTable(r)
             \/ (\E p \in Ports : AddRules(r, p))
             \/ RulesDone(r)
      PROVE  FALSE
  BY <1>2 DEF DeleteTable, CreateTable, AddRules, RulesDone
<1>3. ASSUME NEW r \in Runs, SaveState(r)
      PROVE  table'.rules = Managed(stateFile)'
  BY <1>3 DEF SaveState, SavedAreBuilt, Managed
<1>4. ASSUME NEW r \in Runs, Kill(r)
      PROVE  table'.rules = Managed(stateFile)'
  <2>1. ~torn /\ pc[r] \notin {"ports", "save"}
    BY <1>4 DEF Kill
  <2>2. \A q \in Runs \ {r} : pc'[q] = pc[q]
    BY <1>4 DEF Kill, Finish
  <2>3. UNCHANGED <<table, stateFile>>
    BY <1>4 DEF Kill
  <2>4. \A q \in Runs : pc[q] \notin {"ports", "save"}
    BY <2>1, <2>2
  <2> QED BY <2>1, <2>3, <2>4 DEF StateTellsRules, Managed
<1>5. CASE Outside
  BY <1>5, OutsideKeepsRules DEF StateTellsRules, Managed
<1>6. CASE Reboot
  BY <1>6 DEF Reboot
<1> QED BY <1>1, <1>2, <1>3, <1>4, <1>5, <1>6, Cases

LEMMA NextBlockedIsGuarded ==
  TypeOK /\ BlockedIsGuarded /\ [Next]_vars => BlockedIsGuarded'
<1> SUFFICES ASSUME TypeOK, BlockedIsGuarded, [Next]_vars
             PROVE  BlockedIsGuarded'
  OBVIOUS
<1> USE DEF TypeOK, BlockedIsGuarded, IsBlocked
<1>1. CASE UNCHANGED <<table, now>>
  BY <1>1
<1>2. ASSUME NEW r \in Runs, Quiet(r) \/ RulesDone(r) \/ SaveState(r) \/ Kill(r)
      PROVE  BlockedIsGuarded'
  BY <1>1, <1>2, QuietKeepsRules DEF RulesDone, SaveState, Kill, Fault
<1>3. ASSUME NEW r \in Runs, DeleteTable(r)
      PROVE  BlockedIsGuarded'
  BY <1>3 DEF DeleteTable
<1>4. ASSUME NEW r \in Runs, CreateTable(r)
      PROVE  BlockedIsGuarded'
  <2>1. table'.until = NoTimes /\ now' \in Nat
    BY <1>4 DEF CreateTable, EmptyTable
  <2> QED BY <2>1 DEF NoTimes
<1>5. ASSUME NEW r \in Runs, NEW p \in Ports, AddRules(r, p)
      PROVE  BlockedIsGuarded'
  <2>1. /\ table \in Table /\ table # NoTable /\ now' = now
        /\ table' = [table EXCEPT !.rules[p] = Managed(desired[r])[p]]
        /\ Managed(desired[r])[p] # Off
    BY <1>5 DEF AddRules
  <2>2. /\ table'.until = table.until
        /\ \A q \in Ports : table.rules[q] # Off => table'.rules[q] # Off
    BY <2>1 DEF Table, Rules
  <2> QED BY <2>1, <2>2
<1>6. ASSUME NEW h \in Admins, HandlerStep(h)
      PROVE  BlockedIsGuarded'
  <2>1. CASE Unblock(h) /\ table # NoTable
    <3>1. /\ table \in Table /\ chosen[h] \in Ports /\ now' = now
          /\ table' = [table EXCEPT !.until[chosen[h]] = 0]
      BY <2>1 DEF Unblock, Workers
    <3>2. /\ table'.rules = table.rules
          /\ \A q \in Ports : table'.until[q] > now => table'.until[q] = table.until[q]
      BY <3>1 DEF Table
    <3> QED BY <2>1, <3>1, <3>2
  <2>2. CASE FlushSources(h) /\ table # NoTable
    <3>1. /\ table \in Table /\ now' = now
          /\ table' = [table EXCEPT !.sources[chosen[h]] = 0]
      BY <2>2 DEF FlushSources
    <3>2. table'.rules = table.rules /\ table'.until = table.until
      BY <3>1 DEF Table
    <3> QED BY <2>2, <3>1, <3>2
  <2>3. CASE ~(table # NoTable /\ (Unblock(h) \/ FlushSources(h)))
    BY <1>1, <1>6, <2>3 DEF HandlerStep, Unblock, FlushSources, ForgetBan,
                            SaveInbound
  <2> QED BY <2>1, <2>2, <2>3
<1>7. ASSUME NEW p \in Ports, NewSource(p) \/ SourceExpires(p)
      PROVE  BlockedIsGuarded'
  <2>1. table \in Table /\ table # NoTable /\ now' = now
    BY <1>7 DEF NewSource, SourceExpires
  <2>2. CASE table' = [table EXCEPT !.until[p] = now + BanTime] /\ NewSource(p)
    <3>1. /\ table'.rules = table.rules /\ table.rules[p] # Off
          /\ \A q \in Ports \ {p} : table'.until[q] = table.until[q]
      BY <2>1, <2>2 DEF Table, NewSource
    <3> QED BY <2>1, <3>1
  <2>3. CASE \E n : table' = [table EXCEPT !.sources[p] = n]
    <3>1. table'.rules = table.rules /\ table'.until = table.until
      BY <2>1, <2>3 DEF Table
    <3> QED BY <2>1, <3>1
  <2> QED BY <1>7, <2>2, <2>3 DEF NewSource, SourceExpires
<1>8. CASE Tick
  <2>1. UNCHANGED table /\ now \in Nat /\ now' = now + 1
    BY <1>8 DEF Tick
  <2>2. ASSUME NEW q \in Ports, table # NoTable, table.until[q] > now + 1
        PROVE  table.until[q] > now
    <3>1. table.until[q] \in Nat
      BY <2>2 DEF Table, Times
    <3> QED BY <2>1, <2>2, <3>1
  <2> QED BY <2>1, <2>2
<1>9. CASE Reboot
  BY <1>9 DEF Reboot
<1>10. CASE \/ \E h \in Admins, p \in Ports : BeginUnban(h, p) \/ ReadInbound(h, p)
            \/ \E ports \in SUBSET Ports : EditWhitelist(ports)
            \/ UNCHANGED vars
  BY <1>1, <1>10 DEF BeginUnban, ReadInbound, EditWhitelist, Edit, vars
<1> QED BY <1>1, <1>2, <1>3, <1>4, <1>5, <1>6, <1>7, <1>8, <1>9, <1>10, Cases DEF Outside

-----------------------------------------------------------------------------
(* A run is about to delete the table only if it is gone already or if     *)
(* desired.conf changes, and about to create it only if it is gone: the    *)
(* lock keeps things as Compare and DeleteTable have left them.            *)
RebuildHasCause ==
  \A r \in Runs :
    /\ pc[r] = "delete" => table = NoTable \/ desired[r] # stateFile
    /\ pc[r] = "create" => table = NoTable

LEMMA NextRebuildHasCause ==
  TypeOK /\ LockIsHeld /\ RebuildHasCause /\ [Next]_vars => RebuildHasCause'
<1> SUFFICES ASSUME TypeOK, LockIsHeld, RebuildHasCause, [Next]_vars,
                    NEW q \in Runs, pc'[q] \in {"delete", "create"}
             PROVE  \/ table' = NoTable
                    \/ pc'[q] = "delete" /\ desired'[q] # stateFile'
  BY DEF RebuildHasCause
<1> DEFINE Goal == \/ table' = NoTable
                   \/ pc'[q] = "delete" /\ desired'[q] # stateFile'
<1> USE DEF TypeOK, LockIsHeld, RebuildHasCause, Goto, Workers, Locked
<1>1. ASSUME NEW r \in Runs, Quiet(r)
      PROVE  Goal
  <2>1. /\ UNCHANGED <<table, stateFile>>
        /\ q # r => pc'[q] = pc[q] /\ desired'[q] = desired[q]
    BY <1>1, QuietKeepsRules
  <2>2. CASE q = r
    <3>1. Compare(r)
      BY <1>1, <2>2 DEF Quiet, Start, TakeLock, Busy, ReadSettings, ReadRows,
                        ListBans, SelectRow, CommitBans, Finish
    <3> QED BY <2>1, <2>2, <3>1 DEF Compare
  <2> QED BY <2>1, <2>2
<1>2. ASSUME NEW r \in Runs,
             \/ CreateTable(r)
             \/ (\E p \in Ports : AddRules(r, p))
             \/ RulesDone(r) \/ SaveState(r)
      PROVE  FALSE
  <2>1. pc[r] \in Locked /\ pc'[r] \notin {"delete", "create"}
    BY <1>2 DEF CreateTable, AddRules, RulesDone, SaveState
  <2>2. \A s \in Runs \ {r} : pc'[s] = pc[s]
    BY <1>2 DEF CreateTable, AddRules, RulesDone, SaveState
  <2> QED BY <2>1, <2>2
<1>3. ASSUME NEW r \in Runs, DeleteTable(r)
      PROVE  Goal
  BY <1>3 DEF DeleteTable
<1>4. ASSUME NEW r \in Runs, Kill(r)
      PROVE  Goal
  BY <1>4 DEF Kill, Finish
<1>5. CASE Outside
  BY <1>5, OutsideKeepsRules
<1>6. CASE Reboot
  BY <1>6 DEF Reboot
<1> QED BY <1>1, <1>2, <1>3, <1>4, <1>5, <1>6, Cases

(* What ends a ban, by the action that takes the element away.             *)
LEMMA StepEndsBanWithCause ==
  ASSUME TypeOK, RebuildHasCause, [Next]_vars, NEW p \in Ports,
         IsBlocked(p), ~IsBlocked(p)'
  PROVE  \/ now' > now
         \/ Unbans(p)
         \/ Reboot
         \/ \E r \in Runs : pc[r] = "delete" /\ desired[r] # stateFile
<1> DEFINE Cause == \/ now' > now
                    \/ Unbans(p)
                    \/ Reboot
                    \/ \E r \in Runs : pc[r] = "delete" /\ desired[r] # stateFile
<1> USE DEF TypeOK, IsBlocked
<1>1. ~(UNCHANGED <<table, now>>)
  OBVIOUS
<1>2. table \in Table /\ table # NoTable /\ now \in Nat
  BY DEF IsBlocked
<1>3. ASSUME NEW r \in Runs,
             Quiet(r) \/ RulesDone(r) \/ SaveState(r) \/ Kill(r)
      PROVE  Cause
  BY <1>1, <1>3, QuietKeepsRules DEF RulesDone, SaveState, Kill, Fault
<1>4. ASSUME NEW r \in Runs, DeleteTable(r)
      PROVE  Cause
  BY <1>2, <1>4 DEF DeleteTable, RebuildHasCause
<1>5. ASSUME NEW r \in Runs, CreateTable(r) \/ \E q \in Ports : AddRules(r, q)
      PROVE  Cause
  <2>1. CASE CreateTable(r)
    BY <2>1, <1>2 DEF CreateTable, RebuildHasCause
  <2>2. CASE \E q \in Ports : AddRules(r, q)
    <3> PICK q \in Ports : AddRules(r, q)
      BY <2>2
    <3>1. Managed(desired[r])[q] \in Limits \cup {Off}
      BY ManagedTyped DEF Rules
    <3>2. table' = [table EXCEPT !.rules[q] = Managed(desired[r])[q]]
      BY DEF AddRules
    <3>3. table' \in Table /\ table'.until = table.until
      BY <1>2, <3>1, <3>2 DEF Table, Rules
    <3>4. now' = now
      BY DEF AddRules
    <3> QED BY <3>3, <3>4, TablesTyped
  <2> QED BY <1>5, <2>1, <2>2
<1>6. ASSUME NEW h \in Admins, HandlerStep(h)
      PROVE  Cause
  <2>1. CASE Unblock(h)
    <3>1. CASE chosen[h] = p
      BY <2>1, <3>1 DEF Unbans, Unblock
    <3>2. CASE chosen[h] # p
      <4>1. chosen[h] \in Ports /\ 0 \in Times
        BY DEF Workers, Times
      <4>2. /\ now' = now
            /\ table' = [table EXCEPT !.until[chosen[h]] = 0]
        BY <1>2, <2>1 DEF Unblock
      <4>3. table' \in Table
        BY <1>2, <4>1, <4>2, BanUpdated
      <4>4. table'.until[p] = table.until[p]
        BY <1>2, <3>2, <4>1, <4>2 DEF Table
      <4> QED BY <4>2, <4>3, <4>4, TablesTyped
    <3> QED BY <3>1, <3>2
  <2>2. CASE FlushSources(h)
    <3>1. /\ now' = now
          /\ table' = [table EXCEPT !.sources[chosen[h]] = 0]
      BY <1>2, <2>2 DEF FlushSources
    <3>2. table' \in Table
      BY <1>2, <3>1, SourcesUpdated DEF Workers
    <3>3. table'.until = table.until
      BY <1>2, <3>1 DEF Table
    <3> QED BY <3>1, <3>2, <3>3, TablesTyped
  <2>3. CASE ForgetBan(h) \/ \E l \in Limits \cup {Off} : SaveInbound(h, l)
    BY <1>1, <2>3 DEF ForgetBan, SaveInbound
  <2> QED BY <1>6, <2>1, <2>2, <2>3 DEF HandlerStep
<1>7. ASSUME NEW q \in Ports, NewSource(q) \/ SourceExpires(q)
      PROVE  Cause
  <2>1. now' = now
    BY <1>7 DEF NewSource, SourceExpires
  <2>2. CASE q = p /\ NewSource(q)
    BY <2>2 DEF NewSource
  <2>3. CASE q # p \/ SourceExpires(q)
    <3>1. /\ table.sources[q] + 1 \in Nat
          /\ table.sources[q] > 0 => table.sources[q] - 1 \in Nat
          /\ now + BanTime \in Times
      BY <1>2 DEF Table, Times
    <3>2. \/ q # p /\ table' = [table EXCEPT !.until[q] = now + BanTime]
          \/ table' = [table EXCEPT !.sources[q] = table.sources[q] + 1]
          \/ /\ table.sources[q] > 0
             /\ table' = [table EXCEPT !.sources[q] = table.sources[q] - 1]
      BY <1>7, <2>3 DEF NewSource, SourceExpires
    <3>3. table' \in Table
      <4>1. CASE q # p /\ table' = [table EXCEPT !.until[q] = now + BanTime]
        BY <1>2, <3>1, <4>1, BanUpdated
      <4>2. CASE \/ table' = [table EXCEPT !.sources[q] = table.sources[q] + 1]
                 \/ /\ table.sources[q] > 0
                    /\ table' = [table EXCEPT !.sources[q] = table.sources[q] - 1]
        BY <1>2, <3>1, <4>2, SourcesUpdated
      <4> QED BY <3>2, <4>1, <4>2
    <3>4. table'.until[p] = table.until[p]
      BY <1>2, <3>2 DEF Table
    <3> QED BY <2>1, <3>3, <3>4, TablesTyped
  <2> QED BY <1>7, <2>2, <2>3
<1>8. CASE Tick \/ Reboot
  BY <1>2, <1>8 DEF Tick
<1>9. CASE \/ \E h \in Admins, q \in Ports : BeginUnban(h, q) \/ ReadInbound(h, q)
           \/ \E ports \in SUBSET Ports : EditWhitelist(ports)
           \/ UNCHANGED vars
  BY <1>1, <1>9 DEF BeginUnban, ReadInbound, EditWhitelist, Edit, vars
<1>10. Cause
  BY <1>3, <1>4, <1>5, <1>6, <1>7, <1>8, <1>9, Cases DEF Outside
<1> QED BY <1>10

-----------------------------------------------------------------------------
LEMMA InitInv == Init => IInv
<1> SUFFICES ASSUME Init
             PROVE  IInv
  OBVIOUS
<1>1. TypeOK
  <2>1. limit \in Rules /\ stateFile \in Desired
    <3>1. limit \in Rules /\ (stateFile = NoRules \/ stateFile = limit)
      BY DEF Init
    <3>2. Rules \subseteq Desired
      BY DEF Rules, Desired
    <3> QED BY <3>1, <3>2, TablesTyped
  <2>2. chosen \in [Workers -> Ports] /\ pc \in [Workers -> Labels]
    BY TablesTyped DEF Init, Labels
  <2>3. stale \in [Admins -> Times]
    BY DEF Init, Times
  <2>4. desired \in [Runs -> Desired] /\ listed \in [Runs -> [Ports -> Times]]
    BY TablesTyped DEF Init
  <2>5. /\ bannedUntil \in [Ports -> Times] /\ whitelist \subseteq Ports
        /\ table \in Table \cup {NoTable} /\ lock \in Runs \cup {NoRun}
    BY TablesTyped DEF Init
  <2>6. /\ now \in 0..MaxNow /\ edits \in 0..MaxEdits /\ faults \in 0..MaxFaults
    BY DEF Init
  <2>7. torn \in BOOLEAN
    BY DEF Init
  <2> QED BY <2>1, <2>2, <2>3, <2>4, <2>5, <2>6, <2>7 DEF TypeOK
<1>2. \A r \in Runs : pc[r] = "idle"
  BY DEF Init, Workers
<1>3. LockIsHeld /\ SavedAreBuilt
  BY <1>2 DEF LockIsHeld, SavedAreBuilt, Locked
<1>4. BlockedIsGuarded /\ StateTellsRules
  BY DEF Init, BlockedIsGuarded, IsBlocked, StateTellsRules
<1> QED BY <1>1, <1>3, <1>4 DEF IInv

LEMMA NextInv == IInv /\ [Next]_vars => IInv'
BY NextTypeOK, NextLockIsHeld, NextSavedAreBuilt, NextStateTellsRules,
   NextBlockedIsGuarded DEF IInv

LEMMA Invariance == Spec => []IInv
BY InitInv, NextInv, PTL DEF Spec

(* Types: in particular every recorded end of a ban is an end nft can      *)
(* have given.                                                             *)
THEOREM PortGuardTypeOK == Spec => []TypeOK
<1>1. IInv => TypeOK
  BY DEF IInv
<1> QED BY <1>1, Invariance, PTL

(* Two runs of zui-port-guard-sync, by the timer and by SyncNow, are never *)
(* past the lock file together.                                            *)
THEOREM RunsExclude ==
  Spec => [](\A q, r \in Runs : pc[q] \in Locked /\ pc[r] \in Locked => q = r)
<1>1. IInv => \A q, r \in Runs : pc[q] \in Locked /\ pc[r] \in Locked => q = r
  BY DEF IInv, LockIsHeld
<1> QED BY <1>1, Invariance, PTL

(* A port in blocked_ports has rules of its own.                           *)
THEOREM BlockedPortsAreGuarded == Spec => []BlockedIsGuarded
<1>1. IInv => BlockedIsGuarded
  BY DEF IInv
<1> QED BY <1>1, Invariance, PTL

(* No sync ends a running ban unless desired.conf changes: the action      *)
(* property of the bans, for any overlap of runs and handlers.             *)
THEOREM BansEndByCause == Spec => BansEndWithCause
<1>1. Init => RebuildHasCause
  BY DEF Init, RebuildHasCause
<1>2. IInv /\ RebuildHasCause /\ [Next]_vars => RebuildHasCause'
  BY NextRebuildHasCause DEF IInv
<1>3. IInv /\ RebuildHasCause /\ [Next]_vars
        => [\A p \in Ports :
             (IsBlocked(p) /\ ~IsBlocked(p)')
               => \/ now' > now
                  \/ Unbans(p)
                  \/ Reboot
                  \/ \E r \in Runs : pc[r] = "delete" /\ desired[r] # stateFile]_vars
  BY StepEndsBanWithCause DEF IInv
<1> QED BY <1>1, <1>2, <1>3, Invariance, PTL DEF Spec, BansEndWithCause

(* Between two rebuilds desired.conf tells the rules in force, unless a    *)
(* run died while it built: what the "unchanged" path of main relies on.   *)
THEOREM StateFileTellsRules == Spec => []StateTellsRules
<1>1. IInv => StateTellsRules
  BY DEF IInv
<1> QED BY <1>1, Invariance, PTL
=============================================================================

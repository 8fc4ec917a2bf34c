------------------------------ MODULE PortGuard ------------------------------
(***************************************************************************)
(* The port guard: runs of scripts/zui-port-guard-sync, which turn the     *)
(* inbounds of the database into the nft table inet zui_port_guard and     *)
(* record its bans in the database, next to the handlers of the panel that *)
(* unban a port (web/service/port_guard.go) or save an inbound             *)
(* (web/service/inbound.go), and the packets that arrive meanwhile.        *)
(*                                                                         *)
(* Every port has one enabled inbound.  The limit of a port is the number  *)
(* of IPv4 sources it may have in its window; 0 is a guard switched off.   *)
(***************************************************************************)
EXTENDS Naturals

CONSTANTS
  Ports,
  Limits,     \* values of port_guard_ip_count, all positive
  Skipped,    \* mark of a whitelisted port in desired.conf
  NoTable,    \* the nft table does not exist
  Runs,       \* runs of the script, by the timer or by SyncNow
  Timer,      \* the run systemd starts every 30 seconds
  NoRun,      \* nobody holds the lock file
  Admins,     \* handlers of the panel
  BanTime,    \* port_guard_ban_seconds
  Faults,     \* kinds of fault that may happen
  MaxFaults,  \* bound on how many happen
  MaxEdits,   \* bound on changes of the configuration
  MaxNow      \* bound on the clock

Off == 0

ASSUME PortGuardAssumption ==
  /\ Limits \subseteq Nat \ {Off}
  /\ Skipped \notin Nat
  /\ Ports # {}
  /\ NoRun \notin Runs
  /\ Timer \in Runs
  /\ Runs \cap Admins = {}
  /\ BanTime \in Nat \ {0}
  /\ MaxFaults \in Nat
  /\ MaxEdits \in Nat
  /\ MaxNow \in Nat
  /\ NoTable \notin [rules : [Ports -> Limits \cup {Off}],
                     sources : [Ports -> Nat],
                     until : [Ports -> 0..(MaxNow + BanTime)]]

VARIABLES
  limit,        \* column port_guard_ip_count, Off when not enabled
  bannedUntil,  \* column port_guard_banned_until
  whitelist,    \* the panel's own port, ports of sshd_config and of the settings
  table,        \* the nft table: rules, sources seen, end of each ban
  stateFile,    \* desired.conf
  lock,         \* holder of the lock file
  pc,           \* next step of each run and each handler
  desired,      \* what each run has parsed
  listed,       \* bans each run has read from nft, by their end
  chosen,       \* port whose row a run or a handler has read
  stale,        \* bannedUntil a saving handler has read
  now,
  edits,
  faults,
  torn          \* a run died between creating the table and desired.conf

dbVars == <<limit, bannedUntil, whitelist>>
runVars == <<desired, listed>>
handlerVars == <<chosen, stale>>
boundVars == <<now, edits, faults>>

vars == <<dbVars, table, stateFile, lock, pc, runVars, handlerVars,
          boundVars, torn>>

Workers == Runs \cup Admins
Times == 0..(MaxNow + BanTime)
Rules == [Ports -> Limits \cup {Off}]
Desired == [Ports -> Limits \cup {Off, Skipped}]
Table == [rules : Rules, sources : [Ports -> Nat], until : [Ports -> Times]]

(* Steps a run takes with the lock file held. *)
Locked == {"settings", "rows", "compare", "delete", "create", "ports", "save",
           "list", "select", "commit"}
Labels == Locked \cup {"idle", "lock", "unblock", "flush", "forget", "edit"}

TypeOK ==
  /\ limit \in Rules
  /\ bannedUntil \in [Ports -> Times]
  /\ whitelist \subseteq Ports
  /\ table \in Table \cup {NoTable}
  /\ stateFile \in Desired
  /\ lock \in Runs \cup {NoRun}
  /\ pc \in [Workers -> Labels]
  /\ desired \in [Runs -> Desired]
  /\ listed \in [Runs -> [Ports -> Times]]
  /\ chosen \in [Workers -> Ports]
  /\ stale \in [Admins -> Times]
  /\ now \in 0..MaxNow
  /\ edits \in 0..MaxEdits
  /\ faults \in 0..MaxFaults
  /\ torn \in BOOLEAN

-----------------------------------------------------------------------------
NoRules == [p \in Ports |-> Off]
NoTimes == [p \in Ports |-> 0]
AnyPort == CHOOSE p \in Ports : TRUE
EmptyTable == [rules |-> NoRules, sources |-> NoTimes, until |-> NoTimes]

(* Lines "M" of desired.conf: the ports that get rules. *)
Managed(conf) == [p \in Ports |-> IF conf[p] = Skipped THEN Off ELSE conf[p]]

(* The element of blocked_ports, which nft drops when its timeout is over. *)
IsBlocked(p) == table # NoTable /\ table.until[p] > now

Goto(w, label) == pc' = [pc EXCEPT ![w] = label]

Fault(kind) ==
  /\ kind \in Faults
  /\ faults < MaxFaults
  /\ faults' = faults + 1
  /\ UNCHANGED <<now, edits>>

Edit ==
  /\ edits < MaxEdits
  /\ edits' = edits + 1
  /\ UNCHANGED <<now, faults>>

-----------------------------------------------------------------------------
(* A run of the script. *)

Start(r) ==
  /\ pc[r] = "idle"
  /\ Goto(r, "lock")
  /\ UNCHANGED <<dbVars, table, stateFile, lock, runVars, handlerVars,
                 boundVars, torn>>

(* Mutant: flock is not installed, and the script goes on without it.      *)
BugNoLock(r) ==
  /\ pc[r] = "lock"
  /\ lock' = r
  /\ Goto(r, "settings")
  /\ UNCHANGED <<dbVars, table, stateFile, runVars, handlerVars, boundVars, torn>>

TakeLock(r) ==
  /\ pc[r] = "lock"
  /\ lock = NoRun
  /\ lock' = r
  /\ Goto(r, "settings")
  /\ UNCHANGED <<dbVars, table, stateFile, runVars, handlerVars, boundVars, torn>>

(* After twenty seconds the script prints "busy" and ends well. *)
Busy(r) ==
  /\ pc[r] = "lock"
  /\ lock # NoRun
  /\ Goto(r, "idle")
  /\ UNCHANGED <<dbVars, table, stateFile, lock, runVars, handlerVars,
                 boundVars, torn>>

(* The end of main: the lock file is closed, and what was read is gone. *)
Finish(r) ==
  /\ lock' = NoRun
  /\ Goto(r, "idle")
  /\ desired' = [desired EXCEPT ![r] = NoRules]
  /\ listed' = [listed EXCEPT ![r] = NoTimes]
  /\ chosen' = [chosen EXCEPT ![r] = AnyPort]

(* parse_desired reads the settings, then the inbounds. *)
ReadSettings(r) ==
  /\ pc[r] = "settings"
  /\ desired' = [desired EXCEPT ![r] =
                   [p \in Ports |-> IF p \in whitelist THEN Skipped ELSE Off]]
  /\ Goto(r, "rows")
  /\ UNCHANGED <<dbVars, table, stateFile, lock, listed, handlerVars,
                 boundVars, torn>>

ReadRows(r) ==
  /\ pc[r] = "rows"
  /\ desired' = [desired EXCEPT ![r] =
                   [p \in Ports |-> IF @[p] = Skipped THEN @[p] ELSE limit[p]]]
  /\ Goto(r, "compare")
  /\ UNCHANGED <<dbVars, table, stateFile, lock, listed, handlerVars,
                 boundVars, torn>>

(* Mutant: desired.conf alone decides; a table lost in a reboot stays lost. *)
BugTrustStateFile(r) ==
  /\ pc[r] = "compare"
  /\ Goto(r, IF desired[r] = stateFile THEN "list" ELSE "delete")
  /\ UNCHANGED <<dbVars, table, stateFile, lock, runVars, handlerVars,
                 boundVars, torn>>

(* Mutant: every run rebuilds the table.                                   *)
BugAlwaysRebuilds(r) ==
  /\ pc[r] = "compare"
  /\ Goto(r, "delete")
  /\ UNCHANGED <<dbVars, table, stateFile, lock, runVars, handlerVars,
                 boundVars, torn>>

(* The rules are left alone when desired.conf says the same and there is a *)
(* table.                                                                  *)
Compare(r) ==
  /\ pc[r] = "compare"
  /\ Goto(r, IF desired[r] = stateFile /\ table # NoTable
             THEN "list" ELSE "delete")
  /\ UNCHANGED <<dbVars, table, stateFile, lock, runVars, handlerVars,
                 boundVars, torn>>

(* Mutant: the old table is emptied of its rules, and keeps its sets.      *)
BugKeepTable(r) ==
  /\ pc[r] = "delete"
  /\ table' = IF table = NoTable THEN NoTable
              ELSE [table EXCEPT !.rules = NoRules]
  /\ torn' = FALSE
  /\ Goto(r, IF table = NoTable THEN "create" ELSE "ports")
  /\ UNCHANGED <<dbVars, stateFile, lock, runVars, handlerVars, boundVars>>

(* build_rules: the table goes with its bans, and a new one is filled port *)
(* by port.  The rules of a port take effect with the last of its commands. *)
DeleteTable(r) ==
  /\ pc[r] = "delete"
  /\ table' = NoTable
  /\ torn' = FALSE
  /\ Goto(r, "create")
  /\ UNCHANGED <<dbVars, stateFile, lock, runVars, handlerVars, boundVars>>

CreateTable(r) ==
  /\ pc[r] = "create"
  /\ table' = EmptyTable
  /\ Goto(r, "ports")
  /\ UNCHANGED <<dbVars, stateFile, lock, runVars, handlerVars, boundVars, torn>>

AddRules(r, p) ==
  /\ pc[r] = "ports"
  /\ table # NoTable
  /\ table.rules[p] = Off
  /\ Managed(desired[r])[p] # Off
  /\ table' = [table EXCEPT !.rules[p] = Managed(desired[r])[p]]
  /\ UNCHANGED <<dbVars, stateFile, lock, pc, runVars, handlerVars, boundVars, torn>>

RulesDone(r) ==
  /\ pc[r] = "ports"
  /\ table # NoTable
  /\ table.rules = Managed(desired[r])
  /\ Goto(r, "save")
  /\ UNCHANGED <<dbVars, table, stateFile, lock, runVars, handlerVars,
                 boundVars, torn>>

SaveState(r) ==
  /\ pc[r] = "save"
  /\ stateFile' = desired[r]
  /\ Goto(r, "list")
  /\ UNCHANGED <<dbVars, table, lock, runVars, handlerVars, boundVars, torn>>

(* record_runtime_bans lists blocked_ports ... *)
ListBans(r) ==
  /\ pc[r] = "list"
  /\ IF \E p \in Ports : IsBlocked(p)
     THEN /\ listed' = [listed EXCEPT ![r] =
                [p \in Ports |-> IF IsBlocked(p) THEN table.until[p] ELSE 0]]
          /\ Goto(r, "select")
          /\ UNCHANGED <<lock, desired, chosen>>
     ELSE Finish(r)
  /\ UNCHANGED <<dbVars, table, stateFile, stale, boundVars, torn>>

(* ... reads the rows of those ports, outside any transaction, up to the   *)
(* first one that shows no current ban ...                                 *)
SelectRow(r) ==
  /\ pc[r] = "select"
  /\ \/ \E p \in Ports :
          /\ listed[r][p] > 0 /\ bannedUntil[p] < now
          /\ chosen' = [chosen EXCEPT ![r] = p]
          /\ Goto(r, "commit")
          /\ UNCHANGED <<lock, runVars>>
     \/ /\ \A p \in Ports : listed[r][p] > 0 => bannedUntil[p] >= now
        /\ Finish(r)
  /\ UNCHANGED <<dbVars, table, stateFile, stale, boundVars, torn>>

(* ... and from its update on holds the database until it commits.         *)
CommitBans(r) ==
  /\ pc[r] = "commit"
  /\ bannedUntil' = [p \in Ports |->
       IF listed[r][p] > 0 /\ (p = chosen[r] \/ bannedUntil[p] < now)
       THEN listed[r][p] ELSE bannedUntil[p]]
  /\ Finish(r)
  /\ UNCHANGED <<limit, whitelist, table, stateFile, stale, boundVars, torn>>

-----------------------------------------------------------------------------
(* Handlers of the panel. *)

(* Unban: two nft commands whose errors are ignored, then the row. *)
BeginUnban(h, p) ==
  /\ pc[h] = "idle"
  /\ Edit
  /\ chosen' = [chosen EXCEPT ![h] = p]
  /\ Goto(h, IF table = NoTable THEN "forget" ELSE "unblock")
  /\ UNCHANGED <<dbVars, table, stateFile, lock, runVars, stale, torn>>

Unblock(h) ==
  /\ pc[h] = "unblock"
  /\ table' = IF table = NoTable THEN NoTable
              ELSE [table EXCEPT !.until[chosen[h]] = 0]
  /\ Goto(h, "flush")
  /\ UNCHANGED <<dbVars, stateFile, lock, runVars, handlerVars, boundVars, torn>>

FlushSources(h) ==
  /\ pc[h] = "flush"
  /\ table' = IF table = NoTable THEN NoTable
              ELSE [table EXCEPT !.sources[chosen[h]] = 0]
  /\ Goto(h, "forget")
  /\ UNCHANGED <<dbVars, stateFile, lock, runVars, handlerVars, boundVars, torn>>

ForgetBan(h) ==
  /\ pc[h] = "forget"
  /\ bannedUntil' = [bannedUntil EXCEPT ![chosen[h]] = 0]
  /\ chosen' = [chosen EXCEPT ![h] = AnyPort]
  /\ Goto(h, "idle")
  /\ UNCHANGED <<limit, whitelist, table, stateFile, lock, runVars, stale,
                 boundVars, torn>>

(* UpdateInbound reads the old row, puts the form's fields into it - the   *)
(* guard is one of them, its ban is not - and saves the whole row.         *)
ReadInbound(h, p) ==
  /\ pc[h] = "idle"
  /\ Edit
  /\ chosen' = [chosen EXCEPT ![h] = p]
  /\ stale' = [stale EXCEPT ![h] = bannedUntil[p]]
  /\ Goto(h, "edit")
  /\ UNCHANGED <<dbVars, table, stateFile, lock, runVars, torn>>

SaveInbound(h, l) ==
  /\ pc[h] = "edit"
  /\ limit' = [limit EXCEPT ![chosen[h]] = l]
  /\ bannedUntil' = [bannedUntil EXCEPT ![chosen[h]] = stale[h]]
  /\ chosen' = [chosen EXCEPT ![h] = AnyPort]
  /\ stale' = [stale EXCEPT ![h] = 0]
  /\ Goto(h, "idle")
  /\ UNCHANGED <<whitelist, table, stateFile, lock, runVars, boundVars, torn>>

(* The panel moves to another port, or sshd_config or the setting changes. *)
EditWhitelist(ports) ==
  /\ ports # whitelist
  /\ Edit
  /\ whitelist' = ports
  /\ UNCHANGED <<limit, bannedUntil, table, stateFile, lock, pc, runVars,
                 handlerVars, torn>>

-----------------------------------------------------------------------------
(* The kernel, the clock and the machine. *)

(* External: a packet from a source the set of its port does not have.     *)
(* The set takes it while there is room; then the port is blocked.         *)
NewSource(p) ==
  /\ table # NoTable
  /\ table.rules[p] # Off
  /\ ~IsBlocked(p)
  /\ table' = IF table.sources[p] < table.rules[p]
              THEN [table EXCEPT !.sources[p] = @ + 1]
              ELSE [table EXCEPT !.until[p] = now + BanTime]
  /\ UNCHANGED <<dbVars, stateFile, lock, pc, runVars, handlerVars, boundVars,
                 torn>>

(* External: a source has not been seen for the window.                    *)
SourceExpires(p) ==
  /\ table # NoTable
  /\ table.sources[p] > 0
  /\ table' = [table EXCEPT !.sources[p] = @ - 1]
  /\ UNCHANGED <<dbVars, stateFile, lock, pc, runVars, handlerVars, boundVars, torn>>

Tick ==
  /\ now < MaxNow
  /\ now' = now + 1
  /\ UNCHANGED <<dbVars, table, stateFile, lock, pc, runVars, handlerVars,
                 edits, faults, torn>>

(* A command fails under set -e, or SyncNowBlocking kills the script after *)
(* twenty seconds.                                                         *)
Kill(r) ==
  /\ pc[r] \in Locked
  /\ Fault("kill")
  /\ Finish(r)
  /\ torn' = (torn \/ pc[r] \in {"ports", "save"})
  /\ UNCHANGED <<dbVars, table, stateFile, stale>>

(* The machine restarts: the nft table is in the kernel only. *)
Reboot ==
  /\ Fault("reboot")
  /\ table' = NoTable
  /\ lock' = NoRun
  /\ pc' = [w \in Workers |-> "idle"]
  /\ desired' = [r \in Runs |-> NoRules]
  /\ listed' = [r \in Runs |-> NoTimes]
  /\ chosen' = [w \in Workers |-> AnyPort]
  /\ stale' = [h \in Admins |-> 0]
  /\ torn' = FALSE
  /\ UNCHANGED <<dbVars, stateFile>>

-----------------------------------------------------------------------------
(* After a boot, whatever desired.conf is left from before it. *)
Init ==
  /\ limit \in Rules
  /\ bannedUntil = NoTimes
  /\ whitelist = {}
  /\ table = NoTable
  /\ stateFile \in {NoRules, limit}
  /\ lock = NoRun
  /\ pc = [w \in Workers |-> "idle"]
  /\ desired = [r \in Runs |-> NoRules]
  /\ listed = [r \in Runs |-> NoTimes]
  /\ chosen = [w \in Workers |-> AnyPort]
  /\ stale = [h \in Admins |-> 0]
  /\ now = 0
  /\ edits = 0
  /\ faults = 0
  /\ torn = FALSE

RunStep(r) ==
  \/ TakeLock(r) \/ Busy(r)
  \/ ReadSettings(r) \/ ReadRows(r) \/ Compare(r)
  \/ DeleteTable(r) \/ CreateTable(r)
  \/ \E p \in Ports : AddRules(r, p)
  \/ RulesDone(r) \/ SaveState(r)
  \/ ListBans(r) \/ SelectRow(r) \/ CommitBans(r)

HandlerStep(h) ==
  \/ Unblock(h) \/ FlushSources(h) \/ ForgetBan(h)
  \/ \E l \in Limits \cup {Off} : SaveInbound(h, l)

Next ==
  \/ \E r \in Runs : Start(r) \/ RunStep(r) \/ Kill(r)
  \/ \E h \in Admins, p \in Ports : BeginUnban(h, p) \/ ReadInbound(h, p)
  \/ \E h \in Admins : HandlerStep(h)
  \/ \E ports \in SUBSET Ports : EditWhitelist(ports)
  \/ \E p \in Ports : NewSource(p) \/ SourceExpires(p)
  \/ Tick
  \/ Reboot

Spec == Init /\ [][Next]_vars

(* The timer fires, and a run that started goes on. *)
Fairness ==
  /\ WF_vars(Start(Timer))
  /\ \A r \in Runs : WF_vars(RunStep(r))

FairSpec == Spec /\ Fairness

-----------------------------------------------------------------------------
(* No port is blocked that has no rules: a port that was whitelisted, or   *)
(* whose guard was switched off, does not stay behind in blocked_ports     *)
(* when the table is rebuilt without it.                                   *)
BlockedIsGuarded == \A p \in Ports : IsBlocked(p) => table.rules[p] # Off

(* A run that finds desired.conf unchanged touches nothing, so the file    *)
(* must tell the rules in force, whatever runs came at the same time and   *)
(* whatever was changed while they built; except after a run that died     *)
(* half-way (torn).                                                        *)
StateTellsRules ==
  (table # NoTable /\ ~torn /\ \A r \in Runs : pc[r] \notin {"ports", "save"})
    => table.rules = Managed(stateFile)

(* The rules the database asks for. *)
InForce ==
  /\ table # NoTable
  /\ \A p \in Ports :
       table.rules[p] = IF p \in whitelist THEN Off ELSE limit[p]

(* After the last change and the last fault the timer brings the rules in  *)
(* line with the database and keeps them there, a reboot included.         *)
RulesFollowConfiguration == <>[](InForce \/ torn)

Unbans(p) == \E h \in Admins : pc[h] = "unblock" /\ chosen[h] = p /\ Unblock(h)

(* A running ban ends by its timeout, by an unban or with the machine;     *)
(* otherwise only when the table is rebuilt because desired.conf really    *)
(* changes.  A sync that overlaps with another, or that finds nothing new, *)
(* ends none.                                                              *)
BansEndWithCause ==
  [][\A p \in Ports :
       (IsBlocked(p) /\ ~IsBlocked(p)')
         => \/ now' > now
            \/ Unbans(p)
            \/ Reboot
            \/ \E r \in Runs : pc[r] = "delete" /\ desired[r] # stateFile]_vars
=============================================================================

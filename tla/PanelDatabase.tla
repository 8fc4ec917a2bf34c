--------------------------- MODULE PanelDatabase ---------------------------
(***************************************************************************)
(* Opening the panel's SQLite file: the migrations of the schema, the      *)
(* bootstrap of the first user and the web port, and the accounts.         *)
(*                                                                         *)
(* Sources: src/database/db.go, src/database/migration.go, src/main.go,    *)
(* src/web/service/user.go and, for the web port, src/web/service/         *)
(* setting.go.                                                             *)
(*                                                                         *)
(* Two kinds of process open the file and run the same InitDB: the panel,  *)
(* which systemd starts again whenever it exits with an error, and the     *)
(* command "x-ui setting ...", which does its one job and ends.  Each step *)
(* of InitDB is an action, because the other process may run, and either   *)
(* may die, between any two of them.  A migration and its row of           *)
(* schema_migrations are one SQLite transaction, hence one action.         *)
(* Others write to the file and never run InitDB: the script of the port   *)
(* guard, which a timer starts every 30 s, and the sqlite3 calls of        *)
(* x-ui.sh.                                                                *)
(*                                                                         *)
(* The tables of the first release (users, inbounds, settings) exist in    *)
(* every file that has data; that InitDB creates them in a new file is     *)
(* left out, and so are user names: a user is its place in the table.      *)
(***************************************************************************)
EXTENDS Integers, Sequences

CONSTANTS
  Panel,        \* the panel's process
  Commands,     \* processes that run "x-ui setting"
  Inbounds,     \* the inbounds the file holds
  Ports,        \* values of the setting webPort
  Passwords,    \* passwords
  NULL,         \* an empty column, or nothing in progress
  MaxDeaths     \* bound: how many times a process dies half-way

Procs == {Panel} \cup Commands

ASSUME DatabaseAssumption ==
  /\ Panel \notin Commands
  /\ NULL \notin Ports \cup Passwords
  /\ Ports # {} /\ Passwords # {}
  /\ MaxDeaths \in Nat

VARIABLES
  table,       \* schema_migrations exists
  ledger,      \* versions in schema_migrations
  inbounds,    \* per inbound: clients inside settings, client lists in
               \* inbound_clients, settings.decryption is there
  guards,      \* rows of settings with one of the port guard's keys
  ports,       \* rows of settings with the key webPort, oldest first
  users,       \* rows of users: password (plain copy) and password_hash
  backups,     \* files x-ui.db.bak.*: the versions in the copy, and whether
               \* it is whole
  pc,          \* where each process is
  next,        \* the version runMigrations has come to
  torn,        \* somebody committed while this process was copying the file
  mine,        \* the port this process has read or picked
  login,       \* a login that has verified a password and will save it
  deaths,      \* deaths so far
  \* History: what the passwords ought to be, and what has raced.
  chosen,      \* per user, the password last set by anyone
  overtaken,   \* users whose plain copy a login wrote after a change
  overlapped,  \* two processes were inside the bootstrap at once
  intruded     \* an outsider committed under a copy, and no whole copy has
               \* been made since

file  == <<table, ledger, inbounds, guards, ports, users>>
local == <<pc, next, torn, mine>>
past  == <<chosen, overtaken, overlapped, intruded>>
vars  == <<file, backups, local, login, deaths, past>>

Versions == 1..4      \* password_hash, inbound_clients, vless_decryption,
                      \* port_guard

User(w, h) == [password |-> w, hash |-> h]

Places == {"off", "need", "copy", "ledger", "check", "apply", "count",
           "port", "portrow", "user", "open", "read", "write"}

Bootstrapping == {"port", "portrow", "user"}

\* What a process does between reading "no user" and creating one.
InBootstrap(p) == pc[p] \in Bootstrapping

-----------------------------------------------------------------------------
(* Files found at the first start: new ones, those of an older release, and
   those whose ledger was lost or cleared although the data is migrated.   *)

OldInbound  == [embedded |-> TRUE, rows |-> 0, decryption |-> FALSE]
NoClients   == [embedded |-> FALSE, rows |-> 0, decryption |-> FALSE]
NewInbound  == [embedded |-> FALSE, rows |-> 1, decryption |-> TRUE]

EmptyFile ==
  /\ table = FALSE /\ ledger = {} /\ guards = 0 /\ ports = << >>
  /\ users = << >> /\ inbounds = [i \in Inbounds |-> NoClients]

LegacyFile ==
  /\ table = FALSE /\ ledger = {} /\ guards = 0
  /\ ports \in {<< >>} \cup {<<n>> : n \in Ports}
  /\ \E w \in Passwords : users = <<User(w, NULL)>>
  /\ inbounds \in [Inbounds -> {OldInbound, NoClients}]

\* A release between: everything but the port guard, and a password_hash
\* with no plain copy beside it.
MiddleFile ==
  /\ table = TRUE /\ ledger = 1..3 /\ guards = 0
  /\ \E n \in Ports : ports = <<n>>
  /\ \E w \in Passwords : users = <<User(NULL, w)>>
  /\ inbounds = [i \in Inbounds |-> NewInbound]

ClearedFile ==
  /\ table = TRUE /\ ledger = {} /\ guards = 1
  /\ \E n \in Ports : ports = <<n>>
  /\ \E w \in Passwords : users \in {<<User(w, w)>>, <<User(NULL, w)>>}
  /\ inbounds \in [Inbounds -> {OldInbound, NewInbound}]

Init ==
  /\ EmptyFile \/ LegacyFile \/ MiddleFile \/ ClearedFile
  /\ backups = {}
  /\ pc = [p \in Procs |-> "off"]
  /\ next = [p \in Procs |-> 1]
  /\ torn = [p \in Procs |-> FALSE]
  /\ mine = [p \in Procs |-> NULL]
  /\ login = NULL /\ deaths = 0
  /\ chosen = [u \in DOMAIN users |->
                 IF users[u].hash # NULL THEN users[u].hash
                                         ELSE users[u].password]
  /\ overtaken = {} /\ overlapped = FALSE /\ intruded = FALSE

-----------------------------------------------------------------------------
(* Each commit changes the file under whoever is copying it.               *)

Commit(p) ==
  torn' = [q \in Procs |-> torn[q] \/ (q # p /\ pc[q] = "copy")]

\* A script commits bans or certificate paths: rows no step here reads, so it
\* matters only under a copy.
OutsiderCommits ==
  /\ \E p \in Procs : pc[p] = "copy"
  /\ torn' = [q \in Procs |-> torn[q] \/ pc[q] = "copy"]
  /\ intruded' = TRUE
  /\ UNCHANGED <<file, backups, pc, next, mine, login, deaths, chosen, overtaken,
                 overlapped>>

Goto(p, place) == pc' = [pc EXCEPT ![p] = place]

\* A process that ends keeps nothing; a copy it had not finished stays on
\* the disk.
Ends(p) ==
  /\ Goto(p, "off")
  /\ next' = [next EXCEPT ![p] = 1]
  /\ mine' = [mine EXCEPT ![p] = NULL]

(* runMigrations: is a backup needed? *)
Start(p) ==
  /\ pc[p] = "off"
  /\ Goto(p, "need")
  /\ UNCHANGED <<file, backups, next, torn, mine, login, deaths, past>>

BugNeeds == ~table      \* mutant: only a file without a ledger is backed up

needsMigration == ~table \/ ledger # Versions

Need(p) ==
  /\ pc[p] = "need"
  /\ Goto(p, IF needsMigration THEN "copy" ELSE "ledger")
  /\ UNCHANGED <<file, backups, next, torn, mine, login, deaths, past>>

(* backupDatabase: io.Copy of the live file. *)
BackUp(p) ==
  /\ pc[p] = "copy"
  /\ backups' = backups \cup {[ledger |-> ledger, whole |-> ~torn[p]]}
  /\ Goto(p, "ledger") /\ torn' = [torn EXCEPT ![p] = FALSE]
  /\ intruded' = (intruded /\ torn[p])
  /\ UNCHANGED <<file, next, mine, login, deaths, chosen, overtaken, overlapped>>

CreateLedger(p) ==
  /\ pc[p] = "ledger"
  /\ table' = TRUE
  /\ IF table THEN UNCHANGED torn ELSE Commit(p)
  /\ Goto(p, "check")
  /\ UNCHANGED <<ledger, inbounds, guards, ports, users, backups, next, mine,
                 login, deaths, past>>

(* isMigrationApplied is asked outside the transaction. *)
NotApplied(v) == v \notin ledger

Check(p) ==
  /\ pc[p] = "check"
  /\ \/ /\ next[p] \in Versions /\ ~NotApplied(next[p])
        /\ next' = [next EXCEPT ![p] = @ + 1] /\ UNCHANGED pc
     \/ /\ next[p] \in Versions /\ NotApplied(next[p])
        /\ Goto(p, "apply") /\ UNCHANGED next
     \/ /\ next[p] \notin Versions
        /\ Goto(p, "count") /\ next' = [next EXCEPT ![p] = 1]
  /\ UNCHANGED <<file, backups, torn, mine, login, deaths, past>>

-----------------------------------------------------------------------------
(* The four migrations. *)

BugHashed(u) ==         \* mutant: a row without a plain copy is hashed too
  User(u.password, u.password)

Hashed(u) ==
  IF u.hash # NULL \/ u.password = NULL THEN u ELSE User(u.password, u.password)

BugLoses(i) ==          \* mutant: settings.clients is deleted, never copied
  [i EXCEPT !.embedded = FALSE]

\* The rows are only created when the inbound has none yet.
Split(i) ==
  IF ~i.embedded THEN i
  ELSE [embedded |-> FALSE, rows |-> IF i.rows = 0 THEN 1 ELSE i.rows,
        decryption |-> i.decryption]

Decrypted(i) == [i EXCEPT !.decryption = TRUE]

RunMigration(v) ==
  /\ users' = IF v = 1 THEN [u \in DOMAIN users |-> Hashed(users[u])] ELSE users
  /\ inbounds' = CASE v = 2 -> [i \in Inbounds |-> Split(inbounds[i])]
                   [] v = 3 -> [i \in Inbounds |-> Decrypted(inbounds[i])]
                   [] OTHER -> inbounds
  /\ guards' = IF v = 4 /\ guards = 0 THEN 1 ELSE guards

\* mutant: the row is written first, in a transaction of its own
BugApply(p) ==
  /\ pc[p] = "apply"
  /\ IF NotApplied(next[p])
     THEN /\ ledger' = ledger \cup {next[p]}
          /\ UNCHANGED <<users, inbounds, guards, next, pc>>
     ELSE /\ RunMigration(next[p])
          /\ next' = [next EXCEPT ![p] = @ + 1]
          /\ Goto(p, "check") /\ UNCHANGED ledger
  /\ Commit(p)
  /\ UNCHANGED <<table, ports, backups, mine, login, deaths, past>>

\* The row of schema_migrations comes last in the transaction; its primary
\* key refuses a version another process has applied since the check, and
\* the process exits.
Apply(p) ==
  /\ pc[p] = "apply"
  /\ NotApplied(next[p])
  /\ RunMigration(next[p])
  /\ ledger' = ledger \cup {next[p]}
  /\ Commit(p)
  /\ Goto(p, "check")
  /\ next' = [next EXCEPT ![p] = @ + 1]
  /\ UNCHANGED <<table, ports, backups, mine, login, deaths, past>>

Refused(p) ==
  /\ pc[p] = "apply"
  /\ ~NotApplied(next[p])
  /\ Ends(p)
  /\ UNCHANGED <<file, backups, torn, login, deaths, past>>

-----------------------------------------------------------------------------
(* ensureBootstrapState *)

Count(p) ==
  /\ pc[p] = "count"
  /\ Goto(p, IF users = << >> THEN "port" ELSE "open")
  /\ overlapped' = (overlapped \/ (users = << >>
                                   /\ \E q \in Procs \ {p} : InBootstrap(q)))
  /\ UNCHANGED <<file, backups, next, torn, mine, login, deaths, chosen,
                 overtaken, intruded>>

\* mutant: a port is picked although one is stored
BugBootstrapPort(p) ==
  /\ pc[p] = "port"
  /\ Goto(p, "portrow") /\ \E n \in Ports : mine' = [mine EXCEPT ![p] = n]
  /\ UNCHANGED <<file, backups, next, torn, login, deaths, past>>

\* mutant: a stored port is an error
BugNoPort(p) ==
  /\ pc[p] = "port"
  /\ \/ /\ ports # << >> /\ Ends(p)
     \/ /\ ports = << >>
        /\ Goto(p, "portrow") /\ \E n \in Ports : mine' = [mine EXCEPT ![p] = n]
        /\ UNCHANGED next
  /\ UNCHANGED <<file, backups, torn, login, deaths, past>>

BootstrapPort(p) ==
  /\ pc[p] = "port"
  /\ \/ /\ ports # << >>
        /\ Goto(p, "user") /\ mine' = [mine EXCEPT ![p] = Head(ports)]
     \/ /\ ports = << >>
        /\ Goto(p, "portrow") /\ \E n \in Ports : mine' = [mine EXCEPT ![p] = n]
  /\ UNCHANGED <<file, backups, next, torn, login, deaths, past>>

CreatePort(p) ==
  /\ pc[p] = "portrow"
  /\ ports' = Append(ports, mine[p])
  /\ Commit(p) /\ Goto(p, "user")
  /\ UNCHANGED <<table, ledger, inbounds, guards, users, backups, next, mine,
                 login, deaths, past>>

CreateUser(p) ==
  /\ pc[p] = "user"
  /\ \E w \in Passwords : /\ users' = Append(users, User(w, w))
                          /\ chosen' = Append(chosen, w)
  /\ mine' = [mine EXCEPT ![p] = NULL]
  /\ Commit(p) /\ Goto(p, "open")
  /\ UNCHANGED <<table, ledger, inbounds, guards, ports, backups, next,
                 login, deaths, overtaken, overlapped, intruded>>

-----------------------------------------------------------------------------
(* "x-ui setting -username -password": UpdateFirstUser reads the row, hashes,
   and saves both columns.  The other commands use the open database only for
   settings (PanelSettings). *)

FirstUser(p) ==
  /\ pc[p] = "open" /\ p \in Commands
  /\ Goto(p, "write")
  /\ UNCHANGED <<file, backups, next, torn, mine, login, deaths, past>>

\* The new password goes to both columns.
BugSetPassword(u, w) ==       \* mutant: the plain copy is not written
  /\ users' = [users EXCEPT ![u].hash = w]
  /\ chosen' = [chosen EXCEPT ![u] = w]
  /\ overtaken' = overtaken \ {u}

SetPassword(u, w) ==
  /\ users' = [users EXCEPT ![u] = User(w, w)]
  /\ chosen' = [chosen EXCEPT ![u] = w]
  /\ overtaken' = overtaken \ {u}

UpdateFirstUser(p) ==
  /\ pc[p] = "write"
  /\ \E w \in Passwords : SetPassword(1, w)
  /\ Commit(p) /\ Ends(p)
  /\ UNCHANGED <<table, ledger, inbounds, guards, ports, backups, login, deaths,
                 overlapped, intruded>>

-----------------------------------------------------------------------------
(* The open panel: UpdateUser, and CheckUserCredentials, which saves the
   plain copy of a password it has just verified when there is none.       *)

UpdateUser(u) ==
  /\ pc[Panel] = "open"
  /\ \E w \in Passwords : SetPassword(u, w)
  /\ Commit(Panel)
  /\ UNCHANGED <<table, ledger, inbounds, guards, ports, backups, pc, next, mine,
                 login, deaths, overlapped, intruded>>

Verify(u) ==
  /\ pc[Panel] = "open" /\ login = NULL
  /\ users[u].password = NULL /\ users[u].hash # NULL
  /\ login' = [user |-> u, password |-> users[u].hash]
  /\ UNCHANGED <<file, backups, local, deaths, past>>

\* mutant: the row is saved whole, with the hash that was read
BugSavePlain ==
  /\ login # NULL
  /\ users' = [users EXCEPT ![login.user] = User(login.password, login.password)]
  /\ overtaken' = overtaken
  /\ login' = NULL
  /\ Commit(Panel)
  /\ UNCHANGED <<table, ledger, inbounds, guards, ports, backups, pc, next, mine,
                 deaths, chosen, overlapped, intruded>>

SavePlain ==
  /\ login # NULL
  /\ users' = [users EXCEPT ![login.user].password = login.password]
  /\ overtaken' = IF users[login.user].hash = login.password THEN overtaken
                  ELSE overtaken \cup {login.user}
  /\ login' = NULL
  /\ Commit(Panel)
  /\ UNCHANGED <<table, ledger, inbounds, guards, ports, backups, pc, next, mine,
                 deaths, chosen, overlapped, intruded>>

-----------------------------------------------------------------------------
(* A process dies, or a statement fails and InitDB returns its error, at any
   point before the end.                                                   *)

Die(p) ==
  /\ pc[p] # "off" /\ deaths < MaxDeaths
  /\ deaths' = deaths + 1
  /\ backups' = IF pc[p] = "copy"
                THEN backups \cup {[ledger |-> ledger, whole |-> FALSE]}
                ELSE backups
  /\ login' = IF p = Panel THEN NULL ELSE login
  /\ Ends(p)
  /\ torn' = [torn EXCEPT ![p] = FALSE]
  /\ UNCHANGED <<file, past>>

InitDB(p) == Need(p) \/ BackUp(p) \/ CreateLedger(p) \/ Check(p) \/ Apply(p)
             \/ Refused(p) \/ Count(p) \/ BootstrapPort(p) \/ CreatePort(p)
             \/ CreateUser(p)

\* A command with another job only ends.
OtherJob(p) ==
  /\ pc[p] = "open" /\ p \in Commands
  /\ Ends(p)
  /\ UNCHANGED <<file, backups, torn, login, deaths, past>>

Command(p) == FirstUser(p) \/ UpdateFirstUser(p) \/ OtherJob(p)

Serve == SavePlain \/ \E u \in DOMAIN users : UpdateUser(u) \/ Verify(u)

Next ==
  \/ \E p \in Procs : Start(p) \/ InitDB(p) \/ Command(p) \/ Die(p)
  \/ Serve \/ OutsiderCommits

(* systemd starts the panel again whenever it has failed (Restart=on-failure)
   and the operating system runs it. *)
Fairness == /\ WF_vars(Start(Panel))
            /\ WF_vars(InitDB(Panel))

Spec == Init /\ [][Next]_vars /\ Fairness

-----------------------------------------------------------------------------
TypeOK ==
  /\ table \in BOOLEAN /\ ledger \subseteq Versions
  /\ inbounds \in [Inbounds -> [embedded : BOOLEAN, rows : 0..1,
                                decryption : BOOLEAN]]
  /\ guards \in 0..1
  /\ ports \in Seq(Ports)
  /\ users \in Seq([password : Passwords \cup {NULL}, hash : Passwords \cup {NULL}])
  /\ backups \subseteq [ledger : SUBSET Versions, whole : BOOLEAN]
  /\ pc \in [Procs -> Places]
  /\ next \in [Procs -> 1..5]
  /\ torn \in [Procs -> BOOLEAN]
  /\ mine \in [Procs -> Ports \cup {NULL}]
  /\ login \in [user : DOMAIN users, password : Passwords] \cup {NULL}
  /\ deaths \in 0..MaxDeaths
  /\ chosen \in Seq(Passwords) /\ Len(chosen) = Len(users)
  /\ overtaken \subseteq DOMAIN users
  /\ overlapped \in BOOLEAN /\ intruded \in BOOLEAN

(* A version in the ledger is one whose data is migrated, whatever died in
   between: no user is left without a hash, no client inside the settings,
   no inbound without a decryption. *)
LedgerIsTrue ==
  /\ 1 \in ledger => \A u \in DOMAIN users : users[u].hash # NULL
  /\ 2 \in ledger => \A i \in Inbounds : ~inbounds[i].embedded
  /\ 3 \in ledger => \A i \in Inbounds : inbounds[i].decryption

(* migrateInboundClients: an inbound's clients are in its settings or in
   inbound_clients, never in both. *)
ClientsInOnePlace ==
  \A i \in Inbounds : ~(inbounds[i].embedded /\ inbounds[i].rows > 0)

HasClients(i) == inbounds[i].embedded \/ inbounds[i].rows > 0

(* Once an inbound has clients, no step of any process loses them: not a
   migration, not a death in the middle of one, not a second run of one. *)
ClientsKept == [][\A i \in Inbounds : HasClients(i) => HasClients(i)']_vars

BackedUp(v) == \E b \in backups : b.whole /\ v \notin b.ledger

(* runMigrations, backupDatabase: a version is only ever applied when a whole
   copy of the file from before it is on the disk, although the copy is taken
   of a live file, by a process that may die in the middle and beside others
   that migrate; except after a commit of a script that knows of no backup. *)
BackedUpFirst ==
  [][\A v \in Versions : v \in ledger' \ ledger => BackedUp(v) \/ intruded]_vars

(* A process that gets past InitDB works on a migrated file with a user in
   it. *)
OpensMigrated ==
  \A p \in Procs :
    /\ pc[p] \in {"count", "open", "write"} \cup Bootstrapping => ledger = Versions
    /\ pc[p] \in {"open", "write"} => users # << >>

(* ensureBootstrapState: unless two processes bootstrap the same file at
   once, a start that was interrupted after the port was stored goes on with
   it: no second port, no second user, and the port reported is the one the
   panel reads. *)
BootstrapOnce ==
  ~overlapped => /\ Len(ports) <= 1
                 /\ \A p \in Procs : pc[p] = "user" => ports = <<mine[p]>>
                 /\ \A p \in Procs : InBootstrap(p) => users = << >>

(* CheckUserCredentials: whatever migrations, logins and changes do, the
   password last set is the one that logs in. *)
LoginHolds ==
  \A u \in DOMAIN users :
    chosen[u] = IF users[u].hash # NULL THEN users[u].hash ELSE users[u].password

(* "x-ui info" shows a password that logs in, if it shows one, except when a
   login saved its copy after the password had been changed. *)
ShownLogsIn ==
  \A u \in DOMAIN users \ overtaken :
    users[u].password \in {NULL, chosen[u]}

(* However often a start is interrupted, or refused because another process
   migrated first, the panel opens in the end. *)
Opens == []<>(pc[Panel] = "open")
=============================================================================

----------------------------- MODULE InboundStore -----------------------------
(***************************************************************************)
(* The inbounds of the panel in SQLite (web/service/inbound.go) under the   *)
(* requests of several browser pages (web/html/xui/inbounds.html) and the   *)
(* two jobs that write the same rows: XrayTrafficJob, which moves Xray's    *)
(* counters into them, and CheckInboundJob, which disables inbounds over    *)
(* their quota or past their expiry.                                        *)
(*                                                                          *)
(* An inbound is one row of inbounds and any number of rows of              *)
(* inbound_clients.  A page sends back the whole row it was shown, traffic  *)
(* counters and the enable flag included, with the user's changes in it.    *)
(***************************************************************************)
EXTENDS Naturals, FiniteSets

CONSTANTS
  Ids,          \* primary keys of inbounds
  Ports,        \* a port names its inbound's tag, "inbound-<port>"
  Clients,
  NoRow,
  NoList,       \* settings without a "clients" key
  NoPage,       \* nobody has a write transaction open
  Pages,        \* browser pages, each with one request at a time
  Quotas,       \* values of total; 0 is no quota
  Expiries,     \* values of expiry_time; 0 is never
  Existing,     \* inbounds the database has when the panel starts
  MaxNow,       \* bound on the clock
  MaxRequests,  \* bound on the requests of the pages
  Busy,         \* ports that get traffic in this instance
  MaxTraffic,   \* bound on the units of traffic on each of them
  MaxFailures   \* bound on failing statements, lost answers, Xray restarts

ASSUME ParametersGiven == Ids # {} /\ Ports # {} /\ Quotas # {} /\ Expiries # {}

ASSUME InboundStoreAssumption ==
  /\ Ids \subseteq Nat
  /\ NoPage \notin Pages
  /\ \A list \in SUBSET Clients : NoList # list
  /\ Quotas \subseteq Nat
  /\ Expiries \subseteq Nat
  /\ Existing \subseteq Ids
  /\ Busy \subseteq Ports
  /\ MaxNow \in Nat
  /\ MaxRequests \in Nat
  /\ MaxTraffic \in Nat
  /\ MaxFailures \in Nat
  /\ NoRow \notin [port : Ports, users : BOOLEAN, used : Nat, total : Quotas,
                   expiry : Expiries, enable : BOOLEAN]

VARIABLES
  rows,          \* table inbounds; used is up + down
  clientRows,    \* table inbound_clients, by inbound_id
  writer,        \* page whose transaction holds SQLite's write lock
  stagedRows,    \* what that transaction sees of inbounds
  stagedClients, \* what it sees of inbound_clients
  pc,            \* next step of each page or of its handler
  op,            \* what each page asks for
  form,          \* the row each page shows or has sent
  counters,      \* Xray's counter of each tag
  inFlight,      \* what the traffic job has queried and not yet added
  now,
  requests,
  failures,
  sent,          \* history: units Xray has carried, by port
  booked,        \* history: units handed to the database, by port
  charged,       \* history: units added to each row since its counter was reset
  submitted,     \* history: the clients of the last save that had some to save
  overwritten,   \* history: inbounds whose counter a stale page has overwritten
  stale          \* history: the row changed after the page loaded it

dbVars == <<rows, clientRows>>
txVars == <<writer, stagedRows, stagedClients>>
pageVars == <<pc, op, form>>
xrayVars == <<counters, inFlight, now>>
boundVars == <<requests, failures>>
trafficHistory == <<sent, booked>>
rowHistory == <<charged, submitted, overwritten>>

vars == <<dbVars, txVars, pageVars, xrayVars, boundVars, trafficHistory, rowHistory, stale>>

Row == [port : Ports, users : BOOLEAN, used : Nat, total : Quotas,
        expiry : Expiries, enable : BOOLEAN]
Rows == [Ids -> Row \cup {NoRow}]
ClientRows == [Ids -> SUBSET Clients]
Lists == {NoList} \cup SUBSET Clients
Form == [id : Ids, row : Row, clients : Lists]

(* Steps of a handler inside its transaction, after the first write. *)
InTransaction == {"clients", "commit"}
Labels == InTransaction \cup {"idle", "open", "check", "read", "save"}

TypeOK ==
  /\ rows \in Rows
  /\ clientRows \in ClientRows
  /\ writer \in Pages \cup {NoPage}
  /\ stagedRows \in Rows
  /\ stagedClients \in ClientRows
  /\ pc \in [Pages -> Labels]
  /\ op \in [Pages -> {"add", "update", "reset", "delete"}]
  /\ form \in [Pages -> Form]
  /\ counters \in [Ports -> Nat]
  /\ inFlight \in [Ports -> Nat]
  /\ now \in 0..MaxNow
  /\ requests \in 0..MaxRequests
  /\ failures \in 0..MaxFailures
  /\ sent \in [Ports -> Nat]
  /\ booked \in [Ports -> Nat]
  /\ charged \in [Ids -> Nat]
  /\ submitted \in ClientRows
  /\ stale \in [Pages -> BOOLEAN]
  /\ overwritten \subseteq Ids

-----------------------------------------------------------------------------
Exists(table, id) == table[id] # NoRow
NoTraffic == [p \in Ports |-> 0]

(* Mutant: port and tag are not declared unique.                           *)
BugNotUnique(table, port, id) == FALSE

(* The ports are unique in the table, whatever checkPortExist has said.    *)
PortTaken(table, port, id) ==
  \E other \in Ids \ {id} : Exists(table, other) /\ table[other].port = port

(* Mutant: the quota has to be exceeded.                                   *)
BugAboveQuota(row) ==
  \/ row.total > 0 /\ row.used > row.total
  \/ row.expiry > 0 /\ row.expiry <= now

(* DisableInvalidInbounds: the condition of its UPDATE.                    *)
Invalid(row) ==
  \/ row.total > 0 /\ row.used >= row.total
  \/ row.expiry > 0 /\ row.expiry <= now

(* attachClients: the client rows go back into the settings, if there are  *)
(* any, whatever the protocol of the inbound.                              *)
Attached(id) == IF clientRows[id] = {} THEN NoList ELSE clientRows[id]

(* What a dialog sends: for a protocol with users one client, the only one *)
(* its class keeps; for another, settings without clients.                 *)
Entered == {NoList} \cup {{client} : client \in Clients}

(* saveInboundWithClients: Validate normalises the settings, which drops   *)
(* the clients of a protocol without users, so splitSettingsClients finds  *)
(* a list exactly when the protocol has users.                             *)
Split(posted) == IF posted.row.users THEN posted.clients ELSE NoList

Goto(p, label) == pc' = [pc EXCEPT ![p] = label]

(* What a page's variables hold between requests: nothing of interest.     *)
Blank == [id |-> CHOOSE id \in Ids : TRUE,
          row |-> [port |-> CHOOSE port \in Ports : TRUE, users |-> FALSE, used |-> 0,
                   total |-> CHOOSE total \in Quotas : TRUE,
                   expiry |-> CHOOSE expiry \in Expiries : TRUE, enable |-> FALSE],
          clients |-> NoList]

Done(p) ==
  /\ Goto(p, "idle")
  /\ op' = [op EXCEPT ![p] = "update"]
  /\ form' = [form EXCEPT ![p] = Blank]

Fail == failures < MaxFailures /\ failures' = failures + 1

GiveBack(p) == Done(p) /\ stale' = [stale EXCEPT ![p] = FALSE]

(* A commit makes every other page that shows one of these inbounds stale. *)
Outdate(ids, except) ==
  stale' = [p \in Pages |-> p # except /\ pc[p] # "idle" /\ (stale[p] \/ form[p].id \in ids)]

-----------------------------------------------------------------------------
(* The pages. *)

(* getInbounds: the page shows an inbound; a dialog opens on its row.      *)
Open(p, id) ==
  /\ pc[p] = "idle"
  /\ requests < MaxRequests
  /\ Exists(rows, id)
  /\ Goto(p, "open")
  /\ op' = [op EXCEPT ![p] = "update"]
  /\ form' = [form EXCEPT ![p] = [id |-> id, row |-> rows[id], clients |-> Attached(id)]]
  /\ requests' = requests + 1
  /\ UNCHANGED <<dbVars, txVars, xrayVars, failures, trafficHistory, rowHistory, stale>>

(* addInbound: a new row, enabled, with no traffic.                        *)
Add(p) ==
  /\ pc[p] = "idle"
  /\ requests < MaxRequests
  /\ \E port \in Ports, list \in Entered, total \in Quotas, expiry \in Expiries :
       LET row == [port |-> port, users |-> list # NoList, used |-> 0, total |-> total,
                   expiry |-> expiry, enable |-> TRUE]
       IN form' = [form EXCEPT ![p] = [id |-> @.id, row |-> row, clients |-> list]]
  /\ op' = [op EXCEPT ![p] = "add"]
  /\ Goto(p, "check")
  /\ requests' = requests + 1
  /\ UNCHANGED <<dbVars, txVars, xrayVars, failures, trafficHistory, rowHistory, stale>>

(* The edit dialog: protocol, port, quota and clients may change.          *)
Edit(p) ==
  /\ pc[p] = "open"
  /\ \E port \in Ports, list \in Entered, total \in Quotas :
       LET row == [form[p].row EXCEPT !.port = port, !.users = list # NoList, !.total = total]
       IN form' = [form EXCEPT ![p] = [id |-> @.id, row |-> row, clients |-> list]]
  /\ Goto(p, "check")
  /\ UNCHANGED <<dbVars, txVars, op, xrayVars, boundVars, trafficHistory, rowHistory, stale>>

(* switchEnable posts the row as it was loaded, clients in the settings.   *)
SwitchEnable(p) ==
  /\ pc[p] = "open"
  /\ form' = [form EXCEPT ![p].row.enable = ~@]
  /\ Goto(p, "check")
  /\ UNCHANGED <<dbVars, txVars, op, xrayVars, boundVars, trafficHistory, rowHistory, stale>>

(* resetTraffic posts the row with its counters at zero.                   *)
ResetTraffic(p) ==
  /\ pc[p] = "open"
  /\ op' = [op EXCEPT ![p] = "reset"]
  /\ form' = [form EXCEPT ![p].row.used = 0]
  /\ Goto(p, "check")
  /\ UNCHANGED <<dbVars, txVars, xrayVars, boundVars, trafficHistory, rowHistory, stale>>

Delete(p) ==
  /\ pc[p] = "open"
  /\ op' = [op EXCEPT ![p] = "delete"]
  /\ Goto(p, "save")
  /\ UNCHANGED <<dbVars, txVars, form, xrayVars, boundVars, trafficHistory, rowHistory, stale>>

-----------------------------------------------------------------------------
(* The handlers. *)

(* checkPortExist, outside the transaction; UpdateInbound ignores its own. *)
Check(p) ==
  /\ pc[p] = "check"
  /\ IF \E id \in Ids : /\ Exists(rows, id)
                        /\ rows[id].port = form[p].row.port
                        /\ op[p] = "add" \/ id # form[p].id
     THEN GiveBack(p)
     ELSE Goto(p, IF op[p] = "add" THEN "save" ELSE "read") /\ UNCHANGED <<op, form, stale>>
  /\ UNCHANGED <<dbVars, txVars, xrayVars, boundVars, trafficHistory, rowHistory>>

(* GetInbound in UpdateInbound: the columns the form does not have, which  *)
(* are of no interest here, and an error when the inbound is gone.         *)
ReadOld(p) ==
  /\ pc[p] = "read"
  /\ IF Exists(rows, form[p].id)
     THEN Goto(p, "save") /\ UNCHANGED <<op, form, stale>>
     ELSE GiveBack(p)
  /\ UNCHANGED <<dbVars, txVars, xrayVars, boundVars, trafficHistory, rowHistory>>

(* The first write of a transaction takes SQLite's write lock; what is     *)
(* rejected (the unique columns port and tag) is rolled back.              *)
SaveRow(p) ==
  /\ pc[p] = "save"
  /\ op[p] # "delete"
  /\ writer = NoPage
  /\ \E id \in IF op[p] = "add" THEN {i \in Ids : ~Exists(rows, i)} ELSE {form[p].id} :
       IF PortTaken(rows, form[p].row.port, id)
       THEN GiveBack(p) /\ UNCHANGED txVars
       ELSE /\ writer' = p
            /\ stagedRows' = [stagedRows EXCEPT ![id] = form[p].row]
            /\ form' = [form EXCEPT ![p].id = id]
            /\ Goto(p, "clients")
            /\ UNCHANGED <<stagedClients, op, stale>>
  /\ UNCHANGED <<dbVars, xrayVars, boundVars, trafficHistory, rowHistory>>

(* Mutant: the old client rows are not deleted first.                      *)
BugAppends(p) ==
  /\ pc[p] = "clients"
  /\ op[p] # "delete"
  /\ stagedClients' = IF Split(form[p]) = NoList THEN stagedClients
                      ELSE [stagedClients EXCEPT ![form[p].id] = @ \cup Split(form[p])]
  /\ Goto(p, "commit")
  /\ UNCHANGED <<dbVars, writer, stagedRows, op, form, xrayVars, boundVars,
                 trafficHistory, rowHistory, stale>>

(* saveInboundWithClients after Save: with no list of clients the client   *)
(* rows stay, otherwise they are replaced.                                 *)
SaveClients(p) ==
  /\ pc[p] = "clients"
  /\ op[p] # "delete"
  /\ stagedClients' = IF Split(form[p]) = NoList THEN stagedClients
                      ELSE [stagedClients EXCEPT ![form[p].id] = Split(form[p])]
  /\ Goto(p, "commit")
  /\ UNCHANGED <<dbVars, writer, stagedRows, op, form, xrayVars, boundVars,
                 trafficHistory, rowHistory, stale>>

(* Mutant: the client rows are deleted before the transaction begins.      *)
BugOutside(p) ==
  /\ pc[p] = "save"
  /\ op[p] = "delete"
  /\ writer = NoPage
  /\ writer' = p
  /\ clientRows' = [clientRows EXCEPT ![form[p].id] = {}]
  /\ stagedClients' = clientRows'
  /\ Goto(p, "clients")
  /\ UNCHANGED <<rows, stagedRows, op, form, xrayVars, boundVars, trafficHistory,
                 rowHistory, stale>>

(* DelInbound: the client rows, then the inbound.                          *)
DeleteClients(p) ==
  /\ pc[p] = "save"
  /\ op[p] = "delete"
  /\ writer = NoPage
  /\ writer' = p
  /\ stagedClients' = [stagedClients EXCEPT ![form[p].id] = {}]
  /\ Goto(p, "clients")
  /\ UNCHANGED <<dbVars, stagedRows, op, form, xrayVars, boundVars, trafficHistory,
                 rowHistory, stale>>

DeleteRow(p) ==
  /\ pc[p] = "clients"
  /\ op[p] = "delete"
  /\ stagedRows' = [stagedRows EXCEPT ![form[p].id] = NoRow]
  /\ Goto(p, "commit")
  /\ UNCHANGED <<dbVars, writer, stagedClients, op, form, xrayVars, boundVars,
                 trafficHistory, rowHistory, stale>>

(* What the commit of a page's form means for the counter of its row.      *)
Recount(p, id) ==
  IF op[p] = "update"
  THEN /\ overwritten' = IF stale[p] THEN overwritten \cup {id} ELSE overwritten
       /\ UNCHANGED charged
  ELSE /\ charged' = [charged EXCEPT ![id] = 0]
       /\ overwritten' = overwritten \ {id}

Commit(p) ==
  /\ pc[p] = "commit"
  /\ rows' = stagedRows
  /\ clientRows' = stagedClients
  /\ writer' = NoPage
  /\ submitted' = [submitted EXCEPT ![form[p].id] =
                     IF op[p] = "delete" THEN {}
                     ELSE IF Split(form[p]) = NoList THEN @ ELSE Split(form[p])]
  /\ Recount(p, form[p].id)
  /\ Outdate({form[p].id}, p)
  /\ Done(p)
  /\ UNCHANGED <<stagedRows, stagedClients, xrayVars, boundVars, trafficHistory>>

(* A statement or the commit fails: the transaction is rolled back.        *)
Rollback(p) ==
  /\ pc[p] \in InTransaction
  /\ Fail
  /\ writer' = NoPage
  /\ stagedRows' = rows
  /\ stagedClients' = clientRows
  /\ GiveBack(p)
  /\ UNCHANGED <<dbVars, xrayVars, requests, trafficHistory, rowHistory>>

(* A read or the validation fails, or the database stays locked.           *)
GiveUp(p) ==
  /\ pc[p] \in {"check", "read", "save"}
  /\ Fail
  /\ GiveBack(p)
  /\ UNCHANGED <<dbVars, txVars, xrayVars, requests, trafficHistory, rowHistory>>

-----------------------------------------------------------------------------
(* Xray and the jobs. *)

(* Xray carries a unit of traffic for an enabled inbound.                  *)
Traffic(id) ==
  /\ Exists(rows, id)
  /\ rows[id].enable
  /\ LET port == rows[id].port IN
       /\ port \in Busy
       /\ sent[port] < MaxTraffic
       /\ sent' = [sent EXCEPT ![port] = @ + 1]
       /\ counters' = [counters EXCEPT ![port] = @ + 1]
  /\ UNCHANGED <<dbVars, txVars, pageVars, inFlight, now, boundVars, booked, rowHistory, stale>>

(* A full restart of Xray loses its counters.                              *)
XrayRestarts ==
  /\ Fail
  /\ counters' = NoTraffic
  /\ UNCHANGED <<dbVars, txVars, pageVars, inFlight, now, requests, trafficHistory,
                 rowHistory, stale>>

(* Mutant: the query leaves the counters as they are.                      *)
BugNoReset ==
  /\ inFlight = NoTraffic
  /\ counters # NoTraffic
  /\ inFlight' = counters
  /\ UNCHANGED <<dbVars, txVars, pageVars, counters, now, boundVars, trafficHistory,
                 rowHistory, stale>>

(* XrayTrafficJob: QueryStats reads the counters and resets them.          *)
QueryTraffic ==
  /\ inFlight = NoTraffic
  /\ counters # NoTraffic
  /\ inFlight' = counters
  /\ counters' = NoTraffic
  /\ UNCHANGED <<dbVars, txVars, pageVars, now, boundVars, trafficHistory, rowHistory, stale>>

(* The answer of QueryStats is lost after the reset, or AddTraffic fails   *)
(* and rolls back: what was queried is gone.                               *)
LoseTraffic ==
  /\ inFlight # NoTraffic
  /\ Fail
  /\ inFlight' = NoTraffic
  /\ UNCHANGED <<dbVars, txVars, pageVars, counters, now, requests, trafficHistory,
                 rowHistory, stale>>

(* Mutant: the statement stores the answer instead of adding it.           *)
BugStoresAnswer ==
  /\ inFlight # NoTraffic
  /\ writer = NoPage
  /\ LET hit == {id \in Ids : Exists(rows, id) /\ inFlight[rows[id].port] > 0} IN
       /\ rows' = [id \in Ids |->
                     IF id \in hit THEN [rows[id] EXCEPT !.used = inFlight[rows[id].port]]
                     ELSE rows[id]]
       /\ charged' = [id \in Ids |->
                        IF id \in hit THEN charged[id] + inFlight[rows[id].port] ELSE charged[id]]
       /\ Outdate(hit, NoPage)
  /\ stagedRows' = rows'
  /\ booked' = [port \in Ports |-> booked[port] + inFlight[port]]
  /\ inFlight' = NoTraffic
  /\ UNCHANGED <<clientRows, writer, stagedClients, pageVars, counters, now, boundVars,
                 sent, submitted, overwritten>>

(* AddTraffic: one transaction, by tag; a tag without a row matches none.  *)
AddTraffic ==
  /\ inFlight # NoTraffic
  /\ writer = NoPage
  /\ LET hit == {id \in Ids : Exists(rows, id) /\ inFlight[rows[id].port] > 0} IN
       /\ rows' = [id \in Ids |->
                     IF id \in hit THEN [rows[id] EXCEPT !.used = @ + inFlight[rows[id].port]]
                     ELSE rows[id]]
       /\ charged' = [id \in Ids |->
                        IF id \in hit THEN charged[id] + inFlight[rows[id].port] ELSE charged[id]]
       /\ Outdate(hit, NoPage)
  /\ stagedRows' = rows'
  /\ booked' = [port \in Ports |-> booked[port] + inFlight[port]]
  /\ inFlight' = NoTraffic
  /\ UNCHANGED <<clientRows, writer, stagedClients, pageVars, counters, now, boundVars,
                 sent, submitted, overwritten>>

(* CheckInboundJob: DisableInvalidInbounds is one UPDATE.                  *)
DisableInvalidInbounds ==
  /\ writer = NoPage
  /\ LET hit == {id \in Ids : Exists(rows, id) /\ rows[id].enable /\ Invalid(rows[id])} IN
       /\ rows' = [id \in Ids |->
                     IF id \in hit THEN [rows[id] EXCEPT !.enable = FALSE] ELSE rows[id]]
       /\ Outdate(hit, NoPage)
  /\ stagedRows' = rows'
  /\ UNCHANGED <<clientRows, writer, stagedClients, pageVars, xrayVars, boundVars,
                 trafficHistory, charged, submitted, overwritten>>

Tick ==
  /\ now < MaxNow
  /\ now' = now + 1
  /\ UNCHANGED <<dbVars, txVars, pageVars, counters, inFlight, boundVars, trafficHistory,
                 rowHistory, stale>>

-----------------------------------------------------------------------------
(* A row as addInbound or resetTraffic leaves it. *)
NewRow == [port : Ports, users : BOOLEAN, used : {0}, total : Quotas,
           expiry : Expiries, enable : {TRUE}]

Init ==
  /\ rows \in {table \in [Ids -> NewRow \cup {NoRow}] :
                /\ \A id \in Ids : Exists(table, id) <=> id \in Existing
                /\ \A id \in Existing : ~PortTaken(table, table[id].port, id)}
  /\ clientRows \in {table \in ClientRows :
                \A id \in Ids : IF Exists(rows, id) /\ rows[id].users
                                THEN {table[id]} \subseteq Entered ELSE table[id] = {}}
  /\ writer = NoPage
  /\ stagedRows = rows
  /\ stagedClients = clientRows
  /\ pc = [p \in Pages |-> "idle"]
  /\ op = [p \in Pages |-> "update"]
  /\ form = [p \in Pages |-> Blank]
  /\ counters = NoTraffic
  /\ inFlight = NoTraffic
  /\ now = 0
  /\ requests = 0
  /\ failures = 0
  /\ sent = NoTraffic
  /\ booked = NoTraffic
  /\ charged = [id \in Ids |-> 0]
  /\ submitted = clientRows
  /\ stale = [p \in Pages |-> FALSE]
  /\ overwritten = {}

Ask(p) ==
  \/ \E id \in Ids : Open(p, id)
  \/ Add(p)
  \/ Edit(p)
  \/ SwitchEnable(p)
  \/ ResetTraffic(p)
  \/ Delete(p)

Handle(p) ==
  \/ Check(p)
  \/ ReadOld(p)
  \/ SaveRow(p)
  \/ SaveClients(p)
  \/ DeleteClients(p)
  \/ DeleteRow(p)
  \/ Commit(p)

Next ==
  \/ \E p \in Pages : Ask(p) \/ Handle(p) \/ Rollback(p) \/ GiveUp(p)
  \/ \E id \in Ids : Traffic(id)
  \/ XrayRestarts
  \/ QueryTraffic
  \/ LoseTraffic
  \/ AddTraffic
  \/ DisableInvalidInbounds
  \/ Tick

Spec == Init /\ [][Next]_vars

(* A handler that runs goes on, and cron starts the check job every 30     *)
(* seconds; pages, traffic and failures owe nothing.                       *)
Fairness ==
  /\ \A p \in Pages : WF_vars(Handle(p))
  /\ WF_vars(DisableInvalidInbounds)

FairSpec == Spec /\ Fairness

-----------------------------------------------------------------------------
(* Two inbounds never share a port, and with it a tag, in the database or  *)
(* in what a transaction has written, whatever checkPortExist saw before   *)
(* the transaction began.                                                  *)
OneInboundPerPort ==
  \A a, b \in Ids :
    /\ Exists(rows, a) /\ Exists(rows, b) /\ rows[a].port = rows[b].port => a = b
    /\ /\ Exists(stagedRows, a) /\ Exists(stagedRows, b)
       /\ stagedRows[a].port = stagedRows[b].port
       => a = b

(* A client row belongs to an inbound: deletions racing with updates,      *)
(* updates that bring a deleted inbound back and ids that are used again   *)
(* leave none behind.                                                      *)
NoOrphanClients == \A id \in Ids : clientRows[id] # {} => Exists(rows, id)

(* An inbound with users has the clients of one save, the last that sent a *)
(* list: no failure and no concurrent request mixes two lists or a row     *)
(* with another's clients.                                                 *)
ClientsAreSubmitted ==
  \A id \in Ids :
    Exists(rows, id) /\ rows[id].users =>
      clientRows[id] = submitted[id] /\ clientRows[id] \in Entered

(* Query-and-reset and AddTraffic count no unit twice, and lose one only   *)
(* with a failure.                                                         *)
CountedOnce ==
  \A port \in Ports :
    /\ booked[port] + inFlight[port] + counters[port] <= sent[port]
    /\ failures = 0 => booked[port] + inFlight[port] + counters[port] = sent[port]

(* The traffic of a row is what AddTraffic gave it since it was created or *)
(* reset, unless a page that had not seen the last change saved the row:   *)
(* the form carries the counter.                                           *)
TrafficIsKept ==
  \A id \in Ids : Exists(rows, id) /\ id \notin overwritten => rows[id].used = charged[id]

(* Handlers work in several statements and the jobs in between, and any    *)
(* statement may fail: what they leave in the database is what StorePromise *)
(* does in one step.                                                       *)
Promise == INSTANCE StorePromise WITH
  Ids <- Ids, Clients <- Clients, Row <- Row, NoRow <- NoRow,
  rows <- rows, clientRows <- clientRows

ImplementsStore == Promise!Spec

(* An inbound whose quota is used up to the last unit, or whose expiry has *)
(* come to the millisecond, does not stay enabled, whatever stale page     *)
(* enables it again.                                                       *)
Exhausted(id) ==
  /\ Exists(rows, id)
  /\ rows[id].total \in 1..rows[id].used \/ rows[id].expiry \in 1..now

QuotaEnds ==
  \A id \in Ids :
    [](Exhausted(id) /\ rows[id].enable => <>~(Exhausted(id) /\ rows[id].enable))
=============================================================================

-------------------------- MODULE InboundStoreProofs --------------------------
(***************************************************************************)
(* InboundStore for every set of ids, ports, clients and pages and every    *)
(* bound.                                                                   *)
(***************************************************************************)
EXTENDS InboundStore, TLAPS

(* The page with the write lock is the one inside its transaction.         *)
WriterIsInside ==
  /\ \A p \in Pages : pc[p] \in InTransaction => writer = p
  /\ writer # NoPage => pc[writer] \in InTransaction

(* What the transaction of page p has written so far, over the database.   *)
RowsOf(p) ==
  IF op[p] = "delete"
  THEN IF pc[p] = "clients" THEN rows ELSE [rows EXCEPT ![form[p].id] = NoRow]
  ELSE [rows EXCEPT ![form[p].id] = form[p].row]

ClientsOf(p) ==
  IF op[p] = "delete" THEN [clientRows EXCEPT ![form[p].id] = {}]
  ELSE IF pc[p] = "clients" \/ Split(form[p]) = NoList THEN clientRows
  ELSE [clientRows EXCEPT ![form[p].id] = Split(form[p])]

StagedOverDatabase ==
  /\ writer = NoPage => stagedRows = rows /\ stagedClients = clientRows
  /\ writer # NoPage =>
       stagedRows = RowsOf(writer) /\ stagedClients = ClientsOf(writer)

(* A page that shows or sends an inbound with users has its client.        *)
FormHasClient ==
  \A p \in Pages : pc[p] # "idle" /\ form[p].row.users =>
    form[p].clients \in Entered /\ form[p].clients # NoList

(* A transaction only ever gives a row a port that no other row has.       *)
PortIsFree ==
  \A p \in Pages : writer = p /\ op[p] # "delete" =>
    ~PortTaken(rows, form[p].row.port, form[p].id)

OwnClients == clientRows = submitted

Store ==
  /\ OneInboundPerPort
  /\ NoOrphanClients
  /\ OwnClients
  /\ ClientsAreSubmitted

(* The inductive part, without the types.                                  *)
StoreInv ==
  /\ WriterIsInside
  /\ StagedOverDatabase
  /\ FormHasClient
  /\ PortIsFree
  /\ Store

IInv == TypeOK /\ StoreInv

-----------------------------------------------------------------------------
USE InboundStoreAssumption DEF dbVars, txVars, pageVars, xrayVars, boundVars,
  trafficHistory, rowHistory

LEMMA BlankTyped == Blank \in Form
BY ParametersGiven DEF Blank, Form, Row, Lists

LEMMA RowsExist == \A row \in Row : row # NoRow
BY DEF Row

LEMMA GiveBackTyped ==
  ASSUME TypeOK, NEW p \in Pages, GiveBack(p)
  PROVE  /\ pc' \in [Pages -> Labels]
         /\ op' \in [Pages -> {"add", "update", "reset", "delete"}]
         /\ form' \in [Pages -> Form]
         /\ stale' \in [Pages -> BOOLEAN]
BY BlankTyped DEF TypeOK, GiveBack, Done, Goto, Labels

LEMMA EnteredTyped == Entered \subseteq Lists
BY DEF Entered, Lists

LEMMA OutdateTyped ==
  ASSUME TypeOK, NEW ids, NEW except, Outdate(ids, except)
  PROVE  stale' \in [Pages -> BOOLEAN]
BY DEF TypeOK, Outdate

(* A page's form with another row and another list.                        *)
LEMMA FormUpdated ==
  ASSUME form \in [Pages -> Form], NEW p \in Pages, NEW row \in Row, NEW list \in Lists,
         form' = [form EXCEPT ![p] = [id |-> @.id, row |-> row, clients |-> list]]
  PROVE  form' \in [Pages -> Form]
<1>1. [id |-> form[p].id, row |-> row, clients |-> list] \in Form
  BY DEF Form
<1> QED BY <1>1

-----------------------------------------------------------------------------
LEMMA AskTypeOK ==
  ASSUME TypeOK, NEW p \in Pages, Ask(p)
  PROVE  TypeOK'
<1>1. ASSUME NEW id \in Ids, Open(p, id) PROVE TypeOK'
  <2>1. rows[id] \in Row
    BY <1>1 DEF Open, TypeOK, Rows, Exists
  <2>2. Attached(id) \in Lists
    BY DEF Attached, Lists, TypeOK, ClientRows
  <2>3. [id |-> id, row |-> rows[id], clients |-> Attached(id)] \in Form
    BY <2>1, <2>2 DEF Form
  <2>4. form' \in [Pages -> Form]
    BY <1>1, <2>3 DEF Open, TypeOK
  <2> QED BY <1>1, <2>4 DEF Open, TypeOK, Goto, Labels
<1>2. CASE Add(p)
  <2> PICK port \in Ports, list \in Entered, total \in Quotas, expiry \in Expiries :
        LET row == [port |-> port, users |-> list # NoList, used |-> 0, total |-> total,
                    expiry |-> expiry, enable |-> TRUE]
        IN form' = [form EXCEPT ![p] = [id |-> @.id, row |-> row, clients |-> list]]
    BY <1>2 DEF Add
  <2> DEFINE users == list # NoList
             row == [port |-> port, users |-> users, used |-> 0, total |-> total,
                     expiry |-> expiry, enable |-> TRUE]
  <2>1. users \in BOOLEAN
    OBVIOUS
  <2>2. form' = [form EXCEPT ![p] = [id |-> @.id, row |-> row, clients |-> list]]
    OBVIOUS
  <2> HIDE DEF users
  <2>3. row \in Row
    BY <2>1 DEF Row
  <2> HIDE DEF row
  <2>4. form' \in [Pages -> Form]
    BY <2>2, <2>3, EnteredTyped, FormUpdated DEF TypeOK
  <2> QED BY <1>2, <2>4 DEF Add, TypeOK, Goto, Labels
<1>3. CASE Edit(p)
  <2> PICK port \in Ports, list \in Entered, total \in Quotas :
        LET row == [form[p].row EXCEPT !.port = port, !.users = list # NoList, !.total = total]
        IN form' = [form EXCEPT ![p] = [id |-> @.id, row |-> row, clients |-> list]]
    BY <1>3 DEF Edit
  <2> DEFINE users == list # NoList
             row == [form[p].row EXCEPT !.port = port, !.users = users, !.total = total]
  <2>1. users \in BOOLEAN
    OBVIOUS
  <2>2. form' = [form EXCEPT ![p] = [id |-> @.id, row |-> row, clients |-> list]]
    OBVIOUS
  <2> HIDE DEF users
  <2>3. form[p].row \in Row
    BY DEF TypeOK, Form
  <2>4. row \in Row
    BY <2>1, <2>3 DEF Row
  <2> HIDE DEF row
  <2>5. form' \in [Pages -> Form]
    BY <2>2, <2>4, EnteredTyped, FormUpdated DEF TypeOK
  <2> QED BY <1>3, <2>5 DEF Edit, TypeOK, Goto, Labels
<1>4. CASE SwitchEnable(p)
  <2> DEFINE flag == ~form[p].row.enable
  <2>0. form[p].row \in Row /\ flag \in BOOLEAN
    BY DEF TypeOK, Form, Row
  <2>2. form' = [form EXCEPT ![p].row.enable = flag]
    BY <1>4 DEF SwitchEnable
  <2> HIDE DEF flag
  <2>3. [form[p].row EXCEPT !.enable = flag] \in Row
    BY <2>0 DEF Row
  <2>4. [form[p] EXCEPT !.row = [form[p].row EXCEPT !.enable = flag]] \in Form
    BY <2>3 DEF TypeOK, Form
  <2>1. form' \in [Pages -> Form]
    BY <2>2, <2>4 DEF TypeOK
  <2> QED BY <1>4, <2>1 DEF SwitchEnable, TypeOK, Goto, Labels
<1>5. CASE ResetTraffic(p)
  <2>1. form' \in [Pages -> Form]
    BY <1>5 DEF ResetTraffic, TypeOK, Form, Row
  <2> QED BY <1>5, <2>1 DEF ResetTraffic, TypeOK, Goto, Labels
<1>6. CASE Delete(p)
  BY <1>6 DEF Delete, TypeOK, Goto, Labels
<1> QED BY <1>1, <1>2, <1>3, <1>4, <1>5, <1>6 DEF Ask

LEMMA HandleTypeOK ==
  ASSUME TypeOK, NEW p \in Pages, Handle(p) \/ Rollback(p) \/ GiveUp(p)
  PROVE  TypeOK'
<1>0. /\ form[p] \in Form
      /\ form[p].id \in Ids
      /\ form[p].row \in Row
      /\ Split(form[p]) \in Lists
  BY DEF TypeOK, Form, Split, Lists
<1>1. CASE Check(p)
  BY <1>1, GiveBackTyped DEF Check, TypeOK, Goto, Labels
<1>2. CASE ReadOld(p)
  BY <1>2, GiveBackTyped DEF ReadOld, TypeOK, Goto, Labels
<1>3. CASE SaveRow(p)
  <2> PICK id \in Ids :
        IF PortTaken(rows, form[p].row.port, id)
        THEN GiveBack(p) /\ UNCHANGED txVars
        ELSE /\ writer' = p
             /\ stagedRows' = [stagedRows EXCEPT ![id] = form[p].row]
             /\ form' = [form EXCEPT ![p].id = id]
             /\ Goto(p, "clients")
             /\ UNCHANGED <<stagedClients, op, stale>>
    BY <1>0, <1>3 DEF SaveRow
  <2>1. CASE PortTaken(rows, form[p].row.port, id)
    BY <1>3, <2>1, GiveBackTyped DEF SaveRow, TypeOK
  <2>2. CASE ~PortTaken(rows, form[p].row.port, id)
    <3>1. stagedRows' \in Rows
      BY <1>0, <2>2 DEF TypeOK, Rows
    <3>2. form' \in [Pages -> Form]
      BY <1>0, <2>2 DEF TypeOK, Form
    <3> QED BY <1>3, <2>2, <3>1, <3>2 DEF SaveRow, TypeOK, Goto, Labels, InTransaction
  <2> QED BY <2>1, <2>2
<1>4. CASE SaveClients(p)
  <2>1. stagedClients' \in ClientRows
    BY <1>0, <1>4 DEF SaveClients, TypeOK, ClientRows, Lists
  <2> QED BY <1>4, <2>1 DEF SaveClients, TypeOK, Goto, Labels, InTransaction
<1>5. CASE DeleteClients(p)
  <2>1. stagedClients' \in ClientRows
    BY <1>0, <1>5 DEF DeleteClients, TypeOK, ClientRows
  <2> QED BY <1>5, <2>1 DEF DeleteClients, TypeOK, Goto, Labels, InTransaction
<1>6. CASE DeleteRow(p)
  <2>1. stagedRows' \in Rows
    BY <1>0, <1>6 DEF DeleteRow, TypeOK, Rows
  <2> QED BY <1>6, <2>1 DEF DeleteRow, TypeOK, Goto, Labels, InTransaction
<1>7. CASE Commit(p)
  <2>1. submitted' \in ClientRows
    BY <1>0, <1>7 DEF Commit, TypeOK, ClientRows, Lists
  <2>2. charged' \in [Ids -> Nat] /\ overwritten' \subseteq Ids
    <3>1. CASE op[p] = "update"
      BY <1>0, <1>7, <3>1 DEF Commit, Recount, TypeOK
    <3>2. CASE op[p] # "update"
      <4>1. /\ charged' = [charged EXCEPT ![form[p].id] = 0]
            /\ overwritten' = overwritten \ {form[p].id}
        BY <1>7, <3>2 DEF Commit, Recount
      <4>2. charged' \in [Ids -> Nat]
        BY <4>1 DEF TypeOK
      <4> QED BY <4>1, <4>2 DEF TypeOK
    <3> QED BY <3>1, <3>2
  <2>3. stale' \in [Pages -> BOOLEAN]
    BY <1>7, OutdateTyped DEF Commit
  <2>4. /\ pc' \in [Pages -> Labels]
        /\ op' \in [Pages -> {"add", "update", "reset", "delete"}]
        /\ form' \in [Pages -> Form]
    BY <1>7, BlankTyped DEF Commit, Done, Goto, Labels, TypeOK
  <2> QED BY <1>7, <2>1, <2>2, <2>3, <2>4 DEF Commit, TypeOK
<1>8. CASE Rollback(p)
  BY <1>8, GiveBackTyped DEF Rollback, TypeOK, Fail
<1>9. CASE GiveUp(p)
  BY <1>9, GiveBackTyped DEF GiveUp, TypeOK, Fail
<1> QED BY <1>1, <1>2, <1>3, <1>4, <1>5, <1>6, <1>7, <1>8, <1>9 DEF Handle

LEMMA JobTypeOK ==
  ASSUME TypeOK,
         \/ \E id \in Ids : Traffic(id)
         \/ XrayRestarts
         \/ QueryTraffic
         \/ LoseTraffic
         \/ AddTraffic
         \/ DisableInvalidInbounds
         \/ Tick
  PROVE  TypeOK'
<1>0. NoTraffic \in [Ports -> Nat]
  BY DEF NoTraffic
<1>1. ASSUME NEW id \in Ids, Traffic(id) PROVE TypeOK'
  <2>1. rows[id].port \in Ports
    BY <1>1 DEF Traffic, TypeOK, Rows, Exists, Row
  <2> QED BY <1>1, <2>1 DEF Traffic, TypeOK
<1>2. CASE XrayRestarts
  BY <1>0, <1>2 DEF XrayRestarts, TypeOK, Fail
<1>3. CASE QueryTraffic
  BY <1>0, <1>3 DEF QueryTraffic, TypeOK
<1>4. CASE LoseTraffic
  BY <1>0, <1>4 DEF LoseTraffic, TypeOK, Fail
<1>5. CASE AddTraffic
  <2> DEFINE hit == {id \in Ids : Exists(rows, id) /\ inFlight[rows[id].port] > 0}
  <2>1. \A id \in hit : /\ rows[id] \in Row
                       /\ inFlight[rows[id].port] \in Nat
                       /\ rows[id].used + inFlight[rows[id].port] \in Nat
                       /\ charged[id] + inFlight[rows[id].port] \in Nat
    BY DEF TypeOK, Rows, Row, Exists
  <2>2. /\ rows' = [id \in Ids |->
                     IF id \in hit THEN [rows[id] EXCEPT !.used = @ + inFlight[rows[id].port]]
                     ELSE rows[id]]
        /\ charged' = [id \in Ids |->
                        IF id \in hit THEN charged[id] + inFlight[rows[id].port] ELSE charged[id]]
        /\ Outdate(hit, NoPage)
    BY <1>5 DEF AddTraffic
  <2> HIDE DEF hit
  <2>3. \A id \in hit : [rows[id] EXCEPT !.used = @ + inFlight[rows[id].port]] \in Row
    BY <2>1 DEF Row
  <2>4. rows' \in Rows
    BY <2>2, <2>3 DEF TypeOK, Rows
  <2>5. charged' \in [Ids -> Nat]
    BY <2>1, <2>2 DEF TypeOK
  <2>6. stale' \in [Pages -> BOOLEAN]
    BY <2>2, OutdateTyped
  <2>7. booked' \in [Ports -> Nat]
    BY <1>5 DEF AddTraffic, TypeOK
  <2> QED BY <1>0, <1>5, <2>4, <2>5, <2>6, <2>7 DEF AddTraffic, TypeOK
<1>6. CASE DisableInvalidInbounds
  <2> DEFINE hit == {id \in Ids : Exists(rows, id) /\ rows[id].enable /\ Invalid(rows[id])}
  <2>1. \A id \in hit : rows[id] \in Row
    BY DEF TypeOK, Rows, Exists
  <2>2. /\ rows' = [id \in Ids |->
                     IF id \in hit THEN [rows[id] EXCEPT !.enable = FALSE] ELSE rows[id]]
        /\ Outdate(hit, NoPage)
    BY <1>6 DEF DisableInvalidInbounds
  <2> HIDE DEF hit
  <2>3. \A id \in hit : [rows[id] EXCEPT !.enable = FALSE] \in Row
    BY <2>1 DEF Row
  <2>4. rows' \in Rows
    BY <2>2, <2>3 DEF TypeOK, Rows
  <2>5. stale' \in [Pages -> BOOLEAN]
    BY <2>2, OutdateTyped
  <2> QED BY <1>6, <2>4, <2>5 DEF DisableInvalidInbounds, TypeOK
<1>7. CASE Tick
  BY <1>7 DEF Tick, TypeOK
<1> QED BY <1>1, <1>2, <1>3, <1>4, <1>5, <1>6, <1>7

LEMMA NextTypeOK == TypeOK /\ [Next]_vars => TypeOK'
<1> SUFFICES ASSUME TypeOK, [Next]_vars
             PROVE  TypeOK'
  OBVIOUS
<1>1. CASE Next
  BY <1>1, AskTypeOK, HandleTypeOK, JobTypeOK DEF Next
<1>2. CASE UNCHANGED vars
  BY <1>2 DEF vars, TypeOK
<1> QED BY <1>1, <1>2

-----------------------------------------------------------------------------
(* What a step may do to one page, everything about the database aside.    *)
OnlyPage(p) ==
  \A q \in Pages \ {p} : pc'[q] = pc[q] /\ op'[q] = op[q] /\ form'[q] = form[q]

ClientAt(p) ==
  pc[p] # "idle" /\ form[p].row.users =>
    form[p].clients \in Entered /\ form[p].clients # NoList

LEMMA FormKept ==
  ASSUME FormHasClient, NEW p \in Pages, OnlyPage(p), ClientAt(p)'
  PROVE  FormHasClient'
BY DEF FormHasClient, OnlyPage, ClientAt

LEMMA Unmoved ==
  ASSUME IInv, UNCHANGED <<dbVars, txVars, pageVars, submitted>>
  PROVE  StoreInv'
BY DEF IInv, StoreInv, WriterIsInside, StagedOverDatabase, RowsOf, ClientsOf, FormHasClient,
       PortIsFree, PortTaken, Split, Store, OneInboundPerPort, NoOrphanClients, OwnClients,
       ClientsAreSubmitted, Exists, Entered

(* A page that moves outside its transaction.                              *)
LEMMA OutsideStep ==
  ASSUME IInv, NEW p \in Pages, OnlyPage(p), ClientAt(p)',
         pc[p] \notin InTransaction, pc'[p] \notin InTransaction,
         UNCHANGED <<dbVars, txVars, submitted>>
  PROVE  StoreInv'
<1>1. writer # p
  BY DEF IInv, StoreInv, WriterIsInside, TypeOK
<1>2. writer # NoPage => writer \in Pages \ {p}
  BY <1>1 DEF IInv, StoreInv, TypeOK
<1>3. WriterIsInside'
  BY <1>1, <1>2 DEF IInv, StoreInv, WriterIsInside, OnlyPage
<1>4. StagedOverDatabase'
  BY <1>1, <1>2 DEF IInv, StoreInv, StagedOverDatabase, OnlyPage, RowsOf, ClientsOf, Split
<1>5. PortIsFree'
  BY <1>1, <1>2 DEF IInv, StoreInv, PortIsFree, OnlyPage, PortTaken, Exists
<1>6. Store'
  BY DEF IInv, StoreInv, Store, OneInboundPerPort, NoOrphanClients, OwnClients,
         ClientsAreSubmitted, Exists, Entered
<1> QED BY <1>3, <1>4, <1>5, <1>6, FormKept DEF IInv, StoreInv

LEMMA GiveBackStep ==
  ASSUME TypeOK, NEW p \in Pages, Done(p)
  PROVE  OnlyPage(p) /\ pc'[p] = "idle" /\ ClientAt(p)'
BY DEF TypeOK, Done, Goto, OnlyPage, ClientAt

LEMMA AskOutside ==
  ASSUME IInv, NEW p \in Pages, Ask(p)
  PROVE  /\ OnlyPage(p)
         /\ ClientAt(p)'
         /\ pc[p] \notin InTransaction
         /\ pc'[p] \notin InTransaction
         /\ UNCHANGED <<dbVars, txVars, submitted>>
<1> USE DEF OnlyPage, Goto, InTransaction
<1>0. TypeOK
  BY DEF IInv, StoreInv
<1>1. ASSUME NEW id \in Ids, Open(p, id)
      PROVE  /\ OnlyPage(p)
             /\ ClientAt(p)'
             /\ pc[p] \notin InTransaction
             /\ pc'[p] \notin InTransaction
             /\ UNCHANGED <<dbVars, txVars, submitted>>
  <2>1. /\ form'[p] = [id |-> id, row |-> rows[id], clients |-> Attached(id)]
        /\ Exists(rows, id)
    BY <1>0, <1>1 DEF Open, TypeOK
  <2>2. rows[id].users => (clientRows[id] \in Entered /\ clientRows[id] \in SUBSET Clients)
    BY <2>1 DEF IInv, StoreInv, Store, ClientsAreSubmitted, TypeOK, ClientRows
  <2>3. rows[id].users => (clientRows[id] # {} /\ clientRows[id] # NoList)
    BY <2>2 DEF Entered
  <2>4. ClientAt(p)'
    BY <2>1, <2>2, <2>3 DEF ClientAt, Attached, Entered
  <2> QED BY <1>0, <1>1, <2>4 DEF Open, TypeOK
<1>2. CASE Add(p)
  <2> PICK port \in Ports, list \in Entered, total \in Quotas, expiry \in Expiries :
        LET row == [port |-> port, users |-> list # NoList, used |-> 0, total |-> total,
                    expiry |-> expiry, enable |-> TRUE]
        IN form' = [form EXCEPT ![p] = [id |-> @.id, row |-> row, clients |-> list]]
    BY <1>2 DEF Add
  <2>1. form'[p].row.users <=> list # NoList
    BY <1>0 DEF TypeOK
  <2>2. form'[p].clients = list
    BY <1>0 DEF TypeOK
  <2>3. ClientAt(p)'
    BY <2>1, <2>2 DEF ClientAt, Entered
  <2> QED BY <1>0, <1>2, <2>3 DEF Add, TypeOK
<1>3. CASE Edit(p)
  <2> PICK port \in Ports, list \in Entered, total \in Quotas :
        LET row == [form[p].row EXCEPT !.port = port, !.users = list # NoList, !.total = total]
        IN form' = [form EXCEPT ![p] = [id |-> @.id, row |-> row, clients |-> list]]
    BY <1>3 DEF Edit
  <2>1. form'[p].row.users <=> list # NoList
    BY <1>0 DEF TypeOK, Form, Row
  <2>2. form'[p].clients = list
    BY <1>0 DEF TypeOK
  <2>3. ClientAt(p)'
    BY <2>1, <2>2 DEF ClientAt, Entered
  <2> QED BY <1>0, <1>3, <2>3 DEF Edit, TypeOK
<1>4. CASE SwitchEnable(p)
  <2>1. form'[p].row.users = form[p].row.users /\ form'[p].clients = form[p].clients
    BY <1>0, <1>4 DEF SwitchEnable, TypeOK, Form, Row
  <2>2. ClientAt(p)'
    BY <1>4, <2>1 DEF SwitchEnable, ClientAt, IInv, StoreInv, FormHasClient, Entered
  <2> QED BY <1>0, <1>4, <2>2 DEF SwitchEnable, TypeOK
<1>5. CASE ResetTraffic(p)
  <2>1. form'[p].row.users = form[p].row.users /\ form'[p].clients = form[p].clients
    BY <1>0, <1>5 DEF ResetTraffic, TypeOK, Form, Row
  <2>2. ClientAt(p)'
    BY <1>5, <2>1 DEF ResetTraffic, ClientAt, IInv, StoreInv, FormHasClient, Entered
  <2> QED BY <1>0, <1>5, <2>2 DEF ResetTraffic, TypeOK
<1>6. CASE Delete(p)
  <2>1. ClientAt(p)'
    BY <1>6 DEF Delete, ClientAt, IInv, StoreInv, FormHasClient, Entered
  <2> QED BY <1>0, <1>6, <2>1 DEF Delete, TypeOK
<1> QED BY <1>1, <1>2, <1>3, <1>4, <1>5, <1>6 DEF Ask

LEMMA AskInv ==
  ASSUME IInv, NEW p \in Pages, Ask(p)
  PROVE  StoreInv'
BY AskOutside, OutsideStep

(* The new row, or the lack of it, goes over the database's in RowsOf.     *)
LEMMA HandleInv ==
  ASSUME IInv, NEW p \in Pages, Handle(p) \/ Rollback(p) \/ GiveUp(p)
  PROVE  StoreInv'
<1>0. /\ TypeOK
      /\ form[p].id \in Ids
      /\ form[p].row \in Row
      /\ NoPage # p
      /\ ClientAt(p)
  BY DEF IInv, StoreInv, TypeOK, Form, FormHasClient, ClientAt
<1>1. CASE Check(p)
  <2>1. CASE GiveBack(p)
    BY <1>0, <1>1, <2>1, GiveBackStep, OutsideStep DEF Check, GiveBack, InTransaction
  <2>2. CASE Goto(p, IF op[p] = "add" THEN "save" ELSE "read") /\ UNCHANGED <<op, form, stale>>
    <3>1. OnlyPage(p) /\ ClientAt(p)'
      BY <1>0, <1>1, <2>2 DEF Check, OnlyPage, ClientAt, Goto, TypeOK, Entered
    <3>2. pc'[p] \in {"save", "read"}
      BY <1>0, <2>2 DEF Goto, TypeOK
    <3> QED BY <1>1, <3>1, <3>2, OutsideStep DEF Check, InTransaction
  <2> QED BY <1>1, <2>1, <2>2 DEF Check
<1>2. CASE ReadOld(p)
  <2>1. CASE GiveBack(p)
    BY <1>0, <1>2, <2>1, GiveBackStep, OutsideStep DEF ReadOld, GiveBack, InTransaction
  <2>2. CASE Goto(p, "save") /\ UNCHANGED <<op, form, stale>>
    <3>1. OnlyPage(p) /\ ClientAt(p)' /\ pc'[p] = "save"
      BY <1>0, <1>2, <2>2 DEF ReadOld, OnlyPage, ClientAt, Goto, TypeOK, Entered
    <3> QED BY <1>2, <3>1, OutsideStep DEF ReadOld, InTransaction
  <2> QED BY <1>2, <2>1, <2>2 DEF ReadOld
<1>3. CASE SaveRow(p)
  <2> PICK id \in Ids :
        IF PortTaken(rows, form[p].row.port, id)
        THEN GiveBack(p) /\ UNCHANGED txVars
        ELSE /\ writer' = p
             /\ stagedRows' = [stagedRows EXCEPT ![id] = form[p].row]
             /\ form' = [form EXCEPT ![p].id = id]
             /\ Goto(p, "clients")
             /\ UNCHANGED <<stagedClients, op, stale>>
    BY <1>0, <1>3 DEF SaveRow
  <2>1. CASE PortTaken(rows, form[p].row.port, id)
    BY <1>0, <1>3, <2>1, GiveBackStep, OutsideStep DEF SaveRow, GiveBack, InTransaction
  <2>2. CASE ~PortTaken(rows, form[p].row.port, id)
    <3>1. /\ form'[p].id = id
          /\ form'[p].row = form[p].row
          /\ form'[p].clients = form[p].clients
          /\ pc'[p] = "clients"
          /\ op'[p] # "delete"
          /\ writer' = p /\ writer = NoPage
          /\ stagedRows' = [rows EXCEPT ![id] = form[p].row]
          /\ stagedClients' = clientRows
          /\ UNCHANGED <<dbVars, submitted>>
      BY <1>0, <1>3, <2>2 DEF SaveRow, Goto, TypeOK, Form, IInv, StoreInv, StagedOverDatabase
    <3>2. OnlyPage(p) /\ ClientAt(p)'
      BY <1>0, <1>3, <2>2, <3>1 DEF SaveRow, OnlyPage, Goto, ClientAt, Entered, TypeOK
    <3>3. \A q \in Pages \ {p} : pc'[q] \notin InTransaction
      BY <3>1, <3>2 DEF OnlyPage, IInv, StoreInv, WriterIsInside
    <3>4. WriterIsInside'
      BY <1>0, <3>1, <3>3 DEF WriterIsInside, InTransaction
    <3>5. StagedOverDatabase'
      BY <1>0, <3>1 DEF StagedOverDatabase, RowsOf, ClientsOf
    <3>6. PortIsFree'
      BY <2>2, <3>1 DEF PortIsFree, PortTaken, Exists
    <3>7. OneInboundPerPort'
      BY <1>0, <2>2, <3>1 DEF IInv, StoreInv, Store, OneInboundPerPort, PortTaken, Exists,
         TypeOK, Rows
    <3>8. NoOrphanClients' /\ OwnClients' /\ ClientsAreSubmitted'
      BY <3>1 DEF IInv, StoreInv, Store, NoOrphanClients, OwnClients, ClientsAreSubmitted,
         Exists, Entered
    <3> QED BY <3>2, <3>4, <3>5, <3>6, <3>7, <3>8, FormKept DEF IInv, StoreInv, Store
  <2> QED BY <2>1, <2>2
<1>4. CASE SaveClients(p)
  <2>1. /\ writer = p /\ writer' = p
        /\ pc[p] = "clients" /\ pc'[p] = "commit"
        /\ op[p] # "delete"
        /\ UNCHANGED <<dbVars, stagedRows, op, form, submitted>>
    BY <1>0, <1>4 DEF SaveClients, Goto, TypeOK, IInv, StoreInv, WriterIsInside, InTransaction
  <2>2. OnlyPage(p) /\ ClientAt(p)'
    BY <1>0, <1>4, <2>1 DEF SaveClients, OnlyPage, Goto, ClientAt, TypeOK, Entered
  <2>3. WriterIsInside'
    BY <1>0, <2>1, <2>2 DEF IInv, StoreInv, WriterIsInside, InTransaction, OnlyPage
  <2>4. stagedRows = RowsOf(p) /\ stagedClients = clientRows
    BY <1>0, <2>1 DEF IInv, StoreInv, StagedOverDatabase, ClientsOf
  <2>5. stagedRows' = RowsOf(p)'
    BY <2>1, <2>4 DEF RowsOf
  <2>6. stagedClients' = ClientsOf(p)'
    BY <1>4, <2>1, <2>4 DEF SaveClients, ClientsOf, Split
  <2>7. StagedOverDatabase'
    BY <1>0, <2>1, <2>5, <2>6 DEF StagedOverDatabase
  <2>8. PortIsFree'
    BY <2>1 DEF IInv, StoreInv, PortIsFree, PortTaken, Exists
  <2>9. Store'
    BY <2>1 DEF IInv, StoreInv, Store, OneInboundPerPort, NoOrphanClients, OwnClients,
       ClientsAreSubmitted, Exists, Entered
  <2> QED BY <2>2, <2>3, <2>7, <2>8, <2>9, FormKept DEF IInv, StoreInv
<1>5. CASE DeleteClients(p)
  <2>1. /\ writer = NoPage /\ writer' = p
        /\ pc[p] = "save" /\ pc'[p] = "clients"
        /\ op[p] = "delete"
        /\ stagedRows' = rows
        /\ stagedClients' = [clientRows EXCEPT ![form[p].id] = {}]
        /\ UNCHANGED <<dbVars, op, form, submitted>>
    BY <1>0, <1>5 DEF DeleteClients, Goto, TypeOK, IInv, StoreInv, StagedOverDatabase
  <2>2. OnlyPage(p) /\ ClientAt(p)'
    BY <1>0, <1>5, <2>1 DEF DeleteClients, OnlyPage, Goto, ClientAt, TypeOK, Entered
  <2>3. \A q \in Pages \ {p} : pc'[q] \notin InTransaction
    BY <2>1, <2>2 DEF OnlyPage, IInv, StoreInv, WriterIsInside
  <2>4. WriterIsInside'
    BY <1>0, <2>1, <2>3 DEF WriterIsInside, InTransaction
  <2>5. StagedOverDatabase'
    BY <1>0, <2>1 DEF StagedOverDatabase, RowsOf, ClientsOf
  <2>6. PortIsFree'
    BY <2>1 DEF PortIsFree
  <2>7. Store'
    BY <2>1 DEF IInv, StoreInv, Store, OneInboundPerPort, NoOrphanClients, OwnClients,
       ClientsAreSubmitted, Exists, Entered
  <2> QED BY <2>2, <2>4, <2>5, <2>6, <2>7, FormKept DEF IInv, StoreInv
<1>6. CASE DeleteRow(p)
  <2>1. /\ writer = p /\ writer' = p
        /\ pc[p] = "clients" /\ pc'[p] = "commit"
        /\ op[p] = "delete"
        /\ UNCHANGED <<dbVars, stagedClients, op, form, submitted>>
    BY <1>0, <1>6 DEF DeleteRow, Goto, TypeOK, IInv, StoreInv, WriterIsInside, InTransaction
  <2>2. OnlyPage(p) /\ ClientAt(p)'
    BY <1>0, <1>6, <2>1 DEF DeleteRow, OnlyPage, Goto, ClientAt, TypeOK, Entered
  <2>3. WriterIsInside'
    BY <1>0, <2>1, <2>2 DEF IInv, StoreInv, WriterIsInside, InTransaction, OnlyPage
  <2>4. /\ stagedRows' = [rows EXCEPT ![form[p].id] = NoRow]
        /\ stagedClients' = [clientRows EXCEPT ![form[p].id] = {}]
    BY <1>0, <1>6, <2>1 DEF DeleteRow, IInv, StoreInv, StagedOverDatabase, RowsOf, ClientsOf
  <2>5. StagedOverDatabase'
    BY <1>0, <2>1, <2>4 DEF StagedOverDatabase, RowsOf, ClientsOf
  <2>6. PortIsFree'
    BY <2>1 DEF PortIsFree
  <2>7. OneInboundPerPort'
    BY <2>1, <2>4 DEF IInv, StoreInv, Store, OneInboundPerPort, Exists, TypeOK, Rows
  <2>8. NoOrphanClients' /\ OwnClients' /\ ClientsAreSubmitted'
    BY <2>1 DEF IInv, StoreInv, Store, NoOrphanClients, OwnClients, ClientsAreSubmitted,
       Exists, Entered
  <2> QED BY <2>2, <2>3, <2>5, <2>6, <2>7, <2>8, FormKept DEF IInv, StoreInv, Store
<1>7. CASE Commit(p)
  <2> DEFINE id == form[p].id
  <2>1. /\ writer = p /\ writer' = NoPage
        /\ pc[p] = "commit" /\ pc'[p] = "idle"
        /\ OnlyPage(p) /\ ClientAt(p)'
        /\ rows' = stagedRows /\ clientRows' = stagedClients
        /\ UNCHANGED <<stagedRows, stagedClients>>
    BY <1>0, <1>7, GiveBackStep DEF Commit, IInv, StoreInv, WriterIsInside, InTransaction
  <2>2. rows' = RowsOf(p) /\ clientRows' = ClientsOf(p)
    BY <1>0, <2>1 DEF IInv, StoreInv, StagedOverDatabase
  <2>3. \A q \in Pages : pc'[q] \notin InTransaction
    BY <2>1 DEF OnlyPage, IInv, StoreInv, WriterIsInside, InTransaction
  <2>4. WriterIsInside'
    BY <1>0, <2>1, <2>3 DEF WriterIsInside
  <2>5. StagedOverDatabase'
    BY <2>1 DEF StagedOverDatabase
  <2>6. PortIsFree'
    BY <2>1 DEF PortIsFree
  <2>7. OneInboundPerPort'
    BY <2>1 DEF IInv, StoreInv, Store, OneInboundPerPort, Exists
  <2>8. CASE op[p] = "delete"
    <3>1. /\ rows' = [rows EXCEPT ![id] = NoRow]
          /\ clientRows' = [clientRows EXCEPT ![id] = {}]
          /\ submitted' = [submitted EXCEPT ![id] = {}]
      BY <1>7, <2>1, <2>2, <2>8 DEF Commit, RowsOf, ClientsOf
    <3>2. NoOrphanClients' /\ OwnClients' /\ ClientsAreSubmitted'
      BY <1>0, <3>1 DEF IInv, StoreInv, Store, NoOrphanClients, OwnClients,
         ClientsAreSubmitted, Exists, Entered, TypeOK, Rows, ClientRows
    <3> QED BY <2>1, <2>4, <2>5, <2>6, <2>7, <3>2, FormKept DEF IInv, StoreInv, Store
  <2>9. CASE op[p] # "delete"
    <3>1. /\ rows' = [rows EXCEPT ![id] = form[p].row]
          /\ clientRows' = IF Split(form[p]) = NoList THEN clientRows
                           ELSE [clientRows EXCEPT ![id] = Split(form[p])]
      BY <2>1, <2>2, <2>9 DEF RowsOf, ClientsOf
    <3>2. submitted' = [submitted EXCEPT ![id] =
                          IF Split(form[p]) = NoList THEN @ ELSE Split(form[p])]
      BY <1>7, <2>9 DEF Commit
    <3>3. NoOrphanClients'
      BY <1>0, <3>1, RowsExist DEF IInv, StoreInv, Store, NoOrphanClients, Exists, TypeOK, Rows,
         ClientRows
    <3>4. OwnClients'
      BY <1>0, <3>1, <3>2 DEF IInv, StoreInv, Store, OwnClients, TypeOK, ClientRows
    <3>5. form[p].row.users => (Split(form[p]) \in Entered /\ Split(form[p]) # NoList)
      BY <1>0, <2>1 DEF ClientAt, Split
    <3>6. ASSUME NEW i \in Ids, Exists(rows', i), rows'[i].users
          PROVE  clientRows'[i] \in Entered
      <4>1. CASE i = id
        BY <1>0, <3>1, <3>5, <3>6, <4>1 DEF TypeOK, Rows, ClientRows
      <4>2. CASE i # id
        BY <1>0, <3>1, <3>6, <4>2 DEF IInv, StoreInv, Store, ClientsAreSubmitted, Exists,
           TypeOK, Rows, ClientRows
      <4> QED BY <4>1, <4>2
    <3>7. ClientsAreSubmitted'
      BY <3>4, <3>6 DEF ClientsAreSubmitted, OwnClients, Exists, Entered
    <3> QED BY <2>1, <2>4, <2>5, <2>6, <2>7, <3>3, <3>4, <3>7, FormKept DEF IInv, StoreInv, Store
  <2> QED BY <2>8, <2>9
<1>8. CASE Rollback(p)
  <2>1. /\ writer' = NoPage /\ stagedRows' = rows /\ stagedClients' = clientRows
        /\ OnlyPage(p) /\ ClientAt(p)' /\ pc'[p] = "idle"
        /\ writer = p
        /\ UNCHANGED <<dbVars, submitted>>
    BY <1>0, <1>8, GiveBackStep DEF Rollback, GiveBack, IInv, StoreInv, WriterIsInside
  <2>2. \A q \in Pages : pc'[q] \notin InTransaction
    BY <2>1 DEF OnlyPage, IInv, StoreInv, WriterIsInside, InTransaction
  <2>3. WriterIsInside' /\ StagedOverDatabase' /\ PortIsFree'
    BY <1>0, <2>1, <2>2 DEF WriterIsInside, StagedOverDatabase, PortIsFree
  <2>4. Store'
    BY <2>1 DEF IInv, StoreInv, Store, OneInboundPerPort, NoOrphanClients, OwnClients,
       ClientsAreSubmitted, Exists, Entered
  <2> QED BY <2>1, <2>3, <2>4, FormKept DEF IInv, StoreInv
<1>9. CASE GiveUp(p)
  BY <1>0, <1>9, GiveBackStep, OutsideStep DEF GiveUp, GiveBack, InTransaction
<1> QED BY <1>1, <1>2, <1>3, <1>4, <1>5, <1>6, <1>7, <1>8, <1>9 DEF Handle

(* The jobs change counters and flags of rows, while nobody writes.        *)
LEMMA JobUpdatesRows ==
  ASSUME IInv, writer = NoPage, UNCHANGED <<clientRows, writer, stagedClients, pageVars, submitted>>,
         stagedRows' = rows',
         rows' \in Rows,
         \A id \in Ids : rows'[id] # NoRow <=> rows[id] # NoRow,
         \A id \in Ids : rows[id] # NoRow => rows'[id].port = rows[id].port,
         \A id \in Ids : rows[id] # NoRow => rows'[id].users = rows[id].users
  PROVE  StoreInv'
<1>1. WriterIsInside' /\ FormHasClient'
  BY DEF IInv, StoreInv, WriterIsInside, FormHasClient, Entered
<1>2. PortIsFree'
  BY DEF TypeOK, IInv, PortIsFree
<1>3. StagedOverDatabase'
  BY DEF IInv, StoreInv, StagedOverDatabase
<1>4. OneInboundPerPort'
  <2>1. \A a, b \in Ids :
          rows[a] # NoRow /\ rows[b] # NoRow /\ rows[a].port = rows[b].port => a = b
    BY DEF IInv, StoreInv, Store, OneInboundPerPort, Exists
  <2>2. \A a, b \in Ids :
          rows'[a] # NoRow /\ rows'[b] # NoRow /\ rows'[a].port = rows'[b].port => a = b
    BY <2>1
  <2> QED BY <2>2 DEF OneInboundPerPort, Exists
<1>5. NoOrphanClients' /\ OwnClients' /\ ClientsAreSubmitted'
  <2>1. NoOrphanClients'
    BY DEF IInv, StoreInv, Store, NoOrphanClients, Exists
  <2>2. OwnClients'
    BY DEF IInv, StoreInv, Store, OwnClients
  <2>3. ClientsAreSubmitted'
    BY DEF IInv, StoreInv, Store, ClientsAreSubmitted, Exists, Entered
  <2> QED BY <2>1, <2>2, <2>3
<1> QED BY <1>1, <1>2, <1>3, <1>4, <1>5 DEF StoreInv, Store

LEMMA JobInv ==
  ASSUME IInv, TypeOK',
         \/ \E id \in Ids : Traffic(id)
         \/ XrayRestarts
         \/ QueryTraffic
         \/ LoseTraffic
         \/ AddTraffic
         \/ DisableInvalidInbounds
         \/ Tick
  PROVE  StoreInv'
<1>1. CASE \/ \E id \in Ids : Traffic(id)
           \/ XrayRestarts
           \/ QueryTraffic
           \/ LoseTraffic
           \/ Tick
  <2>1. UNCHANGED <<dbVars, txVars, pageVars, submitted>>
    BY <1>1 DEF Traffic, XrayRestarts, QueryTraffic, LoseTraffic, Tick
  <2> QED BY <2>1, Unmoved
<1>2. \A id \in Ids : Exists(rows, id) => rows[id] \in Row
  BY DEF IInv, TypeOK, Rows, Exists
<1>3. \A row \in Row : row # NoRow
  BY RowsExist
<1>4. rows' \in Rows
  BY DEF TypeOK
<1>5. CASE AddTraffic
  <2> DEFINE hit == {id \in Ids : Exists(rows, id) /\ inFlight[rows[id].port] > 0}
  <2>1. rows' = [id \in Ids |->
                  IF id \in hit THEN [rows[id] EXCEPT !.used = @ + inFlight[rows[id].port]]
                  ELSE rows[id]]
    BY <1>5 DEF AddTraffic
  <2>2. \A id \in hit : Exists(rows, id)
    OBVIOUS
  <2> HIDE DEF hit
  <2>3. ASSUME NEW id \in Ids
        PROVE  /\ rows'[id] # NoRow <=> rows[id] # NoRow
               /\ rows[id] # NoRow => rows'[id].port = rows[id].port
               /\ rows[id] # NoRow => rows'[id].users = rows[id].users
    <3>1. CASE id \in hit
      <4>1. rows'[id] = [rows[id] EXCEPT !.used = @ + inFlight[rows[id].port]]
        BY <2>1, <3>1
      <4>2. Exists(rows, id) /\ rows[id] \in Row
        BY <1>2, <2>2, <3>1
      <4>3. rows'[id].port = rows[id].port /\ rows'[id].users = rows[id].users
        BY <4>1, <4>2 DEF Row
      <4>4. rows[id].used + inFlight[rows[id].port] \in Nat
        BY <4>2 DEF IInv, TypeOK, Row
      <4>5. rows'[id] \in Row
        BY <4>1, <4>2, <4>4 DEF Row
      <4> QED BY <1>3, <4>2, <4>3, <4>5 DEF Exists
    <3>2. CASE id \notin hit
      BY <2>1, <3>2 DEF Exists
    <3> QED BY <3>1, <3>2
  <2> QED BY <1>4, <1>5, <2>3, JobUpdatesRows DEF AddTraffic
<1>6. CASE DisableInvalidInbounds
  <2> DEFINE hit == {id \in Ids : Exists(rows, id) /\ rows[id].enable /\ Invalid(rows[id])}
  <2>1. rows' = [id \in Ids |->
                  IF id \in hit THEN [rows[id] EXCEPT !.enable = FALSE] ELSE rows[id]]
    BY <1>6 DEF DisableInvalidInbounds
  <2>2. \A id \in hit : Exists(rows, id)
    OBVIOUS
  <2> HIDE DEF hit
  <2>3. ASSUME NEW id \in Ids
        PROVE  /\ rows'[id] # NoRow <=> rows[id] # NoRow
               /\ rows[id] # NoRow => rows'[id].port = rows[id].port
               /\ rows[id] # NoRow => rows'[id].users = rows[id].users
    <3>1. CASE id \in hit
      <4>1. rows'[id] = [rows[id] EXCEPT !.enable = FALSE]
        BY <2>1, <3>1
      <4>2. Exists(rows, id) /\ rows[id] \in Row
        BY <1>2, <2>2, <3>1
      <4>3. rows'[id].port = rows[id].port /\ rows'[id].users = rows[id].users
        BY <4>1, <4>2 DEF Row
      <4>4. rows'[id] \in Row
        BY <4>1, <4>2 DEF Row
      <4> QED BY <1>3, <4>2, <4>3, <4>4 DEF Exists
    <3>2. CASE id \notin hit
      BY <2>1, <3>2 DEF Exists
    <3> QED BY <3>1, <3>2
  <2> QED BY <1>4, <1>6, <2>3, JobUpdatesRows DEF DisableInvalidInbounds
<1> QED BY <1>1, <1>5, <1>6

-----------------------------------------------------------------------------
LEMMA InitIInv == Init => IInv
<1> SUFFICES ASSUME Init PROVE IInv
  OBVIOUS
<1>1. /\ rows \in [Ids -> NewRow \cup {NoRow}]
      /\ \A id \in Ids : Exists(rows, id) <=> id \in Existing
      /\ \A id \in Existing : ~PortTaken(rows, rows[id].port, id)
      /\ clientRows \in ClientRows
      /\ \A id \in Ids : IF Exists(rows, id) /\ rows[id].users
                        THEN {clientRows[id]} \subseteq Entered ELSE clientRows[id] = {}
  BY DEF Init
<1>2. NewRow \subseteq Row
  <2> SUFFICES ASSUME NEW row \in NewRow PROVE row \in Row
    OBVIOUS
  <2>1. {TRUE} \subseteq BOOLEAN /\ {0} \subseteq Nat
    OBVIOUS
  <2> QED BY <2>1, Zenon DEF NewRow, Row
<1>3. TypeOK
  <2>1. rows \in Rows
    BY <1>1, <1>2 DEF Rows
  <2>2. NoTraffic \in [Ports -> Nat]
    BY DEF NoTraffic
  <2> QED BY <1>1, <2>1, <2>2, BlankTyped DEF Init, TypeOK, Labels
<1>4. WriterIsInside /\ StagedOverDatabase /\ FormHasClient /\ PortIsFree
  BY DEF Init, WriterIsInside, StagedOverDatabase, FormHasClient, PortIsFree, InTransaction
<1>5. Store
  <2>1. OneInboundPerPort
    BY <1>1 DEF Init, OneInboundPerPort, PortTaken, Exists
  <2>2. NoOrphanClients
    BY <1>1 DEF NoOrphanClients
  <2>3. OwnClients /\ ClientsAreSubmitted
    BY <1>1 DEF Init, OwnClients, ClientsAreSubmitted
  <2> QED BY <2>1, <2>2, <2>3 DEF Store
<1> QED BY <1>3, <1>4, <1>5 DEF IInv, StoreInv

LEMMA NextIInv == IInv /\ [Next]_vars => IInv'
<1> SUFFICES ASSUME IInv, [Next]_vars
             PROVE  IInv'
  OBVIOUS
<1>1. TypeOK'
  BY NextTypeOK DEF IInv
<1>2. CASE Next
  BY <1>1, <1>2, AskInv, HandleInv, JobInv DEF Next, IInv
<1>3. CASE UNCHANGED vars
  BY <1>1, <1>3, Unmoved DEF vars, IInv
<1> QED BY <1>2, <1>3

LEMMA SpecIInv == Spec => []IInv
BY InitIInv, NextIInv, PTL DEF Spec

(* The tables and the pages' forms hold what their columns and fields can. *)
THEOREM InboundStoreTypeOK == Spec => []TypeOK
<1>1. IInv => TypeOK
  BY DEF IInv
<1> QED BY <1>1, SpecIInv, PTL

(* Two inbounds never share a port, in the database or in a transaction.   *)
THEOREM PortsAreUnique == Spec => []OneInboundPerPort
<1>1. IInv => OneInboundPerPort
  BY DEF IInv, StoreInv, Store
<1> QED BY <1>1, SpecIInv, PTL

(* No client row outlives its inbound or arrives before it.                *)
THEOREM ClientsHaveInbound == Spec => []NoOrphanClients
<1>1. IInv => NoOrphanClients
  BY DEF IInv, StoreInv, Store
<1> QED BY <1>1, SpecIInv, PTL

(* An inbound with users has exactly the client of its last save.          *)
THEOREM ClientsAreWhole == Spec => []ClientsAreSubmitted
<1>1. IInv => ClientsAreSubmitted
  BY DEF IInv, StoreInv, Store
<1> QED BY <1>1, SpecIInv, PTL

-----------------------------------------------------------------------------
LEMMA InitCounted == Init => CountedOnce
BY DEF Init, CountedOnce, NoTraffic

LEMMA NextCounted == TypeOK /\ CountedOnce /\ [Next]_vars => CountedOnce'
<1> SUFFICES ASSUME TypeOK, CountedOnce, [Next]_vars
             PROVE  CountedOnce'
  OBVIOUS
<1>0. ASSUME UNCHANGED <<booked, inFlight, counters, sent>>,
             failures' = failures \/ failures' = failures + 1
      PROVE  CountedOnce'
  BY <1>0 DEF CountedOnce, TypeOK
<1>1. ASSUME NEW p \in Pages, Ask(p) PROVE CountedOnce'
  BY <1>0, <1>1 DEF Ask, Open, Add, Edit, SwitchEnable, ResetTraffic, Delete
<1>2. ASSUME NEW p \in Pages, Handle(p) PROVE CountedOnce'
  BY <1>0, <1>2 DEF Handle, Check, ReadOld, SaveRow, SaveClients, DeleteClients, DeleteRow,
     Commit
<1>3. ASSUME NEW p \in Pages, Rollback(p) \/ GiveUp(p) PROVE CountedOnce'
  BY <1>0, <1>3 DEF Rollback, GiveUp, Fail
<1>4. ASSUME NEW id \in Ids, Traffic(id) PROVE CountedOnce'
  BY <1>4 DEF Traffic, CountedOnce, TypeOK
<1>5. CASE XrayRestarts
  BY <1>5 DEF XrayRestarts, Fail, NoTraffic, CountedOnce, TypeOK
<1>6. CASE QueryTraffic
  BY <1>6 DEF QueryTraffic, NoTraffic, CountedOnce, TypeOK
<1>7. CASE LoseTraffic
  BY <1>7 DEF LoseTraffic, Fail, NoTraffic, CountedOnce, TypeOK
<1>8. CASE AddTraffic
  BY <1>8 DEF AddTraffic, NoTraffic, CountedOnce, TypeOK
<1>9. CASE DisableInvalidInbounds \/ Tick
  BY <1>0, <1>9 DEF DisableInvalidInbounds, Tick
<1>10. CASE UNCHANGED vars
  BY <1>0, <1>10 DEF vars
<1> QED BY <1>1, <1>2, <1>3, <1>4, <1>5, <1>6, <1>7, <1>8, <1>9, <1>10 DEF Next

(* No unit of traffic is counted twice, and none is lost without a failure. *)
THEOREM TrafficCountedOnce == Spec => []CountedOnce
BY InboundStoreTypeOK, InitCounted, NextCounted, PTL DEF Spec

-----------------------------------------------------------------------------
(* A page that is not stale carries the counter its row has now.           *)
FreshAt(p) ==
  pc[p] # "idle" =>
    /\ op[p] \in {"add", "reset"} => form[p].row.used = 0
    /\ op[p] = "update" /\ ~stale[p] =>
         Exists(rows, form[p].id) /\ rows[form[p].id].used = form[p].row.used

FormIsFresh == \A p \in Pages : FreshAt(p)

Kept == FormIsFresh /\ TrafficIsKept

LEMMA InitKept == Init => Kept
BY DEF Init, Kept, FormIsFresh, FreshAt, TrafficIsKept, NewRow, Exists

(* Steps of a page that leave the database as it is.                       *)
LEMMA PageKept ==
  ASSUME Kept, NEW p \in Pages, OnlyPage(p), FreshAt(p)',
         \A q \in Pages \ {p} : stale'[q] = stale[q],
         UNCHANGED <<rows, charged, overwritten>>
  PROVE  Kept'
<1>1. TrafficIsKept'
  BY DEF Kept, TrafficIsKept, Exists
<1>2. ASSUME NEW q \in Pages PROVE FreshAt(q)'
  BY <1>2 DEF Kept, FormIsFresh, FreshAt, OnlyPage, Exists
<1> QED BY <1>1, <1>2 DEF Kept, FormIsFresh

LEMMA IdleKept ==
  ASSUME TypeOK, Kept, NEW p \in Pages, GiveBack(p), UNCHANGED <<rows, charged, overwritten>>
  PROVE  Kept'
<1>1. OnlyPage(p) /\ FreshAt(p)'
  BY GiveBackStep DEF GiveBack, FreshAt
<1>2. \A q \in Pages \ {p} : stale'[q] = stale[q]
  BY DEF GiveBack, TypeOK
<1> QED BY <1>1, <1>2, PageKept

LEMMA AskKept ==
  ASSUME IInv, Kept, NEW p \in Pages, Ask(p)
  PROVE  Kept'
<1>0. TypeOK /\ form[p] \in Form /\ form[p].row \in Row
  BY DEF IInv, TypeOK, Form
<1>1. OnlyPage(p) /\ UNCHANGED <<rows, charged, overwritten>>
  BY AskOutside DEF Ask, Open, Add, Edit, SwitchEnable, ResetTraffic, Delete
<1>2. \A q \in Pages \ {p} : stale'[q] = stale[q]
  BY <1>0 DEF Ask, Open, Add, Edit, SwitchEnable, ResetTraffic, Delete, TypeOK
<1>3. FreshAt(p)'
  <2>1. ASSUME NEW id \in Ids, Open(p, id) PROVE FreshAt(p)'
    <3>1. /\ form'[p].id = id /\ form'[p].row = rows[id] /\ op'[p] = "update"
          /\ Exists(rows, id) /\ rows' = rows
      BY <1>0, <2>1 DEF Open, TypeOK
    <3> QED BY <3>1 DEF FreshAt, Exists
  <2>2. CASE Add(p)
    <3> PICK port \in Ports, list \in Entered, total \in Quotas, expiry \in Expiries :
          LET row == [port |-> port, users |-> list # NoList, used |-> 0, total |-> total,
                      expiry |-> expiry, enable |-> TRUE]
          IN form' = [form EXCEPT ![p] = [id |-> @.id, row |-> row, clients |-> list]]
      BY <2>2 DEF Add
    <3>1. form'[p].row.used = 0 /\ op'[p] = "add"
      BY <1>0, <2>2 DEF Add, TypeOK
    <3> QED BY <3>1 DEF FreshAt
  <2>3. CASE Edit(p)
    <3> PICK port \in Ports, list \in Entered, total \in Quotas :
          LET row == [form[p].row EXCEPT !.port = port, !.users = list # NoList, !.total = total]
          IN form' = [form EXCEPT ![p] = [id |-> @.id, row |-> row, clients |-> list]]
      BY <2>3 DEF Edit
    <3>1. form'[p].row.used = form[p].row.used /\ form'[p].id = form[p].id
      BY <1>0 DEF TypeOK, Row
    <3> QED BY <2>3, <3>1 DEF Edit, FreshAt, Kept, FormIsFresh, Exists
  <2>4. CASE SwitchEnable(p)
    <3>1. form'[p].row.used = form[p].row.used /\ form'[p].id = form[p].id
      BY <1>0, <2>4 DEF SwitchEnable, TypeOK, Form, Row
    <3> QED BY <2>4, <3>1 DEF SwitchEnable, FreshAt, Kept, FormIsFresh, Exists
  <2>5. CASE ResetTraffic(p)
    <3>1. form'[p].row.used = 0 /\ op'[p] = "reset"
      BY <1>0, <2>5 DEF ResetTraffic, TypeOK, Form, Row
    <3> QED BY <3>1 DEF FreshAt
  <2>6. CASE Delete(p)
    <3>1. op'[p] = "delete"
      BY <1>0, <2>6 DEF Delete, TypeOK
    <3> QED BY <3>1 DEF FreshAt
  <2> QED BY <2>1, <2>2, <2>3, <2>4, <2>5, <2>6 DEF Ask
<1> QED BY <1>1, <1>2, <1>3, PageKept

(* A commit of page p: its row gets the counter of the form.               *)
LEMMA CommitKept ==
  ASSUME IInv, Kept, NEW p \in Pages, Commit(p)
  PROVE  Kept'
<1> DEFINE id == form[p].id
<1>0. TypeOK /\ id \in Ids /\ form[p].row \in Row
  BY DEF IInv, TypeOK, Form
<1>1. /\ writer = p /\ pc[p] = "commit" /\ pc'[p] = "idle" /\ OnlyPage(p)
      /\ rows' = RowsOf(p)
  BY <1>0, GiveBackStep DEF Commit, IInv, StoreInv, WriterIsInside, StagedOverDatabase,
     InTransaction
<1>2. \A other \in Ids \ {id} : rows'[other] = rows[other]
  BY <1>0, <1>1 DEF RowsOf, TypeOK, Rows
<1>3. \A q \in Pages \ {p} :
        stale'[q] <=> pc[q] # "idle" /\ (stale[q] \/ form[q].id = id)
  BY DEF Commit, Outdate
<1>4. FormIsFresh'
  <2>1. FreshAt(p)'
    BY <1>1 DEF FreshAt
  <2>2. ASSUME NEW q \in Pages \ {p} PROVE FreshAt(q)'
    <3>1. pc'[q] = pc[q] /\ op'[q] = op[q] /\ form'[q] = form[q]
      BY <1>1 DEF OnlyPage
    <3>2. form[q].id \in Ids
      BY <1>0 DEF TypeOK, Form
    <3>3. pc[q] # "idle" /\ ~stale'[q] => ~stale[q] /\ form[q].id # id
      BY <1>3
    <3>4. FreshAt(q)
      BY DEF Kept, FormIsFresh
    <3> QED BY <1>2, <3>1, <3>2, <3>3, <3>4 DEF FreshAt, Exists
  <2> QED BY <2>1, <2>2 DEF FormIsFresh
<1>5. TrafficIsKept'
  <2>1. ASSUME NEW i \in Ids \ {id}, Exists(rows', i), i \notin overwritten'
        PROVE  rows'[i].used = charged'[i]
    <3>1. i \notin overwritten /\ charged'[i] = charged[i]
      BY <1>0, <2>1 DEF Commit, Recount, TypeOK
    <3> QED BY <1>2, <2>1, <3>1 DEF Kept, TrafficIsKept, Exists
  <2>2. ASSUME Exists(rows', id), id \notin overwritten'
        PROVE  rows'[id].used = charged'[id]
    <3>1. op[p] # "delete"
      BY <1>0, <1>1, <2>2 DEF RowsOf, Exists, TypeOK, Rows
    <3>2. rows'[id] = form[p].row
      BY <1>0, <1>1, <3>1 DEF RowsOf, TypeOK, Rows
    <3>3. FreshAt(p)
      BY DEF Kept, FormIsFresh
    <3>4. CASE op[p] = "update"
      <4>1. ~stale[p] /\ id \notin overwritten /\ charged' = charged
        BY <2>2, <3>4 DEF Commit, Recount
      <4> QED BY <1>0, <1>1, <3>2, <3>3, <3>4, <4>1 DEF FreshAt, Kept, TrafficIsKept
    <3>5. CASE op[p] \in {"add", "reset"}
      <4>1. charged' = [charged EXCEPT ![id] = 0]
        BY <3>5 DEF Commit, Recount
      <4> QED BY <1>0, <1>1, <3>2, <3>3, <3>5, <4>1 DEF FreshAt, TypeOK
    <3> QED BY <1>0, <3>1, <3>4, <3>5 DEF TypeOK
  <2> QED BY <2>1, <2>2 DEF TrafficIsKept, Exists
<1> QED BY <1>4, <1>5 DEF Kept

LEMMA HandleKept ==
  ASSUME IInv, Kept, NEW p \in Pages, Handle(p) \/ Rollback(p) \/ GiveUp(p)
  PROVE  Kept'
<1>0. TypeOK /\ form[p] \in Form /\ form[p].row \in Row /\ FreshAt(p)
  BY DEF IInv, TypeOK, Form, Kept, FormIsFresh
<1>1. ASSUME UNCHANGED <<rows, charged, overwritten, stale, op>>, OnlyPage(p),
             pc[p] # "idle",
             form'[p].row = form[p].row,
             op[p] = "update" => form'[p].id = form[p].id
      PROVE  Kept'
  BY <1>0, <1>1, PageKept DEF FreshAt, Exists
<1>2. CASE Check(p)
  <2>1. CASE GiveBack(p)
    BY <1>0, <1>2, <2>1, IdleKept DEF Check
  <2>2. CASE Goto(p, IF op[p] = "add" THEN "save" ELSE "read") /\ UNCHANGED <<op, form, stale>>
    BY <1>0, <1>1, <1>2, <2>2 DEF Check, OnlyPage, Goto, TypeOK
  <2> QED BY <1>2, <2>1, <2>2 DEF Check
<1>3. CASE ReadOld(p)
  <2>1. CASE GiveBack(p)
    BY <1>0, <1>3, <2>1, IdleKept DEF ReadOld
  <2>2. CASE Goto(p, "save") /\ UNCHANGED <<op, form, stale>>
    BY <1>0, <1>1, <1>3, <2>2 DEF ReadOld, OnlyPage, Goto, TypeOK
  <2> QED BY <1>3, <2>1, <2>2 DEF ReadOld
<1>4. CASE SaveRow(p)
  <2> PICK id \in IF op[p] = "add" THEN {i \in Ids : ~Exists(rows, i)} ELSE {form[p].id} :
        IF PortTaken(rows, form[p].row.port, id)
        THEN GiveBack(p) /\ UNCHANGED txVars
        ELSE /\ writer' = p
             /\ stagedRows' = [stagedRows EXCEPT ![id] = form[p].row]
             /\ form' = [form EXCEPT ![p].id = id]
             /\ Goto(p, "clients")
             /\ UNCHANGED <<stagedClients, op, stale>>
    BY <1>4 DEF SaveRow
  <2>1. CASE PortTaken(rows, form[p].row.port, id)
    BY <1>0, <1>4, <2>1, IdleKept DEF SaveRow
  <2>2. CASE ~PortTaken(rows, form[p].row.port, id)
    <3>1. OnlyPage(p) /\ form'[p].id = id /\ form'[p].row = form[p].row
      BY <1>0, <2>2 DEF OnlyPage, Goto, TypeOK, Form
    <3>2. op[p] = "update" => id = form[p].id
      OBVIOUS
    <3> QED BY <1>1, <1>4, <2>2, <3>1, <3>2 DEF SaveRow
  <2> QED BY <2>1, <2>2
<1>5. CASE SaveClients(p)
  BY <1>0, <1>1, <1>5 DEF SaveClients, OnlyPage, Goto, TypeOK
<1>6. CASE DeleteClients(p)
  BY <1>0, <1>1, <1>6 DEF DeleteClients, OnlyPage, Goto, TypeOK
<1>7. CASE DeleteRow(p)
  BY <1>0, <1>1, <1>7 DEF DeleteRow, OnlyPage, Goto, TypeOK
<1>8. CASE Commit(p)
  BY <1>8, CommitKept
<1>9. CASE Rollback(p)
  BY <1>0, <1>9, IdleKept DEF Rollback
<1>10. CASE GiveUp(p)
  BY <1>0, <1>10, IdleKept DEF GiveUp
<1> QED BY <1>2, <1>3, <1>4, <1>5, <1>6, <1>7, <1>8, <1>9, <1>10 DEF Handle

(* A job that updates the rows of a set outdates every page that shows one. *)
LEMMA JobKept ==
  ASSUME IInv, Kept, NEW hit \in SUBSET Ids, Outdate(hit, NoPage),
         UNCHANGED <<pageVars, overwritten>>,
         \A id \in Ids \ hit : rows'[id] = rows[id] /\ charged'[id] = charged[id],
         \A id \in hit : rows[id] # NoRow,
         \A id \in hit : rows[id].used = charged[id] => rows'[id].used = charged'[id]
  PROVE  Kept'
<1>0. TypeOK
  BY DEF IInv
<1>1. TrafficIsKept'
  <2> SUFFICES ASSUME NEW id \in Ids, rows'[id] # NoRow, id \notin overwritten
               PROVE  rows'[id].used = charged'[id]
    BY DEF TrafficIsKept, Exists
  <2>1. CASE id \in hit
    BY <2>1 DEF Kept, TrafficIsKept, Exists
  <2>2. CASE id \notin hit
    BY <2>2 DEF Kept, TrafficIsKept, Exists
  <2> QED BY <2>1, <2>2
<1>2. ASSUME NEW p \in Pages PROVE FreshAt(p)'
  <2>1. form[p].id \in Ids /\ p # NoPage
    BY <1>0 DEF TypeOK, Form
  <2>2. pc[p] # "idle" /\ ~stale'[p] => ~stale[p] /\ form[p].id \notin hit
    BY <2>1 DEF Outdate
  <2>3. FreshAt(p)
    BY DEF Kept, FormIsFresh
  <2> QED BY <2>1, <2>2, <2>3 DEF FreshAt, Exists
<1> QED BY <1>1, <1>2 DEF Kept, FormIsFresh

LEMMA NextKept == IInv /\ Kept /\ [Next]_vars => Kept'
<1> SUFFICES ASSUME IInv, Kept, [Next]_vars
             PROVE  Kept'
  OBVIOUS
<1>0. TypeOK
  BY DEF IInv
<1>1. ASSUME NEW p \in Pages, Ask(p) PROVE Kept'
  BY <1>1, AskKept
<1>2. ASSUME NEW p \in Pages, Handle(p) \/ Rollback(p) \/ GiveUp(p) PROVE Kept'
  BY <1>2, HandleKept
<1>3. ASSUME UNCHANGED <<rows, pageVars, charged, overwritten, stale>> PROVE Kept'
  BY <1>3 DEF Kept, FormIsFresh, FreshAt, TrafficIsKept, Exists
<1>4. CASE \/ \E id \in Ids : Traffic(id)
           \/ XrayRestarts
           \/ QueryTraffic
           \/ LoseTraffic
           \/ Tick
  BY <1>3, <1>4 DEF Traffic, XrayRestarts, QueryTraffic, LoseTraffic, Tick
<1>5. CASE AddTraffic
  <2> DEFINE hit == {id \in Ids : Exists(rows, id) /\ inFlight[rows[id].port] > 0}
  <2>1. /\ rows' = [id \in Ids |->
                     IF id \in hit THEN [rows[id] EXCEPT !.used = @ + inFlight[rows[id].port]]
                     ELSE rows[id]]
        /\ charged' = [id \in Ids |->
                        IF id \in hit THEN charged[id] + inFlight[rows[id].port] ELSE charged[id]]
        /\ Outdate(hit, NoPage)
        /\ UNCHANGED <<pageVars, overwritten>>
    BY <1>5 DEF AddTraffic
  <2>2. hit \in SUBSET Ids /\ \A id \in hit : rows[id] # NoRow
    BY DEF Exists
  <2> HIDE DEF hit
  <2>3. ASSUME NEW id \in hit, rows[id].used = charged[id]
        PROVE  rows'[id].used = charged'[id]
    <3>1. rows[id] \in Row
      BY <1>0, <2>2 DEF TypeOK, Rows
    <3>2. /\ rows'[id] = [rows[id] EXCEPT !.used = @ + inFlight[rows[id].port]]
          /\ charged'[id] = charged[id] + inFlight[rows[id].port]
      BY <2>1, <2>2
    <3> QED BY <2>3, <3>1, <3>2 DEF Row
  <2>4. \A id \in Ids \ hit : rows'[id] = rows[id] /\ charged'[id] = charged[id]
    BY <2>1
  <2> QED BY <2>1, <2>2, <2>3, <2>4, JobKept
<1>6. CASE DisableInvalidInbounds
  <2> DEFINE hit == {id \in Ids : Exists(rows, id) /\ rows[id].enable /\ Invalid(rows[id])}
  <2>1. /\ rows' = [id \in Ids |->
                     IF id \in hit THEN [rows[id] EXCEPT !.enable = FALSE] ELSE rows[id]]
        /\ Outdate(hit, NoPage)
        /\ UNCHANGED <<pageVars, charged, overwritten>>
    BY <1>6 DEF DisableInvalidInbounds
  <2>2. hit \in SUBSET Ids /\ \A id \in hit : rows[id] # NoRow
    BY DEF Exists
  <2> HIDE DEF hit
  <2>3. ASSUME NEW id \in hit, rows[id].used = charged[id]
        PROVE  rows'[id].used = charged'[id]
    <3>1. rows[id] \in Row
      BY <1>0, <2>2 DEF TypeOK, Rows
    <3>2. rows'[id] = [rows[id] EXCEPT !.enable = FALSE]
      BY <2>1, <2>2
    <3> QED BY <2>1, <2>3, <3>1, <3>2 DEF Row
  <2>4. \A id \in Ids \ hit : rows'[id] = rows[id] /\ charged'[id] = charged[id]
    BY <2>1
  <2> QED BY <2>1, <2>2, <2>3, <2>4, JobKept
<1>7. CASE UNCHANGED vars
  BY <1>3, <1>7 DEF vars
<1> QED BY <1>1, <1>2, <1>4, <1>5, <1>6, <1>7 DEF Next

(* The counter of a row is what AddTraffic put into it since it was reset, *)
(* however jobs and pages overlap, until a stale page saves it.            *)
THEOREM OnlyStalePagesLoseTraffic == Spec => []TrafficIsKept
<1>1. Kept => TrafficIsKept
  BY DEF Kept
<1> QED BY <1>1, SpecIInv, InitKept, NextKept, PTL DEF Spec
-----------------------------------------------------------------------------
(* The refinement of StorePromise: only commits and jobs are seen.         *)

LEMMA CommitIsWhole ==
  ASSUME IInv, TypeOK', NEW p \in Pages, Commit(p)
  PROVE  Promise!Next
<1>0. PICK id \in Ids : id = form[p].id
  BY DEF IInv, TypeOK, Form
<1>1. /\ writer = p /\ pc[p] = "commit" /\ id = form[p].id
      /\ rows' = RowsOf(p) /\ clientRows' = ClientsOf(p)
      /\ rows \in Rows /\ clientRows \in ClientRows /\ form[p] \in Form
  BY <1>0 DEF IInv, StoreInv, WriterIsInside, StagedOverDatabase, TypeOK, Commit,
     InTransaction, Form
<1>2. Promise!Typed'
  BY DEF TypeOK, Rows, ClientRows, Promise!Typed
<1>3. CASE op[p] = "delete"
  <2>1. /\ rows' = [rows EXCEPT ![id] = NoRow]
        /\ clientRows' = [clientRows EXCEPT ![id] = {}]
    BY <1>1, <1>3 DEF RowsOf, ClientsOf
  <2>2. Promise!Delete(id)
    BY <1>1, <1>2, <2>1 DEF Rows, ClientRows, Promise!Delete, Promise!OnlyAt
  <2> QED BY <1>1, <2>2 DEF Promise!Next
<1>4. CASE op[p] # "delete"
  <2>1. /\ rows' = [rows EXCEPT ![id] = form[p].row] /\ form[p].row \in Row
        /\ clientRows' = IF Split(form[p]) = NoList THEN clientRows
                         ELSE [clientRows EXCEPT ![id] = Split(form[p])]
    BY <1>1, <1>4 DEF RowsOf, ClientsOf, Form
  <2>2. ~PortTaken(rows, form[p].row.port, id)
    BY <1>1, <1>4 DEF IInv, StoreInv, PortIsFree
  <2>3. Promise!PortIsFree(id)'
    BY <1>1, <2>1, <2>2 DEF PortTaken, Exists, Rows, Promise!PortIsFree
  <2>4. /\ \A other \in Ids \ {id} : /\ rows'[other] = rows[other]
                                      /\ clientRows'[other] = clientRows[other]
        /\ rows'[id] = form[p].row
    BY <1>1, <2>1 DEF Rows, ClientRows
  <2>5. CASE form[p].row.users
    <3>1. /\ form[p].clients \in Entered /\ form[p].clients # NoList
          /\ Split(form[p]) = form[p].clients
      BY <1>1, <2>5 DEF IInv, StoreInv, FormHasClient, Split
    <3>2. clientRows'[id] = form[p].clients
      BY <1>1, <2>1, <3>1 DEF ClientRows
    <3>3. form[p].clients # {}
      BY <3>1 DEF Entered
    <3>4. Promise!Save(id)
      BY <1>2, <2>1, <2>3, <2>4, <2>5, <3>2, <3>3 DEF Promise!Save, Promise!OnlyAt
    <3> QED BY <1>1, <3>4 DEF Promise!Next
  <2>6. CASE ~form[p].row.users
    <3>1. clientRows' = clientRows
      BY <2>1, <2>6 DEF Split
    <3>2. Promise!Save(id)
      BY <1>2, <2>1, <2>3, <2>4, <2>6, <3>1 DEF Promise!Save, Promise!OnlyAt
    <3> QED BY <1>1, <3>2 DEF Promise!Next
  <2> QED BY <2>5, <2>6
<1> QED BY <1>3, <1>4

LEMMA JobIsPromised ==
  ASSUME TypeOK, TypeOK', AddTraffic \/ DisableInvalidInbounds
  PROVE  Promise!Next
<1>1. Promise!Typed' /\ rows \in Rows
  BY DEF TypeOK, Rows, ClientRows, Promise!Typed
<1>2. CASE AddTraffic
  <2>1. clientRows' = clientRows
    BY <1>2 DEF AddTraffic
  <2>2. ASSUME NEW i \in Ids
        PROVE  \/ rows'[i] = rows[i]
               \/ /\ rows[i] # NoRow /\ rows'[i] # NoRow
                  /\ rows'[i].used > rows[i].used
                  /\ rows'[i] = [rows[i] EXCEPT !.used = rows'[i].used]
    <3>1. CASE Exists(rows, i) /\ inFlight[rows[i].port] > 0
      <4>1. rows[i] \in Row
        BY <1>1, <3>1 DEF Exists, Rows
      <4>2. inFlight[rows[i].port] \in Nat
        BY <4>1 DEF TypeOK, Row
      <4>3. rows'[i] = [rows[i] EXCEPT !.used = @ + inFlight[rows[i].port]]
        BY <1>2, <3>1 DEF AddTraffic
      <4>4. rows'[i] \in Row /\ rows'[i].used = rows[i].used + inFlight[rows[i].port]
        BY <4>1, <4>2, <4>3 DEF Row
      <4>5. rows'[i].used > rows[i].used
        BY <3>1, <4>1, <4>2, <4>4 DEF Row
      <4>6. rows'[i] # NoRow /\ rows[i] # NoRow
        BY <4>1, <4>4, RowsExist
      <4> QED BY <4>3, <4>4, <4>5, <4>6
    <3>2. CASE ~(Exists(rows, i) /\ inFlight[rows[i].port] > 0)
      BY <1>2, <3>2 DEF AddTraffic
    <3> QED BY <3>1, <3>2
  <2>3. Promise!Charge
    BY <1>1, <2>1, <2>2 DEF Promise!Charge
  <2> QED BY <2>3 DEF Promise!Next
<1>3. CASE DisableInvalidInbounds
  <2>1. Promise!Disable
    BY <1>1, <1>3 DEF DisableInvalidInbounds, Exists, Promise!Disable
  <2> QED BY <2>1 DEF Promise!Next
<1> QED BY <1>2, <1>3

LEMMA StepIsPromised ==
  IInv /\ [Next]_vars => [Promise!Next]_<<rows, clientRows>>
<1> SUFFICES ASSUME IInv, [Next]_vars
             PROVE  [Promise!Next]_<<rows, clientRows>>
  OBVIOUS
<1>1. TypeOK /\ TypeOK'
  BY NextTypeOK DEF IInv
<1>2. ASSUME NEW p \in Pages, Ask(p) \/ Rollback(p) \/ GiveUp(p)
      PROVE  UNCHANGED <<rows, clientRows>>
  BY <1>2 DEF Ask, Open, Add, Edit, SwitchEnable, ResetTraffic, Delete, Rollback, GiveUp
<1>3. ASSUME NEW p \in Pages, Handle(p), ~Commit(p)
      PROVE  UNCHANGED <<rows, clientRows>>
  BY <1>3 DEF Handle, Check, ReadOld, SaveRow, SaveClients, DeleteClients, DeleteRow
<1>4. CASE \/ \E id \in Ids : Traffic(id)
           \/ XrayRestarts \/ QueryTraffic \/ LoseTraffic \/ Tick \/ UNCHANGED vars
  BY <1>4 DEF Traffic, XrayRestarts, QueryTraffic, LoseTraffic, Tick, vars
<1> QED BY <1>1, <1>2, <1>3, <1>4, CommitIsWhole, JobIsPromised DEF Next

(* The database only ever changes by whole saves, deletions and updates of *)
(* the jobs, one after the other: no statement of a handler is seen alone, *)
(* whatever fails, and none undoes what another request did elsewhere.     *)
THEOREM StoreImplementsPromise == Spec => ImplementsStore
<1>1. Init => Promise!Init
  <2> SUFFICES ASSUME Init
               PROVE  Promise!Init
    OBVIOUS
  <2>1. IInv
    BY InitIInv
  <2>2. Promise!Typed
    BY <2>1 DEF IInv, TypeOK, Rows, ClientRows, Promise!Typed
  <2>3. \A id \in Ids : rows[id] # NoRow => Promise!PortIsFree(id)
    BY <2>1 DEF IInv, StoreInv, Store, OneInboundPerPort, Exists, Promise!PortIsFree
  <2> QED BY <2>2, <2>3 DEF Promise!Init
<1> QED BY <1>1, StepIsPromised, SpecIInv, PTL DEF Spec, ImplementsStore, Promise!Spec
=============================================================================

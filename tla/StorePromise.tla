------------------------------ MODULE StorePromise ------------------------------
(***************************************************************************)
(* What the inbound store promises of its two tables, without pages,       *)
(* requests, transactions or locks: an inbound and its clients are saved   *)
(* or deleted together and touch no other inbound, no port is given twice, *)
(* and the jobs only add traffic or disable.  InboundStore implements it.  *)
(***************************************************************************)
EXTENDS Naturals

CONSTANTS Ids, Clients, Row, NoRow

VARIABLES
  rows,       \* the row of each inbound, or NoRow
  clientRows  \* the clients of each inbound

Typed ==
  /\ rows \in [Ids -> Row \cup {NoRow}]
  /\ clientRows \in [Ids -> SUBSET Clients]

PortIsFree(id) ==
  \A other \in Ids \ {id} : rows[other] # NoRow => rows[other].port # rows[id].port

Init == Typed /\ \A id \in Ids : rows[id] # NoRow => PortIsFree(id)

OnlyAt(id) ==
  /\ Typed'
  /\ \A other \in Ids \ {id} : /\ rows'[other] = rows[other]
                               /\ clientRows'[other] = clientRows[other]

(* Added or overwritten, an id that was deleted meanwhile included.  With  *)
(* users it comes with a client; without, the client rows stay.            *)
Save(id) ==
  /\ rows'[id] \in Row /\ PortIsFree(id)'
  /\ IF rows'[id].users THEN clientRows'[id] # {}
     ELSE clientRows'[id] = clientRows[id]
  /\ OnlyAt(id)

Delete(id) ==
  /\ rows'[id] = NoRow /\ clientRows'[id] = {}
  /\ OnlyAt(id)

Charge ==
  /\ Typed' /\ UNCHANGED clientRows
  /\ \A id \in Ids :
       \/ rows'[id] = rows[id]
       \/ /\ rows[id] # NoRow /\ rows'[id] # NoRow
          /\ rows'[id].used > rows[id].used
          /\ rows'[id] = [rows[id] EXCEPT !.used = rows'[id].used]

Disable ==
  /\ Typed' /\ UNCHANGED clientRows
  /\ \A id \in Ids :
       \/ rows'[id] = rows[id]
       \/ /\ rows[id] # NoRow
          /\ rows'[id] = [rows[id] EXCEPT !.enable = FALSE]

Next == Charge \/ Disable \/ \E id \in Ids : Save(id) \/ Delete(id)

Spec == Init /\ [][Next]_<<rows, clientRows>>
=============================================================================

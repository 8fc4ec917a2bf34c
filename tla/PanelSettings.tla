--------------------------- MODULE PanelSettings ---------------------------
(***************************************************************************)
(* The settings table and those who write it: the settings page of the     *)
(* panel, "x-ui setting" and the certificate command of x-ui.sh.           *)
(*                                                                         *)
(* Sources: src/web/service/setting.go, src/web/controller/setting.go,     *)
(* src/web/html/xui/setting.html, src/web/assets/js/model/models.js,       *)
(* src/main.go, src/x-ui.sh.                                               *)
(*                                                                         *)
(* settings has no key on its column key.  saveSetting looks a key up and  *)
(* then creates a row or saves the one it has read, in two statements      *)
(* outside any transaction; the page saves every key of the form, one      *)
(* after the other, and goes on after a key that failed.                   *)
(* What AllSetting.CheckValid refuses never reaches the table and is left  *)
(* out.                                                                    *)
(***************************************************************************)
EXTENDS Integers, FiniteSets

CONSTANTS
  Pages,        \* settings pages that have been opened
  Requests,     \* bound: handlers and jobs of the panel that save at once
  Command,      \* a command run on the server
  Keys,         \* the keys of AllSetting
  Hidden,       \* keys the page does not show: runtimeDirty, secret, ...
  Default,      \* defaultValueMap
  Values,       \* what a key can be set to
  Marks,        \* those of them the panel saves for its hidden keys
  None,         \* no row was found, no page waits
  MaxEvents     \* bound: pages loaded, saves begun, statements that fail

AllKeys == Keys \cup Hidden
Writers == Requests \cup {Command}

ASSUME SettingsAssumption ==
  /\ Pages \cap Writers = {} /\ Command \notin Requests
  /\ Keys \cap Hidden = {} /\ IsFiniteSet(AllKeys)
  /\ Default \in [AllKeys -> Values] /\ None \notin Nat \cup Pages \cup Writers
  /\ Marks \subseteq Values /\ MaxEvents \in Nat

VARIABLES
  rows,       \* the table: [id, key, value]
  page,       \* the settings a page has loaded
  from,       \* the page that waits for a request, or None
  stage,      \* where a writer is: "idle", "read", "write" or "insert"
  todo,       \* keys it has still to save
  want,       \* the values it saves
  seen,       \* the row saveSetting has read, or None
  errs,       \* a statement of the request failed
  events,     \* pages loaded, saves begun and statements that have failed
  \* History.
  begun,      \* the keys a writer set out to save
  edited,     \* those of them it was asked to change
  touched,    \* keys changed since a page was loaded; for a writer, since its
              \* form was, and by others since it has saved them
  crossed     \* keys that were saved by two writers at once

work  == <<from, stage, todo, want, seen, errs, begun, edited>>
vars  == <<rows, page, work, events, touched, crossed>>

RowsOf(k) == {r \in rows : r.key = k}

Oldest(S) == CHOOSE r \in S : \A x \in S : r.id <= x.id
Newest(S) == CHOOSE r \in S : \A x \in S : x.id <= r.id

\* SQLite: the highest id and one, so the ids of deleted rows come back.
NewId == IF rows = {} THEN 1 ELSE Newest(rows).id + 1

\* getSetting: First orders by the primary key.
Effective(k) == IF RowsOf(k) = {} THEN Default[k] ELSE Oldest(RowsOf(k)).value

\* mutant: keyMap is not filled in, so the defaults come last
BugLoaded == [k \in Keys |-> Default[k]]

\* GetAllSetting goes over all rows, and a later row replaces an earlier one.
Loaded == [k \in Keys |->
             IF RowsOf(k) = {} THEN Default[k] ELSE Newest(RowsOf(k)).value]

Init ==
  /\ \E K \in SUBSET AllKeys :      \* a key is in the table once it is saved
       \E id \in [K -> 1..Cardinality(K)], v \in [K -> Values] :
         /\ \A k, l \in K : k # l => id[k] # id[l]
         /\ \A k \in K \cap Hidden : v[k] \in Marks
         /\ rows = {[id |-> id[k], key |-> k, value |-> v[k]] : k \in K}
  /\ page = [p \in Pages |-> Loaded]
  /\ from = [w \in Writers |-> None]
  /\ stage = [w \in Writers |-> "idle"]
  /\ todo = [w \in Writers |-> {}]
  /\ want = [w \in Writers |-> Default]
  /\ seen = [w \in Writers |-> None]
  /\ errs = [w \in Writers |-> FALSE]
  /\ events = 0
  /\ begun = [w \in Writers |-> {}]
  /\ edited = [w \in Writers |-> {}]
  /\ touched = [x \in Pages \cup Writers |-> {}]
  /\ crossed = {}

Idle(w) == stage[w] = "idle"

-----------------------------------------------------------------------------
\* The fields come in the order of the struct, here any fixed one.
NextKey(w) == CHOOSE k \in todo[w] : TRUE

\* Writers that are between looking a key up and writing it.
Saving(w, k) == stage[w] \in {"write", "insert"} /\ NextKey(w) = k

(* History of a statement of w that changes the rows of the keys K: pages and
   writers know old values of them now, but for the key that w has saved. *)

Concerns(x) == IF x \in Pages THEN Keys ELSE begun[x]

Tell(w, K) ==
  touched' = [x \in Pages \cup Writers |->
                {k \in touched[x] \cup (K \cap Concerns(x)) :
                   ~(x = w /\ Saving(w, k))}]

Met(w, K) == {k \in K : \E x \in Writers \ {w} : Saving(x, k)}

Event == events < MaxEvents /\ events' = events + 1

\* w sets out to save the keys K with the values f.
Begin(w, at, K, f) ==
  /\ Idle(w) /\ Event
  /\ stage' = [stage EXCEPT ![w] = at]
  /\ todo' = [todo EXCEPT ![w] = K]
  /\ begun' = [begun EXCEPT ![w] = K]
  /\ want' = [want EXCEPT ![w] = f]

-----------------------------------------------------------------------------
(* The page. *)

\* getAllSetting: the answer replaces the form and what it is compared with.
LoadPage(p) == page' = [page EXCEPT ![p] = Loaded]

\* A page that is loaded anew no longer waits for its requests.
Open(p) ==
  /\ Event /\ LoadPage(p) /\ touched' = [touched EXCEPT ![p] = {}]
  /\ from' = [w \in Writers |-> IF from[w] = p THEN None ELSE from[w]]
  /\ UNCHANGED <<rows, stage, todo, want, seen, errs, begun, edited, crossed>>

\* mutant: only what was edited is sent, the rest is left to the model's
\* defaults
BugSent(p, form) ==
  [k \in AllKeys |-> IF k \in Keys /\ form[k] # page[p][k] THEN form[k]
                                                         ELSE Default[k]]

Sent(p, form) ==
  [k \in AllKeys |-> IF k \in Keys THEN form[k] ELSE Default[k]]

\* updateAllSetting: the button follows the form once a second, and the
\* spinner comes half a second late, so a page may send its form unedited, and
\* again while a request is under way.
Submit(r, p, form) ==
  /\ Begin(r, "read", Keys, Sent(p, form))
  /\ from' = [from EXCEPT ![r] = p]
  /\ edited' = [edited EXCEPT ![r] = {k \in Keys : form[k] # page[p][k]}]
  /\ touched' = [touched EXCEPT ![r] = touched[p]]
  /\ UNCHANGED <<rows, page, seen, errs, crossed>>

-----------------------------------------------------------------------------
(* saveSetting *)

Find(w) ==
  /\ stage[w] = "read" /\ todo[w] # {}
  /\ LET S == RowsOf(NextKey(w)) IN
       seen' = [seen EXCEPT ![w] = IF S = {} THEN None ELSE Oldest(S).id]
  /\ stage' = [stage EXCEPT ![w] = "write"]
  /\ UNCHANGED <<rows, page, from, todo, want, errs, begun, edited, events,
                 touched, crossed>>

Put(id, k, v) ==
  {r \in rows : r.id # id} \cup {[id |-> id, key |-> k, value |-> v]}

\* The keys whose rows Put changes: Save goes by the id, whoever has it now.
Hit(id, k) == {k} \cup {r.key : r \in {s \in rows : s.id = id}}

BugTarget(id) == NewId       \* mutant: the row read is never updated

\* Create, or Save of the row read, which inserts it when it is gone.
Target(id) == IF id = None THEN NewId ELSE id

Write(w) ==
  /\ stage[w] = "write"
  /\ LET k == NextKey(w)  id == Target(seen[w]) IN
       /\ rows' = Put(id, k, want[w][k])
       /\ Tell(w, Hit(id, k))
       /\ crossed' = crossed \cup Met(w, Hit(id, k))
       /\ todo' = [todo EXCEPT ![w] = @ \ {k}]
  /\ stage' = [stage EXCEPT ![w] = "read"]
  /\ seen' = [seen EXCEPT ![w] = None]
  /\ UNCHANGED <<page, from, want, errs, begun, edited, events>>

\* mutant: UpdateAllSetting drops the error
BugFailed(w) == errs

Failed(w) == [errs EXCEPT ![w] = TRUE]

\* A statement fails (a locked database, a full disk): the key is given up,
\* the next one is tried.
WriteFails(w) ==
  /\ stage[w] = "write" /\ Event
  /\ errs' = Failed(w)
  /\ todo' = [todo EXCEPT ![w] = @ \ {NextKey(w)}]
  /\ stage' = [stage EXCEPT ![w] = "read"]
  /\ seen' = [seen EXCEPT ![w] = None]
  /\ UNCHANGED <<rows, page, from, want, begun, edited, touched, crossed>>

\* The end of a save.
Leave(w) ==
  /\ stage' = [stage EXCEPT ![w] = "idle"]
  /\ todo' = [todo EXCEPT ![w] = {}]
  /\ want' = [want EXCEPT ![w] = Default]
  /\ begun' = [begun EXCEPT ![w] = {}]

\* The answer: only a success loads the page again that waits for it.
Answer(w) ==
  /\ stage[w] = "read" /\ todo[w] = {} /\ Leave(w)
  /\ errs' = [errs EXCEPT ![w] = FALSE]
  /\ edited' = [edited EXCEPT ![w] = {}]
  /\ from' = [from EXCEPT ![w] = None]
  /\ LET p == IF errs[w] THEN None ELSE from[w] IN
       /\ IF p = None THEN UNCHANGED page ELSE LoadPage(p)
       /\ touched' = [x \in Pages \cup Writers |->
                        IF x \in {w, p} THEN {} ELSE touched[x]]
  /\ UNCHANGED <<rows, seen, events, crossed>>

-----------------------------------------------------------------------------
(* Other saves: SetPort and the like of a command, SetRuntimeDirty and the like
   of the panel; ResetSettings; and the certificate command, which deletes the
   rows of a key and inserts one. *)

Sets(w, k, v) ==
  /\ Begin(w, "read", {k}, [Default EXCEPT ![k] = v])
  /\ edited' = [edited EXCEPT ![w] = {k}]
  /\ UNCHANGED <<rows, page, from, seen, errs, touched, crossed>>

ResetSettings ==
  /\ Idle(Command) /\ Event
  /\ rows' = {}
  /\ Tell(Command, AllKeys) /\ crossed' = Met(Command, AllKeys)
  /\ UNCHANGED <<page, work>>

DeleteKey(k, v) ==
  /\ Begin(Command, "insert", {k}, [Default EXCEPT ![k] = v])
  /\ rows' = rows \ RowsOf(k)
  /\ Tell(Command, {k}) /\ crossed' = (crossed \ {k}) \cup Met(Command, {k})
  /\ UNCHANGED <<page, from, seen, errs, edited>>

InsertKey ==
  /\ stage[Command] = "insert" /\ Leave(Command)
  /\ LET k == NextKey(Command) IN
       /\ rows' = Put(NewId, k, want[Command][k])
       /\ Tell(Command, {k}) /\ crossed' = crossed \cup Met(Command, {k})
  /\ UNCHANGED <<page, from, seen, errs, edited, events>>

SaveStep(w) == Find(w) \/ Write(w) \/ WriteFails(w) \/ Answer(w)

Next ==
  \/ \E p \in Pages :
       \/ Open(p)
       \/ \E r \in Requests, form \in [Keys -> Values] : Submit(r, p, form)
  \/ \E w \in Writers : SaveStep(w)
  \/ \E k \in Keys, v \in Values : Sets(Command, k, v) \/ DeleteKey(k, v)
  \/ \E r \in Requests, k \in Hidden, v \in Marks : Sets(r, k, v)
  \/ ResetSettings \/ InsertKey

Spec == Init /\ [][Next]_vars

-----------------------------------------------------------------------------
TypeOK ==
  /\ rows \subseteq [id : Nat \ {0}, key : AllKeys, value : Values]
  /\ page \in [Pages -> [Keys -> Values]]
  /\ from \in [Writers -> Pages \cup {None}]
  /\ stage \in [Writers -> {"idle", "read", "write", "insert"}]
  /\ todo \in [Writers -> SUBSET AllKeys]
  /\ want \in [Writers -> [AllKeys -> Values]]
  /\ seen \in [Writers -> (Nat \ {0}) \cup {None}]
  /\ errs \in [Writers -> BOOLEAN]
  /\ events \in 0..MaxEvents
  /\ begun \in [Writers -> SUBSET AllKeys]
  /\ edited \in [Writers -> SUBSET AllKeys]
  /\ touched \in [Pages \cup Writers -> SUBSET AllKeys]
  /\ crossed \subseteq AllKeys

(* saveSetting: a key has one row, though nothing in the table enforces it,
   unless two writers were both between looking it up and writing it. *)
OneRowPerKey ==
  \A k \in AllKeys \ crossed : Cardinality(RowsOf(k)) <= 1

(* The page (GetAllSetting reads the last row of a key, getSetting the first):
   what a page shows is in force, also when it was loaded amid other saves or
   after its own, unless a statement has changed the key since. *)
PageShowsWhatIsUsed ==
  \A p \in Pages : \A k \in Keys \ (touched[p] \cup crossed) :
    page[p][k] = Effective(k)

(* UpdateAllSetting, saveSetting: a request or command that ends with success
   has put every value it was given into force, unless another writer has
   changed the key after it had been saved. *)
SaveSticks ==
  \A w \in Writers : stage[w] = "read" /\ todo[w] = {} /\ ~errs[w] =>
    \A k \in begun[w] \ (touched[w] \cup crossed) : Effective(k) = want[w][k]

(* A page saves all keys at once: one the user did not edit keeps its value,
   unless the form is older than somebody else's change of it. *)
UneditedKept ==
  [][\A r \in Requests :
       stage[r] = "write" /\ stage'[r] = "read" =>
         \A k \in begun[r] \ (edited[r] \cup touched[r] \cup crossed') :
           Effective(k)' = Effective(k)]_vars
=============================================================================

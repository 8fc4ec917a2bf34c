------------------------- MODULE PanelDatabaseProofs -------------------------
(***************************************************************************)
(* Proofs about PanelDatabase: types, the ledger of migrations, the        *)
(* clients and passwords it moves, the backup before it and the bootstrap  *)
(* after it, for any number of commands, inbounds and deaths.              *)
(***************************************************************************)
EXTENDS PanelDatabase, TLAPS

Row == [password : Passwords \cup {NULL}, hash : Passwords \cup {NULL}]

(* The versions before the one a process has come to are in the ledger.    *)
Progress ==
  \A p \in Procs : /\ \A v \in Versions : v < next[p] => v \in ledger
                   /\ pc[p] = "apply" => next[p] \in Versions

(* A process that may write to the file, or has seen it change under its   *)
(* copy, knows that what is still to be migrated is backed up, unless the  *)
(* change was an outsider's.                                               *)
Covered == (\A v \in Versions \ ledger : BackedUp(v)) \/ intruded

KnowsCovered ==
  \A p \in Procs : torn[p] \/ pc[p] \in {"ledger", "check", "apply"} => Covered

(* A login is only in progress in an open panel, on a row with a hash.     *)
LoginIsOpen ==
  login # NULL => pc[Panel] = "open" /\ users[login.user].hash # NULL

(* Between reading that there is no user and creating one a process is     *)
(* alone, and knows whether there is a port.                               *)
BootstrapAlone ==
  ~overlapped =>
    /\ \A p, q \in Procs : InBootstrap(p) /\ InBootstrap(q) => p = q
    /\ \A p \in Procs : pc[p] = "portrow" => ports = << >>

HasPort == \A p \in Procs : pc[p] \in {"portrow", "user"} => mine[p] \in Ports

Inv ==
  /\ TypeOK
  /\ Progress
  /\ OpensMigrated
  /\ KnowsCovered
  /\ LedgerIsTrue
  /\ ClientsInOnePlace
  /\ LoginIsOpen
  /\ LoginHolds
  /\ ShownLogsIn
  /\ HasPort
  /\ BootstrapAlone
  /\ BootstrapOnce

-----------------------------------------------------------------------------
(* What the file's rows are after a migration or a change of a password. *)

LEMMA NullIsNoPassword == NULL \notin Passwords
  BY DatabaseAssumption

LEMMA HashedRow ==
  ASSUME NEW u \in Row
  PROVE  /\ Hashed(u) \in Row
         /\ Hashed(u).password = u.password
         /\ u.hash # NULL => Hashed(u) = u
         /\ u.hash = NULL => Hashed(u).hash = u.password
  BY DEF Hashed, User, Row

LEMMA HashedUsers ==
  ASSUME TypeOK, users' = [u \in DOMAIN users |-> Hashed(users[u])]
  PROVE  /\ users' \in Seq(Row) /\ Len(users') = Len(users)
         /\ DOMAIN users' = DOMAIN users
         /\ \A u \in DOMAIN users : users[u] \in Row /\ users'[u] = Hashed(users[u])
  <1>1. users \in Seq(Row)
    BY DEF TypeOK, Row
  <1>2. DOMAIN users = 1..Len(users) /\ Len(users) \in Nat
    BY <1>1
  <1>3. \A u \in DOMAIN users : users[u] \in Row
    BY <1>1
  <1>4. \A u \in DOMAIN users : Hashed(users[u]) \in Row
    BY <1>3, HashedRow
  <1>5. users' \in [1..Len(users) -> Row]
    BY <1>2, <1>4
  <1> QED BY <1>2, <1>3, <1>5

LEMMA SplitInbound ==
  ASSUME NEW i \in [embedded : BOOLEAN, rows : 0..1, decryption : BOOLEAN]
  PROVE  /\ Split(i) \in [embedded : BOOLEAN, rows : 0..1, decryption : BOOLEAN]
         /\ ~Split(i).embedded
         /\ Split(i).decryption = i.decryption
         /\ i.embedded \/ i.rows > 0 => Split(i).rows > 0
  <1>1. CASE ~i.embedded
    BY <1>1, Zenon DEF Split
  <1>2. CASE i.embedded
    <2>1. Split(i) = [embedded |-> FALSE, rows |-> IF i.rows = 0 THEN 1 ELSE i.rows,
                      decryption |-> i.decryption]
      BY <1>2 DEF Split
    <2> QED BY <2>1
  <1> QED BY <1>1, <1>2

LEMMA DecryptedInbound ==
  ASSUME NEW i \in [embedded : BOOLEAN, rows : 0..1, decryption : BOOLEAN]
  PROVE  /\ Decrypted(i) \in [embedded : BOOLEAN, rows : 0..1, decryption : BOOLEAN]
         /\ Decrypted(i).embedded = i.embedded
         /\ Decrypted(i).rows = i.rows
         /\ Decrypted(i).decryption
  BY DEF Decrypted

(* The steps that write the inbounds are those of Apply.                   *)
LEMMA InboundsAfter ==
  ASSUME TypeOK, NEW v \in Versions, RunMigration(v), NEW i \in Inbounds
  PROVE  /\ inbounds[i] \in [embedded : BOOLEAN, rows : 0..1, decryption : BOOLEAN]
         /\ v = 2 => inbounds'[i] = Split(inbounds[i])
         /\ v = 3 => inbounds'[i] = Decrypted(inbounds[i])
         /\ v \notin {2, 3} => inbounds'[i] = inbounds[i]
  BY DEF TypeOK, RunMigration

LEMMA InboundsTyped ==
  ASSUME TypeOK, NEW v \in Versions, RunMigration(v)
  PROVE  inbounds' \in [Inbounds -> [embedded : BOOLEAN, rows : 0..1,
                                     decryption : BOOLEAN]]
  <1>1. \A i \in Inbounds : inbounds'[i] \in [embedded : BOOLEAN, rows : 0..1,
                                              decryption : BOOLEAN]
    BY InboundsAfter, SplitInbound, DecryptedInbound
  <1>2. inbounds' = [i \in Inbounds |-> inbounds'[i]]
    BY DEF TypeOK, RunMigration
  <1> QED BY <1>1, <1>2

-----------------------------------------------------------------------------
(* Types. *)

Clients == [embedded : BOOLEAN, rows : 0..1, decryption : BOOLEAN]

FileTyped ==
  /\ users \in Seq(Row)
  /\ \A u \in DOMAIN users : users[u].hash = NULL => users[u].password \in Passwords
  /\ \A u \in DOMAIN users : users[u].password # NULL /\ users[u].hash # NULL
                             => users[u].password = users[u].hash
  /\ ports \in Seq(Ports) /\ Len(ports) <= 1
  /\ inbounds \in [Inbounds -> [embedded : BOOLEAN, rows : 0..1,
                                decryption : BOOLEAN]]
  /\ \A i \in Inbounds : ~inbounds[i].embedded \/ inbounds[i].rows = 0
  /\ table \in BOOLEAN /\ guards \in 0..1
  /\ \/ ledger = {}
     \/ /\ ledger = 1..3
        /\ \A u \in DOMAIN users : users[u].hash # NULL
        /\ \A i \in Inbounds : ~inbounds[i].embedded /\ inbounds[i].decryption

LEMMA OneUser ==
  ASSUME NEW w \in Passwords \cup {NULL}, NEW h \in Passwords \cup {NULL},
         users = <<User(w, h)>>
  PROVE  /\ users \in Seq(Row) /\ DOMAIN users = {1}
         /\ users[1].password = w /\ users[1].hash = h
  BY DEF User, Row

LEMMA OnePort ==
  ASSUME NEW n \in Ports, ports = <<n>>
  PROVE  ports \in Seq(Ports) /\ Len(ports) <= 1
  OBVIOUS

LEMMA FilesTyped == EmptyFile \/ LegacyFile \/ MiddleFile \/ ClearedFile => FileTyped
  <1>1. ASSUME EmptyFile PROVE FileTyped
    <2>1. users \in Seq(Row) /\ DOMAIN users = {} /\ ports \in Seq(Ports)
          /\ Len(ports) <= 1
      BY <1>1 DEF EmptyFile
    <2>2. /\ inbounds \in [Inbounds -> Clients]
          /\ \A i \in Inbounds : ~inbounds[i].embedded \/ inbounds[i].rows = 0
      BY <1>1 DEF EmptyFile, NoClients, Clients
    <2>3. table \in BOOLEAN /\ ledger = {}
      BY <1>1 DEF EmptyFile
    <2>4. guards \in 0..1
      BY <1>1 DEF EmptyFile
    <2> QED BY <2>1, <2>2, <2>3, <2>4 DEF FileTyped, Clients
  <1>2. ASSUME LegacyFile PROVE FileTyped
    <2>1. PICK w \in Passwords : users = <<User(w, NULL)>>
      BY <1>2 DEF LegacyFile
    <2>2. ports \in Seq(Ports) /\ Len(ports) <= 1
      <3>1. CASE ports = << >>
        BY <3>1
      <3>2. CASE \E n \in Ports : ports = <<n>>
        BY <3>2, OnePort
      <3> QED BY <1>2, <3>1, <3>2 DEF LegacyFile
    <2>3. inbounds \in [Inbounds -> {OldInbound, NoClients}]
          /\ table = FALSE /\ guards = 0 /\ ledger = {}
      BY <1>2 DEF LegacyFile
    <2>4. /\ inbounds \in [Inbounds -> [embedded : BOOLEAN, rows : 0..1,
                                        decryption : BOOLEAN]]
          /\ \A i \in Inbounds : ~inbounds[i].embedded \/ inbounds[i].rows = 0
      <3>1. OldInbound \in Clients /\ NoClients \in Clients
            /\ OldInbound.rows = 0 /\ NoClients.rows = 0
        BY DEF OldInbound, NoClients, Clients
      <3> QED BY <2>3, <3>1 DEF Clients
    <2>5. FALSE \in BOOLEAN /\ 0 \in 0..1
      OBVIOUS
    <2> QED BY <2>5, <2>1, <2>2, <2>3, <2>4, OneUser, NullIsNoPassword DEF FileTyped
  <1>3. ASSUME MiddleFile PROVE FileTyped
    <2>1. PICK w \in Passwords : users = <<User(NULL, w)>>
      BY <1>3 DEF MiddleFile
    <2>2. PICK n \in Ports : ports = <<n>>
      BY <1>3 DEF MiddleFile
    <2>3. inbounds = [i \in Inbounds |-> NewInbound]
          /\ table = TRUE /\ guards = 0 /\ ledger = 1..3
      BY <1>3 DEF MiddleFile
    <2>4. /\ inbounds \in [Inbounds -> [embedded : BOOLEAN, rows : 0..1,
                                        decryption : BOOLEAN]]
          /\ \A i \in Inbounds : ~inbounds[i].embedded /\ inbounds[i].decryption
      BY <2>3 DEF NewInbound
    <2> QED BY <2>1, <2>2, <2>3, <2>4, OneUser, OnePort, NullIsNoPassword
            DEF FileTyped
  <1>4. ASSUME ClearedFile PROVE FileTyped
    <2>1. PICK w \in Passwords : \/ users = <<User(w, w)>>
                                 \/ users = <<User(NULL, w)>>
      BY <1>4 DEF ClearedFile
    <2>2. PICK n \in Ports : ports = <<n>>
      BY <1>4 DEF ClearedFile
    <2>3. inbounds \in [Inbounds -> {OldInbound, NewInbound}]
          /\ table = TRUE /\ guards = 1 /\ ledger = {}
      BY <1>4 DEF ClearedFile
    <2>4. /\ inbounds \in [Inbounds -> [embedded : BOOLEAN, rows : 0..1,
                                        decryption : BOOLEAN]]
          /\ \A i \in Inbounds : ~inbounds[i].embedded \/ inbounds[i].rows = 0
      <3>1. OldInbound \in Clients /\ NewInbound \in Clients
            /\ OldInbound.rows = 0 /\ ~NewInbound.embedded
        BY DEF OldInbound, NewInbound, Clients
      <3> QED BY <2>3, <3>1 DEF Clients
    <2>5. CASE users = <<User(w, w)>>
      BY <2>2, <2>3, <2>4, <2>5, OneUser, OnePort, NullIsNoPassword DEF FileTyped
    <2>6. CASE users = <<User(NULL, w)>>
      BY <2>2, <2>3, <2>4, <2>6, OneUser, OnePort, NullIsNoPassword DEF FileTyped
    <2> QED BY <2>1, <2>5, <2>6
  <1> QED BY <1>1, <1>2, <1>3, <1>4

LEMMA InitTypes == Init => TypeOK /\ FileTyped
  <1> SUFFICES ASSUME Init PROVE TypeOK /\ FileTyped
    OBVIOUS
  <1>1. FileTyped
    BY FilesTyped DEF Init
  <1>2. chosen \in Seq(Passwords) /\ Len(chosen) = Len(users)
    <2>1. users \in Seq(Row) /\ DOMAIN users = 1..Len(users) /\ Len(users) \in Nat
      BY <1>1 DEF FileTyped
    <2>2. \A u \in DOMAIN users : users[u] \in Row
      BY <2>1
    <2>3. \A u \in DOMAIN users :
            (IF users[u].hash # NULL THEN users[u].hash ELSE users[u].password)
              \in Passwords
      BY <1>1, <2>2 DEF FileTyped, Row
    <2>4. chosen \in [1..Len(users) -> Passwords]
      BY <2>1, <2>3 DEF Init
    <2> QED BY <2>1, <2>4
  <1>3. /\ backups = {} /\ login = NULL /\ deaths = 0 /\ overtaken = {}
        /\ overlapped = FALSE /\ intruded = FALSE
    BY DEF Init
  <1>4. /\ pc \in [Procs -> Places] /\ next \in [Procs -> 1..5]
        /\ torn \in [Procs -> BOOLEAN] /\ mine \in [Procs -> Ports \cup {NULL}]
    BY DEF Init, Places
  <1>5. ledger \subseteq Versions
    BY <1>1 DEF FileTyped, Versions
  <1>6. users \in Seq([password : Passwords \cup {NULL}, hash : Passwords \cup {NULL}])
        /\ ports \in Seq(Ports) /\ table \in BOOLEAN /\ guards \in 0..1
        /\ inbounds \in [Inbounds -> [embedded : BOOLEAN, rows : 0..1,
                                      decryption : BOOLEAN]]
    BY <1>1 DEF FileTyped, Row
  <1>7. /\ backups \subseteq [ledger : SUBSET Versions, whole : BOOLEAN]
        /\ login \in [user : DOMAIN users, password : Passwords] \cup {NULL}
        /\ deaths \in 0..MaxDeaths /\ overtaken \subseteq DOMAIN users
        /\ overlapped \in BOOLEAN /\ intruded \in BOOLEAN
    <2>1. backups \subseteq [ledger : SUBSET Versions, whole : BOOLEAN]
          /\ overtaken \subseteq DOMAIN users
      BY <1>3, Zenon
    <2>2. overlapped \in BOOLEAN /\ intruded \in BOOLEAN /\ login \in {NULL}
      BY <1>3
    <2>3. deaths \in 0..MaxDeaths
      BY <1>3, DatabaseAssumption
    <2> QED BY <2>1, <2>2, <2>3
  <1> QED BY <1>1, <1>2, <1>4, <1>5, <1>6, <1>7 DEF TypeOK

LEMMA CommitTyped ==
  ASSUME NEW p \in Procs, Commit(p), TypeOK
  PROVE  torn' \in [Procs -> BOOLEAN]
  BY DEF Commit, TypeOK

LEMMA EndsTyped ==
  ASSUME NEW p \in Procs, Ends(p), TypeOK
  PROVE  /\ pc' \in [Procs -> Places] /\ next' \in [Procs -> 1..5]
         /\ mine' \in [Procs -> Ports \cup {NULL}]
  BY DEF Ends, Goto, TypeOK, Places

LEMMA SetPasswordTyped ==
  ASSUME TypeOK, NEW u \in DOMAIN users, NEW w \in Passwords, SetPassword(u, w)
  PROVE  /\ users' \in Seq(Row) /\ DOMAIN users' = DOMAIN users
         /\ chosen' \in Seq(Passwords) /\ Len(chosen') = Len(users')
         /\ overtaken' \subseteq DOMAIN users'
         /\ users'[u] = [password |-> w, hash |-> w] /\ chosen'[u] = w
         /\ \A x \in DOMAIN users : x # u => users'[x] = users[x]
                                             /\ chosen'[x] = chosen[x]
  <1>1. users \in Seq(Row) /\ User(w, w) \in Row
    BY DEF TypeOK, Row, User
  <1>2. users' = [users EXCEPT ![u] = User(w, w)]
        /\ chosen' = [chosen EXCEPT ![u] = w] /\ overtaken' = overtaken \ {u}
    BY DEF SetPassword
  <1>3. chosen \in Seq(Passwords) /\ Len(chosen) = Len(users)
        /\ overtaken \subseteq DOMAIN users
    BY DEF TypeOK
  <1>4. u \in 1..Len(users) /\ DOMAIN chosen = DOMAIN users
    BY <1>1, <1>3
  <1> QED BY <1>1, <1>2, <1>3, <1>4 DEF User

LEMMA CreateUserTyped ==
  ASSUME TypeOK, NEW w \in Passwords, users' = Append(users, User(w, w)),
         chosen' = Append(chosen, w)
  PROVE  /\ users' \in Seq(Row) /\ DOMAIN users \subseteq DOMAIN users'
         /\ users' # << >>
         /\ chosen' \in Seq(Passwords) /\ Len(chosen') = Len(users')
         /\ \A u \in DOMAIN users' \ DOMAIN users :
              users'[u] = User(w, w) /\ chosen'[u] = w
         /\ \A u \in DOMAIN users : users'[u] = users[u] /\ chosen'[u] = chosen[u]
  <1>1. users \in Seq(Row) /\ User(w, w) \in Row
    BY DEF TypeOK, Row, User
  <1>2. chosen \in Seq(Passwords) /\ Len(chosen) = Len(users)
    BY DEF TypeOK
  <1> QED BY <1>1, <1>2

LEMMA SavePlainTyped ==
  ASSUME TypeOK, SavePlain
  PROVE  /\ login.user \in DOMAIN users /\ login.password \in Passwords
         /\ users' \in Seq(Row) /\ DOMAIN users' = DOMAIN users
         /\ Len(users') = Len(users)
         /\ users'[login.user].password = login.password
         /\ users'[login.user].hash = users[login.user].hash
         /\ \A u \in DOMAIN users : u # login.user => users'[u] = users[u]
         /\ overtaken' \subseteq DOMAIN users
  <1>1. login \in [user : DOMAIN users, password : Passwords]
    BY DEF TypeOK, SavePlain
  <1>2. users \in Seq(Row) /\ overtaken \subseteq DOMAIN users
    BY DEF TypeOK, Row
  <1>3. users[login.user] \in Row
    BY <1>1, <1>2
  <1>4. users' = [users EXCEPT ![login.user] =
                    [users[login.user] EXCEPT !.password = login.password]]
    BY <1>1, <1>2, <1>3 DEF SavePlain
  <1> DEFINE row == [users[login.user] EXCEPT !.password = login.password]
  <1>5. row \in Row /\ row.password = login.password
        /\ row.hash = users[login.user].hash
    BY <1>1, <1>3 DEF Row
  <1>6. users' = [users EXCEPT ![login.user] = row]
    BY <1>4
  <1>7. overtaken' \subseteq overtaken \cup {login.user}
    BY DEF SavePlain
  <1> HIDE DEF row
  <1> QED BY <1>1, <1>2, <1>5, <1>6, <1>7

(* A process that applies a version has come to one of the four. *)
LEMMA NextTypes ==
  ASSUME TypeOK, Progress, OpensMigrated, HasPort, [Next]_vars
  PROVE  TypeOK'
  <1> USE DEF file, local, past, vars
  <1>0. \A p \in Procs : pc[p] \in Places /\ next[p] \in 1..5
    BY DEF TypeOK
  <1>1. ASSUME NEW p \in Procs, Start(p) PROVE TypeOK'
    BY <1>1 DEF Start, Goto, TypeOK, Places
  <1>2. ASSUME NEW p \in Procs, Need(p) PROVE TypeOK'
    BY <1>2 DEF Need, Goto, TypeOK, Places
  <1>3. ASSUME NEW p \in Procs, BackUp(p) PROVE TypeOK'
    <2>1. [ledger |-> ledger, whole |-> ~torn[p]]
            \in [ledger : SUBSET Versions, whole : BOOLEAN]
      BY DEF TypeOK
    <2>2. backups' \subseteq [ledger : SUBSET Versions, whole : BOOLEAN]
      BY <1>3, <2>1 DEF BackUp, TypeOK
    <2>3. pc' \in [Procs -> Places] /\ torn' \in [Procs -> BOOLEAN]
      BY <1>3 DEF BackUp, Goto, TypeOK, Places
    <2>4. intruded' \in BOOLEAN
      BY <1>3, Zenon DEF BackUp, TypeOK
    <2> QED BY <1>3, <2>2, <2>3, <2>4 DEF BackUp, TypeOK
  <1>4. ASSUME NEW p \in Procs, CreateLedger(p) PROVE TypeOK'
    <2>1. torn' \in [Procs -> BOOLEAN]
      BY <1>4, CommitTyped DEF CreateLedger, TypeOK
    <2>2. pc' \in [Procs -> Places]
      BY <1>4 DEF CreateLedger, Goto, TypeOK, Places
    <2> QED BY <1>4, <2>1, <2>2 DEF CreateLedger, TypeOK
  <1>5. ASSUME NEW p \in Procs, Check(p) PROVE TypeOK'
    <2>1. pc' \in [Procs -> Places] /\ next' \in [Procs -> 1..5]
      <3>1. next[p] \in 1..5 /\ next \in [Procs -> 1..5] /\ pc \in [Procs -> Places]
        BY DEF TypeOK
      <3>2. \/ pc' = pc
            \/ pc' = [pc EXCEPT ![p] = "apply"]
            \/ pc' = [pc EXCEPT ![p] = "count"]
        BY <1>5, Zenon DEF Check, Goto
      <3>3. \/ next' = next
            \/ next[p] \in 1..4 /\ next' = [next EXCEPT ![p] = next[p] + 1]
            \/ next' = [next EXCEPT ![p] = 1]
        BY <1>5, Zenon DEF Check, Versions
      <3> QED BY <3>1, <3>2, <3>3 DEF Places
    <2> QED BY <1>5, <2>1 DEF Check, TypeOK
  <1>6. ASSUME NEW p \in Procs, Apply(p) PROVE TypeOK'
    <2>1. next[p] \in Versions /\ RunMigration(next[p]) /\ Commit(p)
      BY <1>6 DEF Apply, Progress
    <2>2. torn' \in [Procs -> BOOLEAN]
      BY <2>1, CommitTyped
    <2>3. pc' \in [Procs -> Places] /\ next' \in [Procs -> 1..5]
      BY <1>6, <2>1 DEF Apply, Goto, TypeOK, Places, Versions
    <2>4. inbounds' \in [Inbounds -> [embedded : BOOLEAN, rows : 0..1,
                                      decryption : BOOLEAN]]
      BY <2>1, InboundsTyped
    <2>5. users' \in Seq(Row) /\ DOMAIN users' = DOMAIN users /\ Len(users') = Len(users)
      <3>1. CASE next[p] = 1
        BY <2>1, <3>1, HashedUsers DEF RunMigration
      <3>2. CASE next[p] # 1
        BY <2>1, <3>2 DEF RunMigration, TypeOK, Row
      <3> QED BY <3>1, <3>2
    <2>6. guards' \in 0..1 /\ ledger' \subseteq Versions
      BY <1>6, <2>1 DEF Apply, RunMigration, TypeOK
    <2> QED BY <1>6, <2>2, <2>3, <2>4, <2>5, <2>6 DEF Apply, TypeOK, Row
  <1>7. ASSUME NEW p \in Procs, Refused(p) PROVE TypeOK'
    BY <1>7, EndsTyped DEF Refused, TypeOK
  <1>8. ASSUME NEW p \in Procs, Count(p) PROVE TypeOK'
    <2>1. pc' \in [Procs -> Places]
      BY <1>8 DEF Count, Goto, TypeOK, Places
    <2>2. overlapped' \in BOOLEAN
      BY <1>8, Zenon DEF Count, TypeOK
    <2> QED BY <1>8, <2>1, <2>2 DEF Count, TypeOK
  <1>9. ASSUME NEW p \in Procs, BootstrapPort(p) PROVE TypeOK'
    <2>1. pc' \in [Procs -> Places]
      BY <1>9 DEF BootstrapPort, Goto, TypeOK, Places
    <2>2. mine' \in [Procs -> Ports \cup {NULL}]
      <3>1. ports # << >> => Head(ports) \in Ports
        BY DEF TypeOK
      <3> QED BY <1>9, <3>1 DEF BootstrapPort, TypeOK
    <2> QED BY <1>9, <2>1, <2>2 DEF BootstrapPort, TypeOK
  <1>10. ASSUME NEW p \in Procs, CreatePort(p) PROVE TypeOK'
    <2>1. torn' \in [Procs -> BOOLEAN]
      BY <1>10, CommitTyped DEF CreatePort
    <2>2. pc' \in [Procs -> Places]
      BY <1>10 DEF CreatePort, Goto, TypeOK, Places
    <2>3. ports' \in Seq(Ports)
      BY <1>10 DEF CreatePort, TypeOK, HasPort
    <2> QED BY <1>10, <2>1, <2>2, <2>3 DEF CreatePort, TypeOK
  <1>11. ASSUME NEW p \in Procs, CreateUser(p) PROVE TypeOK'
    <2>1. PICK w \in Passwords : users' = Append(users, User(w, w))
                                 /\ chosen' = Append(chosen, w)
      BY <1>11 DEF CreateUser
    <2>2. torn' \in [Procs -> BOOLEAN]
      BY <1>11, CommitTyped DEF CreateUser
    <2>3. pc' \in [Procs -> Places] /\ mine' \in [Procs -> Ports \cup {NULL}]
      BY <1>11 DEF CreateUser, Goto, TypeOK, Places
    <2>4. /\ users' \in Seq(Row) /\ DOMAIN users \subseteq DOMAIN users'
          /\ chosen' \in Seq(Passwords) /\ Len(chosen') = Len(users')
      BY <2>1, CreateUserTyped
    <2>5. login' \in [user : DOMAIN users', password : Passwords] \cup {NULL}
          /\ overtaken' \subseteq DOMAIN users'
      BY <1>11, <2>4 DEF CreateUser, TypeOK
    <2> QED BY <1>11, <2>2, <2>3, <2>4, <2>5 DEF CreateUser, TypeOK, Row
  <1>12. ASSUME NEW p \in Procs, FirstUser(p) PROVE TypeOK'
    BY <1>12 DEF FirstUser, Goto, TypeOK, Places
  <1>13. ASSUME NEW p \in Procs, UpdateFirstUser(p) PROVE TypeOK'
    <2>1. PICK w \in Passwords : SetPassword(1, w)
      BY <1>13 DEF UpdateFirstUser
    <2>2. 1 \in DOMAIN users
      BY <1>13 DEF UpdateFirstUser, OpensMigrated, TypeOK
    <2>3. torn' \in [Procs -> BOOLEAN]
      BY <1>13, CommitTyped DEF UpdateFirstUser
    <2> QED BY <1>13, <2>1, <2>2, <2>3, EndsTyped, SetPasswordTyped
            DEF UpdateFirstUser, TypeOK, Row
  <1>14. ASSUME NEW p \in Procs, OtherJob(p) PROVE TypeOK'
    BY <1>14, EndsTyped DEF OtherJob, TypeOK
  <1>15. ASSUME NEW p \in Procs, Die(p) PROVE TypeOK'
    <2>1. backups' \subseteq [ledger : SUBSET Versions, whole : BOOLEAN]
      <3>1. [ledger |-> ledger, whole |-> FALSE]
              \in [ledger : SUBSET Versions, whole : BOOLEAN]
        BY DEF TypeOK
      <3> QED BY <1>15, <3>1 DEF Die, TypeOK
    <2>2. torn' \in [Procs -> BOOLEAN] /\ deaths' \in 0..MaxDeaths
      BY <1>15, DatabaseAssumption DEF Die, TypeOK
    <2>3. login' \in [user : DOMAIN users, password : Passwords] \cup {NULL}
      BY <1>15 DEF Die, TypeOK
    <2> QED BY <1>15, <2>1, <2>2, <2>3, EndsTyped DEF Die, TypeOK
  <1>16. ASSUME NEW u \in DOMAIN users, UpdateUser(u) PROVE TypeOK'
    <2>1. PICK w \in Passwords : SetPassword(u, w)
      BY <1>16 DEF UpdateUser
    <2>2. torn' \in [Procs -> BOOLEAN]
      BY <1>16, CommitTyped DEF UpdateUser, Procs
    <2> QED BY <1>16, <2>1, <2>2, SetPasswordTyped DEF UpdateUser, TypeOK, Row
  <1>17. ASSUME NEW u \in DOMAIN users, Verify(u) PROVE TypeOK'
    <2>1. users[u].hash \in Passwords
      <3>1. users[u] \in Row
        <4>1. users \in Seq(Row)
          BY DEF TypeOK, Row
        <4> QED BY <4>1
      <3> QED BY <1>17, <3>1 DEF Verify, Row
    <2> QED BY <1>17, <2>1 DEF Verify, TypeOK
  <1>18. ASSUME SavePlain PROVE TypeOK'
    <2>1. torn' \in [Procs -> BOOLEAN]
      BY <1>18, CommitTyped DEF SavePlain, Procs
    <2> QED BY <1>18, <2>1, SavePlainTyped DEF SavePlain, TypeOK, Row
  <1>19. ASSUME OutsiderCommits PROVE TypeOK'
    <2>1. torn' \in [Procs -> BOOLEAN]
      BY <1>19 DEF OutsiderCommits, TypeOK
    <2>2. intruded' \in BOOLEAN
      BY <1>19 DEF OutsiderCommits
    <2> QED BY <1>19, <2>1, <2>2 DEF OutsiderCommits, TypeOK
  <1>20. CASE UNCHANGED vars
    BY <1>20 DEF TypeOK
  <1> QED BY <1>1, <1>2, <1>3, <1>4, <1>5, <1>6, <1>7, <1>8, <1>9, <1>10, <1>11,
          <1>12, <1>13, <1>14, <1>15, <1>16, <1>17, <1>18, <1>19, <1>20
          DEF Next, InitDB, Command, Serve

-----------------------------------------------------------------------------
(* The ledger and what it says. *)

LEMMA LedgerGrows ==
  ASSUME TypeOK, Progress, [Next]_vars
  PROVE  /\ ledger \subseteq ledger'
         /\ \A v \in ledger' \ ledger : \E p \in Procs : Apply(p) /\ v = next[p]
  <1> USE DEF file, local, past, vars
  <1>1. ASSUME NEW p \in Procs, InitDB(p)
        PROVE  ledger' = ledger \/ (Apply(p) /\ ledger' = ledger \cup {next[p]})
    BY <1>1 DEF InitDB, Need, BackUp, CreateLedger, Check, Apply, Refused, Count,
                BootstrapPort, CreatePort, CreateUser
  <1>2. ASSUME NEW p \in Procs, Start(p) \/ Command(p) \/ Die(p)
        PROVE  ledger' = ledger
    BY <1>2 DEF Start, Command, FirstUser, UpdateFirstUser, OtherJob, Die
  <1>3. ASSUME Serve \/ OutsiderCommits PROVE ledger' = ledger
    BY <1>3 DEF Serve, SavePlain, UpdateUser, Verify, OutsiderCommits
  <1> QED BY <1>1, <1>2, <1>3 DEF Next

(* A process changes its own place and no other's, and moves on by one     *)
(* version only past one that is in the ledger.                            *)
LEMMA PlaceAfter ==
  ASSUME TypeOK, [Next]_vars, NEW q \in Procs
  PROVE  \/ pc'[q] = pc[q] /\ next'[q] = next[q] /\ mine'[q] = mine[q]
         \/ Start(q) \/ InitDB(q) \/ Command(q) \/ Die(q)
  <1> USE DEF file, local, past, vars
  <1>1. ASSUME NEW p \in Procs, p # q, Start(p) \/ InitDB(p) \/ Command(p) \/ Die(p)
        PROVE  pc'[q] = pc[q] /\ next'[q] = next[q] /\ mine'[q] = mine[q]
    <2>1. \/ pc' = pc
          \/ \E place \in Places : pc' = [pc EXCEPT ![p] = place]
      BY <1>1 DEF Start, InitDB, Command, Die, Need, BackUp, CreateLedger, Check,
         Apply, Refused, Count, BootstrapPort, CreatePort, CreateUser, FirstUser,
         UpdateFirstUser, OtherJob, Ends, Goto, Places
    <2>2. \/ next' = next
          \/ next' = [next EXCEPT ![p] = 1]
          \/ next' = [next EXCEPT ![p] = @ + 1]
      BY <1>1 DEF Start, InitDB, Command, Die, Need, BackUp, CreateLedger, Check,
         Apply, Refused, Count, BootstrapPort, CreatePort, CreateUser, FirstUser,
         UpdateFirstUser, OtherJob, Ends
    <2>3. \/ mine' = mine
          \/ \E n \in Ports \cup {NULL} : mine' = [mine EXCEPT ![p] = n]
      <3>1. CASE BootstrapPort(p)
        <4>1. ports # << >> => Head(ports) \in Ports
          BY DEF TypeOK
        <4> QED BY <3>1, <4>1, Zenon DEF BootstrapPort
      <3>2. CASE ~BootstrapPort(p)
        BY <1>1, <3>2 DEF Start, InitDB, Command, Die, Need, BackUp, CreateLedger,
           Check, Apply, Refused, Count, CreatePort, CreateUser, FirstUser,
           UpdateFirstUser, OtherJob, Ends
      <3> QED BY <3>1, <3>2
    <2> QED BY <1>1, <2>1, <2>2, <2>3 DEF TypeOK
  <1>2. ASSUME Serve \/ OutsiderCommits \/ UNCHANGED vars
        PROVE  pc' = pc /\ next' = next /\ mine' = mine
    BY <1>2 DEF Serve, SavePlain, UpdateUser, Verify, OutsiderCommits
  <1> QED BY <1>1, <1>2 DEF Next

LEMMA ProgressStep ==
  ASSUME TypeOK, Progress, [Next]_vars
  PROVE  Progress'
  <1> SUFFICES ASSUME NEW q \in Procs
               PROVE  /\ \A v \in Versions : v < next'[q] => v \in ledger'
                      /\ pc'[q] = "apply" => next'[q] \in Versions
    BY DEF Progress
  <1> USE DEF file, local, past, vars
  <1>0. /\ pc \in [Procs -> Places] /\ next \in [Procs -> 1..5]
        /\ ledger \subseteq ledger' /\ next[q] \in 1..5
        /\ \A v \in Versions : v < next[q] => v \in ledger
        /\ pc[q] = "apply" => next[q] \in Versions
    BY LedgerGrows DEF TypeOK, Progress
  <1>1. CASE pc'[q] = pc[q] /\ next'[q] = next[q]
    BY <1>0, <1>1
  <1>2. CASE Apply(q)
    <2>1. next'[q] = next[q] + 1 /\ next[q] \in ledger' /\ pc'[q] = "check"
      BY <1>0, <1>2 DEF Apply, Goto
    <2> QED BY <1>0, <2>1 DEF Versions
  <1>3. CASE Check(q)
    <2>1. CASE next[q] \in Versions /\ ~NotApplied(next[q])
      <3>1. next'[q] = next[q] + 1 /\ next[q] \in ledger /\ pc'[q] = pc[q]
            /\ pc[q] = "check"
        BY <1>0, <1>3, <2>1 DEF Check, NotApplied
      <3> QED BY <1>0, <3>1 DEF Versions
    <2>2. CASE next[q] \in Versions /\ NotApplied(next[q])
      BY <1>0, <1>3, <2>2 DEF Check, Goto
    <2>3. CASE next[q] \notin Versions
      <3>1. next'[q] = 1 /\ pc'[q] = "count"
        BY <1>0, <1>3, <2>3 DEF Check, Goto
      <3> QED BY <3>1 DEF Versions
    <2> QED BY <2>1, <2>2, <2>3
  <1>4. CASE \/ Start(q) \/ Need(q) \/ BackUp(q) \/ CreateLedger(q) \/ Count(q)
             \/ BootstrapPort(q) \/ CreatePort(q) \/ CreateUser(q) \/ FirstUser(q)
    <2>1. next' = next /\ pc'[q] # "apply"
      BY <1>0, <1>4 DEF Start, Need, BackUp, CreateLedger, Count, BootstrapPort,
         CreatePort, CreateUser, FirstUser, Goto
    <2> QED BY <1>0, <2>1
  <1>5. CASE Refused(q) \/ UpdateFirstUser(q) \/ OtherJob(q) \/ Die(q)
    <2>1. next'[q] = 1 /\ pc'[q] = "off"
      BY <1>0, <1>5 DEF Refused, UpdateFirstUser, OtherJob, Die, Ends, Goto
    <2> QED BY <2>1 DEF Versions
  <1> QED BY <1>1, <1>2, <1>3, <1>4, <1>5, PlaceAfter DEF InitDB, Command

-----------------------------------------------------------------------------
(* What a step does to the users. *)

LEMMA UsersAfter ==
  ASSUME TypeOK, Progress, OpensMigrated, [Next]_vars
  PROVE  \/ users' = users /\ chosen' = chosen /\ overtaken' = overtaken
         \/ \E p \in Procs : Apply(p) /\ next[p] = 1
         \/ \E p \in Procs : CreateUser(p)
         \/ \E u \in DOMAIN users, w \in Passwords : SetPassword(u, w)
         \/ SavePlain
  <1> USE DEF file, local, past, vars
  <1>1. ASSUME NEW p \in Procs, UpdateFirstUser(p)
        PROVE  \E u \in DOMAIN users, w \in Passwords : SetPassword(u, w)
    <2>1. 1 \in DOMAIN users
      BY <1>1 DEF UpdateFirstUser, OpensMigrated, TypeOK
    <2> QED BY <1>1, <2>1 DEF UpdateFirstUser
  <1>2. ASSUME NEW p \in Procs, Apply(p), next[p] # 1
        PROVE  users' = users /\ chosen' = chosen /\ overtaken' = overtaken
    BY <1>2 DEF Apply, RunMigration
  <1>3. ASSUME NEW p \in Procs,
               \/ Start(p) \/ Need(p) \/ BackUp(p) \/ CreateLedger(p) \/ Check(p)
               \/ Refused(p) \/ Count(p) \/ BootstrapPort(p) \/ CreatePort(p)
               \/ FirstUser(p) \/ OtherJob(p) \/ Die(p)
        PROVE  users' = users /\ chosen' = chosen /\ overtaken' = overtaken
    BY <1>3 DEF Start, Need, BackUp, CreateLedger, Check, Refused, Count,
       BootstrapPort, CreatePort, FirstUser, OtherJob, Die
  <1>4. ASSUME NEW u \in DOMAIN users, UpdateUser(u)
        PROVE  \E w \in Passwords : SetPassword(u, w)
    BY <1>4 DEF UpdateUser
  <1>5. ASSUME NEW u \in DOMAIN users, Verify(u)
        PROVE  users' = users /\ chosen' = chosen /\ overtaken' = overtaken
    BY <1>5 DEF Verify
  <1>6. ASSUME OutsiderCommits
        PROVE  users' = users /\ chosen' = chosen /\ overtaken' = overtaken
    BY <1>6 DEF OutsiderCommits
  <1> QED BY <1>1, <1>2, <1>3, <1>4, <1>5, <1>6 DEF Next, InitDB, Command, Serve

(* A user stays, and keeps a hash once it has one. *)
LEMMA UsersStay ==
  ASSUME TypeOK, Progress, OpensMigrated, [Next]_vars
  PROVE  /\ DOMAIN users \subseteq DOMAIN users'
         /\ users # << >> => users' # << >>
         /\ \A u \in DOMAIN users : users[u].hash # NULL => users'[u].hash # NULL
         /\ \A u \in DOMAIN users' \ DOMAIN users : users'[u].hash # NULL
         /\ users' = users \/ users' # << >>
  <1>0. users \in Seq(Row)
    BY DEF TypeOK, Row
  <1>1. CASE users' = users
    BY <1>0, <1>1
  <1>2. CASE \E p \in Procs : Apply(p) /\ next[p] = 1
    <2>1. users' = [u \in DOMAIN users |-> Hashed(users[u])]
      BY <1>2 DEF Apply, RunMigration
    <2>2. /\ users' \in Seq(Row) /\ Len(users') = Len(users)
          /\ DOMAIN users' = DOMAIN users
          /\ \A u \in DOMAIN users : users[u].hash # NULL => users'[u].hash # NULL
      BY <2>1, HashedUsers, HashedRow
    <2>3. users = << >> => users' = users
      BY <1>0, <2>2
    <2>4. users # << >> => users' # << >>
      BY <1>0, <2>2
    <2> QED BY <2>2, <2>3, <2>4
  <1>3. CASE \E p \in Procs : CreateUser(p)
    <2>1. PICK w \in Passwords : users' = Append(users, User(w, w))
                                 /\ chosen' = Append(chosen, w)
      BY <1>3 DEF CreateUser
    <2> QED BY <2>1, CreateUserTyped, NullIsNoPassword DEF User
  <1>4. CASE \E u \in DOMAIN users, w \in Passwords : SetPassword(u, w)
    <2>1. PICK u \in DOMAIN users, w \in Passwords : SetPassword(u, w)
      BY <1>4
    <2>2. users # << >> /\ users' # << >>
      <3>1. users' \in Seq(Row) /\ DOMAIN users' = DOMAIN users
        BY <2>1, SetPasswordTyped
      <3> QED BY <1>0, <2>1, <3>1
    <2>3. /\ DOMAIN users' = DOMAIN users
          /\ users'[u] = [password |-> w, hash |-> w]
          /\ \A x \in DOMAIN users : x # u => users'[x] = users[x]
      BY <2>1, SetPasswordTyped
    <2>4. users'[u].hash # NULL
      BY <2>3, NullIsNoPassword
    <2> QED BY <2>2, <2>3, <2>4
  <1>5. CASE SavePlain
    <2>1. users # << >> /\ users' # << >>
      BY <1>0, <1>5, SavePlainTyped
    <2> QED BY <1>5, <2>1, SavePlainTyped
  <1> QED BY <1>1, <1>2, <1>3, <1>4, <1>5, UsersAfter

(* A process gets past the migrations with the ledger full, and opens the  *)
(* file with a user in it.                                                 *)
LEMMA OpensMigratedStep ==
  ASSUME TypeOK, Progress, OpensMigrated, [Next]_vars
  PROVE  OpensMigrated'
  <1> DEFINE Past(q) == pc[q] \in {"count", "open", "write"} \cup Bootstrapping
             Open(q) == pc[q] \in {"open", "write"}
  <1> SUFFICES ASSUME NEW q \in Procs
               PROVE  /\ Past(q)' => ledger' = Versions
                      /\ Open(q)' => users' # << >>
    BY DEF OpensMigrated, Bootstrapping
  <1>0. /\ pc \in [Procs -> Places] /\ next[q] \in 1..5
        /\ ledger \subseteq ledger' /\ ledger' \subseteq Versions
        /\ users # << >> => users' # << >>
        /\ Past(q) => ledger = Versions
        /\ Open(q) => users # << >>
        /\ \A v \in Versions : v < next[q] => v \in ledger
    <2>1. ledger' \subseteq ledger \cup {next[p] : p \in {p \in Procs : Apply(p)}}
      BY LedgerGrows
    <2>2. \A p \in Procs : Apply(p) => next[p] \in Versions
      BY DEF Apply, Progress
    <2> QED BY <2>1, <2>2, LedgerGrows, UsersStay
            DEF TypeOK, Progress, OpensMigrated, Bootstrapping
  <1>1. CASE pc'[q] = pc[q]
    BY <1>0, <1>1
  <1>2. CASE Check(q)
    <2>1. CASE next[q] \in Versions
      <3>1. pc'[q] \in {"check", "apply"}
        BY <1>0, <1>2, <2>1 DEF Check, Goto
      <3> QED BY <3>1 DEF Bootstrapping
    <2>2. CASE next[q] \notin Versions
      <3>1. pc'[q] = "count"
        BY <1>0, <1>2, <2>2 DEF Check, Goto
      <3>2. next[q] = 5
        BY <1>0, <2>2 DEF Versions
      <3> QED BY <1>0, <3>1, <3>2 DEF Versions
    <2> QED BY <2>1, <2>2
  <1>3. CASE Count(q)
    <2>1. Past(q) /\ users' = users /\ (Open(q)' => users # << >>)
      BY <1>0, <1>3 DEF Count, Goto, file
    <2> QED BY <1>0, <2>1
  <1>4. CASE BootstrapPort(q) \/ CreatePort(q)
    <2>1. Past(q) /\ pc'[q] \in {"portrow", "user"}
      BY <1>0, <1>4 DEF BootstrapPort, CreatePort, Goto, Bootstrapping
    <2> QED BY <1>0, <2>1
  <1>5. CASE CreateUser(q)
    <2>1. Past(q) /\ users' # << >>
      <3>1. \E w \in Passwords : users' = Append(users, User(w, w))
                                 /\ chosen' = Append(chosen, w)
        BY <1>5 DEF CreateUser
      <3> QED BY <1>5, <3>1, CreateUserTyped DEF CreateUser, Bootstrapping
    <2> QED BY <1>0, <2>1
  <1>6. CASE FirstUser(q)
    <2>1. Past(q) /\ Open(q)
      BY <1>6 DEF FirstUser
    <2> QED BY <1>0, <2>1
  <1>7. CASE Start(q) \/ Need(q) \/ BackUp(q) \/ CreateLedger(q) \/ Apply(q)
             \/ Refused(q) \/ UpdateFirstUser(q) \/ OtherJob(q) \/ Die(q)
    <2>1. pc'[q] \in {"off", "need", "copy", "ledger", "check"}
      BY <1>0, <1>7 DEF Start, Need, BackUp, CreateLedger, Apply, Refused,
         UpdateFirstUser, OtherJob, Die, Ends, Goto
    <2> QED BY <2>1 DEF Bootstrapping
  <1> QED BY <1>1, <1>2, <1>3, <1>4, <1>5, <1>6, <1>7, PlaceAfter DEF InitDB, Command

-----------------------------------------------------------------------------
(* The backup. *)

LEMMA BackupsGrow ==
  ASSUME [Next]_vars
  PROVE  backups \subseteq backups'
  <1> USE DEF file, local, past, vars
  <1>1. ASSUME NEW p \in Procs, Start(p) \/ InitDB(p) \/ Command(p) \/ Die(p)
        PROVE  backups \subseteq backups'
    BY <1>1 DEF Start, InitDB, Command, Die, Need, BackUp, CreateLedger, Check,
       Apply, Refused, Count, BootstrapPort, CreatePort, CreateUser, FirstUser,
       UpdateFirstUser, OtherJob
  <1>2. ASSUME Serve \/ OutsiderCommits \/ UNCHANGED vars PROVE backups' = backups
    BY <1>2 DEF Serve, SavePlain, UpdateUser, Verify, OutsiderCommits
  <1> QED BY <1>1, <1>2 DEF Next

(* A whole copy has every version still to be migrated ahead of it. *)
LEMMA WholeCopyCovers ==
  ASSUME NEW p \in Procs, BackUp(p), ~torn[p]
  PROVE  Covered'
  <1> DEFINE b == [ledger |-> ledger, whole |-> ~torn[p]]
  <1>1. b \in backups' /\ b.whole /\ b.ledger = ledger /\ ledger' = ledger
    BY DEF BackUp, file
  <1> QED BY <1>1 DEF Covered, BackedUp

(* Only a whole copy makes up for an outsider's commit. *)
LEMMA IntrudedStays ==
  ASSUME [Next]_vars, intruded
  PROVE  intruded' \/ \E p \in Procs : BackUp(p) /\ ~torn[p]
  <1> USE DEF file, local, past, vars
  <1>1. ASSUME NEW p \in Procs, BackUp(p) PROVE intruded' \/ ~torn[p]
    BY <1>1 DEF BackUp
  <1>2. ASSUME NEW p \in Procs,
               \/ Start(p) \/ Need(p) \/ CreateLedger(p) \/ Check(p) \/ Apply(p)
               \/ Refused(p) \/ Count(p) \/ BootstrapPort(p) \/ CreatePort(p)
               \/ CreateUser(p) \/ Command(p) \/ Die(p)
        PROVE  intruded'
    BY <1>2 DEF Start, Command, Die, Need, CreateLedger, Check, Apply, Refused,
       Count, BootstrapPort, CreatePort, CreateUser, FirstUser, UpdateFirstUser,
       OtherJob
  <1>3. ASSUME Serve \/ OutsiderCommits \/ UNCHANGED vars PROVE intruded'
    BY <1>3 DEF Serve, SavePlain, UpdateUser, Verify, OutsiderCommits
  <1> QED BY <1>1, <1>2, <1>3 DEF Next, InitDB

LEMMA CoveredStays ==
  ASSUME TypeOK, Progress, [Next]_vars, Covered
  PROVE  Covered'
  <1>1. CASE intruded
    BY <1>1, IntrudedStays, WholeCopyCovers DEF Covered
  <1>2. CASE ~intruded
    BY <1>2, BackupsGrow, LedgerGrows DEF Covered, BackedUp
  <1> QED BY <1>1, <1>2

(* Whoever commits has a file whose missing versions are backed up, or is  *)
(* an outsider.                                                            *)
LEMMA TornIsCovered ==
  ASSUME TypeOK, OpensMigrated, KnowsCovered, LoginIsOpen, [Next]_vars,
         NEW q \in Procs, torn'[q]
  PROVE  Covered \/ intruded'
  <1> USE DEF file, local, past, vars
  <1>0. /\ torn \in [Procs -> BOOLEAN] /\ ledger \subseteq Versions
        /\ torn[q] => Covered
        /\ ledger = Versions => Covered
        /\ \A p \in Procs : pc[p] \in {"ledger", "check", "apply"} => Covered
        /\ \A p \in Procs : pc[p] \in {"count", "open", "write"} \cup Bootstrapping
                            => ledger = Versions
    BY DEF TypeOK, KnowsCovered, OpensMigrated, Covered
  <1>1. CASE torn' = torn
    BY <1>0, <1>1
  <1>2. ASSUME NEW p \in Procs, CreateLedger(p) \/ Apply(p) PROVE Covered
    BY <1>0, <1>2 DEF CreateLedger, Apply
  <1>3. ASSUME NEW p \in Procs, CreatePort(p) \/ CreateUser(p) \/ UpdateFirstUser(p)
        PROVE  Covered
    BY <1>0, <1>3 DEF CreatePort, CreateUser, UpdateFirstUser, Bootstrapping
  <1>4. ASSUME NEW u \in DOMAIN users, UpdateUser(u) PROVE Covered
    BY <1>0, <1>4 DEF UpdateUser, Procs
  <1>5. CASE SavePlain
    BY <1>0, <1>5 DEF SavePlain, LoginIsOpen, Procs
  <1>6. ASSUME NEW p \in Procs, BackUp(p) \/ Die(p) PROVE Covered
    <2>1. torn' = [torn EXCEPT ![p] = FALSE]
      BY <1>6 DEF BackUp, Die
    <2> QED BY <1>0, <2>1
  <1>7. ASSUME NEW p \in Procs,
               \/ Start(p) \/ Need(p) \/ Check(p) \/ Refused(p) \/ Count(p)
               \/ BootstrapPort(p) \/ FirstUser(p) \/ OtherJob(p)
        PROVE  torn' = torn
    BY <1>7 DEF Start, Need, Check, Refused, Count, BootstrapPort, FirstUser,
       OtherJob
  <1>8. ASSUME NEW u \in DOMAIN users, Verify(u) PROVE torn' = torn
    BY <1>8 DEF Verify
  <1>9. ASSUME OutsiderCommits PROVE intruded'
    BY <1>9 DEF OutsiderCommits
  <1> QED BY <1>1, <1>2, <1>3, <1>4, <1>5, <1>6, <1>7, <1>8, <1>9
          DEF Next, InitDB, Command, Serve

LEMMA KnowsCoveredStep ==
  ASSUME TypeOK, Progress, OpensMigrated, KnowsCovered, LoginIsOpen, [Next]_vars
  PROVE  KnowsCovered'
  <1> SUFFICES ASSUME NEW q \in Procs, pc'[q] \in {"ledger", "check", "apply"}
               PROVE  Covered'
    <2>1. \A p \in Procs : torn'[p] => Covered'
      <3>1. intruded' => Covered'
        BY DEF Covered
      <3> QED BY <3>1, TornIsCovered, CoveredStays
    <2> QED BY <2>1 DEF KnowsCovered
  <1> USE DEF file, local, past, vars
  <1>0. /\ pc \in [Procs -> Places]
        /\ pc[q] \in {"ledger", "check", "apply"} => Covered
    BY DEF TypeOK, KnowsCovered
  <1>1. CASE pc'[q] = pc[q]
    BY <1>0, <1>1, CoveredStays
  <1>2. CASE Need(q)
    <2>1. ledger = Versions
      BY <1>0, <1>2 DEF Need, Goto, needsMigration
    <2> QED BY <2>1, CoveredStays DEF Covered
  <1>3. CASE BackUp(q)
    <2>1. CASE torn[q]
      BY <2>1, CoveredStays DEF KnowsCovered
    <2>2. CASE ~torn[q]
      BY <1>3, <2>2, WholeCopyCovers
    <2> QED BY <2>1, <2>2
  <1>4. CASE CreateLedger(q) \/ Check(q) \/ Apply(q)
    BY <1>0, <1>4, CoveredStays DEF CreateLedger, Check, Apply
  <1>5. CASE \/ Start(q) \/ Refused(q) \/ Count(q) \/ BootstrapPort(q)
             \/ CreatePort(q) \/ CreateUser(q) \/ FirstUser(q)
             \/ UpdateFirstUser(q) \/ OtherJob(q) \/ Die(q)
    BY <1>0, <1>5 DEF Start, Refused, Count, BootstrapPort, CreatePort, CreateUser,
       FirstUser, UpdateFirstUser, OtherJob, Die, Ends, Goto
  <1> QED BY <1>1, <1>2, <1>3, <1>4, <1>5, PlaceAfter DEF InitDB, Command

LEMMA AppliedIsBackedUp ==
  ASSUME TypeOK, Progress, KnowsCovered, [Next]_vars,
         NEW v \in Versions, v \in ledger' \ ledger
  PROVE  BackedUp(v) \/ intruded
  <1>1. PICK p \in Procs : Apply(p) /\ v = next[p]
    BY LedgerGrows
  <1> QED BY <1>1 DEF Apply, KnowsCovered, Covered

-----------------------------------------------------------------------------
(* The inbounds. *)

LEMMA InboundsMove ==
  ASSUME TypeOK, Progress, ClientsInOnePlace, [Next]_vars, NEW i \in Inbounds
  PROVE  /\ ~(inbounds'[i].embedded /\ inbounds'[i].rows > 0)
         /\ inbounds'[i].embedded => inbounds[i].embedded
         /\ inbounds[i].decryption => inbounds'[i].decryption
         /\ inbounds[i].embedded \/ inbounds[i].rows > 0
              => inbounds'[i].embedded \/ inbounds'[i].rows > 0
         /\ 2 \in ledger' \ ledger => ~inbounds'[i].embedded
         /\ 3 \in ledger' \ ledger => inbounds'[i].decryption
  <1> USE DEF file, local, past, vars
  <1>0. ~(inbounds[i].embedded /\ inbounds[i].rows > 0)
    BY DEF ClientsInOnePlace
  <1>1. CASE \E p \in Procs : Apply(p)
    <2>1. PICK p \in Procs : Apply(p)
      BY <1>1
    <2>2. next[p] \in Versions /\ RunMigration(next[p])
          /\ ledger' = ledger \cup {next[p]}
      BY <2>1 DEF Apply, Progress
    <2>3. CASE next[p] = 2
      <3>1. inbounds[i] \in Clients /\ inbounds'[i] = Split(inbounds[i])
        BY <2>2, <2>3, InboundsAfter DEF Clients
      <3> QED BY <1>0, <2>2, <2>3, <3>1, SplitInbound DEF Clients
    <2>4. CASE next[p] = 3
      <3>1. inbounds[i] \in Clients /\ inbounds'[i] = Decrypted(inbounds[i])
        BY <2>2, <2>4, InboundsAfter DEF Clients
      <3> QED BY <1>0, <2>2, <2>4, <3>1, DecryptedInbound DEF Clients
    <2>5. CASE next[p] \notin {2, 3}
      <3>1. inbounds'[i] = inbounds[i]
        BY <2>2, <2>5, InboundsAfter
      <3> QED BY <1>0, <2>2, <2>5, <3>1
    <2> QED BY <2>3, <2>4, <2>5
  <1>2. CASE ~\E p \in Procs : Apply(p)
    <2>1. ASSUME NEW p \in Procs, Start(p) \/ InitDB(p) \/ Command(p) \/ Die(p)
          PROVE  inbounds' = inbounds
      BY <1>2, <2>1 DEF Start, InitDB, Command, Die, Need, BackUp, CreateLedger,
         Check, Refused, Count, BootstrapPort, CreatePort, CreateUser, FirstUser,
         UpdateFirstUser, OtherJob
    <2>2. ASSUME Serve \/ OutsiderCommits \/ UNCHANGED vars PROVE inbounds' = inbounds
      BY <2>2 DEF Serve, SavePlain, UpdateUser, Verify, OutsiderCommits
    <2>3. inbounds' = inbounds
      BY <2>1, <2>2 DEF Next
    <2>4. ledger' \ ledger = {}
      BY <1>2, LedgerGrows
    <2> QED BY <1>0, <2>3, <2>4
  <1> QED BY <1>1, <1>2

LEMMA ClientsStep ==
  ASSUME TypeOK, Progress, ClientsInOnePlace, [Next]_vars
  PROVE  /\ ClientsInOnePlace'
         /\ \A i \in Inbounds : HasClients(i) => HasClients(i)'
  BY InboundsMove DEF ClientsInOnePlace, HasClients

(* The password a user without a hash has is in the plain column, so the   *)
(* first migration leaves nobody without one.                              *)
LEMMA EverybodyHashed ==
  ASSUME TypeOK, Progress, OpensMigrated, LoginHolds, [Next]_vars,
         1 \in ledger' \ ledger
  PROVE  \A u \in DOMAIN users' : users'[u].hash # NULL
  <1>1. PICK p \in Procs : Apply(p) /\ next[p] = 1
    BY LedgerGrows DEF Versions
  <1>2. users' = [u \in DOMAIN users |-> Hashed(users[u])]
    BY <1>1 DEF Apply, RunMigration
  <1>3. chosen \in Seq(Passwords) /\ DOMAIN chosen = DOMAIN users
    BY DEF TypeOK
  <1>4. ASSUME NEW u \in DOMAIN users PROVE Hashed(users[u]).hash # NULL
    <2>1. users[u] \in Row
      BY <1>2, HashedUsers
    <2>2. chosen[u] \in Passwords
      BY <1>3
    <2>3. users[u].hash = NULL => users[u].password = chosen[u]
      BY DEF LoginHolds
    <2> QED BY <2>1, <2>2, <2>3, HashedRow, NullIsNoPassword
  <1> QED BY <1>2, <1>4

LEMMA LedgerIsTrueStep ==
  ASSUME TypeOK, Progress, OpensMigrated, LedgerIsTrue, ClientsInOnePlace,
         LoginHolds, [Next]_vars
  PROVE  LedgerIsTrue'
  <1>1. ASSUME 1 \in ledger' PROVE \A u \in DOMAIN users' : users'[u].hash # NULL
    <2>1. CASE 1 \in ledger
      BY <2>1, UsersStay DEF LedgerIsTrue
    <2>2. CASE 1 \notin ledger
      BY <1>1, <2>2, EverybodyHashed
    <2> QED BY <2>1, <2>2
  <1>2. ASSUME 2 \in ledger' PROVE \A i \in Inbounds : ~inbounds'[i].embedded
    BY <1>2, InboundsMove DEF LedgerIsTrue
  <1>3. ASSUME 3 \in ledger' PROVE \A i \in Inbounds : inbounds'[i].decryption
    BY <1>3, InboundsMove DEF LedgerIsTrue
  <1> QED BY <1>1, <1>2, <1>3 DEF LedgerIsTrue

-----------------------------------------------------------------------------
(* Passwords. *)

LEMMA LoginIsOpenStep ==
  ASSUME TypeOK, Progress, OpensMigrated, LoginIsOpen, [Next]_vars
  PROVE  LoginIsOpen'
  <1> SUFFICES ASSUME login' # NULL
               PROVE  pc'[Panel] = "open" /\ users'[login'.user].hash # NULL
    BY DEF LoginIsOpen
  <1> USE DEF file, local, past, vars
  <1>0. /\ pc \in [Procs -> Places] /\ Panel \in Procs /\ Panel \notin Commands
        /\ login # NULL => login.user \in DOMAIN users
    BY DatabaseAssumption DEF TypeOK, Procs
  <1>1. CASE login' = login
    <2>1. users'[login.user].hash # NULL /\ pc[Panel] = "open"
      BY <1>0, <1>1, UsersStay DEF LoginIsOpen
    <2>2. ~Die(Panel)
      BY <1>1 DEF Die
    <2>3. ~(Start(Panel) \/ InitDB(Panel) \/ Command(Panel))
      BY <1>0, <2>1 DEF Start, InitDB, Command, Need, BackUp, CreateLedger, Check,
         Apply, Refused, Count, BootstrapPort, CreatePort, CreateUser, FirstUser,
         UpdateFirstUser, OtherJob
    <2>4. pc'[Panel] = pc[Panel]
      BY <1>0, <2>2, <2>3, PlaceAfter
    <2> QED BY <1>1, <2>1, <2>4
  <1>2. ASSUME NEW u \in DOMAIN users, Verify(u)
        PROVE  pc'[Panel] = "open" /\ users'[login'.user].hash # NULL
    BY <1>2 DEF Verify
  <1>3. ASSUME NEW p \in Procs, Start(p) \/ InitDB(p) \/ Command(p) \/ Die(p)
        PROVE  login' = login
    BY <1>3 DEF Start, InitDB, Command, Die, Need, BackUp, CreateLedger, Check,
       Apply, Refused, Count, BootstrapPort, CreatePort, CreateUser, FirstUser,
       UpdateFirstUser, OtherJob
  <1>4. ASSUME NEW u \in DOMAIN users, UpdateUser(u) PROVE login' = login
    BY <1>4 DEF UpdateUser
  <1>5. ~SavePlain
    BY DEF SavePlain
  <1>6. ASSUME OutsiderCommits PROVE login' = login
    BY <1>6 DEF OutsiderCommits
  <1> QED BY <1>1, <1>2, <1>3, <1>4, <1>5, <1>6 DEF Next, Serve

LEMMA PasswordsStep ==
  ASSUME TypeOK, Progress, OpensMigrated, LoginIsOpen, LoginHolds, ShownLogsIn,
         [Next]_vars
  PROVE  LoginHolds' /\ ShownLogsIn'
  <1> USE DEF file, local, past, vars
  <1> DEFINE Logs(u) == chosen[u] = IF users[u].hash # NULL THEN users[u].hash
                                    ELSE users[u].password
             Shows(u) == u \notin overtaken => users[u].password \in {NULL, chosen[u]}
  <1>0. /\ \A u \in DOMAIN users : Logs(u) /\ Shows(u)
        /\ chosen \in Seq(Passwords) /\ DOMAIN chosen = DOMAIN users
        /\ users \in Seq(Row)
        /\ \A u \in DOMAIN users : users[u] \in Row /\ chosen[u] \in Passwords
    <2>1. chosen \in Seq(Passwords) /\ DOMAIN chosen = DOMAIN users
          /\ users \in Seq(Row)
      BY DEF TypeOK, Row
    <2> QED BY <2>1 DEF LoginHolds, ShownLogsIn
  <1> SUFFICES ASSUME NEW u \in DOMAIN users' PROVE Logs(u)' /\ Shows(u)'
    BY DEF LoginHolds, ShownLogsIn
  <1>1. CASE users' = users /\ chosen' = chosen /\ overtaken' = overtaken
    BY <1>0, <1>1
  <1>2. CASE \E p \in Procs : Apply(p) /\ next[p] = 1
    <2>1. /\ users' = [x \in DOMAIN users |-> Hashed(users[x])]
          /\ chosen' = chosen /\ overtaken' = overtaken
      BY <1>2 DEF Apply, RunMigration
    <2>2. u \in DOMAIN users /\ users'[u] = Hashed(users[u])
      BY <2>1
    <2>3. users[u].hash # NULL => users'[u] = users[u]
      BY <1>0, <2>2, HashedRow
    <2>4. users[u].hash = NULL => users'[u].hash = users[u].password
                                  /\ users'[u].password = users[u].password
      BY <1>0, <2>2, HashedRow
    <2> QED BY <1>0, <2>1, <2>2, <2>3, <2>4, NullIsNoPassword
  <1>3. CASE \E p \in Procs : CreateUser(p)
    <2>1. PICK w \in Passwords : users' = Append(users, User(w, w))
                                 /\ chosen' = Append(chosen, w)
      BY <1>3 DEF CreateUser
    <2>2. overtaken' = overtaken
      BY <1>3 DEF CreateUser
    <2>3. CASE u \in DOMAIN users
      <3>1. users'[u] = users[u] /\ chosen'[u] = chosen[u]
        BY <2>1, <2>3, CreateUserTyped
      <3> QED BY <1>0, <2>2, <2>3, <3>1
    <2>4. CASE u \notin DOMAIN users
      <3>1. users'[u] = User(w, w) /\ chosen'[u] = w
        BY <2>1, <2>4, CreateUserTyped
      <3> QED BY <3>1, NullIsNoPassword DEF User
    <2> QED BY <2>3, <2>4
  <1>4. CASE \E x \in DOMAIN users, w \in Passwords : SetPassword(x, w)
    <2>1. PICK x \in DOMAIN users, w \in Passwords : SetPassword(x, w)
      BY <1>4
    <2>2. overtaken' = overtaken \ {x}
      BY <2>1 DEF SetPassword
    <2>3. CASE u = x
      <3>1. users'[u] = [password |-> w, hash |-> w] /\ chosen'[u] = w
        BY <2>1, <2>3, SetPasswordTyped
      <3> QED BY <3>1, NullIsNoPassword
    <2>4. CASE u # x
      <3>1. u \in DOMAIN users /\ users'[u] = users[u] /\ chosen'[u] = chosen[u]
        BY <2>1, <2>4, SetPasswordTyped
      <3> QED BY <1>0, <2>2, <2>4, <3>1
    <2> QED BY <2>3, <2>4
  <1>5. CASE SavePlain
    <2>1. /\ login.user \in DOMAIN users /\ DOMAIN users' = DOMAIN users
          /\ users'[login.user].password = login.password
          /\ users'[login.user].hash = users[login.user].hash
          /\ \A x \in DOMAIN users : x # login.user => users'[x] = users[x]
      BY <1>5, SavePlainTyped
    <2>2. chosen' = chosen /\ users[login.user].hash # NULL
      BY <1>5 DEF SavePlain, LoginIsOpen
    <2>3. CASE u = login.user
      <3>1. login.user \notin overtaken' => users[login.user].hash = login.password
        BY <1>5 DEF SavePlain
      <3> QED BY <1>0, <2>1, <2>2, <2>3, <3>1
    <2>4. CASE u # login.user
      <3>1. u \in DOMAIN users /\ users'[u] = users[u]
        BY <2>1, <2>4
      <3>2. u \in overtaken' <=> u \in overtaken
        BY <1>5, <2>4 DEF SavePlain
      <3> QED BY <1>0, <2>2, <3>1, <3>2
    <2> QED BY <2>3, <2>4
  <1> QED BY <1>1, <1>2, <1>3, <1>4, <1>5, UsersAfter

-----------------------------------------------------------------------------
(* The bootstrap. *)

LEMMA HasPortStep ==
  ASSUME TypeOK, HasPort, [Next]_vars
  PROVE  HasPort'
  <1> SUFFICES ASSUME NEW q \in Procs, pc'[q] \in {"portrow", "user"}
               PROVE  mine'[q] \in Ports
    BY DEF HasPort
  <1>0. /\ pc \in [Procs -> Places] /\ mine \in [Procs -> Ports \cup {NULL}]
        /\ pc[q] \in {"portrow", "user"} => mine[q] \in Ports
    BY DEF TypeOK, HasPort
  <1>1. CASE pc'[q] = pc[q] /\ mine'[q] = mine[q]
    BY <1>0, <1>1
  <1>2. CASE BootstrapPort(q)
    <2>1. ports # << >> => Head(ports) \in Ports
      BY DEF TypeOK
    <2> QED BY <1>0, <1>2, <2>1 DEF BootstrapPort
  <1>3. CASE CreatePort(q)
    BY <1>0, <1>3 DEF CreatePort
  <1>4. CASE \/ Start(q) \/ Need(q) \/ BackUp(q) \/ CreateLedger(q) \/ Check(q)
             \/ Apply(q) \/ Refused(q) \/ Count(q) \/ CreateUser(q) \/ FirstUser(q)
             \/ UpdateFirstUser(q) \/ OtherJob(q) \/ Die(q)
    <2>1. pc'[q] \notin {"portrow", "user"}
      BY <1>0, <1>4 DEF Start, Need, BackUp, CreateLedger, Check, Apply, Refused,
         Count, CreateUser, FirstUser, UpdateFirstUser, OtherJob, Die, Ends, Goto
    <2> QED BY <2>1
  <1> QED BY <1>1, <1>2, <1>3, <1>4, PlaceAfter DEF InitDB, Command

(* Only CreateUser brings the first user, and only CreatePort a port. *)
LEMMA NobodyElseCreates ==
  ASSUME TypeOK, Progress, OpensMigrated, [Next]_vars
  PROVE  /\ users = << >> /\ (\A p \in Procs : ~CreateUser(p)) => users' = << >>
         /\ (\A p \in Procs : ~CreatePort(p)) => ports' = ports
  <1> USE DEF file, local, past, vars
  <1>1. ASSUME users = << >>, \A p \in Procs : ~CreateUser(p) PROVE users' = << >>
    <2>0. users \in Seq(Row)
      BY DEF TypeOK, Row
    <2>1. CASE \E p \in Procs : Apply(p) /\ next[p] = 1
      <3>1. users' = [x \in DOMAIN users |-> Hashed(users[x])]
        BY <2>1 DEF Apply, RunMigration
      <3>2. users' \in Seq(Row) /\ Len(users') = Len(users)
        BY <3>1, HashedUsers
      <3> QED BY <1>1, <2>0, <3>2
    <2>2. DOMAIN users = {}
      BY <1>1
    <2>3. ~SavePlain
      BY <2>2, SavePlainTyped
    <2> QED BY <1>1, <2>1, <2>2, <2>3, UsersAfter
  <1>2. ASSUME NEW p \in Procs, Start(p) \/ InitDB(p) \/ Command(p) \/ Die(p)
        PROVE  CreatePort(p) \/ ports' = ports
    BY <1>2 DEF Start, InitDB, Command, Die, Need, BackUp, CreateLedger, Check,
       Apply, Refused, Count, BootstrapPort, CreateUser, FirstUser,
       UpdateFirstUser, OtherJob
  <1>3. ASSUME Serve \/ OutsiderCommits \/ UNCHANGED vars PROVE ports' = ports
    BY <1>3 DEF Serve, SavePlain, UpdateUser, Verify, OutsiderCommits
  <1> QED BY <1>1, <1>2, <1>3 DEF Next

LEMMA OverlapStays ==
  ASSUME [Next]_vars, ~overlapped'
  PROVE  ~overlapped
  <1> USE DEF file, local, past, vars
  <1>1. ASSUME NEW p \in Procs, Start(p) \/ InitDB(p) \/ Command(p) \/ Die(p)
        PROVE  overlapped' = overlapped \/ Count(p)
    BY <1>1 DEF Start, InitDB, Command, Die, Need, BackUp, CreateLedger, Check,
       Apply, Refused, BootstrapPort, CreatePort, CreateUser, FirstUser,
       UpdateFirstUser, OtherJob
  <1>2. ASSUME Serve \/ OutsiderCommits \/ UNCHANGED vars PROVE overlapped' = overlapped
    BY <1>2 DEF Serve, SavePlain, UpdateUser, Verify, OutsiderCommits
  <1>3. ASSUME NEW p \in Procs, Count(p) PROVE ~overlapped
    BY <1>3 DEF Count
  <1> QED BY <1>1, <1>2, <1>3 DEF Next

(* Which steps bring a process into the bootstrap, or keep it there. *)
LEMMA BootstrapMoves ==
  ASSUME TypeOK, [Next]_vars, NEW q \in Procs, InBootstrap(q)'
  PROVE  \/ InBootstrap(q) /\ pc'[q] = pc[q] /\ mine'[q] = mine[q]
         \/ Count(q) /\ users = << >> /\ pc'[q] = "port"
         \/ BootstrapPort(q) /\ ports # << >> /\ pc'[q] = "user"
              /\ mine'[q] = Head(ports)
         \/ BootstrapPort(q) /\ ports = << >> /\ pc'[q] = "portrow"
         \/ CreatePort(q) /\ pc'[q] = "user" /\ mine'[q] = mine[q]
  <1>0. /\ pc \in [Procs -> Places] /\ mine \in [Procs -> Ports \cup {NULL}]
    BY DEF TypeOK
  <1>1. CASE pc'[q] = pc[q] /\ mine'[q] = mine[q]
    BY <1>1 DEF InBootstrap
  <1>2. CASE Count(q)
    BY <1>0, <1>2 DEF Count, Goto, InBootstrap, Bootstrapping
  <1>3. CASE BootstrapPort(q)
    BY <1>0, <1>3 DEF BootstrapPort, Goto
  <1>4. CASE CreatePort(q)
    BY <1>0, <1>4 DEF CreatePort, Goto
  <1>5. CASE \/ Start(q) \/ Need(q) \/ BackUp(q) \/ CreateLedger(q) \/ Check(q)
             \/ Apply(q) \/ Refused(q) \/ CreateUser(q) \/ FirstUser(q)
             \/ UpdateFirstUser(q) \/ OtherJob(q) \/ Die(q)
    <2>1. pc'[q] \notin Bootstrapping
      <3>1. CASE Check(q)
        BY <1>0, <3>1 DEF Check, Goto, Bootstrapping
      <3>2. CASE ~Check(q)
        BY <1>0, <1>5, <3>2 DEF Start, Need, BackUp, CreateLedger, Apply, Refused,
           CreateUser, FirstUser, UpdateFirstUser, OtherJob, Die, Ends, Goto,
           Bootstrapping
      <3> QED BY <3>1, <3>2
    <2> QED BY <2>1 DEF InBootstrap
  <1> QED BY <1>1, <1>2, <1>3, <1>4, <1>5, PlaceAfter DEF InitDB, Command

LEMMA CountAlone ==
  ASSUME NEW p \in Procs, Count(p), users = << >>, ~overlapped'
  PROVE  \A q \in Procs : InBootstrap(q) => q = p
  BY DEF Count

LEMMA BootstrapStep ==
  ASSUME TypeOK, Progress, OpensMigrated, BootstrapAlone, BootstrapOnce, [Next]_vars
  PROVE  BootstrapAlone' /\ BootstrapOnce'
  <1> USE DEF Bootstrapping
  <1> SUFFICES ASSUME ~overlapped'
               PROVE  /\ \A p, q \in Procs : InBootstrap(p)' /\ InBootstrap(q)' => p = q
                      /\ \A p \in Procs : pc'[p] = "portrow" => ports' = << >>
                      /\ Len(ports') <= 1
                      /\ \A p \in Procs : pc'[p] = "user" => ports' = <<mine'[p]>>
                      /\ \A p \in Procs : InBootstrap(p)' => users' = << >>
    BY DEF BootstrapAlone, BootstrapOnce
  <1>0. /\ \A p, q \in Procs : InBootstrap(p) /\ InBootstrap(q) => p = q
        /\ \A p \in Procs : pc[p] = "portrow" => ports = << >>
        /\ Len(ports) <= 1
        /\ \A p \in Procs : pc[p] = "user" => ports = <<mine[p]>>
        /\ \A p \in Procs : InBootstrap(p) => users = << >>
    BY OverlapStays DEF BootstrapAlone, BootstrapOnce
  <1>1. \A q \in Procs : InBootstrap(q)' => InBootstrap(q) \/ (Count(q) /\ users = << >>)
    <2>1. \A q \in Procs : BootstrapPort(q) \/ CreatePort(q) => InBootstrap(q)
      BY DEF BootstrapPort, CreatePort, InBootstrap
    <2> QED BY <2>1, BootstrapMoves
  <1>2. ASSUME NEW p \in Procs, NEW q \in Procs, InBootstrap(p)', InBootstrap(q)'
        PROVE  p = q
    <2>1. CASE InBootstrap(p) /\ InBootstrap(q)
      BY <1>0, <2>1
    <2>2. CASE Count(p) /\ users = << >>
      <3>1. Count(q) => p = q
        BY <1>2, <2>2 DEF Count, Goto, InBootstrap, TypeOK
      <3> QED BY <1>1, <1>2, <2>2, <3>1, CountAlone
    <2>3. CASE Count(q) /\ users = << >> /\ InBootstrap(p)
      BY <2>3, CountAlone
    <2> QED BY <1>1, <1>2, <2>1, <2>2, <2>3
  <1>3. ASSUME NEW p \in Procs, InBootstrap(p)' PROVE users' = << >>
    <2>1. users = << >>
      BY <1>0, <1>1, <1>3
    <2>2. ASSUME NEW q \in Procs, CreateUser(q) PROVE FALSE
      <3>1. InBootstrap(q) /\ pc'[q] = "open"
        BY <2>2 DEF CreateUser, InBootstrap, Goto, TypeOK
      <3>2. ~Count(p) \/ users # << >> \/ p = q
        BY <3>1, CountAlone
      <3>3. p = q
        BY <1>0, <1>1, <1>3, <3>1, <3>2
      <3> QED BY <1>3, <3>1, <3>3 DEF InBootstrap
    <2> QED BY <2>1, <2>2, NobodyElseCreates
  <1>4. CASE \E p \in Procs : CreatePort(p)
    <2>1. PICK p \in Procs : CreatePort(p)
      BY <1>4
    <2>2. /\ InBootstrap(p) /\ ports = << >> /\ ports' = Append(ports, mine[p])
          /\ pc'[p] = "user" /\ mine'[p] = mine[p]
      BY <1>0, <2>1 DEF CreatePort, InBootstrap, Goto, TypeOK
    <2>3. ports' = <<mine'[p]>> /\ Len(ports') <= 1
      BY <2>2
    <2>4. InBootstrap(p)'
      BY <2>2 DEF InBootstrap
    <2>5. \A q \in Procs : pc'[q] \in {"portrow", "user"} => q = p
      BY <1>2, <2>4 DEF InBootstrap
    <2> QED BY <1>2, <1>3, <2>2, <2>3, <2>5
  <1>5. CASE ~\E p \in Procs : CreatePort(p)
    <2>1. ports' = ports
      BY <1>5, NobodyElseCreates
    <2>2. ASSUME NEW p \in Procs, pc'[p] = "portrow" PROVE ports' = << >>
      <3>1. InBootstrap(p)'
        BY <2>2 DEF InBootstrap
      <3> QED BY <1>0, <2>1, <2>2, <3>1, BootstrapMoves
    <2>3. ASSUME NEW p \in Procs, pc'[p] = "user" PROVE ports' = <<mine'[p]>>
      <3>1. InBootstrap(p)'
        BY <2>3 DEF InBootstrap
      <3>2. ports # << >> => ports = <<Head(ports)>>
        <4>1. ports \in Seq(Ports) /\ Len(ports) <= 1
          BY <1>0 DEF TypeOK
        <4>2. ports # << >> => Len(ports) = 1
          <5>1. Len(ports) \in Nat /\ ports = [i \in 1..Len(ports) |-> ports[i]]
            BY <4>1
          <5>2. Len(ports) = 0 => ports = << >>
            BY <4>1, <5>1
          <5> QED BY <4>1, <5>1, <5>2
        <4>3. Len(ports) = 1 => ports = <<ports[1]>>
          <5>1. ASSUME Len(ports) = 1 PROVE ports = [i \in 1..1 |-> ports[1]]
            BY <4>1, <5>1
          <5>2. <<ports[1]>> = [i \in 1..1 |-> ports[1]]
            OBVIOUS
          <5> QED BY <5>1, <5>2
        <4>4. Len(ports) = 1 => Head(ports) = ports[1]
          BY <4>1
        <4> QED BY <4>2, <4>3, <4>4
      <3> QED BY <1>0, <1>5, <2>1, <2>3, <3>1, <3>2, BootstrapMoves
    <2> QED BY <1>0, <1>2, <1>3, <2>1, <2>2, <2>3
  <1> QED BY <1>4, <1>5

-----------------------------------------------------------------------------
(* The invariant, and the theorems. *)

LEMMA InitInv == Init => Inv
  <1> SUFFICES ASSUME Init PROVE Inv
    OBVIOUS
  <1>1. TypeOK /\ FileTyped
    BY InitTypes
  <1>2. /\ pc = [p \in Procs |-> "off"] /\ next = [p \in Procs |-> 1]
        /\ torn = [p \in Procs |-> FALSE] /\ login = NULL
        /\ chosen = [u \in DOMAIN users |->
                       IF users[u].hash # NULL THEN users[u].hash
                                               ELSE users[u].password]
    BY DEF Init
  <1>3. Progress /\ OpensMigrated /\ KnowsCovered /\ HasPort /\ BootstrapAlone
    BY <1>2 DEF Progress, OpensMigrated, KnowsCovered, HasPort, BootstrapAlone,
       Bootstrapping, InBootstrap, Versions
  <1>4. LedgerIsTrue /\ ClientsInOnePlace
    BY <1>1 DEF FileTyped, LedgerIsTrue, ClientsInOnePlace
  <1>5. LoginIsOpen /\ LoginHolds
    BY <1>2 DEF LoginIsOpen, LoginHolds
  <1>6. ShownLogsIn
    BY <1>1, <1>2 DEF FileTyped, ShownLogsIn
  <1>7. BootstrapOnce
    BY <1>1, <1>2 DEF FileTyped, BootstrapOnce, InBootstrap, Bootstrapping
  <1> QED BY <1>1, <1>3, <1>4, <1>5, <1>6, <1>7 DEF Inv

LEMMA StepInv == Inv /\ [Next]_vars => Inv'
  <1> SUFFICES ASSUME Inv, [Next]_vars PROVE Inv'
    OBVIOUS
  <1>1. TypeOK'
    BY NextTypes DEF Inv
  <1>2. Progress' /\ OpensMigrated' /\ KnowsCovered'
    BY ProgressStep, OpensMigratedStep, KnowsCoveredStep DEF Inv
  <1>3. LedgerIsTrue' /\ ClientsInOnePlace'
    BY LedgerIsTrueStep, ClientsStep DEF Inv
  <1>4. LoginIsOpen' /\ LoginHolds' /\ ShownLogsIn'
    BY LoginIsOpenStep, PasswordsStep DEF Inv
  <1>5. HasPort' /\ BootstrapAlone' /\ BootstrapOnce'
    BY HasPortStep, BootstrapStep DEF Inv
  <1> QED BY <1>1, <1>2, <1>3, <1>4, <1>5 DEF Inv

LEMMA InvAlways == Spec => []Inv
  BY InitInv, StepInv, PTL DEF Spec

(* Every variable keeps its type, whatever dies and however the commands   *)
(* and the panel interleave.                                               *)
THEOREM DatabaseTypeOK == Spec => []TypeOK
  BY InvAlways, PTL DEF Inv

(* runMigrations: a version in schema_migrations is one whose data has     *)
(* been migrated, although the check is made outside the transaction.      *)
THEOREM LedgerTellsTheTruth == Spec => []LedgerIsTrue
  BY InvAlways, PTL DEF Inv

(* InitDB: who gets past it works on a migrated file with a user in it.    *)
THEOREM NobodyOpensUnmigrated == Spec => []OpensMigrated
  BY InvAlways, PTL DEF Inv

(* migrateInboundClients: an inbound's clients are in its settings or in   *)
(* rows of their own, never in both.                                       *)
THEOREM ClientsStayInOnePlace == Spec => []ClientsInOnePlace
  BY InvAlways, PTL DEF Inv

(* No step of any process loses an inbound's clients.                      *)
THEOREM NoClientsLost == Spec => ClientsKept
  <1>1. Inv /\ [Next]_vars =>
          [\A i \in Inbounds : HasClients(i) => HasClients(i)']_vars
    BY ClientsStep DEF Inv
  <1> QED BY <1>1, InvAlways, PTL DEF Spec, ClientsKept

(* backupDatabase: whatever dies and whoever migrates beside it, no        *)
(* version is applied before a whole copy of the file without it is on the *)
(* disk, unless a script has committed under a copy since the last whole   *)
(* one.                                                                    *)
THEOREM BackupComesFirst == Spec => BackedUpFirst
  <1>1. Inv /\ [Next]_vars =>
          [\A v \in Versions : v \in ledger' \ ledger => BackedUp(v) \/ intruded]_vars
    BY AppliedIsBackedUp DEF Inv
  <1> QED BY <1>1, InvAlways, PTL DEF Spec, BackedUpFirst

(* ensureBootstrapState: no second port and no second user, unless two     *)
(* processes bootstrap the same file at once.                              *)
THEOREM BootstrapsOnce == Spec => []BootstrapOnce
  BY InvAlways, PTL DEF Inv

(* UpdateUser, UpdateFirstUser, migratePasswordHash, CheckUserCredentials: *)
(* the password last set is the one that logs in.                          *)
THEOREM LastPasswordLogsIn == Spec => []LoginHolds
  BY InvAlways, PTL DEF Inv

(* CheckUserCredentials: the plain copy "x-ui info" shows is the password  *)
(* that logs in, unless a login has saved it after a change.               *)
THEOREM ShownPasswordLogsIn == Spec => []ShownLogsIn
  BY InvAlways, PTL DEF Inv
=============================================================================

------------------------- MODULE PanelSettingsProofs -------------------------
(***************************************************************************)
(* Proofs about PanelSettings, for any number of pages, handlers, keys and *)
(* failing statements: one row per key, and what pages show, save and      *)
(* leave alone.                                                            *)
(***************************************************************************)
EXTENDS PanelSettings, FiniteSetTheorems, WellFoundedInduction, TLAPS

Bounded == \E n \in Nat : \A r \in rows : r.id <= n

IdsUnique == \A r, s \in rows : r.id = s.id => r = s

StageShape ==
  \A w \in Writers : /\ stage[w] \in {"write", "insert"} => todo[w] # {}
                     /\ stage[w] = "insert" => w = Command
                     /\ todo[w] \subseteq begun[w]

OneRow == \A k \in AllKeys \ crossed : \A r, s \in RowsOf(k) : r = s

(* While nobody else saves its key, what a writer has read is still so.    *)
Knows ==
  \A w \in Writers : NextKey(w) \notin crossed =>
    /\ stage[w] = "insert" => RowsOf(NextKey(w)) = {}
    /\ stage[w] = "write" /\ seen[w] = None => RowsOf(NextKey(w)) = {}
    /\ stage[w] = "write" /\ seen[w] # None =>
         \E r \in RowsOf(NextKey(w)) : r.id = seen[w]

(* The id a writer has read may have come back as the row of another key:  *)
(* the writer has been told of that key, if it is one of its own.          *)
Stale ==
  \A w \in Writers : stage[w] = "write" =>
    \A r \in rows : r.id = seen[w] /\ r.key # NextKey(w) /\ r.key \in begun[w] =>
      r.key \in touched[w]

(* What a writer has saved so far is in force.                             *)
Saved ==
  \A w \in Writers : stage[w] \in {"read", "write"} /\ ~errs[w] =>
    \A k \in begun[w] \ (todo[w] \cup touched[w] \cup crossed) :
      Effective(k) = want[w][k]

(* What it has still to save and was not asked to change is in force.      *)
Pending ==
  \A w \in Writers : stage[w] \in {"read", "write"} =>
    \A k \in todo[w] \ (edited[w] \cup touched[w] \cup crossed) :
      Effective(k) = want[w][k]

Inv == /\ TypeOK /\ Bounded /\ IdsUnique /\ StageShape /\ OneRow /\ Knows
       /\ Stale /\ Saved /\ Pending /\ PageShowsWhatIsUsed

-----------------------------------------------------------------------------
(* Oldest and newest rows. *)

LEMMA LeastNat ==
  ASSUME NEW S \in SUBSET Nat, S # {}
  PROVE  \E m \in S : \A x \in S : m <= x
  <1>1. PICK m \in S : \A y \in S : ~ (<<y, m>> \in OpToRel(<, Nat))
    BY NatLessThanWellFounded, WFMin, Zenon
  <1>2. \A y \in S : y < m => <<y, m>> \in OpToRel(<, Nat)
    BY DEF OpToRel
  <1>3. \A y \in S : ~(y < m)
    BY <1>1, <1>2, Zenon
  <1> QED BY <1>3

LEMMA GreatestBelow ==
  ASSUME NEW n \in Nat, NEW S \in SUBSET (1..n), S # {}
  PROVE  \E m \in S : \A x \in S : x <= m
  <1> DEFINE D == {n - x : x \in S}
  <1>1. \A x \in S : n - x \in D /\ x \in 1..n
    OBVIOUS
  <1>2. \A x \in S : n - x \in Nat
    BY <1>1
  <1>3. D # {}
    BY <1>1
  <1>4. D \in SUBSET Nat
    BY <1>2
  <1>5. PICK d \in D : \A e \in D : d <= e
    BY <1>3, <1>4, LeastNat
  <1>6. PICK m \in S : d = n - m
    OBVIOUS
  <1>7. \A x \in S : n - m <= n - x
    BY <1>1, <1>5, <1>6
  <1>8. m \in 1..n /\ \A x \in S : x \in 1..n
    BY <1>1
  <1> HIDE DEF D
  <1>9. \A x \in S : x <= m
    BY <1>7, <1>8
  <1> QED BY <1>9

LEMMA OldestAndNewest ==
  ASSUME \A r \in rows : r.id \in Nat \ {0}, Bounded,
         NEW S \in SUBSET rows, S # {}
  PROVE  /\ Oldest(S) \in S /\ Newest(S) \in S
         /\ \A r \in S : r.id <= Newest(S).id
  <1> DEFINE I == {r.id : r \in S}
  <1>1. PICK n \in Nat : \A r \in rows : r.id <= n
    BY DEF Bounded
  <1>2. \A r \in S : r.id \in 1..n /\ r.id \in I
    BY <1>1
  <1>3. I \in SUBSET (1..n) /\ I \in SUBSET Nat /\ I # {}
    BY <1>2
  <1>4. PICK a \in I : \A x \in I : a <= x
    BY <1>3, LeastNat
  <1>5. PICK b \in I : \A x \in I : x <= b
    BY <1>3, GreatestBelow
  <1>6. PICK r \in S : r.id = a
    OBVIOUS
  <1>7. PICK s \in S : s.id = b
    OBVIOUS
  <1>8. \A x \in S : r.id <= x.id /\ x.id <= s.id
    BY <1>2, <1>4, <1>5, <1>6, <1>7
  <1>9. Oldest(S) \in S
    BY <1>8 DEF Oldest
  <1>10. Newest(S) \in S /\ \A x \in S : x.id <= Newest(S).id
    BY <1>8 DEF Newest
  <1> QED BY <1>9, <1>10

LEMMA RowTyped ==
  ASSUME TypeOK, NEW r \in rows
  PROVE  r.id \in Nat \ {0} /\ r.key \in AllKeys /\ r.value \in Values
  BY DEF TypeOK

(* A new id is one that no row has.                                        *)
LEMMA NewIdIsNew ==
  ASSUME TypeOK, Bounded
  PROVE  NewId \in Nat \ {0} /\ \A r \in rows : r.id < NewId
  <1>1. CASE rows = {}
    BY <1>1 DEF NewId
  <1>2. CASE rows # {}
    <2>1. Newest(rows) \in rows /\ \A r \in rows : r.id <= Newest(rows).id
      BY <1>2, RowTyped, OldestAndNewest
    <2>2. Newest(rows).id \in Nat /\ NewId = Newest(rows).id + 1
      BY <1>2, <2>1, RowTyped DEF NewId
    <2>3. \A r \in rows : r.id \in Nat
      BY RowTyped
    <2> QED BY <2>1, <2>2, <2>3
  <1> QED BY <1>1, <1>2

LEMMA LoadedTyped ==
  ASSUME TypeOK, Bounded
  PROVE  /\ Loaded \in [Keys -> Values]
         /\ \A k \in AllKeys : RowsOf(k) # {} => Oldest(RowsOf(k)) \in RowsOf(k)
  <1>1. \A k : RowsOf(k) \in SUBSET rows
    BY DEF RowsOf
  <1>2. \A k : RowsOf(k) # {} =>
          Oldest(RowsOf(k)) \in RowsOf(k) /\ Newest(RowsOf(k)) \in RowsOf(k)
    BY <1>1, RowTyped, OldestAndNewest
  <1>3. \A k : RowsOf(k) # {} => Newest(RowsOf(k)).value \in Values
    BY <1>1, <1>2, RowTyped
  <1>4. \A k \in Keys : Default[k] \in Values
    BY SettingsAssumption DEF AllKeys
  <1> QED BY <1>2, <1>3, <1>4 DEF Loaded

(* With one row of a key the two ways to read it agree. *)
LEMMA LoadedIsEffective ==
  ASSUME TypeOK, Bounded, OneRow, NEW k \in Keys \ crossed
  PROVE  Loaded[k] = Effective(k)
  <1>1. CASE RowsOf(k) = {}
    BY <1>1 DEF Loaded, Effective
  <1>2. CASE RowsOf(k) # {}
    <2>1. RowsOf(k) \in SUBSET rows /\ k \in AllKeys
      BY DEF RowsOf, AllKeys
    <2>2. Oldest(RowsOf(k)) = Newest(RowsOf(k))
      BY <1>2, <2>1, RowTyped, OldestAndNewest DEF OneRow
    <2> QED BY <1>2, <2>2 DEF Loaded, Effective
  <1> QED BY <1>1, <1>2

-----------------------------------------------------------------------------
(* Types. *)

LEMMA Parameters ==
  /\ MaxEvents \in Nat /\ Command \in Writers /\ Command \notin Requests
  /\ Default \in [AllKeys -> Values] /\ Requests \subseteq Writers
  /\ Keys \subseteq AllKeys /\ Hidden \subseteq AllKeys /\ Marks \subseteq Values
  /\ None \notin Nat /\ None \notin Pages
  /\ \A x \in Pages : x \notin Writers
  /\ \A w \in Writers : w # None
  BY SettingsAssumption DEF Writers, AllKeys

LEMMA NextKeyIn ==
  ASSUME NEW w \in Writers, todo[w] # {}
  PROVE  NextKey(w) \in todo[w]
  BY DEF NextKey

LEMMA WorkTyped ==
  ASSUME TypeOK, StageShape, NEW w \in Writers, stage[w] \in {"write", "insert"}
  PROVE  /\ NextKey(w) \in todo[w] /\ NextKey(w) \in AllKeys
         /\ NextKey(w) \in begun[w] /\ want[w][NextKey(w)] \in Values
  <1>1. NextKey(w) \in todo[w]
    BY NextKeyIn DEF StageShape
  <1> QED BY <1>1 DEF TypeOK, StageShape

LEMMA SameKey ==
  ASSUME NEW x, todo'[x] = todo[x]
  PROVE  NextKey(x)' = NextKey(x)
  BY DEF NextKey

LEMMA TellMeans ==
  ASSUME NEW w, NEW K, Tell(w, K), NEW x \in Pages \cup Writers
  PROVE  \A j : j \in touched'[x] <=>
           /\ j \in touched[x] \/ (j \in K /\ j \in Concerns(x))
           /\ ~(x = w /\ Saving(w, j))
  BY DEF Tell

LEMMA TellTyped ==
  ASSUME TypeOK, NEW w, NEW K \in SUBSET AllKeys, Tell(w, K)
  PROVE  touched' \in [Pages \cup Writers -> SUBSET AllKeys]
  BY DEF TypeOK, Tell

-----------------------------------------------------------------------------
(* What a statement does to the table.                                     *)

(* Write and InsertKey put one row; unless another writer was at the key,  *)
(* it takes the place of the row the key had.                              *)
Stores(w) == Write(w) \/ (w = Command /\ InsertKey)

PutsRow(w, k, id) ==
  /\ rows' = Put(id, k, want[w][k]) /\ id \in Nat \ {0}
  /\ Tell(w, Hit(id, k)) /\ crossed' = crossed \cup Met(w, Hit(id, k))
  /\ Knows /\ OneRow /\ k \notin crossed => \A r \in RowsOf(k) : r.id = id

LEMMA StoreIsPut ==
  ASSUME TypeOK, Bounded, StageShape, NEW w \in Writers, Stores(w), NEW k, k = NextKey(w)
  PROVE  /\ k \in AllKeys /\ k \in todo[w] /\ k \in begun[w] /\ Saving(w, k)
         /\ want[w][k] \in Values
         /\ \E id : PutsRow(w, k, id)
  <1>1. stage[w] \in {"write", "insert"}
    BY DEF Stores, Write, InsertKey
  <1>2. k \in AllKeys /\ k \in todo[w] /\ k \in begun[w] /\ Saving(w, k) /\ want[w][k] \in Values
    BY <1>1, WorkTyped DEF Saving
  <1>3. NewId \in Nat \ {0} /\ \A r \in rows : r.id # NewId
    BY NewIdIsNew, RowTyped
  <1>4. CASE Write(w) /\ seen[w] # None
    <2>1. Knows /\ OneRow /\ k \notin crossed => \A r \in RowsOf(k) : r.id = seen[w]
      BY <1>2, <1>4 DEF Knows, OneRow, Write
    <2>2. PutsRow(w, k, seen[w])
      BY <1>4, <2>1 DEF Write, Target, PutsRow, TypeOK
    <2> QED BY <1>2, <2>2
  <1>5. CASE Write(w) /\ seen[w] = None
    <2>1. Knows /\ k \notin crossed => RowsOf(k) = {}
      BY <1>5 DEF Knows, Write
    <2>2. PutsRow(w, k, NewId)
      BY <1>3, <1>5, <2>1 DEF Write, Target, PutsRow
    <2> QED BY <1>2, <2>2
  <1>6. CASE w = Command /\ InsertKey
    <2>1. Hit(NewId, k) = {k}
      BY <1>3 DEF Hit
    <2>2. Knows /\ k \notin crossed => RowsOf(k) = {}
      BY <1>6 DEF Knows, InsertKey
    <2>3. PutsRow(w, k, NewId)
      BY <1>3, <1>6, <2>1, <2>2 DEF InsertKey, PutsRow
    <2> QED BY <1>2, <2>3
  <1> QED BY <1>4, <1>5, <1>6 DEF Stores

LEMMA HitTyped ==
  ASSUME TypeOK, NEW id, NEW k \in AllKeys
  PROVE  k \in Hit(id, k) /\ Hit(id, k) \in SUBSET AllKeys
  BY RowTyped DEF Hit

LEMMA PutRows ==
  ASSUME TypeOK, Bounded, IdsUnique, NEW id \in Nat \ {0}, NEW k \in AllKeys,
         NEW v \in Values, rows' = Put(id, k, v)
  PROVE  /\ rows' \subseteq [id : Nat \ {0}, key : AllKeys, value : Values]
         /\ Bounded' /\ IdsUnique'
         /\ \A j \in AllKeys \ Hit(id, k) : RowsOf(j)' = RowsOf(j)
         /\ RowsOf(k)' = {r \in RowsOf(k) : r.id # id} \cup {[id |-> id, key |-> k, value |-> v]}
         /\ \A j \in AllKeys \ {k} : RowsOf(j)' \subseteq RowsOf(j)
         /\ \A r \in rows' \ rows : r.key = k
  <1> DEFINE n == [id |-> id, key |-> k, value |-> v]
  <1>1. rows' = {r \in rows : r.id # id} \cup {n}
    BY DEF Put
  <1>2. n.id = id /\ n.key = k /\ n \in [id : Nat \ {0}, key : AllKeys, value : Values]
    OBVIOUS
  <1>3. \A r \in rows : r \in [id : Nat \ {0}, key : AllKeys, value : Values]
    BY DEF TypeOK
  <1> HIDE DEF n
  <1>4. rows' \subseteq [id : Nat \ {0}, key : AllKeys, value : Values]
    BY <1>1, <1>2, <1>3
  <1>5. Bounded'
    <2>1. PICK m \in Nat : \A r \in rows : r.id <= m
      BY DEF Bounded
    <2>2. PICK b \in Nat : m <= b /\ id <= b
      <3>1. CASE m <= id
        BY <3>1
      <3>2. CASE id <= m
        BY <3>2
      <3> QED BY <3>1, <3>2
    <2>3. \A r \in rows' : r.id <= b
      BY <1>1, <1>2, <2>1, <2>2, RowTyped
    <2> QED BY <2>3 DEF Bounded
  <1>6. IdsUnique'
    BY <1>1, <1>2 DEF IdsUnique
  <1>7. \A j \in AllKeys \ Hit(id, k) : RowsOf(j)' = RowsOf(j)
    BY <1>1, <1>2 DEF RowsOf, Hit
  <1>8. RowsOf(k)' = {r \in RowsOf(k) : r.id # id} \cup {n}
    BY <1>1, <1>2 DEF RowsOf
  <1>9. \A j \in AllKeys \ {k} : RowsOf(j)' \subseteq RowsOf(j)
    BY <1>1, <1>2 DEF RowsOf
  <1>10. \A r \in rows' \ rows : r.key = k
    BY <1>1, <1>2
  <1> QED BY <1>4, <1>5, <1>6, <1>7, <1>8, <1>9, <1>10 DEF n

(* ResetSettings and DeleteKey empty the keys of a set.                    *)
Removes == ResetSettings \/ \E k \in Keys, v \in Values : DeleteKey(k, v)

Empties(K) ==
  /\ rows' = {r \in rows : r.key \notin K}
  /\ Tell(Command, K) /\ crossed' = (crossed \ K) \cup Met(Command, K)
  /\ stage[Command] = "idle" /\ page' = page
  /\ events' = events + 1 /\ events < MaxEvents

(* The certificate command has deleted a key and is to insert it.          *)
Replaces(k, v) ==
  /\ Begin(Command, "insert", {k}, [Default EXCEPT ![k] = v])
  /\ UNCHANGED <<from, seen, errs, edited>>

LEMMA RemovalStep ==
  ASSUME TypeOK, Removes
  PROVE  \E K \in SUBSET AllKeys :
           /\ Empties(K)
           /\ UNCHANGED work \/ \E k \in K, v \in Values : Replaces(k, v)
  <1>1. CASE ResetSettings
    <2>1. /\ rows' = {r \in rows : r.key \notin AllKeys}
          /\ crossed' = (crossed \ AllKeys) \cup Met(Command, AllKeys)
      BY <1>1, RowTyped DEF ResetSettings, TypeOK
    <2>2. Empties(AllKeys) /\ UNCHANGED work
      BY <1>1, <2>1 DEF ResetSettings, Idle, Event, Empties
    <2> QED BY <2>2
  <1>2. ASSUME NEW k \in Keys, NEW v \in Values, DeleteKey(k, v)
        PROVE  {k} \in SUBSET AllKeys /\ k \in {k} /\ Empties({k}) /\ Replaces(k, v)
    <2>1. rows' = {r \in rows : r.key \notin {k}}
      BY <1>2 DEF DeleteKey, RowsOf
    <2> QED BY <1>2, <2>1, Parameters
            DEF DeleteKey, Begin, Idle, Event, Empties, Replaces
  <1> QED BY <1>1, <1>2 DEF Removes

(* Steps that leave the table alone. *)
Looks == \/ \E p \in Pages : \/ Open(p)
                             \/ \E r \in Requests, form \in [Keys -> Values] : Submit(r, p, form)
         \/ \E w \in Writers : Find(w) \/ WriteFails(w) \/ Answer(w)
         \/ \E w \in Writers, k \in AllKeys, v \in Values : Sets(w, k, v)
         \/ UNCHANGED vars

LEMMA LookStep ==
  ASSUME Looks
  PROVE  /\ UNCHANGED <<rows, crossed>>
         /\ \A k : RowsOf(k)' = RowsOf(k) /\ Effective(k)' = Effective(k)
  <1>1. UNCHANGED <<rows, crossed>>
    BY DEF Looks, Open, Submit, Find, WriteFails, Answer, Sets, vars
  <1> QED BY <1>1 DEF RowsOf, Effective

LEMMA StepKinds ==
  ASSUME [Next]_vars
  PROVE  Looks \/ Removes \/ \E w \in Writers : Stores(w)
  <1>1. /\ Command \in Writers /\ Requests \subseteq Writers /\ Marks \subseteq Values
        /\ Keys \subseteq AllKeys /\ Hidden \subseteq AllKeys
    BY Parameters
  <1> QED BY <1>1 DEF Next, SaveStep, Looks, Removes, Stores

LEMMA RowsStep ==
  ASSUME TypeOK, Bounded, IdsUnique, StageShape, [Next]_vars
  PROVE  /\ rows' \subseteq [id : Nat \ {0}, key : AllKeys, value : Values]
         /\ Bounded' /\ IdsUnique'
  <1>1. CASE Looks
    BY <1>1, LookStep DEF TypeOK, Bounded, IdsUnique
  <1>2. CASE Removes
    <2>1. rows' \subseteq rows
      BY <1>2, RemovalStep DEF Empties
    <2> QED BY <2>1 DEF TypeOK, Bounded, IdsUnique
  <1>3. ASSUME NEW w \in Writers, Stores(w)
        PROVE  /\ rows' \subseteq [id : Nat \ {0}, key : AllKeys, value : Values]
               /\ Bounded' /\ IdsUnique'
    <2>1. PICK k : k = NextKey(w)
      OBVIOUS
    <2>2. k \in AllKeys /\ want[w][k] \in Values
      BY <1>3, <2>1, StoreIsPut
    <2>3. PICK id : PutsRow(w, k, id)
      BY <1>3, <2>1, StoreIsPut
    <2> QED BY <2>2, <2>3, PutRows DEF PutsRow
  <1> QED BY <1>1, <1>2, <1>3, StepKinds

LEMMA TypeStep ==
  ASSUME TypeOK, Bounded, IdsUnique, StageShape, [Next]_vars
  PROVE  TypeOK'
  <1> DEFINE Stages == {"idle", "read", "write", "insert"}
             Ids == (Nat \ {0}) \cup {None}
             Rest == /\ page \in [Pages -> [Keys -> Values]]
                     /\ from \in [Writers -> Pages \cup {None}]
                     /\ stage \in [Writers -> Stages]
                     /\ todo \in [Writers -> SUBSET AllKeys]
                     /\ want \in [Writers -> [AllKeys -> Values]]
                     /\ seen \in [Writers -> Ids]
                     /\ errs \in [Writers -> BOOLEAN]
                     /\ events \in 0..MaxEvents
                     /\ begun \in [Writers -> SUBSET AllKeys]
                     /\ edited \in [Writers -> SUBSET AllKeys]
                     /\ touched \in [Pages \cup Writers -> SUBSET AllKeys]
                     /\ crossed \subseteq AllKeys
  <1>a. Rest
    BY DEF TypeOK
  <1>b. rows' \subseteq [id : Nat \ {0}, key : AllKeys, value : Values]
    BY RowsStep
  <1>c. /\ MaxEvents \in Nat /\ Command \in Writers /\ Requests \subseteq Writers
        /\ Default \in [AllKeys -> Values] /\ Keys \subseteq AllKeys
        /\ {"idle", "read", "write", "insert"} = Stages /\ None \in Ids
    BY Parameters
  <1>d. Loaded \in [Keys -> Values]
    BY LoadedTyped
  <1>e. Event => events' \in 0..MaxEvents
    BY <1>a, <1>c DEF Event
  <1>f. Rest' => TypeOK'
    BY <1>b DEF TypeOK
  <1>g. "idle" \in Stages /\ "read" \in Stages /\ "write" \in Stages /\ "insert" \in Stages
    OBVIOUS
  <1>h. \A r \in rows : r.id \in Ids
    BY RowTyped
  <1> HIDE DEF Stages, Ids
  <1> SUFFICES Rest'
    BY <1>f
  <1>1. ASSUME NEW p \in Pages, Open(p)
        PROVE  Rest'
    BY <1>1, <1>a, <1>d, <1>e DEF Open, LoadPage
  <1>2. ASSUME NEW p \in Pages, NEW r \in Requests, NEW form \in [Keys -> Values],
               Submit(r, p, form)
        PROVE  Rest'
    <2>1. Sent(p, form) \in [AllKeys -> Values]
      BY <1>c DEF Sent
    <2>2. /\ touched[p] \in SUBSET AllKeys
          /\ {k \in Keys : form[k] # page[p][k]} \in SUBSET AllKeys
      BY <1>a, <1>c
    <2>3. stage' \in [Writers -> Stages] /\ todo' \in [Writers -> SUBSET AllKeys]
          /\ begun' \in [Writers -> SUBSET AllKeys] /\ want' \in [Writers -> [AllKeys -> Values]]
      BY <1>2, <1>a, <1>c, <1>g, <2>1 DEF Submit, Begin
    <2>4. touched' \in [Pages \cup Writers -> SUBSET AllKeys]
          /\ edited' \in [Writers -> SUBSET AllKeys] /\ from' \in [Writers -> Pages \cup {None}]
      BY <1>2, <1>a, <1>c, <2>2 DEF Submit
    <2> QED BY <1>2, <1>a, <1>e, <2>3, <2>4 DEF Submit, Begin
  <1>3. ASSUME NEW w \in Writers, Find(w)
        PROVE  Rest'
    <2>1. NextKey(w) \in AllKeys
      BY <1>3, <1>a, NextKeyIn DEF Find
    <2>2. RowsOf(NextKey(w)) # {} => Oldest(RowsOf(NextKey(w))) \in rows
      BY <2>1, LoadedTyped DEF RowsOf
    <2>3. seen' \in [Writers -> Ids]
      BY <1>3, <1>a, <1>c, <1>h, <2>2 DEF Find
    <2>4. stage' \in [Writers -> Stages]
      BY <1>3, <1>a, <1>g DEF Find
    <2> QED BY <1>3, <1>a, <2>3, <2>4 DEF Find
  <1>4. ASSUME NEW w \in Writers, Stores(w)
        PROVE  Rest'
    <2>1. PICK k : k = NextKey(w)
      OBVIOUS
    <2>2. k \in AllKeys
      BY <1>4, <2>1, StoreIsPut
    <2>3. PICK id : PutsRow(w, k, id)
      BY <1>4, <2>1, StoreIsPut
    <2>4. touched' \in [Pages \cup Writers -> SUBSET AllKeys] /\ crossed' \subseteq AllKeys
      BY <1>a, <2>2, <2>3, HitTyped, TellTyped DEF PutsRow, Met
    <2>5. CASE Write(w)
      BY <1>a, <1>c, <1>g, <2>4, <2>5 DEF Write
    <2>6. CASE w = Command /\ InsertKey
      BY <1>a, <1>c, <1>g, <2>4, <2>6 DEF InsertKey, Leave
    <2> QED BY <1>4, <2>5, <2>6 DEF Stores
  <1>5. ASSUME NEW w \in Writers, WriteFails(w)
        PROVE  Rest'
    BY <1>5, <1>a, <1>c, <1>e, <1>g DEF WriteFails, Failed
  <1>6. ASSUME NEW w \in Writers, Answer(w)
        PROVE  Rest'
    <2>1. page' \in [Pages -> [Keys -> Values]]
      BY <1>6, <1>a, <1>d DEF Answer, LoadPage
    <2>2. touched' \in [Pages \cup Writers -> SUBSET AllKeys]
      BY <1>6, <1>a DEF Answer
    <2>3. stage' \in [Writers -> Stages] /\ todo' \in [Writers -> SUBSET AllKeys]
          /\ begun' \in [Writers -> SUBSET AllKeys] /\ want' \in [Writers -> [AllKeys -> Values]]
      BY <1>6, <1>a, <1>c, <1>g DEF Answer, Leave
    <2>4. /\ errs' \in [Writers -> BOOLEAN] /\ edited' \in [Writers -> SUBSET AllKeys]
          /\ from' \in [Writers -> Pages \cup {None}]
      BY <1>6, <1>a DEF Answer
    <2> QED BY <1>6, <1>a, <2>1, <2>2, <2>3, <2>4 DEF Answer
  <1>7. ASSUME NEW w \in Writers, NEW k \in AllKeys, NEW v \in Values, Sets(w, k, v)
        PROVE  Rest'
    <2>1. [Default EXCEPT ![k] = v] \in [AllKeys -> Values]
      BY <1>c
    <2> QED BY <1>7, <1>a, <1>e, <1>g, <2>1 DEF Sets, Begin
  <1>8. CASE Removes
    <2>1. PICK K \in SUBSET AllKeys :
            Empties(K) /\ (UNCHANGED work \/ \E k \in K, v \in Values : Replaces(k, v))
      BY <1>8, RemovalStep
    <2>2. touched' \in [Pages \cup Writers -> SUBSET AllKeys] /\ crossed' \subseteq AllKeys
      BY <1>a, <2>1, TellTyped DEF Met, Empties
    <2>3. events' \in 0..MaxEvents /\ page' \in [Pages -> [Keys -> Values]]
      BY <1>a, <1>c, <2>1 DEF Empties
    <2>4. CASE UNCHANGED work
      <3>1. /\ from' = from /\ stage' = stage /\ todo' = todo /\ want' = want /\ seen' = seen
            /\ errs' = errs /\ begun' = begun /\ edited' = edited
        BY <2>4 DEF work
      <3> QED BY <1>a, <2>2, <2>3, <3>1
    <2>5. ASSUME NEW k \in K, NEW v \in Values, Replaces(k, v)
          PROVE  Rest'
      <3>1. [Default EXCEPT ![k] = v] \in [AllKeys -> Values] /\ {k} \in SUBSET AllKeys
        BY <1>c
      <3> QED BY <1>a, <1>c, <1>g, <2>2, <2>3, <2>5, <3>1 DEF Begin, Replaces
    <2> HIDE DEF Rest
    <2> QED BY <2>1, <2>4, <2>5
  <1>9. CASE UNCHANGED vars
    <2>1. /\ page' = page /\ events' = events /\ touched' = touched /\ crossed' = crossed
          /\ UNCHANGED work
      BY <1>9 DEF vars
    <2>2. /\ from' = from /\ stage' = stage /\ todo' = todo /\ want' = want /\ seen' = seen
          /\ errs' = errs /\ begun' = begun /\ edited' = edited
      BY <2>1 DEF work
    <2> QED BY <1>a, <2>1, <2>2
  <1> HIDE DEF Rest
  <1> QED BY <1>1, <1>2, <1>3, <1>4, <1>5, <1>6, <1>7, <1>8, <1>9, StepKinds DEF Looks

(* Unless another writer was at the key, its one row is the one just put.  *)
LEMMA StoreStep ==
  ASSUME Inv, NEW w \in Writers, Stores(w), NEW k, k = NextKey(w), k \notin crossed'
  PROVE  /\ \E r : RowsOf(k)' = {r}
         /\ Effective(k)' = want[w][k]
  <1>1. TypeOK /\ Bounded /\ IdsUnique /\ StageShape /\ Knows /\ OneRow
    BY DEF Inv
  <1>2. k \in AllKeys /\ want[w][k] \in Values
    BY <1>1, StoreIsPut
  <1>3. PICK id : PutsRow(w, k, id)
    BY <1>1, StoreIsPut
  <1> DEFINE n == [id |-> id, key |-> k, value |-> want[w][k]]
  <1>4. k \notin crossed /\ id \in Nat \ {0}
    BY <1>3 DEF PutsRow
  <1>5. RowsOf(k)' = {r \in RowsOf(k) : r.id # id} \cup {n}
    BY <1>1, <1>2, <1>3, PutRows DEF PutsRow
  <1>6. \A r \in RowsOf(k) : r.id = id
    BY <1>1, <1>3, <1>4 DEF PutsRow
  <1>7. RowsOf(k)' = {n}
    BY <1>5, <1>6
  <1>8. Oldest({n}) = n
    <2>1. n.id <= n.id
      BY <1>4
    <2> HIDE DEF n
    <2> QED BY <2>1 DEF Oldest
  <1>9. Effective(k)' = n.value
    BY <1>7, <1>8 DEF Effective
  <1> QED BY <1>7, <1>9

(* A key that x has not been told of keeps what is in force, but for the   *)
(* key that x itself has just written.                                     *)
LEMMA KeyStep ==
  ASSUME Inv, [Next]_vars, NEW x \in Pages \cup Writers, NEW j \in Concerns(x),
         j \in AllKeys, j \notin touched'[x], j \notin crossed'
  PROVE  \/ RowsOf(j)' = RowsOf(j) /\ Effective(j)' = Effective(j) /\ j \notin crossed
         \/ x \in Writers /\ Stores(x) /\ j = NextKey(x) /\ Effective(j)' = want[x][j]
  <1>0. TypeOK /\ Bounded /\ IdsUnique /\ StageShape
    BY DEF Inv
  <1>a. RowsOf(j)' = RowsOf(j) => Effective(j)' = Effective(j)
    BY DEF Effective
  <1>1. CASE Looks
    BY <1>1, LookStep
  <1>2. CASE Removes
    <2>1. PICK K \in SUBSET AllKeys : Empties(K)
      BY <1>0, <1>2, RemovalStep
    <2>2. ~Saving(Command, j)
      BY <2>1 DEF Empties, Saving
    <2>3. j \notin K
      BY <2>1, <2>2, TellMeans DEF Empties
    <2>4. RowsOf(j)' = RowsOf(j) /\ j \notin crossed
      BY <2>1, <2>3 DEF Empties, RowsOf
    <2> QED BY <1>a, <2>4
  <1>3. ASSUME NEW w \in Writers, Stores(w)
        PROVE  \/ RowsOf(j)' = RowsOf(j) /\ j \notin crossed
               \/ x = w /\ j = NextKey(w) /\ Effective(j)' = want[w][j]
    <2>1. PICK k : k = NextKey(w)
      OBVIOUS
    <2>2. k \in AllKeys /\ want[w][k] \in Values
      BY <1>0, <1>3, <2>1, StoreIsPut
    <2>3. PICK id : PutsRow(w, k, id)
      BY <1>0, <1>3, <2>1, StoreIsPut
    <2>4. CASE j \notin Hit(id, k)
      <3>1. RowsOf(j)' = RowsOf(j)
        BY <1>0, <2>2, <2>3, <2>4, PutRows DEF PutsRow
      <3> QED BY <2>3, <3>1 DEF PutsRow
    <2>5. CASE j \in Hit(id, k)
      <3>1. x = w /\ j = k
        BY <2>1, <2>3, <2>5, TellMeans DEF PutsRow, Saving
      <3> QED BY <1>3, <2>1, <3>1, StoreStep
    <2> QED BY <2>4, <2>5
  <1> QED BY <1>1, <1>2, <1>3, <1>a, StepKinds

-----------------------------------------------------------------------------
(* Who steps. *)

SameWork(x) ==
  /\ stage'[x] = stage[x] /\ todo'[x] = todo[x] /\ want'[x] = want[x]
  /\ seen'[x] = seen[x] /\ errs'[x] = errs[x] /\ begun'[x] = begun[x]
  /\ edited'[x] = edited[x] /\ touched[x] \subseteq touched'[x]

Begins(x) ==
  \/ \E p \in Pages, form \in [Keys -> Values] : x \in Requests /\ Submit(x, p, form)
  \/ \E k \in AllKeys, v \in Values : Sets(x, k, v)

Own(x) == \/ Begins(x) \/ Find(x) \/ Stores(x) \/ WriteFails(x) \/ Answer(x)
          \/ x = Command /\ Removes

(* A writer does its own work, and nobody else's; others may only tell it. *)
LEMMA WorkStep ==
  ASSUME Inv, [Next]_vars, NEW x \in Writers
  PROVE  Own(x) \/ SameWork(x)
  <1>0. /\ stage \in [Writers -> {"idle", "read", "write", "insert"}]
        /\ todo \in [Writers -> SUBSET AllKeys] /\ want \in [Writers -> [AllKeys -> Values]]
        /\ seen \in [Writers -> (Nat \ {0}) \cup {None}] /\ errs \in [Writers -> BOOLEAN]
        /\ begun \in [Writers -> SUBSET AllKeys] /\ edited \in [Writers -> SUBSET AllKeys]
        /\ touched \in [Pages \cup Writers -> SUBSET AllKeys]
        /\ x \notin Pages /\ x \in Pages \cup Writers
    BY Parameters DEF Inv, TypeOK
  <1>a. TypeOK /\ Bounded /\ StageShape
    BY DEF Inv
  <1>1. ASSUME NEW p \in Pages, Open(p)
        PROVE  SameWork(x)
    BY <1>0, <1>1 DEF Open, SameWork
  <1>2. ASSUME NEW p \in Pages, NEW r \in Requests, NEW form \in [Keys -> Values],
               Submit(r, p, form), r # x
        PROVE  SameWork(x)
    BY <1>0, <1>2 DEF Submit, Begin, SameWork
  <1>3. ASSUME NEW w \in Writers, w # x, Find(w)
        PROVE  SameWork(x)
    BY <1>0, <1>3 DEF Find, SameWork
  <1>4. ASSUME NEW w \in Writers, w # x, Stores(w)
        PROVE  SameWork(x)
    <2>1. PICK k : k = NextKey(w)
      OBVIOUS
    <2>2. PICK id : PutsRow(w, k, id)
      BY <1>a, <1>4, <2>1, StoreIsPut
    <2>3. touched[x] \subseteq touched'[x]
      BY <1>0, <1>4, <2>2, TellMeans DEF PutsRow
    <2>4. CASE Write(w)
      BY <1>0, <1>4, <2>3, <2>4 DEF Write, SameWork
    <2>5. CASE w = Command /\ InsertKey
      BY <1>0, <1>4, <2>3, <2>5 DEF InsertKey, Leave, SameWork
    <2> QED BY <1>4, <2>4, <2>5 DEF Stores
  <1>5. ASSUME NEW w \in Writers, w # x, WriteFails(w)
        PROVE  SameWork(x)
    BY <1>0, <1>5 DEF WriteFails, Failed, SameWork
  <1>6. ASSUME NEW w \in Writers, w # x, Answer(w)
        PROVE  SameWork(x)
    <2>1. from[w] \in Pages \cup {None} /\ x # None
      BY <1>a, Parameters DEF TypeOK
    <2>2. touched'[x] = touched[x]
      BY <1>0, <1>6, <2>1 DEF Answer
    <2>3. /\ stage'[x] = stage[x] /\ todo'[x] = todo[x] /\ want'[x] = want[x]
          /\ seen'[x] = seen[x] /\ errs'[x] = errs[x] /\ begun'[x] = begun[x]
          /\ edited'[x] = edited[x]
      BY <1>0, <1>6 DEF Answer, Leave
    <2> QED BY <2>2, <2>3 DEF SameWork
  <1>7. ASSUME NEW w \in Writers, w # x, NEW k \in AllKeys, NEW v \in Values, Sets(w, k, v)
        PROVE  SameWork(x)
    BY <1>0, <1>7 DEF Sets, Begin, SameWork
  <1>8. ASSUME Removes, x # Command
        PROVE  SameWork(x)
    <2>1. PICK K \in SUBSET AllKeys :
            Empties(K) /\ (UNCHANGED work \/ \E k \in K, v \in Values : Replaces(k, v))
      BY <1>a, <1>8, RemovalStep
    <2>2. touched[x] \subseteq touched'[x]
      BY <1>0, <1>8, <2>1, TellMeans DEF Empties
    <2>3. CASE UNCHANGED work
      BY <2>2, <2>3 DEF work, SameWork
    <2>4. ASSUME NEW k \in K, NEW v \in Values, Replaces(k, v)
          PROVE  SameWork(x)
      BY <1>0, <1>8, <2>2, <2>4 DEF Replaces, Begin, SameWork
    <2> QED BY <2>1, <2>3, <2>4
  <1>9. CASE UNCHANGED vars
    BY <1>9 DEF vars, work, SameWork
  <1> QED BY <1>1, <1>2, <1>3, <1>4, <1>5, <1>6, <1>7, <1>8, <1>9, StepKinds
          DEF Looks, Own, Begins

(* Where its own step leaves a writer.                                     *)
LEMMA OwnStages ==
  ASSUME Inv, NEW x \in Writers
  PROVE  /\ Begins(x) => stage[x] = "idle" /\ stage'[x] = "read" /\ todo'[x] = begun'[x]
         /\ Stores(x) => \/ stage[x] = "write" /\ stage'[x] = "read" /\ Write(x)
                         \/ stage[x] = "insert" /\ stage'[x] = "idle" /\ todo'[x] = {}
         /\ Answer(x) => stage'[x] = "idle" /\ todo'[x] = {}
         /\ WriteFails(x) => stage[x] = "write" /\ stage'[x] = "read" /\ errs'[x]
  <1>0. /\ stage \in [Writers -> {"idle", "read", "write", "insert"}]
        /\ todo \in [Writers -> SUBSET AllKeys] /\ errs \in [Writers -> BOOLEAN]
        /\ begun \in [Writers -> SUBSET AllKeys]
    BY DEF Inv, TypeOK
  <1>1. Begins(x) => stage[x] = "idle" /\ stage'[x] = "read" /\ todo'[x] = begun'[x]
    <2>1. ASSUME NEW K, NEW g, Begin(x, "read", K, g)
          PROVE  stage[x] = "idle" /\ stage'[x] = "read" /\ todo'[x] = begun'[x]
      BY <1>0, <2>1 DEF Begin, Idle
    <2>2. ASSUME NEW p \in Pages, NEW form \in [Keys -> Values], Submit(x, p, form)
          PROVE  stage[x] = "idle" /\ stage'[x] = "read" /\ todo'[x] = begun'[x]
      BY <2>1, <2>2, Zenon DEF Submit
    <2>3. ASSUME NEW k \in AllKeys, NEW v \in Values, Sets(x, k, v)
          PROVE  stage[x] = "idle" /\ stage'[x] = "read" /\ todo'[x] = begun'[x]
      BY <2>1, <2>3, Zenon DEF Sets
    <2> QED BY <2>2, <2>3 DEF Begins
  <1>2. Stores(x) => \/ stage[x] = "write" /\ stage'[x] = "read" /\ Write(x)
                     \/ stage[x] = "insert" /\ stage'[x] = "idle" /\ todo'[x] = {}
    BY <1>0 DEF Stores, Write, InsertKey, Leave
  <1>3. Answer(x) => stage'[x] = "idle" /\ todo'[x] = {}
    BY <1>0 DEF Answer, Leave
  <1>4. WriteFails(x) => stage[x] = "write" /\ stage'[x] = "read" /\ errs'[x]
    BY <1>0 DEF WriteFails, Failed
  <1> QED BY <1>1, <1>2, <1>3, <1>4

LEMMA CommandStages ==
  ASSUME Inv, Removes
  PROVE  /\ stage[Command] = "idle"
         /\ \/ stage'[Command] = "idle" /\ SameWork(Command)
            \/ \E k \in AllKeys : /\ stage'[Command] = "insert" /\ todo'[Command] = {k}
                                  /\ begun'[Command] = {k} /\ NextKey(Command)' = k
                                  /\ RowsOf(k)' = {}
  <1>0. /\ stage \in [Writers -> {"idle", "read", "write", "insert"}]
        /\ todo \in [Writers -> SUBSET AllKeys] /\ begun \in [Writers -> SUBSET AllKeys]
        /\ Command \in Writers /\ Command \in Pages \cup Writers /\ TypeOK
    BY Parameters DEF Inv, TypeOK
  <1>1. PICK K \in SUBSET AllKeys :
          Empties(K) /\ (UNCHANGED work \/ \E k \in K, v \in Values : Replaces(k, v))
    BY <1>0, RemovalStep
  <1>2. stage[Command] = "idle"
    BY <1>1 DEF Empties
  <1>3. CASE UNCHANGED work
    <2>1. touched[Command] \subseteq touched'[Command]
      BY <1>0, <1>1, <1>2, TellMeans DEF Empties, Saving
    <2> QED BY <1>2, <1>3, <2>1 DEF work, SameWork
  <1>4. ASSUME NEW k \in K, NEW v \in Values, Replaces(k, v)
        PROVE  /\ stage'[Command] = "insert" /\ todo'[Command] = {k}
               /\ begun'[Command] = {k} /\ NextKey(Command)' = k
               /\ RowsOf(k)' = {}
    <2>1. stage'[Command] = "insert" /\ todo'[Command] = {k} /\ begun'[Command] = {k}
      BY <1>0, <1>4 DEF Replaces, Begin
    <2>2. NextKey(Command)' = k
      BY <2>1 DEF NextKey
    <2>3. RowsOf(k)' = {}
      BY <1>1 DEF Empties, RowsOf
    <2> QED BY <2>1, <2>2, <2>3
  <1> QED BY <1>1, <1>2, <1>3, <1>4

-----------------------------------------------------------------------------
(* The invariant, conjunct by conjunct. *)

LEMMA FindStep ==
  ASSUME Inv, NEW x \in Writers, Find(x), NEW k, k = NextKey(x)
  PROVE  /\ k \in AllKeys /\ rows' = rows /\ RowsOf(k)' = RowsOf(k) /\ NextKey(x)' = k
         /\ todo'[x] = todo[x] /\ want'[x] = want[x] /\ begun'[x] = begun[x]
         /\ errs'[x] = errs[x] /\ edited'[x] = edited[x] /\ touched'[x] = touched[x]
         /\ stage[x] = "read" /\ stage'[x] = "write" /\ ~Stores(x)
         /\ \/ RowsOf(k) = {} /\ seen'[x] = None
            \/ \E r \in RowsOf(k) : seen'[x] = r.id /\ seen'[x] # None
  <1>1. k \in AllKeys
    BY NextKeyIn DEF Find, Inv, TypeOK
  <1>2. seen' = [seen EXCEPT ![x] = IF RowsOf(k) = {} THEN None ELSE Oldest(RowsOf(k)).id]
    BY DEF Find
  <1>3. RowsOf(k) # {} => Oldest(RowsOf(k)) \in RowsOf(k) /\ RowsOf(k) \subseteq rows
    BY <1>1, LoadedTyped DEF Inv, RowsOf
  <1>4. \A r \in rows : r.id # None
    BY RowTyped, Parameters DEF Inv
  <1>5. /\ seen \in [Writers -> (Nat \ {0}) \cup {None}]
        /\ stage \in [Writers -> {"idle", "read", "write", "insert"}]
    BY DEF Inv, TypeOK
  <1>6. /\ rows' = rows /\ stage[x] = "read" /\ stage'[x] = "write" /\ todo' = todo
        /\ want' = want /\ begun' = begun /\ errs' = errs /\ edited' = edited
        /\ touched' = touched /\ ~Stores(x)
    BY <1>5 DEF Find, Stores, Write, InsertKey
  <1>7. RowsOf(k)' = RowsOf(k) /\ NextKey(x)' = k
    BY <1>6 DEF RowsOf, NextKey
  <1>8. CASE RowsOf(k) = {}
    BY <1>1, <1>2, <1>5, <1>6, <1>7, <1>8
  <1>9. CASE RowsOf(k) # {}
    <2>1. Oldest(RowsOf(k)) \in RowsOf(k) /\ Oldest(RowsOf(k)) \in rows
      BY <1>3, <1>9
    <2>2. seen'[x] = Oldest(RowsOf(k)).id /\ seen'[x] # None
      BY <1>2, <1>4, <1>5, <1>9, <2>1
    <2> QED BY <1>1, <1>6, <1>7, <2>1, <2>2
  <1> QED BY <1>8, <1>9

LEMMA StageShapeStep ==
  ASSUME Inv, [Next]_vars
  PROVE  StageShape'
  <1> SUFFICES ASSUME NEW x \in Writers
               PROVE  /\ stage'[x] \in {"write", "insert"} => todo'[x] # {}
                      /\ stage'[x] = "insert" => x = Command
                      /\ todo'[x] \subseteq begun'[x]
    BY DEF StageShape
  <1>0. /\ todo \in [Writers -> SUBSET AllKeys] /\ todo[x] \subseteq begun[x]
        /\ stage[x] \in {"write", "insert"} => todo[x] # {}
        /\ stage[x] = "insert" => x = Command
    BY DEF Inv, TypeOK, StageShape
  <1>1. CASE Begins(x) \/ Answer(x)
    BY <1>1, OwnStages
  <1>2. CASE Find(x)
    BY <1>0, <1>2, FindStep DEF Find
  <1>3. CASE Stores(x)
    <2>1. Write(x) => todo'[x] \subseteq begun[x] /\ begun'[x] = begun[x]
      BY <1>0 DEF Write
    <2> QED BY <1>3, <2>1, OwnStages
  <1>4. CASE WriteFails(x)
    <2>1. todo'[x] \subseteq begun[x] /\ begun'[x] = begun[x]
      BY <1>0, <1>4 DEF WriteFails
    <2> QED BY <1>4, <2>1, OwnStages
  <1>5. CASE SameWork(x)
    BY <1>0, <1>5 DEF SameWork
  <1>6. CASE x = Command /\ Removes
    BY <1>0, <1>5, <1>6, CommandStages
  <1> QED BY <1>1, <1>2, <1>3, <1>4, <1>5, <1>6, WorkStep DEF Own

LEMMA OneRowStep ==
  ASSUME Inv, [Next]_vars
  PROVE  OneRow'
  <1> SUFFICES ASSUME NEW j \in AllKeys, j \notin crossed'
               PROVE  \A r, s \in RowsOf(j)' : r = s
    BY DEF OneRow
  <1>0. TypeOK /\ Bounded /\ IdsUnique /\ StageShape
    BY DEF Inv
  <1>1. CASE Looks
    BY <1>1, LookStep DEF Inv, OneRow
  <1>2. CASE Removes
    <2>1. PICK K \in SUBSET AllKeys : Empties(K)
      BY <1>0, <1>2, RemovalStep
    <2>2. RowsOf(j)' \subseteq RowsOf(j) /\ (j \in K => RowsOf(j)' = {})
      BY <2>1 DEF Empties, RowsOf
    <2>3. j \in K \/ j \notin crossed
      BY <2>1 DEF Empties
    <2> QED BY <2>2, <2>3 DEF Inv, OneRow
  <1>3. ASSUME NEW w \in Writers, Stores(w)
        PROVE  \A r, s \in RowsOf(j)' : r = s
    <2>1. PICK k : k = NextKey(w)
      OBVIOUS
    <2>2. CASE j = k
      BY <1>3, <2>1, <2>2, StoreStep
    <2>3. CASE j # k
      <3>1. k \in AllKeys /\ want[w][k] \in Values
        BY <1>0, <1>3, <2>1, StoreIsPut
      <3>2. PICK id : PutsRow(w, k, id)
        BY <1>0, <1>3, <2>1, StoreIsPut
      <3>3. RowsOf(j)' \subseteq RowsOf(j)
        BY <1>0, <2>3, <3>1, <3>2, PutRows DEF PutsRow
      <3>4. j \notin crossed
        BY <3>2 DEF PutsRow
      <3> QED BY <3>3, <3>4 DEF Inv, OneRow
    <2> QED BY <2>2, <2>3
  <1> QED BY <1>1, <1>2, <1>3, StepKinds

(* While a writer is between reading and writing, a key that others leave  *)
(* uncrossed keeps its rows.                                               *)
LEMMA SavingStep ==
  ASSUME Inv, [Next]_vars, NEW x \in Writers, SameWork(x), NEW k \in AllKeys,
         Saving(x, k), k \notin crossed'
  PROVE  RowsOf(k)' = RowsOf(k) /\ k \notin crossed
  <1>0. TypeOK /\ Bounded /\ IdsUnique /\ StageShape
    BY DEF Inv
  <1>1. CASE Looks
    BY <1>1, LookStep
  <1>2. CASE Removes
    <2>1. PICK K \in SUBSET AllKeys : Empties(K)
      BY <1>0, <1>2, RemovalStep
    <2>2. x # Command
      BY <2>1 DEF Empties, Saving
    <2>3. k \notin K
      BY <2>1, <2>2 DEF Empties, Met
    <2> QED BY <2>1, <2>3 DEF Empties, RowsOf
  <1>3. ASSUME NEW w \in Writers, Stores(w)
        PROVE  RowsOf(k)' = RowsOf(k) /\ k \notin crossed
    <2>1. PICK j : j = NextKey(w)
      OBVIOUS
    <2>2. j \in AllKeys /\ want[w][j] \in Values
      BY <1>0, <1>3, <2>1, StoreIsPut
    <2>3. PICK id : PutsRow(w, j, id)
      BY <1>0, <1>3, <2>1, StoreIsPut
    <2>4. w # x
      BY <1>3, OwnStages DEF SameWork
    <2>5. k \notin Hit(id, j) /\ k \notin crossed
      BY <2>3, <2>4 DEF PutsRow, Met
    <2>6. RowsOf(k)' = RowsOf(k)
      BY <1>0, <2>2, <2>3, <2>5, PutRows DEF PutsRow
    <2> QED BY <2>5, <2>6
  <1> QED BY <1>1, <1>2, <1>3, StepKinds

LEMMA KnowsStep ==
  ASSUME Inv, [Next]_vars
  PROVE  Knows'
  <1> SUFFICES ASSUME NEW x \in Writers, NextKey(x)' \notin crossed',
                      stage'[x] \in {"write", "insert"}
               PROVE  /\ stage'[x] = "insert" => RowsOf(NextKey(x))' = {}
                      /\ stage'[x] = "write" /\ seen'[x] = None => RowsOf(NextKey(x))' = {}
                      /\ stage'[x] = "write" /\ seen'[x] # None =>
                           \E r \in RowsOf(NextKey(x))' : r.id = seen'[x]
    BY DEF Knows
  <1>a. PICK k : k = NextKey(x)'
    OBVIOUS
  <1>b. RowsOf(NextKey(x))' = RowsOf(k)'
    BY <1>a DEF RowsOf
  <1>1. CASE Begins(x) \/ Answer(x) \/ Stores(x) \/ WriteFails(x)
    BY <1>1, OwnStages
  <1>2. CASE Find(x)
    <2>1. PICK j : j = NextKey(x)
      OBVIOUS
    <2>2. j = k
      BY <1>2, <1>a, <2>1, FindStep
    <2> QED BY <1>2, <1>b, <2>1, <2>2, FindStep
  <1>3. CASE x = Command /\ Removes /\ ~SameWork(x)
    <2>1. PICK j \in AllKeys : stage'[Command] = "insert" /\ NextKey(Command)' = j
                               /\ RowsOf(j)' = {}
      BY <1>3, CommandStages
    <2> QED BY <1>3, <1>a, <1>b, <2>1
  <1>4. CASE SameWork(x)
    <2>1. NextKey(x) = k /\ stage[x] \in {"write", "insert"}
      BY <1>4, <1>a, SameKey DEF SameWork
    <2>2. k \in AllKeys
      BY <2>1, WorkTyped DEF Inv
    <2>3. RowsOf(k)' = RowsOf(k) /\ k \notin crossed
      BY <1>4, <1>a, <2>1, <2>2, SavingStep DEF Saving
    <2> QED BY <1>4, <1>b, <2>1, <2>3 DEF SameWork, Inv, Knows
  <1> QED BY <1>1, <1>2, <1>3, <1>4, WorkStep DEF Own

LEMMA StaleStep ==
  ASSUME Inv, [Next]_vars
  PROVE  Stale'
  <1> SUFFICES ASSUME NEW x \in Writers, stage'[x] = "write", NEW r \in rows',
                      r.id = seen'[x], r.key # NextKey(x)', r.key \in begun'[x]
               PROVE  r.key \in touched'[x]
    BY DEF Stale
  <1>0. TypeOK /\ Bounded /\ IdsUnique /\ StageShape
    BY DEF Inv
  <1>1. CASE Begins(x) \/ Answer(x) \/ Stores(x) \/ WriteFails(x)
    BY <1>1, OwnStages
  <1>2. CASE Find(x)
    <2>1. PICK k : k = NextKey(x)
      OBVIOUS
    <2>2. rows' = rows /\ NextKey(x)' = k
          /\ (seen'[x] = None \/ \E s \in RowsOf(k) : seen'[x] = s.id)
      BY <1>2, <2>1, FindStep
    <2>3. r.id # None
      BY <1>0, <2>2, RowTyped, Parameters
    <2>4. PICK s \in RowsOf(k) : r.id = s.id
      BY <2>2, <2>3
    <2>5. s \in rows /\ s.key = k
      BY DEF RowsOf
    <2>6. r = s
      BY <1>0, <2>2, <2>4, <2>5 DEF IdsUnique
    <2> QED BY <2>2, <2>5, <2>6
  <1>3. CASE x = Command /\ Removes /\ ~SameWork(x)
    BY <1>3, CommandStages
  <1>4. CASE SameWork(x)
    <2>1. /\ NextKey(x)' = NextKey(x) /\ stage[x] = "write" /\ r.id = seen[x]
          /\ r.key \in begun[x]
      BY <1>4, SameKey DEF SameWork
    <2>2. CASE r \in rows
      BY <1>4, <2>1, <2>2 DEF SameWork, Inv, Stale
    <2>3. CASE r \notin rows
      <3>1. ~Looks
        BY <2>3, LookStep
      <3>2. ~Removes
        BY <1>0, <2>3, RemovalStep DEF Empties
      <3>3. PICK w \in Writers : Stores(w)
        BY <3>1, <3>2, StepKinds
      <3>4. PICK k : k = NextKey(w)
        OBVIOUS
      <3>5. k \in AllKeys /\ want[w][k] \in Values
        BY <1>0, <3>3, <3>4, StoreIsPut
      <3>6. PICK id : PutsRow(w, k, id)
        BY <1>0, <3>3, <3>4, StoreIsPut
      <3>7. r.key = k
        BY <1>0, <2>3, <3>5, <3>6, PutRows DEF PutsRow
      <3>8. w # x
        BY <1>4, <3>3, OwnStages DEF SameWork
      <3>9. k \in Hit(id, k) /\ k \in Concerns(x)
        BY <2>1, <3>7, Parameters DEF Hit, Concerns
      <3> QED BY <3>6, <3>7, <3>8, <3>9, TellMeans DEF PutsRow
    <2> QED BY <2>2, <2>3
  <1> QED BY <1>1, <1>2, <1>3, <1>4, WorkStep DEF Own

(* The keys a writer has set out to save concern it.                       *)
LEMMA BegunStep ==
  ASSUME Inv, [Next]_vars, NEW x \in Writers, NEW j \in begun[x],
         j \notin touched'[x], j \notin crossed'
  PROVE  \/ Effective(j)' = Effective(j) /\ j \notin crossed
         \/ Stores(x) /\ j = NextKey(x) /\ Effective(j)' = want[x][j]
  <1>1. j \in Concerns(x) /\ x \in Pages \cup Writers
    BY Parameters DEF Concerns
  <1>2. j \in AllKeys
    BY DEF Inv, TypeOK
  <1> QED BY <1>1, <1>2, KeyStep

(* Its own write tells a writer of no key less than it knew.               *)
LEMMA WriteStep ==
  ASSUME Inv, NEW x \in Writers, Write(x), NEW k, k = NextKey(x)
  PROVE  /\ stage[x] = "write" /\ Stores(x) /\ k \in AllKeys /\ k \in todo[x]
         /\ todo'[x] = todo[x] \ {k} /\ want'[x] = want[x] /\ begun'[x] = begun[x]
         /\ errs'[x] = errs[x] /\ edited'[x] = edited[x]
         /\ \A j : j \in touched[x] => j \in touched'[x] \/ j = k
         /\ crossed \subseteq crossed'
  <1>0. TypeOK /\ Bounded /\ StageShape
    BY DEF Inv
  <1>1. Stores(x)
    BY DEF Stores
  <1>2. k \in AllKeys /\ k \in todo[x]
    BY <1>0, <1>1, StoreIsPut
  <1>3. PICK id : PutsRow(x, k, id)
    BY <1>0, <1>1, StoreIsPut
  <1>4. \A j : j \in touched[x] => j \in touched'[x] \/ j = k
    BY <1>3, TellMeans DEF PutsRow, Saving
  <1>5. crossed \subseteq crossed'
    BY <1>3 DEF PutsRow
  <1>6. /\ stage[x] = "write" /\ todo'[x] = todo[x] \ {k} /\ want' = want
        /\ begun' = begun /\ errs' = errs /\ edited' = edited
    BY <1>0 DEF Write, TypeOK
  <1> QED BY <1>1, <1>2, <1>4, <1>5, <1>6

LEMMA FailStep ==
  ASSUME Inv, NEW x \in Writers, WriteFails(x)
  PROVE  /\ Looks /\ stage[x] = "write" /\ errs'[x] /\ todo'[x] \subseteq todo[x]
         /\ want'[x] = want[x] /\ begun'[x] = begun[x] /\ edited'[x] = edited[x]
         /\ touched'[x] = touched[x]
  BY DEF WriteFails, Failed, Looks, Inv, TypeOK

LEMMA SavedStep ==
  ASSUME Inv, [Next]_vars
  PROVE  Saved'
  <1> SUFFICES ASSUME NEW x \in Writers, stage'[x] \in {"read", "write"}, ~errs'[x],
                      NEW j \in begun'[x], j \notin todo'[x], j \notin touched'[x],
                      j \notin crossed'
               PROVE  Effective(j)' = want'[x][j]
    <2>1. \A x \in Writers : errs[x] \in BOOLEAN
      BY DEF Inv, TypeOK
    <2> QED BY <2>1 DEF Saved
  <1>1. CASE Begins(x) \/ Answer(x) \/ WriteFails(x)
    BY <1>1, OwnStages
  <1>2. CASE Find(x)
    <2>1. PICK k : k = NextKey(x)
      OBVIOUS
    <2>2. /\ stage[x] = "read" /\ ~errs[x] /\ j \in begun[x] /\ j \notin todo[x]
          /\ j \notin touched[x] /\ want'[x] = want[x] /\ ~Stores(x)
      BY <1>2, <2>1, FindStep
    <2>3. Effective(j)' = Effective(j) /\ j \notin crossed
      BY <2>2, BegunStep
    <2> QED BY <2>2, <2>3 DEF Inv, Saved
  <1>3. CASE Write(x)
    <2>1. PICK k : k = NextKey(x)
      OBVIOUS
    <2>2. /\ stage[x] = "write" /\ ~errs[x] /\ want'[x] = want[x] /\ begun'[x] = begun[x]
          /\ todo'[x] = todo[x] \ {k} /\ (j \in touched[x] => j = k) /\ Stores(x)
      BY <1>3, <2>1, WriteStep
    <2>3. CASE j = k
      BY <2>1, <2>2, <2>3, StoreStep
    <2>4. CASE j # k
      <3>1. Effective(j)' = Effective(j) /\ j \notin crossed
        BY <2>1, <2>2, <2>4, BegunStep
      <3> QED BY <2>2, <2>4, <3>1 DEF Inv, Saved
    <2> QED BY <2>3, <2>4
  <1>4. CASE Stores(x) /\ ~Write(x)
    BY <1>4, OwnStages
  <1>5. CASE SameWork(x)
    <2>1. /\ stage[x] \in {"read", "write"} /\ ~errs[x] /\ j \in begun[x]
          /\ j \notin todo[x] /\ j \notin touched[x] /\ want'[x] = want[x]
      BY <1>5 DEF SameWork
    <2>2. ~Stores(x)
      BY <1>5, OwnStages DEF SameWork
    <2>3. Effective(j)' = Effective(j) /\ j \notin crossed
      BY <2>1, <2>2, BegunStep
    <2> QED BY <2>1, <2>3 DEF Inv, Saved
  <1>6. CASE x = Command /\ Removes
    BY <1>5, <1>6, CommandStages
  <1> QED BY <1>1, <1>2, <1>3, <1>4, <1>5, <1>6, WorkStep DEF Own

LEMMA PendingStep ==
  ASSUME Inv, [Next]_vars
  PROVE  Pending'
  <1> SUFFICES ASSUME NEW x \in Writers, stage'[x] \in {"read", "write"},
                      NEW j \in todo'[x], j \notin edited'[x], j \notin touched'[x],
                      j \notin crossed'
               PROVE  Effective(j)' = want'[x][j]
    BY DEF Pending
  <1>0. /\ todo \in [Writers -> SUBSET AllKeys] /\ want \in [Writers -> [AllKeys -> Values]]
        /\ edited \in [Writers -> SUBSET AllKeys] /\ begun \in [Writers -> SUBSET AllKeys]
        /\ touched \in [Pages \cup Writers -> SUBSET AllKeys]
        /\ todo[x] \subseteq begun[x] /\ TypeOK
    BY DEF Inv, TypeOK, StageShape
  <1>a. ASSUME j \in todo[x], j \notin edited[x], j \notin touched[x], want'[x] = want[x],
               stage[x] \in {"read", "write"},
               ~Stores(x) \/ j # NextKey(x)
        PROVE  Effective(j)' = want'[x][j]
    <2>1. Effective(j)' = Effective(j) /\ j \notin crossed
      BY <1>0, <1>a, BegunStep
    <2> QED BY <1>a, <2>1 DEF Inv, Pending
  <1>1. ASSUME NEW p \in Pages, NEW form \in [Keys -> Values], x \in Requests,
               Submit(x, p, form)
        PROVE  Effective(j)' = want'[x][j]
    <2>1. /\ todo'[x] = Keys /\ want'[x] = Sent(p, form) /\ touched'[x] = touched[p]
          /\ edited'[x] = {k \in Keys : form[k] # page[p][k]}
      BY <1>0, <1>1, Parameters DEF Submit, Begin
    <2>2. j \in Keys /\ form[j] = page[p][j] /\ want'[x][j] = form[j] /\ j \notin touched[p]
      BY <2>1, Parameters DEF Sent
    <2>3. j \notin crossed /\ Effective(j)' = Effective(j)
      BY <1>1, LookStep DEF Looks
    <2> QED BY <2>2, <2>3 DEF Inv, PageShowsWhatIsUsed
  <1>2. ASSUME NEW k \in AllKeys, NEW v \in Values, Sets(x, k, v)
        PROVE  FALSE
    BY <1>0, <1>2 DEF Sets, Begin
  <1>3. CASE Find(x)
    <2>1. PICK k : k = NextKey(x)
      OBVIOUS
    <2> QED BY <1>3, <1>a, <2>1, FindStep
  <1>4. CASE Write(x)
    <2>1. PICK k : k = NextKey(x)
      OBVIOUS
    <2> QED BY <1>4, <1>a, <2>1, WriteStep
  <1>5. CASE WriteFails(x)
    <2>1. /\ Looks /\ stage[x] = "write" /\ j \in todo[x] /\ want'[x] = want[x]
          /\ j \notin edited[x] /\ j \notin touched[x]
      BY <1>5, FailStep
    <2>2. Effective(j)' = Effective(j) /\ crossed' = crossed
      BY <2>1, LookStep
    <2> QED BY <2>1, <2>2 DEF Inv, Pending
  <1>6. CASE Answer(x) \/ (Stores(x) /\ ~Write(x))
    BY <1>6, OwnStages
  <1>7. CASE SameWork(x)
    <2>1. ~Stores(x)
      BY <1>7, OwnStages DEF SameWork
    <2> QED BY <1>7, <1>a, <2>1 DEF SameWork
  <1>8. CASE x = Command /\ Removes
    BY <1>7, <1>8, CommandStages
  <1> QED BY <1>1, <1>2, <1>3, <1>4, <1>5, <1>6, <1>7, <1>8, WorkStep DEF Own, Begins

(* A page is loaded anew, or keeps what it shows and all it was told.      *)
LEMMA PageStep ==
  ASSUME Inv, [Next]_vars, NEW p \in Pages
  PROVE  \/ Looks /\ page'[p] = Loaded
         \/ page'[p] = page[p] /\ touched[p] \subseteq touched'[p]
  <1>0. /\ page \in [Pages -> [Keys -> Values]] /\ from \in [Writers -> Pages \cup {None}]
        /\ touched \in [Pages \cup Writers -> SUBSET AllKeys]
        /\ p \in Pages \cup Writers /\ p \notin Writers /\ p # None
    BY Parameters DEF Inv, TypeOK
  <1>a. TypeOK /\ Bounded /\ StageShape
    BY DEF Inv
  <1> DEFINE Goal == \/ Looks /\ page'[p] = Loaded
                     \/ page'[p] = page[p] /\ touched[p] \subseteq touched'[p]
  <1>1. ASSUME NEW q \in Pages, Open(q)
        PROVE  Goal
    <2>1. Looks
      BY <1>1 DEF Looks
    <2> QED BY <1>0, <1>1, <2>1 DEF Open, LoadPage
  <1>2. ASSUME NEW q \in Pages, NEW r \in Requests, NEW form \in [Keys -> Values],
               Submit(r, q, form)
        PROVE  Goal
    BY <1>0, <1>2, Parameters DEF Submit
  <1>3. ASSUME NEW w \in Writers, Find(w) \/ WriteFails(w)
        PROVE  Goal
    BY <1>0, <1>3 DEF Find, WriteFails
  <1>4. ASSUME NEW w \in Writers, Answer(w)
        PROVE  Goal
    <2>1. Looks
      BY <1>4 DEF Looks
    <2>2. PICK q : q = IF errs[w] THEN None ELSE from[w]
      OBVIOUS
    <2>3. /\ IF q = None THEN UNCHANGED page ELSE LoadPage(q)
          /\ touched' = [x \in Pages \cup Writers |->
                           IF x \in {w, q} THEN {} ELSE touched[x]]
      BY <1>4, <2>2 DEF Answer
    <2>4. CASE q = p
      BY <1>0, <2>1, <2>3, <2>4 DEF LoadPage
    <2>5. CASE q # p
      BY <1>0, <2>3, <2>5 DEF LoadPage
    <2> QED BY <2>4, <2>5
  <1>5. ASSUME NEW w \in Writers, NEW k \in AllKeys, NEW v \in Values, Sets(w, k, v)
        PROVE  Goal
    BY <1>5 DEF Sets
  <1>6. CASE Removes
    <2>1. PICK K \in SUBSET AllKeys : Empties(K)
      BY <1>a, <1>6, RemovalStep
    <2>2. touched[p] \subseteq touched'[p]
      BY <1>0, <2>1, TellMeans, Parameters DEF Empties
    <2> QED BY <2>1, <2>2 DEF Empties
  <1>7. ASSUME NEW w \in Writers, Stores(w)
        PROVE  Goal
    <2>1. PICK k : k = NextKey(w)
      OBVIOUS
    <2>2. PICK id : PutsRow(w, k, id)
      BY <1>a, <1>7, <2>1, StoreIsPut
    <2>3. touched[p] \subseteq touched'[p]
      BY <1>0, <2>2, TellMeans DEF PutsRow
    <2> QED BY <1>7, <2>3 DEF Stores, Write, InsertKey
  <1>8. CASE UNCHANGED vars
    BY <1>8 DEF vars
  <1> QED BY <1>1, <1>2, <1>3, <1>4, <1>5, <1>6, <1>7, <1>8, StepKinds DEF Looks

LEMMA ShowsStep ==
  ASSUME Inv, [Next]_vars
  PROVE  PageShowsWhatIsUsed'
  <1> SUFFICES ASSUME NEW p \in Pages, NEW j \in Keys, j \notin touched'[p],
                      j \notin crossed'
               PROVE  page'[p][j] = Effective(j)'
    BY DEF PageShowsWhatIsUsed
  <1>1. CASE Looks /\ page'[p] = Loaded
    <2>1. Effective(j)' = Effective(j) /\ j \notin crossed
      BY <1>1, LookStep
    <2> QED BY <1>1, <2>1, LoadedIsEffective DEF Inv
  <1>2. CASE page'[p] = page[p] /\ touched[p] \subseteq touched'[p]
    <2>1. p \notin Writers /\ j \in AllKeys /\ j \in Concerns(p)
      BY Parameters DEF Concerns
    <2>2. Effective(j)' = Effective(j) /\ j \notin crossed
      BY <2>1, KeyStep
    <2> QED BY <1>2, <2>2 DEF Inv, PageShowsWhatIsUsed
  <1> QED BY <1>1, <1>2, PageStep

LEMMA StepInv == Inv /\ [Next]_vars => Inv'
  <1> SUFFICES ASSUME Inv, [Next]_vars PROVE Inv'
    OBVIOUS
  <1>1. TypeOK' /\ Bounded' /\ IdsUnique'
    BY TypeStep, RowsStep DEF Inv
  <1> QED BY <1>1, StageShapeStep, OneRowStep, KnowsStep, StaleStep, SavedStep,
             PendingStep, ShowsStep DEF Inv

LEMMA InitInv == Init => Inv
  <1> SUFFICES ASSUME Init PROVE Inv
    OBVIOUS
  <1>1. PICK K \in SUBSET AllKeys :
          \E id \in [K -> 1..Cardinality(K)], v \in [K -> Values] :
            /\ \A k, l \in K : k # l => id[k] # id[l]
            /\ rows = {[id |-> id[k], key |-> k, value |-> v[k]] : k \in K}
    BY DEF Init
  <1>2. PICK id \in [K -> 1..Cardinality(K)], v \in [K -> Values] :
            /\ \A k, l \in K : k # l => id[k] # id[l]
            /\ rows = {[id |-> id[k], key |-> k, value |-> v[k]] : k \in K}
    BY <1>1
  <1>3. PICK n \in Nat : n = Cardinality(K)
    BY FS_Subset, FS_CardinalityType, SettingsAssumption
  <1>4. \A r \in rows : /\ r.key \in K /\ r.id = id[r.key] /\ r.value = v[r.key]
                        /\ r = [id |-> id[r.key], key |-> r.key, value |-> v[r.key]]
    BY <1>2
  <1>5. \A k \in K : id[k] \in 1..n /\ v[k] \in Values /\ k \in AllKeys
    BY <1>3
  <1>6. rows \subseteq [id : Nat \ {0}, key : AllKeys, value : Values]
    BY <1>2, <1>5
  <1>7. Bounded
    BY <1>4, <1>5 DEF Bounded
  <1>8. IdsUnique /\ OneRow
    BY <1>2, <1>4 DEF IdsUnique, OneRow, RowsOf
  <1>9. /\ stage = [w \in Writers |-> "idle"] /\ todo = [w \in Writers |-> {}]
        /\ want = [w \in Writers |-> Default] /\ seen = [w \in Writers |-> None]
        /\ errs = [w \in Writers |-> FALSE] /\ edited = [w \in Writers |-> {}]
        /\ begun = [w \in Writers |-> {}] /\ from = [w \in Writers |-> None]
        /\ page = [p \in Pages |-> Loaded] /\ touched = [x \in Pages \cup Writers |-> {}]
        /\ events = 0 /\ crossed = {}
    BY DEF Init
  <1>10. Loaded \in [Keys -> Values]
    <2>1. \A S \in SUBSET rows : S # {} => Newest(S) \in S
      BY <1>6, <1>7, OldestAndNewest
    <2>2. \A k \in Keys : RowsOf(k) \in SUBSET rows
      BY DEF RowsOf
    <2>3. \A k \in Keys : RowsOf(k) # {} => Newest(RowsOf(k)).value \in Values
      BY <1>6, <2>1, <2>2
    <2>4. \A k \in Keys : Default[k] \in Values
      BY Parameters
    <2> QED BY <2>3, <2>4 DEF Loaded
  <1>11. TypeOK
    BY <1>6, <1>9, <1>10, Parameters DEF TypeOK
  <1>12. StageShape /\ Knows /\ Stale /\ Saved /\ Pending
    BY <1>9 DEF StageShape, Knows, Stale, Saved, Pending
  <1>13. PageShowsWhatIsUsed
    BY <1>7, <1>8, <1>9, <1>11, LoadedIsEffective DEF PageShowsWhatIsUsed
  <1> QED BY <1>7, <1>8, <1>11, <1>12, <1>13 DEF Inv

LEMMA InvAlways == Spec => []Inv
  BY InitInv, StepInv, PTL DEF Spec

-----------------------------------------------------------------------------
(* Every variable keeps its type, whoever writes and whatever fails.       *)
THEOREM SettingsTypeOK == Spec => []TypeOK
  BY InvAlways, PTL DEF Inv

(* saveSetting: a key has one row, for any number of handlers beside a     *)
(* command, unless two writers were at it at once.                         *)
THEOREM KeysHaveOneRow == Spec => []OneRowPerKey
  <1>1. Inv => OneRowPerKey
    <2> SUFFICES ASSUME Inv, NEW k \in AllKeys \ crossed PROVE Cardinality(RowsOf(k)) <= 1
      BY DEF OneRowPerKey
    <2>1. CASE RowsOf(k) = {}
      BY <2>1, FS_EmptySet
    <2>2. ASSUME NEW r \in RowsOf(k)
          PROVE  Cardinality(RowsOf(k)) <= 1
      <3>1. RowsOf(k) = {r}
        BY <2>2 DEF Inv, OneRow
      <3>2. Cardinality({r}) = 1
        BY FS_Singleton
      <3> QED BY <3>1, <3>2
    <2> QED BY <2>1, <2>2
  <1> QED BY <1>1, InvAlways, PTL

(* GetAllSetting and getSetting: what a page shows is in force, though ids *)
(* come back and rows are saved by ids read earlier, but for the keys it   *)
(* could not know to have changed since.                                   *)
THEOREM PagesShowWhatIsUsed == Spec => []PageShowsWhatIsUsed
  <1>1. Inv => PageShowsWhatIsUsed
    BY DEF Inv
  <1> QED BY <1>1, InvAlways, PTL

(* UpdateAllSetting: what was answered with success is in force, unless    *)
(* somebody else has written the key since.                                *)
THEOREM SuccessIsSaved == Spec => []SaveSticks
  <1>1. Inv => SaveSticks
    BY DEF Inv, Saved, SaveSticks
  <1> QED BY <1>1, InvAlways, PTL

LEMMA UneditedStep ==
  ASSUME Inv, [Next]_vars, NEW r \in Requests, stage[r] = "write", stage'[r] = "read",
         NEW j \in begun[r] \ (edited[r] \cup touched[r] \cup crossed')
  PROVE  Effective(j)' = Effective(j)
  <1>0. /\ r \in Writers /\ r # Command /\ j \in AllKeys
        /\ TypeOK /\ Bounded /\ IdsUnique /\ StageShape
    BY Parameters DEF Inv, TypeOK
  <1>1. CASE WriteFails(r)
    BY <1>0, <1>1, FailStep, LookStep
  <1>2. CASE Write(r)
    <2>1. PICK k : k = NextKey(r)
      OBVIOUS
    <2>2. Stores(r) /\ k \in todo[r] /\ k \in AllKeys /\ want[r][k] \in Values
      BY <1>0, <1>2, <2>1, WriteStep, StoreIsPut
    <2>3. CASE j = k
      <3>1. k \notin crossed
        BY <1>0, <1>2, <2>1, <2>3, WriteStep
      <3>2. Effective(k)' = want[r][k]
        BY <1>0, <2>1, <2>2, <2>3, StoreStep
      <3>3. Effective(k) = want[r][k]
        BY <1>0, <2>2, <2>3, <3>1 DEF Inv, Pending
      <3> QED BY <2>3, <3>2, <3>3
    <2>4. CASE j # k
      <3>1. PICK id : id = Target(seen[r])
        OBVIOUS
      <3>2. id \in Nat \ {0} /\ rows' = Put(id, k, want[r][k])
        BY <1>0, <1>2, <2>1, <3>1, NewIdIsNew DEF Write, Target, TypeOK
      <3>3. \A s \in rows : s.id = id => s.key # j
        <4>1. CASE seen[r] = None
          BY <1>0, <3>1, <4>1, NewIdIsNew, RowTyped DEF Target
        <4>2. CASE seen[r] # None
          BY <1>0, <2>1, <2>4, <3>1, <4>2 DEF Target, Inv, Stale
        <4> QED BY <4>1, <4>2
      <3>4. j \notin Hit(id, k)
        BY <2>4, <3>3 DEF Hit
      <3>5. RowsOf(j)' = RowsOf(j)
        BY <1>0, <2>2, <3>2, <3>4, PutRows
      <3> QED BY <3>5 DEF Effective
    <2> QED BY <2>3, <2>4
  <1>3. ~Begins(r) /\ ~Find(r) /\ ~Answer(r) /\ ~SameWork(r) /\ (Stores(r) => Write(r))
    BY <1>0, OwnStages, FindStep DEF SameWork
  <1> QED BY <1>0, <1>1, <1>2, <1>3, WorkStep DEF Own

(* UpdateAllSetting: saving all keys leaves those alone that were not      *)
(* edited, also when it saves a row by an id that is another key's now.    *)
THEOREM UneditedStays == Spec => UneditedKept
  <1>1. Inv /\ [Next]_vars =>
          [\A r \in Requests :
             stage[r] = "write" /\ stage'[r] = "read" =>
               \A k \in begun[r] \ (edited[r] \cup touched[r] \cup crossed') :
                 Effective(k)' = Effective(k)]_vars
    BY UneditedStep
  <1> QED BY <1>1, InvAlways, PTL DEF Spec, UneditedKept

=============================================================================

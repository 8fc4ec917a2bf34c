-------------------------- MODULE AccessSourceProofs --------------------------
(***************************************************************************)
(* Proofs about AccessSource: types, how often a line counts, what is      *)
(* cached, and that it implements AccessTally, for any number of paths,    *)
(* requests, lines, rotations and failures.                                *)
(***************************************************************************)
EXTENDS AccessSource, TLAPS

(* A line that may still be counted once: no earlier scan has seen it, or  *)
(* one has that Xray overtook.                                             *)
Countable(n) == tally[n] = 0 \/ (tally[n] = 1 /\ n \in raced)

(* Only the request that holds the mutex is in readNewEvents.              *)
OneReader == \A r \in Requests : pc[r] \in {"stat", "read"} <=> mu = r

(* Nothing is left of a scan that is over.                                 *)
ScanIsOver == ~Scanning => found = {} /\ held = 0

LinesAreWritten ==
  /\ \A p \in Paths : \A i \in 1..Len(logs[p]) : logs[p][i].line <= written
  /\ \A p \in Paths : unfinished[p] <= written
  /\ \A n \in Lines : tally[n] > 0 => n <= written
  /\ \A n \in found : n <= written
  /\ held <= written

(* What starts behind the offset may be counted again; what starts behind  *)
(* the size a scan works with was written during the scan.                 *)
UnreadIsCountable ==
  \A i \in 1..Len(log) : log[i].part # "tail" /\ i > offset => Countable(log[i].line)

ScanIsCountable ==
  Scanning =>
    /\ position >= offset
    /\ size > 0
    /\ \A n \in found : Countable(n)
    /\ held # 0 => Countable(held)
    /\ \A i \in 1..Len(log) :
         log[i].part # "tail" /\ i > size =>
           tally[log[i].line] = 0 /\ log[i].line \in raced

(* Nothing has been counted of a log that is read from its start.          *)
StartIsEmpty == offset = 0 => tally = Nothing

FoundIsCurrent == ~blind => \A n \in found : InLog(n)

Bookkeeping ==
  /\ ScanIsOver
  /\ LinesAreWritten
  /\ UnreadIsCountable
  /\ ScanIsCountable
  /\ StartIsEmpty
  /\ FoundIsCurrent
  /\ TwiceOnlyIfRaced
  /\ CountsAreCurrent
  /\ ReportIsTally

Inv == TypeOK /\ OneReader /\ Bookkeeping

-----------------------------------------------------------------------------
LEMMA PieceHasLine ==
  ASSUME TypeOK, NEW p \in Paths, NEW i \in 1..Len(logs[p])
  PROVE  /\ logs[p][i] \in Piece
         /\ logs[p][i].line \in Lines
         /\ logs[p][i].part \in {"all", "head", "tail"}
  <1>1. logs[p] \in Seq(Piece)
    BY DEF TypeOK
  <1>2. logs[p][i] \in Piece
    BY <1>1
  <1> QED BY <1>2 DEF Piece

LEMMA LogHasLength ==
  ASSUME TypeOK, NEW p \in Paths
  PROVE  Len(logs[p]) \in Nat
  BY DEF TypeOK

LEMMA AnyPathIsPath == AnyPath \in Paths
  BY AccessSourceAssumption DEF AnyPath

LEMMA CutByIsLines ==
  ASSUME TypeOK, NEW start
  PROVE  CutBy(log, start) \subseteq Lines
  <1>1. logPath \in Paths
    BY DEF TypeOK
  <1> QED BY <1>1, PieceHasLine DEF CutBy, log

LEMMA NothingIsTally == Nothing \in [Lines -> Nat] /\ \A n \in Lines : Nothing[n] = 0
  BY DEF Nothing

(* Whoever is in readNewEvents is the one that holds the mutex.            *)
LEMMA ReaderHoldsMutex ==
  ASSUME OneReader, NEW r \in Requests, pc[r] \in {"stat", "read"}, NEW s \in Requests,
         pc[s] = "read"
  PROVE  s = r
  BY DEF OneReader

-----------------------------------------------------------------------------
(* Xray appends a piece of a line. *)

LEMMA PutIsAppend ==
  ASSUME TypeOK, NEW p \in Paths, NEW piece \in Piece, Put(p, piece)
  PROVE  /\ logs' \in [Paths -> Seq(Piece)]
         /\ \A q \in Paths \ {p} : logs'[q] = logs[q]
         /\ Len(logs'[p]) = Len(logs[p]) + 1
         /\ \A i \in 1..Len(logs[p]) : logs'[p][i] = logs[p][i]
         /\ logs'[p][Len(logs[p]) + 1] = piece
  <1>1. logs[p] \in Seq(Piece)
    BY DEF TypeOK
  <1>2. logs'[p] = Append(logs[p], piece)
    BY DEF Put, TypeOK
  <1>3. Append(logs[p], piece) \in Seq(Piece)
    BY <1>1
  <1> QED BY <1>1, <1>2, <1>3 DEF Put, TypeOK

(* A line that has been read stays in a log that only grows.               *)
LEMMA PutKeepsLines ==
  ASSUME TypeOK, NEW p \in Paths, NEW piece \in Piece, Put(p, piece), logPath' = logPath,
         NEW n \in Lines, InLog(n)
  PROVE  InLog(n)'
  <1>1. PICK i \in 1..Len(log) : log[i].line = n
    BY DEF InLog
  <1>2. logPath \in Paths
    BY DEF TypeOK
  <1>3. Len(log) \in Nat /\ i \in 1..Len(log)'
    <2>1. Len(logs[logPath]) \in Nat
      BY <1>2, LogHasLength
    <2>2. Len(logs'[logPath]) >= Len(logs[logPath]) /\ Len(logs'[logPath]) \in Nat
      BY <1>2, <2>1, PutIsAppend
    <2> QED BY <2>1, <2>2 DEF log
  <1>4. log'[i].line = n
    BY <1>1, <1>2, PutIsAppend DEF log
  <1> QED BY <1>3, <1>4 DEF InLog

LEMMA WriteKeepsInv ==
  ASSUME Inv, NEW p \in Paths, Write(p)
  PROVE  Inv'
  <1> USE AccessSourceAssumption
  <1>1. PICK piece \in Piece : Put(p, piece) /\ piece.line = written + 1 /\ piece.part # "tail"
    <2>1. written + 1 \in Lines
      BY DEF Write, Inv, TypeOK, Lines
    <2> QED BY <2>1 DEF Write, Piece
  <1>2. /\ logs' \in [Paths -> Seq(Piece)]
        /\ \A q \in Paths \ {p} : logs'[q] = logs[q]
        /\ Len(logs'[p]) = Len(logs[p]) + 1
        /\ \A i \in 1..Len(logs[p]) : logs'[p][i] = logs[p][i]
        /\ logs'[p][Len(logs[p]) + 1] = piece
    BY <1>1, PutIsAppend DEF Inv, Bookkeeping
  <1>3. UNCHANGED <<mu, stateVars, pc, wanted, scanVars, boundVars, blind, cut, split>>
    BY DEF Write
  <1>4. written' = written + 1 /\ written' \in Lines
    BY DEF Write, Inv, TypeOK, Lines
  <1>5. unfinished' \in [Paths -> 0..MaxLines]
        /\ \A q \in Paths : unfinished'[q] \in {unfinished[q], written'}
    <2>1. unfinished \in [Paths -> 0..MaxLines] /\ written' \in 0..MaxLines
      BY <1>4 DEF Inv, Bookkeeping, TypeOK, Lines
    <2>2. unfinished' \in {unfinished, [unfinished EXCEPT ![p] = written']}
      BY DEF Write
    <2> QED BY <2>1, <2>2
  <1>6. raced' \subseteq Lines /\ raced \subseteq raced' /\ (Scanning => written' \in raced')
    BY <1>4 DEF Write, Inv, TypeOK
  <1>7. TypeOK'
    <2>1. written' \in 0..MaxLines
      BY <1>4 DEF Lines
    <2> QED BY <1>2, <1>3, <1>5, <1>6, <2>1
         DEF Inv, Bookkeeping, TypeOK, stateVars, scanVars, boundVars
  <1>8. Scanning' <=> Scanning
    BY <1>3 DEF Scanning
  <1>9. OneReader' /\ ScanIsOver' /\ StartIsEmpty' /\ ReportIsTally'
    BY <1>3, <1>8 DEF Inv, Bookkeeping, OneReader, ScanIsOver, StartIsEmpty, ReportIsTally, stateVars, scanVars
  <1>10. LinesAreWritten'
    <2>1. ASSUME NEW q \in Paths, NEW i \in 1..Len(logs'[q])
          PROVE  logs'[q][i].line <= written'
      <3> DEFINE Old(j) == logs[q][j].line
      <3>0. \A j \in 1..Len(logs[q]) : Old(j) \in Lines /\ Old(j) <= written
        BY PieceHasLine DEF Inv, Bookkeeping, LinesAreWritten
      <3>a. \A j \in 1..Len(logs[q]) : Old(j) <= written'
        <4> HIDE DEF Old
        <4> QED BY <1>4, <3>0 DEF Inv, Bookkeeping, TypeOK, Lines
      <3>1. CASE q # p
        BY <1>2, <2>1, <3>a, <3>1
      <3>2. CASE q = p
        <4>1. Len(logs[p]) \in Nat
          BY DEF Inv, Bookkeeping, TypeOK
        <4>2. CASE i \in 1..Len(logs[p])
          BY <1>2, <3>2, <3>a, <4>2
        <4>3. CASE i = Len(logs[p]) + 1
          BY <1>1, <1>2, <1>4, <3>2, <4>3 DEF Lines
        <4> QED BY <1>2, <2>1, <3>2, <4>1, <4>2, <4>3
      <3> QED BY <3>1, <3>2
    <2>2. \A q \in Paths : unfinished'[q] <= written'
      <3>1. \A q \in Paths : unfinished[q] \in 0..MaxLines /\ unfinished[q] <= written
        BY DEF Inv, Bookkeeping, LinesAreWritten, TypeOK
      <3>2. written \in Nat /\ written' = written + 1
        BY <1>4 DEF Inv, Bookkeeping, TypeOK
      <3> QED BY <1>5, <3>1, <3>2
    <2>3. \A n \in Lines : tally'[n] > 0 => n <= written'
      BY <1>3, <1>4 DEF Inv, Bookkeeping, LinesAreWritten, TypeOK, Lines, stateVars
    <2>4. (\A n \in found' : n <= written') /\ held' <= written'
      BY <1>3, <1>4 DEF Inv, Bookkeeping, LinesAreWritten, TypeOK, Lines, scanVars
    <2> QED BY <2>1, <2>2, <2>3, <2>4 DEF LinesAreWritten
  <1>11. \A n : Countable(n) => Countable(n)'
    BY <1>3, <1>6 DEF Countable, stateVars
  <1>12. tally[written'] = 0
    BY <1>4 DEF Inv, Bookkeeping, LinesAreWritten, TypeOK, Lines
  <1>13. logPath \in Paths /\ logPath' = logPath /\ offset' = offset /\ size' = size
    BY <1>3 DEF Inv, Bookkeeping, TypeOK, stateVars, scanVars
  <1>14. \/ /\ Len(log)' = Len(log)
            /\ \A i \in 1..Len(log) : log'[i] = log[i]
         \/ /\ Len(log)' = Len(log) + 1
            /\ \A i \in 1..Len(log) : log'[i] = log[i]
            /\ log'[Len(log) + 1].line = written'
    BY <1>1, <1>2, <1>4, <1>13 DEF log
  <1>15. Len(log) \in Nat /\ offset \in Nat /\ size \in Nat
    BY <1>13 DEF Inv, Bookkeeping, TypeOK, log
  <1>16. UnreadIsCountable'
    <2> DEFINE C(n) == tally'[n] = 0 \/ (tally'[n] = 1 /\ n \in raced')
    <2>1. C(written')
      BY <1>3, <1>12 DEF stateVars
    <2>2. \A i \in 1..Len(log) : log[i].part # "tail" /\ i > offset => C(log[i].line)
      BY <1>3, <1>6 DEF Inv, Bookkeeping, UnreadIsCountable, Countable, stateVars
    <2> HIDE DEF C
    <2>3. \A i \in 1..Len(log)' : log'[i].part # "tail" /\ i > offset => C(log'[i].line)
      BY <1>14, <1>15, <2>1, <2>2
    <2> QED BY <1>13, <2>3 DEF UnreadIsCountable, Countable, C
  <1>17. ScanIsCountable'
    <2> SUFFICES ASSUME Scanning PROVE ScanIsCountable'
      BY <1>8 DEF ScanIsCountable
    <2>1. /\ position' >= offset' /\ size' > 0
          /\ \A n \in found' : Countable(n)'
          /\ held' # 0 => Countable(held)'
      BY <1>3, <1>11 DEF Inv, Bookkeeping, ScanIsCountable, stateVars, scanVars, Countable
    <2>2. \A i \in 1..Len(log)' :
            log'[i].part # "tail" /\ i > size' =>
              tally'[log'[i].line] = 0 /\ log'[i].line \in raced'
      <3>1. tally'[written'] = 0 /\ written' \in raced' /\ tally' = tally
        BY <1>3, <1>6, <1>12 DEF stateVars
      <3> QED BY <1>6, <1>13, <1>14, <1>15, <3>1 DEF Inv, Bookkeeping, ScanIsCountable
    <2> QED BY <2>1, <2>2 DEF ScanIsCountable
  <1>18. FoundIsCurrent' /\ CountsAreCurrent'
    <2>1. \A n \in Lines : InLog(n) => InLog(n)'
      BY <1>1, <1>13, PutKeepsLines DEF Inv, Bookkeeping
    <2>2. found' = found /\ found \subseteq Lines /\ tally' = tally /\ blind' = blind
      BY <1>3 DEF Inv, Bookkeeping, TypeOK, stateVars, scanVars
    <2> QED BY <2>1, <2>2 DEF Inv, Bookkeeping, FoundIsCurrent, CountsAreCurrent
  <1>19. TwiceOnlyIfRaced'
    BY <1>3, <1>6 DEF Inv, Bookkeeping, TwiceOnlyIfRaced, stateVars
  <1> QED BY <1>7, <1>9, <1>10, <1>16, <1>17, <1>18, <1>19 DEF Inv, Bookkeeping

LEMMA WriteTailKeepsInv ==
  ASSUME Inv, NEW p \in Paths, WriteTail(p)
  PROVE  Inv'
  <1> DEFINE piece == [line |-> unfinished[p], part |-> "tail"]
  <1>1. piece \in Piece /\ Put(p, piece)
    <2>1. unfinished[p] \in Lines
      BY DEF WriteTail, Inv, TypeOK, Lines
    <2> QED BY <2>1 DEF WriteTail, Piece
  <1>2. /\ logs' \in [Paths -> Seq(Piece)]
        /\ \A q \in Paths \ {p} : logs'[q] = logs[q]
        /\ Len(logs'[p]) = Len(logs[p]) + 1
        /\ \A i \in 1..Len(logs[p]) : logs'[p][i] = logs[p][i]
        /\ logs'[p][Len(logs[p]) + 1] = piece
    BY <1>1, PutIsAppend DEF Inv
  <1>a. piece.line = unfinished[p] /\ piece.part = "tail"
    OBVIOUS
  <1> HIDE DEF piece
  <1>3. UNCHANGED <<written, mu, stateVars, pc, wanted, scanVars, boundVars, historyVars>>
    BY DEF WriteTail
  <1>4. /\ unfinished' \in [Paths -> 0..MaxLines]
        /\ \A q \in Paths : unfinished'[q] \in {unfinished[q], 0}
    BY AccessSourceAssumption DEF WriteTail, Inv, TypeOK
  <1>5. TypeOK'
    BY <1>2, <1>3, <1>4 DEF Inv, TypeOK, stateVars, scanVars, boundVars, historyVars
  <1>6. Scanning' <=> Scanning
    BY <1>3 DEF Scanning
  <1>7. OneReader' /\ ScanIsOver' /\ StartIsEmpty' /\ ReportIsTally' /\ TwiceOnlyIfRaced'
    BY <1>3, <1>6 DEF Inv, Bookkeeping, OneReader, ScanIsOver, StartIsEmpty, ReportIsTally,
       TwiceOnlyIfRaced, stateVars, scanVars, historyVars
  <1>8. LinesAreWritten'
    <2>1. ASSUME NEW q \in Paths, NEW i \in 1..Len(logs'[q])
          PROVE  logs'[q][i].line <= written
      <3>1. CASE q # p
        BY <1>2, <2>1, <3>1 DEF Inv, Bookkeeping, LinesAreWritten
      <3>2. CASE q = p
        <4>1. Len(logs[p]) \in Nat
          BY LogHasLength DEF Inv
        <4>2. CASE i \in 1..Len(logs[p])
          BY <1>2, <3>2, <4>2 DEF Inv, Bookkeeping, LinesAreWritten
        <4>3. CASE i = Len(logs[p]) + 1
          BY <1>2, <1>a, <3>2, <4>3 DEF Inv, Bookkeeping, LinesAreWritten
        <4> QED BY <1>2, <2>1, <3>2, <4>1, <4>2, <4>3
      <3> QED BY <3>1, <3>2
    <2>2. \A q \in Paths : unfinished'[q] <= written
      <3>1. \A q \in Paths : unfinished[q] <= written
        BY DEF Inv, Bookkeeping, LinesAreWritten
      <3>2. 0 <= written
        BY DEF Inv, TypeOK
      <3> QED BY <1>4, <3>1, <3>2
    <2> QED BY <1>3, <2>1, <2>2
         DEF Inv, Bookkeeping, LinesAreWritten, stateVars, scanVars
  <1>9. logPath \in Paths /\ UNCHANGED <<logPath, offset, tally, raced, blind, size, position, held, found>>
    BY <1>3 DEF Inv, TypeOK, stateVars, scanVars, historyVars
  <1>10. \/ /\ Len(log)' = Len(log)
            /\ \A i \in 1..Len(log) : log'[i] = log[i]
         \/ /\ Len(log)' = Len(log) + 1
            /\ \A i \in 1..Len(log) : log'[i] = log[i]
            /\ log'[Len(log) + 1].part = "tail"
    BY <1>2, <1>9, <1>a DEF log
  <1>11. Len(log) \in Nat /\ offset \in Nat /\ size \in Nat
    BY <1>9 DEF Inv, TypeOK, log
  <1>12. \A i \in 1..Len(log)' : log'[i].part # "tail" => i \in 1..Len(log) /\ log'[i] = log[i]
    BY <1>10, <1>11
  <1>13. UnreadIsCountable' /\ ScanIsCountable'
    BY <1>6, <1>9, <1>12
    DEF Inv, Bookkeeping, UnreadIsCountable, ScanIsCountable, Countable
  <1>14. FoundIsCurrent' /\ CountsAreCurrent'
    <2>1. \A n \in Lines : InLog(n) => InLog(n)'
      BY <1>1, <1>9, PutKeepsLines DEF Inv
    <2>2. found \subseteq Lines
      BY DEF Inv, TypeOK
    <2> QED BY <1>9, <2>1, <2>2 DEF Inv, Bookkeeping, FoundIsCurrent, CountsAreCurrent
  <1> QED BY <1>5, <1>7, <1>8, <1>13, <1>14 DEF Inv, Bookkeeping

-----------------------------------------------------------------------------
(* Rotation.  An emptied log has no line, so nothing of it may be counted  *)
(* unless analyze still has to notice.                                     *)
LEMMA TruncateKeepsInv ==
  ASSUME Inv, NEW p \in Paths, Truncate(p)
  PROVE  Inv'
  <1>1. /\ UNCHANGED <<written, unfinished, mu, stateVars, pc, wanted, scanVars, failures>>
        /\ UNCHANGED <<raced, cut, split>>
    BY DEF Truncate
  <1>2. /\ logs' = [logs EXCEPT ![p] = <<>>]
        /\ logs' \in [Paths -> Seq(Piece)]
        /\ blind' \in BOOLEAN
        /\ truncations' \in 0..MaxTruncations
    BY AccessSourceAssumption DEF Truncate, Inv, TypeOK
  <1>3. TypeOK'
    BY <1>1, <1>2 DEF Inv, TypeOK, stateVars, scanVars
  <1>4. Scanning' <=> Scanning
    BY <1>1 DEF Scanning
  <1>5. OneReader' /\ ScanIsOver' /\ StartIsEmpty' /\ ReportIsTally' /\ TwiceOnlyIfRaced'
    BY <1>1, <1>4 DEF Inv, Bookkeeping, OneReader, ScanIsOver, StartIsEmpty, ReportIsTally,
       TwiceOnlyIfRaced, stateVars, scanVars
  <1>6. \A q \in Paths : logs'[q] = logs[q] \/ logs'[q] = <<>>
    BY <1>2 DEF Inv, TypeOK
  <1>7. LinesAreWritten'
    <2>1. ASSUME NEW q \in Paths, NEW i \in 1..Len(logs'[q])
          PROVE  i \in 1..Len(logs[q]) /\ logs'[q][i] = logs[q][i]
      BY <1>6, <2>1
    <2> QED BY <1>1, <2>1 DEF Inv, Bookkeeping, LinesAreWritten, stateVars, scanVars
  <1>8. logPath \in Paths /\ UNCHANGED <<logPath, offset, tally, raced, size, position, held, found>>
    BY <1>1 DEF Inv, TypeOK, stateVars, scanVars
  <1>9. \A i \in 1..Len(log)' : i \in 1..Len(log) /\ log'[i] = log[i]
    BY <1>6, <1>8 DEF log
  <1>10. UnreadIsCountable' /\ ScanIsCountable'
    BY <1>4, <1>8, <1>9
    DEF Inv, Bookkeeping, UnreadIsCountable, ScanIsCountable, Countable
  <1>11. FoundIsCurrent' /\ CountsAreCurrent'
    <2>1. CASE p # logPath
      <3>1. log' = log /\ blind' = blind
        BY <1>2, <1>8, <2>1 DEF log, Truncate, Inv, TypeOK
      <3>2. \A n \in Lines : InLog(n)' <=> InLog(n)
        BY <3>1 DEF InLog
      <3>3. found \subseteq Lines
        BY DEF Inv, TypeOK
      <3> QED BY <1>8, <3>1, <3>2, <3>3
           DEF Inv, Bookkeeping, FoundIsCurrent, CountsAreCurrent
    <2>2. CASE p = logPath
      <3> SUFFICES ASSUME ~blind' PROVE FoundIsCurrent' /\ CountsAreCurrent'
        BY DEF FoundIsCurrent, CountsAreCurrent
      <3>1. offset = 0 /\ ~Scanning
        <4> DEFINE unread == offset > 0
        <4>1. blind' = (blind \/ (p = logPath /\ (unread \/ Scanning)))
          BY DEF Truncate
        <4>2. ~unread /\ ~Scanning
          <5> HIDE DEF unread
          <5> QED BY <2>2, <4>1, Zenon
        <4> QED BY <4>2 DEF Inv, TypeOK
      <3>2. tally' = Nothing /\ found' = {}
        BY <1>8, <3>1 DEF Inv, Bookkeeping, StartIsEmpty, ScanIsOver
      <3> QED BY <3>2, NothingIsTally DEF FoundIsCurrent, CountsAreCurrent
    <2> QED BY <2>1, <2>2
  <1> QED BY <1>3, <1>5, <1>7, <1>10, <1>11 DEF Inv, Bookkeeping

-----------------------------------------------------------------------------
(* The steps of the requests that change no count. *)

(* Neither the log nor the counts nor the scan change.                     *)
LEMMA NothingHappens ==
  ASSUME Inv, UNCHANGED <<logVars, logPath, offset, tally, report, scanVars, raced, blind>>,
         Scanning' <=> Scanning
  PROVE  Bookkeeping'
  BY DEF Inv, Bookkeeping, ScanIsOver, LinesAreWritten, UnreadIsCountable, ScanIsCountable,
     StartIsEmpty, FoundIsCurrent, TwiceOnlyIfRaced, CountsAreCurrent, ReportIsTally,
     Countable, InLog, log, logVars, scanVars

(* A scan ends and nothing of it counts.                                   *)
LEMMA NothingCounts ==
  ASSUME Inv, UNCHANGED <<logVars, logPath, offset, tally, raced, blind>>,
         report' \in {report, tally}, found' = {}, held' = 0, ~Scanning'
  PROVE  Bookkeeping'
  <1>1. 0 <= written
    BY DEF Inv, TypeOK
  <1> QED
    BY <1>1 DEF Inv, Bookkeeping, ScanIsOver, LinesAreWritten, UnreadIsCountable,
       ScanIsCountable, StartIsEmpty, FoundIsCurrent, TwiceOnlyIfRaced, CountsAreCurrent,
       ReportIsTally, Countable, InLog, log, logVars

(* Everything counted so far is dropped, and with it the place in the log. *)
LEMMA EverythingIsForgotten ==
  ASSUME Inv, UNCHANGED <<logs, written, unfinished, raced>>, logPath' \in Paths,
         offset' = 0, tally' = Nothing, report' \in {NoReport, Nothing},
         found' = {}, held' = 0, ~Scanning'
  PROVE  Bookkeeping'
  <1>1. 0 <= written
    BY DEF Inv, TypeOK
  <1>2. tally' \in [Lines -> Nat] /\ \A n \in Lines : tally'[n] = 0
    BY NothingIsTally
  <1>3. LinesAreWritten' /\ StartIsEmpty' /\ ReportIsTally' /\ ScanIsOver'
    BY <1>1, <1>2 DEF Inv, Bookkeeping, ScanIsOver, LinesAreWritten, StartIsEmpty, ReportIsTally
  <1>4. \A i \in 1..Len(log)' : log'[i].line \in Lines
    BY PieceHasLine DEF Inv, log
  <1>5. UnreadIsCountable' /\ ScanIsCountable'
    BY <1>2, <1>4 DEF UnreadIsCountable, ScanIsCountable, Countable
  <1>6. FoundIsCurrent' /\ TwiceOnlyIfRaced' /\ CountsAreCurrent'
    BY <1>2 DEF FoundIsCurrent, TwiceOnlyIfRaced, CountsAreCurrent
  <1> QED BY <1>3, <1>5, <1>6 DEF Bookkeeping

LEMMA NoScanTypes ==
  ASSUME NoScan
  PROVE  /\ size' \in Nat
         /\ position' \in Nat
         /\ skipping' \in BOOLEAN
         /\ held' \in 0..MaxLines
         /\ found' \in SUBSET Lines
  <1>1. 0 \in Nat /\ FALSE \in BOOLEAN /\ 0 \in 0..MaxLines
    BY AccessSourceAssumption
  <1>2. {} \subseteq Lines
    OBVIOUS
  <1> QED BY <1>1, <1>2 DEF NoScan

LEMMA ReturnTypes ==
  ASSUME TypeOK, NEW r \in Requests, Return(r)
  PROVE  /\ pc' \in [Requests -> {"idle", "lock", "stat", "read"}]
         /\ pc'[r] = "idle"
         /\ \A s \in Requests \ {r} : pc'[s] = pc[s]
         /\ mu' \in Requests \cup {Nobody}
         /\ wanted' \in [Requests -> Paths]
  BY AnyPathIsPath DEF Return, Goto, TypeOK

(* The mutex is free and no request is in readNewEvents after its holder's *)
(* return.                                                                 *)
LEMMA ReturnKeepsMutex ==
  ASSUME TypeOK, OneReader, NEW r \in Requests, mu = r, Return(r)
  PROVE  OneReader' /\ ~Scanning'
  <1>1. mu' = Nobody
    BY DEF Return
  <1>2. \A s \in Requests : pc'[s] \notin {"stat", "read"}
    BY ReturnTypes DEF OneReader
  <1> QED BY <1>1, <1>2, AccessSourceAssumption DEF OneReader, Scanning

LEMMA ExpireKeepsInv ==
  ASSUME Inv, Expire
  PROVE  Inv'
  <1>1. TypeOK' /\ OneReader' /\ (Scanning' <=> Scanning)
    BY DEF Expire, Inv, TypeOK, OneReader, Scanning, logVars, scanVars, boundVars, historyVars
  <1>2. Bookkeeping'
    BY <1>1, NothingHappens DEF Expire, historyVars
  <1> QED BY <1>1, <1>2 DEF Inv

LEMMA LookUpKeepsInv ==
  ASSUME Inv, NEW r \in Requests, NEW p \in Paths, LookUp(r, p)
  PROVE  Inv'
  <1>1. TypeOK'
    BY DEF LookUp, Goto, Inv, TypeOK, logVars, stateVars, scanVars, boundVars, historyVars
  <1>2. OneReader' /\ (Scanning' <=> Scanning)
    BY DEF LookUp, Goto, Inv, TypeOK, OneReader, Scanning
  <1>3. Bookkeeping'
    BY <1>2, NothingHappens DEF LookUp, historyVars, stateVars
  <1> QED BY <1>1, <1>2, <1>3 DEF Inv

LEMMA NotFoundKeepsInv ==
  ASSUME Inv, NEW r \in Requests, NotFound(r)
  PROVE  Inv'
  <1>1. mu = r
    BY DEF NotFound, Inv, OneReader
  <1>2. TypeOK'
    BY ReturnTypes
    DEF NotFound, Inv, TypeOK, logVars, stateVars, scanVars, boundVars, historyVars
  <1>3. OneReader' /\ ~Scanning'
    BY <1>1, ReturnKeepsMutex DEF NotFound, Inv
  <1>4. ~Scanning
    BY <1>1 DEF NotFound, Inv, OneReader, Scanning
  <1>5. Bookkeeping'
    BY <1>3, <1>4, NothingHappens DEF NotFound, historyVars, stateVars
  <1> QED BY <1>2, <1>3, <1>5 DEF Inv

LEMMA FailKeepsInv ==
  ASSUME Inv, NEW r \in Requests, Fail(r)
  PROVE  Inv'
  <1>1. mu = r
    BY DEF Fail, Inv, OneReader
  <1>2. TypeOK'
    <2>1. failures' \in 0..MaxFailures
      BY AccessSourceAssumption DEF Fail, Inv, TypeOK
    <2> QED BY <2>1, NoScanTypes, ReturnTypes
        DEF Fail, Inv, TypeOK, logVars, stateVars, historyVars
  <1>3. OneReader' /\ ~Scanning'
    BY <1>1, ReturnKeepsMutex DEF Fail, Inv
  <1>4. Bookkeeping'
    BY <1>3, NothingCounts DEF Fail, NoScan, historyVars, stateVars
  <1> QED BY <1>2, <1>3, <1>4 DEF Inv

LEMMA RestartKeepsInv ==
  ASSUME Inv, Restart
  PROVE  Inv'
  <1>1. TypeOK'
    <2>1. failures' \in 0..MaxFailures
      BY AccessSourceAssumption DEF Restart, Inv, TypeOK
    <2>2. /\ mu' \in Requests \cup {Nobody}
          /\ pc' \in [Requests -> {"idle", "lock", "stat", "read"}]
          /\ wanted' \in [Requests -> Paths]
      BY AnyPathIsPath DEF Restart
    <2> QED BY <2>1, <2>2, NoScanTypes, NothingIsTally
        DEF Restart, Forget, Inv, TypeOK, logVars
  <1>2. OneReader' /\ ~Scanning'
    BY AccessSourceAssumption DEF Restart, OneReader, Scanning
  <1>3. Bookkeeping'
    BY <1>2, EverythingIsForgotten DEF Restart, Forget, NoScan, logVars, Inv, TypeOK
  <1> QED BY <1>1, <1>2, <1>3 DEF Inv

LEMMA BeginKeepsInv ==
  ASSUME Inv, NEW r \in Requests, Begin(r)
  PROVE  Inv'
  <1>1. UNCHANGED <<logVars, scanVars, boundVars, raced>> /\ pc[r] = "lock" /\ mu = Nobody
    BY DEF Begin
  <1>2. \A s \in Requests : pc[s] \notin {"stat", "read"}
    BY <1>1, AccessSourceAssumption DEF Inv, OneReader
  <1>3. ~Scanning /\ found = {} /\ held = 0
    BY <1>2 DEF Scanning, Inv, Bookkeeping, ScanIsOver
  <1>4. \/ Return(r)
        \/ mu' = r /\ Goto(r, "stat") /\ UNCHANGED wanted
    BY DEF Begin
  <1>5. /\ pc' \in [Requests -> {"idle", "lock", "stat", "read"}]
        /\ mu' \in Requests \cup {Nobody}
        /\ wanted' \in [Requests -> Paths]
    BY <1>4, ReturnTypes DEF Goto, Inv, TypeOK
  <1>6. OneReader' /\ ~Scanning'
    <2>1. CASE Return(r)
      <3>1. mu' = Nobody /\ \A s \in Requests : pc'[s] \notin {"stat", "read"}
        BY <1>2, <2>1, ReturnTypes DEF Return, Inv
      <3> QED BY <3>1, AccessSourceAssumption DEF OneReader, Scanning
    <2>2. CASE mu' = r /\ Goto(r, "stat") /\ UNCHANGED wanted
      BY <1>2, <2>2 DEF Goto, Inv, TypeOK, OneReader, Scanning
    <2> QED BY <1>4, <2>1, <2>2
  <1>7. CASE wanted[r] = logPath
    <2>1. UNCHANGED <<stateVars, blind, cut, split>>
      BY <1>7 DEF Begin
    <2>2. TypeOK'
      BY <1>1, <1>5, <2>1 DEF Inv, TypeOK, logVars, stateVars, scanVars, boundVars
    <2>3. Bookkeeping'
      BY <1>1, <1>3, <1>6, <2>1, NothingHappens DEF stateVars
    <2> QED BY <1>6, <2>2, <2>3 DEF Inv
  <1>8. CASE wanted[r] # logPath
    <2>1. Forget /\ logPath' = wanted[r] /\ fresh' = FALSE /\ logPath' \in Paths
      BY <1>8 DEF Begin, Inv, TypeOK
    <2>2. TypeOK'
      BY <1>1, <1>5, <2>1, NothingIsTally DEF Forget, Inv, TypeOK, logVars, scanVars, boundVars
    <2>3. Bookkeeping'
      BY <1>1, <1>3, <1>6, <2>1, EverythingIsForgotten DEF Forget, logVars, scanVars
    <2> QED BY <1>6, <2>2, <2>3 DEF Inv
  <1> QED BY <1>7, <1>8

-----------------------------------------------------------------------------
(* The steps that count: Stat, the scan and its end. *)

LEMMA StatKeepsInv ==
  ASSUME Inv, NEW r \in Requests, Stat(r)
  PROVE  Inv'
  <1> DEFINE shrunk == Len(log) < offset
             from == IF shrunk THEN 0 ELSE offset
             start == Start(from)
             kept == IF shrunk THEN Nothing ELSE tally
  <1>1. pc[r] = "stat" /\ UNCHANGED <<logVars, logPath, boundVars, raced>> /\ offset' = from
    BY DEF Stat
  <1>2. mu = r
    BY <1>1 DEF Inv, OneReader
  <1>3. ~Scanning /\ found = {} /\ held = 0
    BY <1>1, <1>2 DEF Inv, OneReader, Scanning, Bookkeeping, ScanIsOver
  <1>4. logPath \in Paths /\ Len(log) \in Nat /\ offset \in Nat /\ MaxRead \in Nat \ {0}
    BY LogHasLength, AccessSourceAssumption DEF Inv, TypeOK, log
  <1>5. from \in Nat /\ start \in Nat /\ start >= from /\ kept \in [Lines -> Nat] /\ from <= Len(log)
    BY <1>4, NothingIsTally DEF Start, Inv, TypeOK
  <1>6. blind' \in BOOLEAN /\ (blind' => blind) /\ (~shrunk => blind' = blind)
    <2>1. blind' = (blind /\ ~shrunk)
      BY DEF Stat
    <2>2. blind \in BOOLEAN
      BY DEF Inv, TypeOK
    <2> HIDE DEF shrunk
    <2> QED BY <2>1, <2>2
  <1>7. CASE from = Len(log)
    <2>1. Finish(r, kept)
      BY <1>7 DEF Stat
    <2>2. cut' \subseteq Lines /\ split' \subseteq Lines
      BY <1>7 DEF Stat, Inv, TypeOK
    <2>3. tally' = kept /\ report' = kept /\ found' = {} /\ held' = 0
      <3>1. tally' = [n \in Lines |-> kept[n]]
        BY <1>3, <2>1 DEF Finish
      <3> QED BY <1>5, <2>1, <3>1 DEF Finish, NoScan
    <2>4. TypeOK'
      BY <1>1, <1>5, <1>6, <2>1, <2>2, <2>3, ReturnTypes, NoScanTypes
      DEF Finish, Inv, TypeOK, logVars, boundVars
    <2>5. OneReader' /\ ~Scanning'
      BY <1>2, <2>1, ReturnKeepsMutex DEF Finish, Inv
    <2>6. Bookkeeping'
      <3>1. CASE shrunk
        BY <1>1, <1>4, <2>3, <2>5, <3>1, EverythingIsForgotten DEF logVars
      <3>2. CASE ~shrunk
        BY <1>1, <1>6, <2>3, <2>5, <3>2, NothingCounts DEF logVars
      <3> QED BY <3>1, <3>2
    <2> QED BY <2>4, <2>5, <2>6 DEF Inv
  <1>8. CASE from # Len(log)
    <2>1. /\ Goto(r, "read") /\ UNCHANGED <<held, found, fresh, mu, wanted>>
          /\ tally' = kept
          /\ report' = IF shrunk THEN NoReport ELSE report
          /\ size' = Len(log) /\ position' = start /\ skipping' = (start # from)
          /\ cut' = (IF shrunk THEN {} ELSE cut)
                      \cup (IF start # from THEN CutBy(log, start) ELSE {})
          /\ split' = (IF shrunk THEN {} ELSE split)
                        \cup (IF Ends(log[Len(log)]) THEN {} ELSE {log[Len(log)].line})
      BY <1>8 DEF Stat
    <2>2. Len(log) > 0 /\ log[Len(log)].line \in Lines
      <3>1. Len(log) > 0
        BY <1>4, <1>5, <1>8
      <3> QED BY <1>4, <3>1, PieceHasLine DEF Inv, log
    <2>3. TypeOK'
      <3>1. cut' \subseteq Lines
        BY <2>1, CutByIsLines DEF Inv, TypeOK
      <3>2. split' \subseteq Lines
        BY <2>1, <2>2 DEF Inv, TypeOK
      <3>3. skipping' \in BOOLEAN
        <4> HIDE DEF start, from
        <4> QED BY <2>1
      <3>4. pc' \in [Requests -> {"idle", "lock", "stat", "read"}]
        BY <2>1 DEF Goto, Inv, TypeOK
      <3>5. report' \in {NoReport} \cup [Lines -> Nat]
        BY <2>1 DEF Inv, TypeOK
      <3> QED BY <1>1, <1>4, <1>5, <1>6, <2>1, <3>1, <3>2, <3>3, <3>4, <3>5
          DEF Inv, TypeOK, logVars, boundVars
    <2>4. OneReader'
      BY <1>2, <2>1 DEF Goto, Inv, TypeOK, OneReader
    <2>5. Scanning'
      BY <2>1 DEF Scanning, Goto, Inv, TypeOK
    <2>6. log' = log
      BY <1>1 DEF log, logVars
    <2>7. tally' = tally \/ tally' = Nothing
      BY <2>1
    <2>8. ScanIsOver' /\ FoundIsCurrent'
      BY <1>3, <2>1, <2>5 DEF ScanIsOver, FoundIsCurrent
    <2>9. StartIsEmpty' /\ ReportIsTally'
      BY <1>1, <2>1 DEF Inv, Bookkeeping, StartIsEmpty, ReportIsTally
    <2>10. LinesAreWritten'
      <3>1. \A n \in Lines : tally'[n] > 0 => tally[n] > 0
        BY <2>7, NothingIsTally DEF Inv, TypeOK
      <3> QED BY <1>1, <1>3, <2>1, <3>1 DEF Inv, Bookkeeping, LinesAreWritten, logVars
    <2>11. UnreadIsCountable'
      <3>1. CASE shrunk
        <4>1. \A i \in 1..Len(log) : log[i].line \in Lines
          BY <1>4, PieceHasLine DEF Inv, log
        <4> QED BY <2>1, <2>6, <3>1, <4>1, NothingIsTally DEF UnreadIsCountable, Countable
      <3>2. CASE ~shrunk
        BY <1>1, <2>1, <2>6, <3>2 DEF Inv, Bookkeeping, UnreadIsCountable, Countable
      <3> QED BY <3>1, <3>2
    <2>12. ScanIsCountable'
      BY <1>1, <1>3, <1>4, <1>5, <2>1, <2>2, <2>6 DEF ScanIsCountable
    <2>13. TwiceOnlyIfRaced'
      BY <1>1, <2>7, NothingIsTally DEF Inv, Bookkeeping, TwiceOnlyIfRaced
    <2>14. CountsAreCurrent'
      <3>1. CASE shrunk
        BY <2>1, <3>1, NothingIsTally DEF CountsAreCurrent
      <3>2. CASE ~shrunk
        BY <1>6, <2>1, <2>6, <3>2 DEF Inv, Bookkeeping, CountsAreCurrent, InLog
      <3> QED BY <3>1, <3>2
    <2> QED BY <2>3, <2>4, <2>8, <2>9, <2>10, <2>11, <2>12, <2>13, <2>14 DEF Inv, Bookkeeping
  <1> QED BY <1>7, <1>8

LEMMA ReadKeepsInv ==
  ASSUME Inv, NEW r \in Requests, Read(r)
  PROVE  Inv'
  <1> DEFINE piece == log[position + 1]
             whole == piece.part = "all" \/ (piece.part = "tail" /\ piece.line = held)
  <1>1. pc[r] = "read" /\ position < Len(log) /\ position' = position + 1
        /\ UNCHANGED <<logVars, mu, stateVars, pc, wanted, size, boundVars, historyVars>>
    BY DEF Read
  <1>2. logPath \in Paths /\ Len(log) \in Nat /\ position \in Nat /\ offset \in Nat
    BY LogHasLength DEF Inv, TypeOK, log
  <1>3. position + 1 \in 1..Len(log) /\ position + 1 > offset
    <2>1. position >= offset
      BY <1>1 DEF Inv, Bookkeeping, ScanIsCountable, Scanning
    <2> QED BY <1>1, <1>2, <2>1
  <1>4. piece.line \in Lines /\ piece.line <= written /\ InLog(piece.line)
    <2>1. piece.line \in Lines
      BY <1>2, <1>3, PieceHasLine DEF Inv, log
    <2>2. piece.line <= written
      BY <1>2, <1>3 DEF Inv, Bookkeeping, LinesAreWritten, log
    <2> QED BY <1>3, <2>1, <2>2 DEF InLog
  <1>5. piece.part # "tail" => Countable(piece.line)
    BY <1>3 DEF Inv, Bookkeeping, UnreadIsCountable
  <1>6. /\ held # 0 => Countable(held)
        /\ \A n \in found : Countable(n)
        /\ position >= offset /\ size > 0
    BY <1>1 DEF Inv, Bookkeeping, ScanIsCountable, Scanning
  <1>7. held' \in {0, piece.line} /\ (held' # 0 => held' = piece.line /\ piece.part = "head")
    BY DEF Read
  <1>8. \/ found' = found
        \/ found' = found \cup {piece.line} /\ whole
    BY DEF Read
  <1>9. whole => Countable(piece.line)
    BY <1>4, <1>5, <1>6 DEF Lines
  <1>10. skipping' \in BOOLEAN
    <2>1. skipping' = (skipping /\ ~Ends(piece))
      BY DEF Read
    <2>2. skipping \in BOOLEAN
      BY DEF Inv, TypeOK
    <2> QED BY <2>1, <2>2
  <1> HIDE DEF piece, whole
  <1>11. TypeOK'
    <2>1. held' \in 0..MaxLines
      BY <1>4, <1>7, AccessSourceAssumption DEF Lines
    <2>2. found' \in SUBSET Lines
      BY <1>4, <1>8 DEF Inv, TypeOK
    <2> QED BY <1>1, <1>2, <1>10, <2>1, <2>2
        DEF Inv, TypeOK, logVars, stateVars, boundVars, historyVars
  <1>12. Scanning /\ Scanning'
    BY <1>1 DEF Scanning
  <1>13. log' = log /\ \A n : Countable(n)' <=> Countable(n)
    BY <1>1 DEF log, logVars, stateVars, historyVars, Countable
  <1>14. OneReader' /\ ScanIsOver' /\ StartIsEmpty' /\ TwiceOnlyIfRaced' /\ ReportIsTally'
    BY <1>1, <1>12 DEF Inv, Bookkeeping, OneReader, ScanIsOver, StartIsEmpty,
       TwiceOnlyIfRaced, ReportIsTally, stateVars, historyVars
  <1>15. LinesAreWritten'
    <2>1. \A n \in found' : n <= written
      BY <1>4, <1>8 DEF Inv, Bookkeeping, LinesAreWritten
    <2>2. held' <= written
      <3>1. 0 <= written
        BY DEF Inv, TypeOK
      <3> QED BY <1>4, <1>7, <3>1
    <2> QED BY <1>1, <2>1, <2>2 DEF Inv, Bookkeeping, LinesAreWritten, logVars, stateVars
  <1>16. UnreadIsCountable'
    BY <1>1, <1>13 DEF Inv, Bookkeeping, UnreadIsCountable, Countable, stateVars, historyVars
  <1>17. ScanIsCountable'
    <2>1. \A n \in found' : Countable(n)'
      BY <1>6, <1>8, <1>9, <1>13
    <2>2. held' # 0 => Countable(piece.line)
      BY <1>5, <1>7
    <2>3. held' # 0 => tally'[held'] = 0 \/ (tally'[held'] = 1 /\ held' \in raced')
      BY <1>1, <1>7, <2>2 DEF Countable, stateVars, historyVars
    <2>4. position' >= offset' /\ size' > 0
      BY <1>1, <1>2, <1>6 DEF stateVars
    <2>5. \A i \in 1..Len(log)' :
            log'[i].part # "tail" /\ i > size' =>
              tally'[log'[i].line] = 0 /\ log'[i].line \in raced'
      BY <1>1, <1>12, <1>13 DEF Inv, Bookkeeping, ScanIsCountable, stateVars, historyVars
    <2> QED BY <2>1, <2>3, <2>4, <2>5 DEF ScanIsCountable, Countable
  <1>18. FoundIsCurrent' /\ CountsAreCurrent'
    <2>1. \A n : InLog(n)' <=> InLog(n)
      BY <1>13 DEF InLog
    <2> QED BY <1>1, <1>4, <1>8, <2>1
        DEF Inv, Bookkeeping, FoundIsCurrent, CountsAreCurrent, stateVars, historyVars
  <1> QED BY <1>11, <1>14, <1>15, <1>16, <1>17, <1>18 DEF Inv, Bookkeeping

LEMMA EndOfFileKeepsInv ==
  ASSUME Inv, NEW r \in Requests, EndOfFile(r)
  PROVE  Inv'
  <1>1. /\ pc[r] = "read" /\ offset' = size /\ Finish(r, tally)
        /\ UNCHANGED <<logVars, logPath, boundVars, historyVars>>
    BY DEF EndOfFile
  <1>2. mu = r /\ Scanning
    BY <1>1 DEF Inv, OneReader, Scanning
  <1>3. OneReader' /\ ~Scanning'
    BY <1>1, <1>2, ReturnKeepsMutex DEF Finish, Inv
  <1>4. /\ tally' = [n \in Lines |-> IF n \in found THEN tally[n] + 1 ELSE tally[n]]
        /\ report' = tally' /\ found' = {} /\ held' = 0 /\ log' = log /\ logPath \in Paths
    BY <1>1 DEF Finish, NoScan, log, logVars, Inv, TypeOK
  <1>5. \A n \in Lines : tally[n] \in Nat
    BY DEF Inv, TypeOK
  <1>6. TypeOK'
    <2>1. tally' \in [Lines -> Nat]
      BY <1>4, <1>5
    <2> QED BY <1>1, <1>4, <2>1, ReturnTypes, NoScanTypes
        DEF Finish, Inv, TypeOK, logVars, boundVars, historyVars
  <1>7. \A n \in found : Countable(n) /\ n <= written
    BY <1>2 DEF Inv, Bookkeeping, ScanIsCountable, LinesAreWritten
  <1>8. ScanIsOver' /\ ScanIsCountable' /\ FoundIsCurrent' /\ ReportIsTally'
    BY <1>3, <1>4 DEF ScanIsOver, ScanIsCountable, FoundIsCurrent, ReportIsTally
  <1>9. StartIsEmpty'
    BY <1>1, <1>2 DEF Inv, Bookkeeping, ScanIsCountable, StartIsEmpty, TypeOK
  <1>10. LinesAreWritten'
    <2>1. \A n \in Lines : tally'[n] > 0 => n <= written
      BY <1>4, <1>5, <1>7 DEF Inv, Bookkeeping, LinesAreWritten
    <2>2. 0 <= written
      BY DEF Inv, TypeOK
    <2> QED BY <1>1, <1>4, <2>1, <2>2 DEF Inv, Bookkeeping, LinesAreWritten, logVars
  <1>11. UnreadIsCountable'
    <2> SUFFICES ASSUME NEW i \in 1..Len(log), log[i].part # "tail", i > size
                 PROVE  tally'[log[i].line] = 0
                        \/ (tally'[log[i].line] = 1 /\ log[i].line \in raced)
      BY <1>1, <1>4 DEF UnreadIsCountable, Countable, historyVars
    <2>1. tally[log[i].line] = 0 /\ log[i].line \in raced
      BY <1>2 DEF Inv, Bookkeeping, ScanIsCountable
    <2>2. log[i].line \in Lines
      BY <1>4, PieceHasLine DEF Inv, log
    <2> QED BY <1>4, <2>1, <2>2
  <1>12. TwiceOnlyIfRaced'
    BY <1>1, <1>4, <1>5, <1>7
    DEF Inv, Bookkeeping, TwiceOnlyIfRaced, Countable, historyVars
  <1>13. CountsAreCurrent'
    <2>1. \A n : InLog(n)' <=> InLog(n)
      BY <1>4 DEF InLog
    <2>2. \A n \in Lines : tally'[n] > 0 => tally[n] > 0 \/ n \in found
      BY <1>4
    <2> QED BY <1>1, <2>1, <2>2 DEF Inv, Bookkeeping, FoundIsCurrent, CountsAreCurrent, historyVars
  <1> QED BY <1>3, <1>6, <1>8, <1>9, <1>10, <1>11, <1>12, <1>13 DEF Inv, Bookkeeping

-----------------------------------------------------------------------------
LEMMA InitInv ==
  ASSUME Init
  PROVE  Inv
  <1>1. TypeOK
    <2>1. logs \in [Paths -> Seq(Piece)]
      BY DEF Init
    <2>2. 0 \in 0..MaxLines /\ 0 \in 0..MaxTruncations /\ 0 \in 0..MaxFailures
      BY AccessSourceAssumption
    <2>3. \A S : {} \subseteq S
      OBVIOUS
    <2> QED BY <2>1, <2>2, <2>3, NothingIsTally, AnyPathIsPath DEF Init, TypeOK
  <1>2. OneReader
    BY AccessSourceAssumption DEF Init, OneReader
  <1>3. log = <<>> /\ ~Scanning
    BY DEF Init, log, Scanning
  <1>4. ScanIsOver /\ UnreadIsCountable /\ ScanIsCountable /\ FoundIsCurrent /\ StartIsEmpty
    BY <1>3
    DEF Init, ScanIsOver, UnreadIsCountable, ScanIsCountable, FoundIsCurrent, StartIsEmpty
  <1>5. LinesAreWritten /\ TwiceOnlyIfRaced /\ CountsAreCurrent /\ ReportIsTally
    BY NothingIsTally
    DEF Init, LinesAreWritten, TwiceOnlyIfRaced, CountsAreCurrent, ReportIsTally
  <1> QED BY <1>1, <1>2, <1>4, <1>5 DEF Inv, Bookkeeping

LEMMA NextKeepsInv ==
  ASSUME Inv, [Next]_vars
  PROVE  Inv'
  <1>1. CASE Next
    BY <1>1, WriteKeepsInv, WriteTailKeepsInv, TruncateKeepsInv, ExpireKeepsInv,
       RestartKeepsInv, LookUpKeepsInv, BeginKeepsInv, NotFoundKeepsInv, StatKeepsInv,
       ReadKeepsInv, EndOfFileKeepsInv, FailKeepsInv
    DEF Next
  <1>2. CASE UNCHANGED vars
    <2>1. TypeOK' /\ OneReader' /\ (Scanning' <=> Scanning)
      BY <1>2 DEF Inv, TypeOK, OneReader, Scanning, vars, logVars, stateVars, scanVars,
         boundVars, historyVars
    <2>2. Bookkeeping'
      BY <1>2, <2>1, NothingHappens DEF vars, stateVars, historyVars
    <2> QED BY <2>1, <2>2 DEF Inv
  <1> QED BY <1>1, <1>2

LEMMA InvAlways == Spec => []Inv
  BY InitInv, NextKeepsInv, PTL DEF Spec

-----------------------------------------------------------------------------
(* What lies behind the reader. *)

(* The tail of a line follows its head, unless the log was emptied between *)
(* the two; left is the line whose tail is still to come.                  *)
Shaped(pieces, left) ==
  /\ \A i \in 1..Len(pieces) :
       /\ pieces[i].part = "head" /\ i = Len(pieces) => left = pieces[i].line
       /\ pieces[i].part = "head" /\ i < Len(pieces) =>
            pieces[i + 1].part = "tail" /\ pieces[i + 1].line = pieces[i].line
       /\ pieces[i].part = "tail" /\ i > 1 =>
            pieces[i - 1].part = "head" /\ pieces[i - 1].line = pieces[i].line
  /\ left # 0 /\ Len(pieces) > 0 =>
       pieces[Len(pieces)].part = "head" /\ pieces[Len(pieces)].line = left

LogShape == \A p \in Paths : Shaped(logs[p], unfinished[p])

(* What a scan has passed is counted when it ends: found already, or the   *)
(* line whose head it holds.                                               *)
Passed(i) ==
  \/ Covered(i)
  \/ log[i].line \in found
  \/ i = position /\ log[i].part = "head" /\ held = log[i].line

(* It looks for the end of a line the limit on the first read cut through. *)
SkippingIsCut ==
  skipping =>
    /\ \A i \in 1..position : log[i].line \in cut
    /\ position < Len(log) => log[position + 1].line \in cut
    /\ position = Len(log) => log[position].part = "head"

ScanCoverage ==
  /\ size > 0 /\ size <= Len(log) /\ position <= Len(log)
  /\ log[size].part = "head" => log[size].line \in split
  /\ \A i \in 1..position : Passed(i)
  /\ SkippingIsCut

ScanMissesNothing == ~blind /\ Scanning => ScanCoverage

Coverage == LogShape /\ NothingMissed /\ ScanMissesNothing

LEMMA GrownIsShaped ==
  ASSUME NEW pieces \in Seq(Piece), NEW more \in Seq(Piece), NEW rest, NEW left,
         Shaped(pieces, rest), Len(more) = Len(pieces) + 1,
         \A i \in 1..Len(pieces) : more[i] = pieces[i],
         LET last == more[Len(pieces) + 1] IN
           \/ rest = 0 /\ last.part = "all" /\ left = 0
           \/ rest = 0 /\ last.part = "head" /\ left = last.line
           \/ rest # 0 /\ last.part = "tail" /\ last.line = rest /\ left = 0
  PROVE  Shaped(more, left)
  <1> DEFINE n == Len(pieces)
             last == more[n + 1]
  <1>1. n \in Nat /\ Len(more) = n + 1
    OBVIOUS
  <1>2. \A i \in 1..n : pieces[i].line # 0
    <2>1. \A i \in 1..n : pieces[i] \in Piece
      OBVIOUS
    <2>2. \A piece \in Piece : piece.line # 0
      BY DEF Piece, Lines
    <2> QED BY <2>1, <2>2
  <1>3. n > 0 => (pieces[n].part = "head" <=> rest # 0) /\ (rest # 0 => pieces[n].line = rest)
    BY <1>1, <1>2 DEF Shaped
  <1>4. last.part = "tail" => rest # 0 /\ last.line = rest
    OBVIOUS
  <1>5. last.part # "tail" => rest = 0
    OBVIOUS
  <1>6. last.part = "head" <=> left # 0
    <2>1. last \in Piece
      BY <1>1
    <2>2. last.line # 0
      BY <2>1 DEF Piece, Lines
    <2> QED BY <2>2
  <1>7. left # 0 => last.line = left
    OBVIOUS
  <1>8. \A i \in 1..n : more[i] = pieces[i]
    OBVIOUS
  <1>9. Len(pieces) = n /\ more[n + 1] = last
    OBVIOUS
  <1> HIDE DEF n, last
  <1>10. ASSUME NEW i \in 1..n + 1
         PROVE  /\ more[i].part = "head" /\ i = n + 1 => left = more[i].line
                /\ more[i].part = "head" /\ i < n + 1 =>
                     more[i + 1].part = "tail" /\ more[i + 1].line = more[i].line
                /\ more[i].part = "tail" /\ i > 1 =>
                     more[i - 1].part = "head" /\ more[i - 1].line = more[i].line
    <2>1. CASE i = n + 1
      BY <1>1, <1>3, <1>4, <1>6, <1>7, <1>8, <1>9, <2>1
    <2>2. CASE i \in 1..n
      <3>1. more[i] = pieces[i] /\ i < n + 1 /\ (i > 1 => more[i - 1] = pieces[i - 1])
        BY <1>1, <1>8, <2>2
      <3>2. pieces[i].part = "tail" /\ i > 1 =>
              pieces[i - 1].part = "head" /\ pieces[i - 1].line = pieces[i].line
        BY <1>9, <2>2 DEF Shaped
      <3>3. CASE i = n
        <4>1. last.part = "tail" \/ rest = 0
          BY <1>5
        <4> QED BY <1>1, <1>3, <1>4, <1>9, <3>1, <3>2, <3>3, <4>1
      <3>4. CASE i < n
        <4>1. more[i + 1] = pieces[i + 1]
          BY <1>1, <1>8, <2>2, <3>4
        <4> QED BY <1>1, <1>9, <2>2, <3>1, <3>2, <3>4, <4>1 DEF Shaped
      <3> QED BY <1>1, <2>2, <3>3, <3>4
    <2> QED BY <1>1, <2>1, <2>2
  <1> QED BY <1>1, <1>6, <1>7, <1>9, <1>10 DEF Shaped

(* Only Xray and copytruncate change the shape of a log.                   *)
LEMMA StepKeepsShape ==
  ASSUME Inv, LogShape, [Next]_vars
  PROVE  LogShape'
  <1>1. ASSUME NEW p \in Paths, NEW piece \in Piece, Put(p, piece),
               \A q \in Paths \ {p} : unfinished'[q] = unfinished[q],
               \/ unfinished[p] = 0 /\ piece.part = "all" /\ unfinished'[p] = 0
               \/ unfinished[p] = 0 /\ piece.part = "head" /\ unfinished'[p] = piece.line
               \/ /\ unfinished[p] # 0 /\ piece.part = "tail" /\ piece.line = unfinished[p]
                  /\ unfinished'[p] = 0
        PROVE  LogShape'
    <2>1. /\ logs' \in [Paths -> Seq(Piece)]
          /\ \A q \in Paths \ {p} : logs'[q] = logs[q]
          /\ Len(logs'[p]) = Len(logs[p]) + 1
          /\ \A i \in 1..Len(logs[p]) : logs'[p][i] = logs[p][i]
          /\ logs'[p][Len(logs[p]) + 1] = piece
      BY <1>1, PutIsAppend DEF Inv
    <2>2. Shaped(logs'[p], unfinished'[p])
      <3>1. logs[p] \in Seq(Piece) /\ logs'[p] \in Seq(Piece) /\ Shaped(logs[p], unfinished[p])
        BY <2>1 DEF Inv, TypeOK, LogShape
      <3> QED BY <1>1, <2>1, <3>1, GrownIsShaped
    <2> QED BY <1>1, <2>1, <2>2 DEF LogShape
  <1>2. ASSUME NEW p \in Paths, Write(p) PROVE LogShape'
    <2>1. written + 1 \in Lines /\ written' = written + 1 /\ unfinished[p] = 0
      BY <1>2, AccessSourceAssumption DEF Write, Inv, TypeOK, Lines
    <2>2. CASE Put(p, [line |-> written', part |-> "all"]) /\ UNCHANGED unfinished
      BY <1>1, <2>1, <2>2 DEF Piece
    <2>3. CASE /\ Put(p, [line |-> written', part |-> "head"])
               /\ unfinished' = [unfinished EXCEPT ![p] = written']
      <3>1. unfinished'[p] = written' /\ \A q \in Paths \ {p} : unfinished'[q] = unfinished[q]
        BY <2>3 DEF Inv, TypeOK
      <3>2. [line |-> written', part |-> "head"] \in Piece
        BY <2>1 DEF Piece
      <3> QED BY <1>1, <2>1, <2>3, <3>1, <3>2
    <2> QED BY <1>2, <2>2, <2>3 DEF Write
  <1>3. ASSUME NEW p \in Paths, WriteTail(p) PROVE LogShape'
    <2>1. unfinished[p] \in Lines
      BY <1>3 DEF WriteTail, Inv, TypeOK, Lines
    <2>2. unfinished'[p] = 0 /\ \A q \in Paths \ {p} : unfinished'[q] = unfinished[q]
      BY <1>3 DEF WriteTail, Inv, TypeOK
    <2>3. [line |-> unfinished[p], part |-> "tail"] \in Piece
      BY <2>1 DEF Piece
    <2> QED BY <1>1, <1>3, <2>2, <2>3 DEF WriteTail
  <1>4. ASSUME NEW p \in Paths, Truncate(p) PROVE LogShape'
    <2>1. unfinished' = unfinished /\ logs'[p] = <<>> /\ \A q \in Paths \ {p} : logs'[q] = logs[q]
      BY <1>4 DEF Truncate, Inv, TypeOK
    <2>2. Shaped(<<>>, unfinished[p])
      BY DEF Shaped
    <2> QED BY <2>1, <2>2 DEF LogShape
  <1>5. ASSUME UNCHANGED logVars PROVE LogShape'
    BY <1>5 DEF logVars, LogShape
  <1>6. CASE \/ Expire \/ Restart \/ UNCHANGED vars
             \/ \E r \in Requests :
                  \/ \E p \in Paths : LookUp(r, p)
                  \/ Begin(r) \/ NotFound(r) \/ Stat(r) \/ Read(r) \/ EndOfFile(r) \/ Fail(r)
    BY <1>5, <1>6 DEF Expire, Restart, LookUp, Begin, NotFound, Stat, Read, EndOfFile, Fail, vars
  <1> QED BY <1>2, <1>3, <1>4, <1>6 DEF Next

(* A log that grows takes nothing from what is covered.                    *)
LEMMA GrowthKeepsCoverage ==
  ASSUME Inv, Coverage, LogShape', NEW p \in Paths, NEW piece \in Piece, Put(p, piece),
         UNCHANGED <<mu, stateVars, pc, scanVars, blind, cut, split>>
  PROVE  Coverage'
  <1>1. logPath' = logPath /\ logPath \in Paths /\ (Scanning' <=> Scanning)
    BY DEF stateVars, Scanning, Inv, TypeOK
  <1>2. Len(log) \in Nat /\ offset \in Nat /\ size \in Nat /\ position \in Nat
    BY <1>1, LogHasLength DEF Inv, TypeOK, log
  <1>3. /\ Len(log') \in {Len(log), Len(log) + 1}
        /\ \A i \in 1..Len(log) : log'[i] = log[i]
    BY <1>1, PutIsAppend DEF Inv, log
  <1>4. Len(log) > 0 /\ Len(log') = Len(log) + 1 /\ log[Len(log)].part = "head" =>
          log'[Len(log) + 1].line = log[Len(log)].line
    <2> DEFINE now == logs'[logPath]
    <2>1. Shaped(now, unfinished'[logPath]) /\ now = log'
      BY <1>1 DEF LogShape, log
    <2> HIDE DEF now
    <2>2. \A i \in 1..Len(now) :
            now[i].part = "head" /\ i < Len(now) => now[i + 1].line = now[i].line
      BY <2>1 DEF Shaped
    <2> QED BY <1>2, <1>3, <2>1, <2>2
  <1>5. UNCHANGED <<offset, tally, size, position, skipping, held, found, blind, cut, split>>
    BY DEF stateVars, scanVars
  <1>6. NothingMissed'
    BY <1>2, <1>3, <1>5 DEF Coverage, NothingMissed, Covered
  <1>7. ScanMissesNothing'
    <2> SUFFICES ASSUME ~blind, Scanning
                 PROVE  ScanCoverage'
      BY <1>1, <1>5 DEF ScanMissesNothing
    <2>1. ScanCoverage
      BY DEF Coverage, ScanMissesNothing
    <2>2. size' > 0 /\ size' <= Len(log') /\ position' <= Len(log')
      BY <1>2, <1>3, <1>5, <2>1 DEF ScanCoverage
    <2>3. log'[size'].part = "head" => log'[size'].line \in split'
      BY <1>2, <1>3, <1>5, <2>1 DEF ScanCoverage
    <2>4. \A i \in 1..position' : Passed(i)'
      BY <1>2, <1>3, <1>5, <2>1 DEF ScanCoverage, Passed, Covered
    <2>5. SkippingIsCut'
      <3> SUFFICES ASSUME skipping PROVE SkippingIsCut'
        BY <1>5 DEF SkippingIsCut
      <3>1. /\ \A i \in 1..position : log[i].line \in cut
            /\ position < Len(log) => log[position + 1].line \in cut
            /\ position = Len(log) => log[position].part = "head"
        BY <2>1 DEF ScanCoverage, SkippingIsCut
      <3>2. \A i \in 1..position : log'[i].line \in cut
        BY <1>2, <1>3, <2>1, <3>1 DEF ScanCoverage
      <3>3. CASE position < Len(log)
        BY <1>2, <1>3, <1>5, <3>1, <3>2, <3>3 DEF SkippingIsCut
      <3>4. CASE position = Len(log)
        <4>1. position > 0 /\ log[position].line \in cut
          BY <1>2, <2>1, <3>1, <3>4 DEF ScanCoverage
        <4> QED BY <1>2, <1>3, <1>4, <1>5, <3>1, <3>2, <3>4, <4>1 DEF SkippingIsCut
      <3> QED BY <1>2, <2>1, <3>3, <3>4 DEF ScanCoverage
    <2> QED BY <2>2, <2>3, <2>4, <2>5 DEF ScanCoverage
  <1> QED BY <1>6, <1>7 DEF Coverage

(* A log is emptied unnoticed only where nothing of it was counted.        *)
LEMMA TruncateKeepsCoverage ==
  ASSUME Inv, Coverage, LogShape', NEW p \in Paths, Truncate(p)
  PROVE  Coverage'
  <1>1. UNCHANGED <<unfinished, mu, stateVars, pc, scanVars, cut, split>>
    BY DEF Truncate
  <1>2. logPath' = logPath /\ logPath \in Paths /\ (Scanning' <=> Scanning)
    BY <1>1 DEF stateVars, Scanning, Inv, TypeOK
  <1>3. CASE p # logPath
    <2>1. log' = log /\ blind' = blind
      BY <1>2, <1>3 DEF log, Truncate, Inv, TypeOK
    <2> QED BY <1>1, <1>2, <2>1
        DEF Coverage, NothingMissed, Covered, ScanMissesNothing, ScanCoverage, Passed,
            SkippingIsCut, stateVars, scanVars
  <1>4. CASE p = logPath
    <2> SUFFICES ASSUME ~blind' PROVE Coverage'
      BY DEF Coverage, NothingMissed, ScanMissesNothing
    <2>1. offset = 0 /\ ~Scanning
      <3> DEFINE unread == offset > 0
      <3>1. blind' = (blind \/ (p = logPath /\ (unread \/ Scanning)))
        BY DEF Truncate
      <3>2. ~unread /\ ~Scanning
        <4> HIDE DEF unread
        <4> QED BY <1>4, <3>1, Zenon
      <3> QED BY <3>2 DEF Inv, TypeOK
    <2>2. Len(log') \in Nat
      BY <1>2, <1>4 DEF Truncate, log, Inv, TypeOK
    <2> QED BY <1>1, <1>2, <2>1, <2>2 DEF Coverage, NothingMissed, ScanMissesNothing, stateVars
  <1> QED BY <1>3, <1>4

(* No request scans and the offset stays.                                  *)
LEMMA OffsetStays ==
  ASSUME Inv, Coverage, ~Scanning', UNCHANGED <<logVars, logPath, offset, tally, blind, cut, split>>
  PROVE  Coverage'
  BY DEF Coverage, LogShape, NothingMissed, Covered, ScanMissesNothing, log, logVars

(* Nothing lies before an offset of zero.                                  *)
LEMMA StartMissesNothing ==
  ASSUME Inv, Coverage, ~Scanning', offset' = 0, UNCHANGED logVars, logPath' \in Paths
  PROVE  Coverage'
  <1>1. Len(log') \in Nat
    BY LogHasLength DEF log, logVars, Inv
  <1> QED BY <1>1 DEF Coverage, LogShape, NothingMissed, ScanMissesNothing, logVars

LEMMA StatKeepsCoverage ==
  ASSUME Inv, Coverage, NEW r \in Requests, Stat(r)
  PROVE  Coverage'
  <1> DEFINE shrunk == Len(log) < offset
             from == IF shrunk THEN 0 ELSE offset
             start == Start(from)
  <1>1. pc[r] = "stat" /\ UNCHANGED <<logVars, logPath>> /\ offset' = from /\ log' = log
    BY DEF Stat, log, logVars
  <1>2. mu = r /\ ~Scanning /\ found = {} /\ held = 0
    BY <1>1 DEF Inv, OneReader, Scanning, Bookkeeping, ScanIsOver
  <1>3. logPath \in Paths /\ Len(log) \in Nat /\ offset \in Nat /\ MaxRead \in Nat \ {0}
    BY LogHasLength, AccessSourceAssumption DEF Inv, TypeOK, log
  <1>4. from \in Nat /\ from <= Len(log) /\ start \in Nat /\ start >= from
        /\ (start # from => start < Len(log) /\ start > 0)
    BY <1>3 DEF Start
  <1>5. ~blind' => shrunk \/ ~blind
    <2>1. blind' = (blind /\ ~shrunk)
      BY DEF Stat
    <2> HIDE DEF shrunk
    <2> QED BY <2>1, Zenon
  <1>6. CASE from = Len(log)
    <2>1. Finish(r, IF shrunk THEN Nothing ELSE tally)
      BY <1>6 DEF Stat
    <2>2. ~Scanning'
      BY <1>2, <2>1, ReturnKeepsMutex DEF Finish, Inv
    <2>3. CASE shrunk
      BY <1>1, <1>3, <2>2, <2>3, StartMissesNothing
    <2>4. CASE ~shrunk
      <3>1. tally' = tally
        <4>1. tally' = [n \in Lines |-> tally[n]]
          BY <1>2, <2>1, <2>4 DEF Finish
        <4> QED BY <4>1 DEF Inv, TypeOK
      <3>2. cut' = cut /\ split' = split /\ blind' = blind
        <4>1. blind' = (blind /\ ~shrunk) /\ blind \in BOOLEAN
          BY DEF Stat, Inv, TypeOK
        <4>2. blind' = blind
          <5> HIDE DEF shrunk
          <5> QED BY <2>4, <4>1
        <4> QED BY <1>6, <2>4, <4>2 DEF Stat
      <3> QED BY <1>1, <2>2, <2>4, <3>1, <3>2, OffsetStays
    <2> QED BY <2>3, <2>4
  <1>7. CASE from # Len(log)
    <2>1. /\ Goto(r, "read") /\ UNCHANGED <<held, found>>
          /\ tally' = IF shrunk THEN Nothing ELSE tally
          /\ size' = Len(log) /\ position' = start /\ skipping' = (start # from)
          /\ cut' = (IF shrunk THEN {} ELSE cut)
                      \cup (IF start # from THEN CutBy(log, start) ELSE {})
          /\ split' = (IF shrunk THEN {} ELSE split)
                        \cup (IF Ends(log[Len(log)]) THEN {} ELSE {log[Len(log)].line})
      BY <1>7 DEF Stat
    <2>2. LogShape'
      BY <1>1 DEF Coverage, LogShape, logVars
    <2>3. ASSUME ~shrunk, ~blind PROVE \A i \in 1..offset : Covered(i)'
      BY <1>1, <2>1, <2>3 DEF Coverage, NothingMissed, Covered
    <2>4. NothingMissed'
      BY <1>1, <1>3, <1>5, <2>3 DEF NothingMissed
    <2>5. start # from => \A i \in 1..Len(log) : i <= start + 1 => log[i].line \in cut'
      <3> SUFFICES ASSUME start # from, NEW i \in 1..Len(log), i <= start + 1
                   PROVE  log[i].line \in cut'
        OBVIOUS
      <3>1. i <= start \/ \A j \in 1..i - 1 : j > start => ~Ends(log[j])
        BY <1>3, <1>4
      <3>2. log[i].line \in CutBy(log, start)
        BY <3>1 DEF CutBy
      <3> QED BY <2>1, <3>2
    <2>6. SkippingIsCut'
      <3> SUFFICES ASSUME start # from PROVE SkippingIsCut'
        BY <2>1 DEF SkippingIsCut
      <3> HIDE DEF start
      <3> QED BY <1>1, <1>3, <1>4, <2>1, <2>5 DEF SkippingIsCut
    <2>7. ~blind' => \A i \in 1..start : Passed(i)'
      <3> SUFFICES ASSUME ~blind', NEW i \in 1..start PROVE Passed(i)'
        OBVIOUS
      <3>1. CASE start # from
        <4>1. log[i].line \in cut'
          BY <1>3, <1>4, <2>5, <3>1
        <4> QED BY <1>1, <4>1 DEF Passed, Covered
      <3>2. CASE start = from
        BY <1>3, <1>5, <2>3, <3>2 DEF Passed
      <3> QED BY <3>1, <3>2
    <2>8. size' > 0 /\ size' <= Len(log') /\ position' <= Len(log')
      BY <1>1, <1>3, <1>4, <1>7, <2>1
    <2>9. log'[size'].part = "head" => log'[size'].line \in split'
      BY <1>1, <2>1 DEF Ends
    <2>10. ScanMissesNothing'
      BY <2>1, <2>6, <2>7, <2>8, <2>9 DEF ScanMissesNothing, ScanCoverage
    <2> QED BY <2>2, <2>4, <2>10 DEF Coverage
  <1> QED BY <1>6, <1>7

(* A tail that does not fit what the scanner holds is one whose head is    *)
(* accounted for.                                                          *)
LEMMA ReadKeepsCoverage ==
  ASSUME Inv, Coverage, NEW r \in Requests, Read(r)
  PROVE  Coverage'
  <1> DEFINE piece == log[position + 1]
             whole == piece.part = "all" \/ (piece.part = "tail" /\ piece.line = held)
  <1>1. pc[r] = "read" /\ position < Len(log) /\ position' = position + 1
        /\ UNCHANGED <<logVars, mu, stateVars, pc, wanted, size, boundVars, historyVars>>
        /\ skipping' = (skipping /\ ~Ends(piece))
        /\ held' = (IF piece.part = "head" /\ ~skipping THEN piece.line ELSE 0)
        /\ found' = (IF whole /\ ~skipping THEN found \cup {piece.line} ELSE found)
    BY DEF Read
  <1>2. log' = log /\ Scanning /\ Scanning' /\ UNCHANGED <<offset, tally, blind, cut, split, size>>
    BY <1>1 DEF log, logVars, stateVars, historyVars, Scanning
  <1>3. logPath \in Paths /\ Len(log) \in Nat /\ position \in Nat
        /\ (skipping = TRUE \/ skipping = FALSE)
    BY LogHasLength DEF Inv, TypeOK, log
  <1>4. LogShape' /\ NothingMissed'
    BY <1>1, <1>2 DEF Coverage, LogShape, logVars, NothingMissed, Covered
  <1> SUFFICES ASSUME ~blind PROVE ScanCoverage'
    BY <1>2, <1>4 DEF Coverage, ScanMissesNothing
  <1>5. ScanCoverage
    BY <1>2 DEF Coverage, ScanMissesNothing
  <1>6. /\ \A i \in 1..Len(log) :
             /\ log[i].part \in {"all", "head", "tail"}
             /\ log[i].part = "head" /\ i < Len(log) =>
                  log[i + 1].part = "tail" /\ log[i + 1].line = log[i].line
             /\ log[i].part = "tail" /\ i > 1 =>
                  log[i - 1].part = "head" /\ log[i - 1].line = log[i].line
    <2>1. Shaped(log, unfinished[logPath])
      BY <1>3 DEF Coverage, LogShape, log
    <2>2. \A i \in 1..Len(log) : log[i].part \in {"all", "head", "tail"}
      BY <1>3, PieceHasLine DEF log, Inv
    <2> QED BY <2>1, <2>2 DEF Shaped
  <1>7. position + 1 \in 1..Len(log) /\ piece.part \in {"all", "head", "tail"}
        /\ (piece.part = "tail" /\ position > 0 =>
              log[position].part = "head" /\ log[position].line = piece.line)
    <2>1. PICK k \in 1..Len(log) : k = position + 1 /\ k - 1 = position
      BY <1>1, <1>3
    <2>2. log[k].part = "tail" /\ k > 1 =>
            log[k - 1].part = "head" /\ log[k - 1].line = log[k].line
      BY <1>6
    <2> QED BY <1>3, <1>6, <2>1, <2>2
  <1>8. CASE skipping
    <2>1. \A i \in 1..position : log[i].line \in cut
      BY <1>5, <1>8 DEF ScanCoverage, SkippingIsCut
    <2>2. piece.line \in cut
      BY <1>1, <1>5, <1>8 DEF ScanCoverage, SkippingIsCut
    <2>3. \A i \in 1..position + 1 : log[i].line \in cut
      BY <1>3, <2>1, <2>2
    <2>4. \A i \in 1..position' : Passed(i)'
      BY <1>1, <1>2, <2>3 DEF Passed, Covered
    <2>5. SkippingIsCut'
      <3> SUFFICES ASSUME skipping' PROVE SkippingIsCut'
        BY DEF SkippingIsCut
      <3>1. piece.part = "head"
        <4>1. ~Ends(piece)
          BY <1>1
        <4> QED BY <1>7, <4>1 DEF Ends
      <3>2. position + 1 < Len(log) => log[(position + 1) + 1].line = piece.line
        BY <1>6, <1>7, <3>1
      <3> QED BY <1>1, <1>2, <2>2, <2>3, <3>1, <3>2 DEF SkippingIsCut
    <2> QED BY <1>1, <1>2, <1>3, <1>5, <2>4, <2>5 DEF ScanCoverage
  <1>9. CASE ~skipping
    <2>1. ~skipping' /\ SkippingIsCut'
      BY <1>1, <1>9 DEF SkippingIsCut
    <2>2. /\ held' = (IF piece.part = "head" THEN piece.line ELSE 0)
          /\ found' = (IF whole THEN found \cup {piece.line} ELSE found)
      BY <1>1, <1>9
    <2>3. \A i \in 1..position : Passed(i)
      BY <1>5 DEF ScanCoverage
    <2>4. found \subseteq found'
      BY <2>2
    <2>5. ASSUME NEW i \in 1..position PROVE Covered(i)' \/ log[i].line \in found'
      <3>1. CASE Covered(i) \/ log[i].line \in found
        BY <1>2, <2>4, <3>1 DEF Covered
      <3>2. CASE i = position /\ log[i].part = "head" /\ held = log[i].line
        <4>1. piece.part = "tail" /\ piece.line = log[i].line
          BY <1>1, <1>3, <1>6, <1>7, <3>2
        <4>2. whole
          BY <3>2, <4>1
        <4> QED BY <2>2, <4>1, <4>2
      <3> QED BY <2>3, <3>1, <3>2 DEF Passed
    <2>6. ASSUME NEW k \in Nat, k = position + 1 PROVE Passed(k)'
      <3>1. CASE whole
        BY <1>2, <2>2, <2>6, <3>1 DEF Passed
      <3>2. CASE piece.part = "head"
        BY <1>1, <1>2, <2>2, <2>6, <3>2 DEF Passed
      <3>3. CASE piece.part = "tail" /\ ~whole
        <4>1. CASE position = 0
          BY <1>2, <2>6, <3>3, <4>1 DEF Passed, Covered
        <4>2. CASE position > 0
          <5>1. log[position].line = piece.line /\ held # log[position].line
            BY <1>7, <3>3, <4>2
          <5>2. position \in 1..position /\ log[position].part = "head"
            BY <1>3, <1>7, <3>3, <4>2
          <5>3. Covered(position) \/ log[position].line \in found
            BY <2>3, <5>1, <5>2 DEF Passed
          <5> QED BY <1>2, <2>4, <2>6, <5>1, <5>2, <5>3 DEF Passed, Covered
        <4> QED BY <1>3, <4>1, <4>2
      <3> QED BY <1>7, <3>1, <3>2, <3>3
    <2>7. \A i \in 1..position' : Passed(i)'
      <3> SUFFICES ASSUME NEW i \in 1..position + 1 PROVE Passed(i)'
        BY <1>1
      <3>1. CASE i = position + 1
        BY <1>3, <2>6, <3>1
      <3>2. CASE i # position + 1
        <4>1. i \in 1..position
          BY <1>3, <3>2
        <4> QED BY <1>2, <2>5, <4>1 DEF Passed
      <3> QED BY <3>1, <3>2
    <2> QED BY <1>1, <1>2, <1>3, <1>5, <2>1, <2>7 DEF ScanCoverage
  <1> QED BY <1>8, <1>9

LEMMA EndOfFileKeepsCoverage ==
  ASSUME Inv, Coverage, NEW r \in Requests, EndOfFile(r)
  PROVE  Coverage'
  <1>1. /\ pc[r] = "read" /\ position >= Len(log) /\ offset' = size /\ Finish(r, tally)
        /\ UNCHANGED <<logVars, logPath, historyVars>>
    BY DEF EndOfFile
  <1>2. Scanning /\ ~Scanning'
    <2>1. mu = r /\ Scanning
      BY <1>1 DEF Inv, OneReader, Scanning
    <2> QED BY <1>1, <2>1, ReturnKeepsMutex DEF Finish, Inv
  <1>3. log' = log /\ blind' = blind /\ cut' = cut /\ split' = split
    BY <1>1 DEF log, logVars, historyVars
  <1>4. tally' = [n \in Lines |-> IF n \in found THEN tally[n] + 1 ELSE tally[n]]
    BY <1>1 DEF Finish
  <1>5. logPath \in Paths /\ Len(log) \in Nat /\ size \in Nat /\ position \in Nat
        /\ \A n \in Lines : tally[n] \in Nat
    BY LogHasLength DEF Inv, TypeOK, log
  <1>6. LogShape' /\ ScanMissesNothing'
    BY <1>1, <1>2 DEF Coverage, LogShape, logVars, ScanMissesNothing
  <1>7. NothingMissed'
    <2> SUFFICES ASSUME ~blind PROVE size <= Len(log) /\ \A i \in 1..size : Covered(i)'
      BY <1>1, <1>3 DEF NothingMissed
    <2>1. ScanCoverage
      BY <1>2 DEF Coverage, ScanMissesNothing
    <2> SUFFICES ASSUME NEW i \in 1..size PROVE Covered(i)'
      BY <2>1 DEF ScanCoverage
    <2>2. i \in 1..position /\ i \in 1..Len(log) /\ log[i].line \in Lines
      <3>1. i \in 1..position /\ i \in 1..Len(log)
        BY <1>1, <1>5, <2>1 DEF ScanCoverage
      <3> QED BY <1>5, <3>1, PieceHasLine DEF log, Inv
    <2>3. CASE Covered(i)
      BY <1>3, <1>4, <1>5, <2>2, <2>3 DEF Covered
    <2>4. CASE log[i].line \in found
      <3>1. tally'[log[i].line] > 0
        BY <1>4, <1>5, <2>2, <2>4
      <3> QED BY <1>3, <3>1 DEF Covered
    <2>5. CASE i = position /\ log[i].part = "head"
      <3>1. i = size
        BY <1>1, <1>5, <2>1, <2>5 DEF ScanCoverage
      <3> QED BY <1>3, <2>1, <2>5, <3>1 DEF ScanCoverage, Covered
    <2> QED BY <2>1, <2>2, <2>3, <2>4, <2>5 DEF ScanCoverage, Passed
  <1> QED BY <1>6, <1>7 DEF Coverage

LEMMA StepKeepsCoverage ==
  ASSUME Inv, Coverage, [Next]_vars
  PROVE  Coverage'
  <1>1. LogShape'
    BY StepKeepsShape DEF Coverage
  <1>2. ASSUME NEW p \in Paths, Write(p) PROVE Coverage'
    <2>1. written + 1 \in Lines /\ written' = written + 1
      BY <1>2, AccessSourceAssumption DEF Write, Inv, TypeOK, Lines
    <2>2. \E piece \in Piece : Put(p, piece)
      BY <1>2, <2>1 DEF Write, Piece
    <2> QED BY <1>1, <1>2, <2>2, GrowthKeepsCoverage DEF Write
  <1>3. ASSUME NEW p \in Paths, WriteTail(p) PROVE Coverage'
    <2>1. [line |-> unfinished[p], part |-> "tail"] \in Piece
      BY <1>3 DEF WriteTail, Inv, TypeOK, Lines, Piece
    <2> QED BY <1>1, <1>3, <2>1, GrowthKeepsCoverage DEF WriteTail, historyVars
  <1>4. ASSUME NEW p \in Paths, Truncate(p) PROVE Coverage'
    BY <1>1, <1>4, TruncateKeepsCoverage
  <1>5. ASSUME UNCHANGED <<logVars, logPath, offset, tally, scanVars, blind, cut, split>>,
               Scanning' <=> Scanning
        PROVE  Coverage'
    BY <1>5 DEF Coverage, LogShape, NothingMissed, Covered, ScanMissesNothing, ScanCoverage,
       Passed, SkippingIsCut, log, logVars, scanVars
  <1>6. CASE Expire \/ UNCHANGED vars
    BY <1>5, <1>6 DEF Expire, Scanning, vars, stateVars, historyVars
  <1>7. CASE Restart
    <2>1. ~Scanning'
      BY <1>7 DEF Restart, Scanning
    <2> QED BY <1>7, <2>1, StartMissesNothing DEF Restart, Forget, Inv, TypeOK
  <1>8. ASSUME NEW r \in Requests, NEW p \in Paths, LookUp(r, p) PROVE Coverage'
    <2>1. Scanning' <=> Scanning
      BY <1>8 DEF LookUp, Goto, Inv, TypeOK, Scanning
    <2> QED BY <1>5, <1>8, <2>1 DEF LookUp, stateVars, historyVars
  <1>9. ASSUME NEW r \in Requests, Begin(r) PROVE Coverage'
    <2>1. ~Scanning'
      <3>1. \A s \in Requests : pc[s] \notin {"stat", "read"}
        BY <1>9, AccessSourceAssumption DEF Begin, Inv, OneReader
      <3>2. \A s \in Requests : pc'[s] # "read"
        BY <1>9, <3>1 DEF Begin, Return, Goto, Inv, TypeOK
      <3> QED BY <3>2 DEF Scanning
    <2>2. CASE wanted[r] = logPath
      BY <1>9, <2>1, <2>2, OffsetStays DEF Begin, stateVars
    <2>3. CASE wanted[r] # logPath
      <3>1. offset' = 0 /\ logPath' \in Paths /\ UNCHANGED logVars
        BY <1>9, <2>3 DEF Begin, Forget, Inv, TypeOK
      <3> QED BY <2>1, <3>1, StartMissesNothing
    <2> QED BY <2>2, <2>3
  <1>10. ASSUME NEW r \in Requests, NotFound(r) \/ Fail(r) PROVE Coverage'
    <2>1. mu = r
      BY <1>10 DEF NotFound, Fail, Inv, OneReader
    <2>2. ~Scanning'
      BY <1>10, <2>1, ReturnKeepsMutex DEF NotFound, Fail, Inv
    <2> QED BY <1>10, <2>2, OffsetStays DEF NotFound, Fail, stateVars, historyVars
  <1> QED BY <1>2, <1>3, <1>4, <1>6, <1>7, <1>8, <1>9, <1>10, StatKeepsCoverage,
          ReadKeepsCoverage, EndOfFileKeepsCoverage DEF Next

(* Every variable of accessSourceState and of the requests keeps its type. *)
THEOREM AccessSourceTypeOK == Spec => []TypeOK
  <1>1. Inv => TypeOK
    BY DEF Inv
  <1> QED BY <1>1, InvAlways, PTL

(* No line counts more than twice, and twice only when Xray wrote it while *)
(* a request read past the size its Stat had returned: neither a failing   *)
(* read nor a rotation or another path makes analyze count a line again.   *)
THEOREM LinesCountOnce == Spec => []TwiceOnlyIfRaced
  <1>1. Inv => TwiceOnlyIfRaced
    BY DEF Inv, Bookkeeping
  <1> QED BY <1>1, InvAlways, PTL

(* What analyze has counted is in the log it reads, once it has noticed    *)
(* that the log was emptied.                                               *)
THEOREM CountsFollowLog == Spec => []CountsAreCurrent
  <1>1. Inv => CountsAreCurrent
    BY DEF Inv, Bookkeeping
  <1> QED BY <1>1, InvAlways, PTL

(* The report analyze answers from is the aggregate, never an older one.   *)
THEOREM CachedReportIsTally == Spec => []ReportIsTally
  <1>1. Inv => ReportIsTally
    BY DEF Inv, Bookkeeping
  <1> QED BY <1>1, InvAlways, PTL

(* Every line before the remembered offset is in the report, but for those *)
(* the limit on the first read cut off, those a Stat fell into and a tail  *)
(* that lost its head: whatever Xray, logrotate, failing reads and other   *)
(* requests do meanwhile, and until an emptied log is noticed.             *)
THEOREM NothingIsMissed == Spec => []NothingMissed
  <1>1. Init => Coverage
    <2> SUFFICES ASSUME Init PROVE Coverage
      OBVIOUS
    <2>1. log = <<>> /\ ~Scanning /\ offset = 0
      BY DEF Init, log, Scanning
    <2>2. LogShape
      <3>1. Shaped(<<>>, 0)
        BY DEF Shaped
      <3> QED BY <3>1 DEF Init, LogShape
    <2> QED BY <2>1, <2>2 DEF Coverage, NothingMissed, ScanMissesNothing
  <1>2. Inv /\ Inv' /\ Coverage /\ [Next]_vars => Coverage'
    BY StepKeepsCoverage
  <1>3. Coverage => NothingMissed
    BY DEF Coverage
  <1> QED BY <1>1, <1>2, <1>3, InvAlways, PTL DEF Spec

-----------------------------------------------------------------------------
(* Refinement. *)

LEMMA SameTally ==
  ASSUME TypeOK, NEW counted, counted = tally \/ counted = Nothing
  PROVE  counted = [n \in Lines |-> counted[n]]
  BY DEF TypeOK, Nothing

(* Every step of AccessSource writes a line, counts once all that a scan   *)
(* has found, starts again, or changes neither.                            *)
LEMMA StepIsTallyStep ==
  ASSUME Inv, [Next]_vars
  PROVE  [Tally!Next]_<<written, tally>>
  <1>1. ASSUME NEW p \in Paths, Write(p) PROVE Tally!Write
    BY <1>1 DEF Write, Tally!Write, stateVars
  <1>2. ASSUME Forget, UNCHANGED written PROVE Tally!StartAgain
    BY <1>2 DEF Forget, Tally!StartAgain, Nothing, Lines, Tally!Nothing, Tally!Lines
  <1>3. ASSUME NEW r \in Requests, Stat(r) PROVE [Tally!Next]_<<written, tally>>
    <2>1. found = {} /\ written' = written
      <3>1. mu = r
        BY <1>3 DEF Stat, Inv, OneReader
      <3>2. ~Scanning
        BY <1>3, <3>1 DEF Stat, Inv, OneReader, Scanning
      <3> QED BY <1>3, <3>2 DEF Inv, Bookkeeping, ScanIsOver, Stat, logVars
    <2>2. tally' = tally \/ tally' = Nothing
      BY <1>3, <2>1, SameTally DEF Stat, Finish, Inv
    <2> QED BY <2>1, <2>2
        DEF Tally!Next, Tally!StartAgain, Nothing, Lines, Tally!Nothing, Tally!Lines
  <1>4. ASSUME NEW r \in Requests, EndOfFile(r) PROVE Tally!Count
    <2>1. Scanning
      BY <1>4 DEF EndOfFile, Scanning
    <2>2. \A n \in found : n \in Lines /\ n \in 1..written /\ tally[n] < 2
      <3>1. \A n \in found : n \in Lines /\ n <= written /\ Countable(n)
        BY <2>1 DEF Inv, Bookkeeping, ScanIsCountable, LinesAreWritten, TypeOK
      <3>2. written \in Nat
        BY DEF Inv, TypeOK
      <3>3. \A n \in found : tally[n] < 2
        BY <3>1 DEF Countable
      <3> QED BY <3>1, <3>2, <3>3, AccessSourceAssumption DEF Lines
    <2>3. found \in SUBSET (1..written)
      BY <2>2
    <2>4. tally' = [n \in Tally!Lines |-> IF n \in found THEN tally[n] + 1 ELSE tally[n]]
      BY <1>4 DEF EndOfFile, Finish, Lines, Tally!Lines
    <2>5. written' = written
      BY <1>4 DEF EndOfFile, logVars
    <2> QED BY <2>2, <2>3, <2>4, <2>5 DEF Tally!Count
  <1>5. ASSUME NEW r \in Requests, Begin(r) PROVE [Tally!Next]_<<written, tally>>
    <2>1. written' = written /\ (Forget \/ tally' = tally)
      BY <1>5 DEF Begin, logVars, stateVars
    <2> QED BY <1>2, <2>1 DEF Tally!Next
  <1>6. ASSUME \/ \E p \in Paths : WriteTail(p) \/ Truncate(p)
               \/ Expire
               \/ \E r \in Requests :
                    \/ \E p \in Paths : LookUp(r, p)
                    \/ NotFound(r) \/ Read(r) \/ Fail(r)
               \/ UNCHANGED vars
        PROVE  UNCHANGED <<written, tally>>
    BY <1>6 DEF WriteTail, Truncate, Expire, LookUp, NotFound, Read, Fail, vars, logVars, stateVars
  <1>7. ASSUME Restart PROVE Tally!StartAgain
    BY <1>2, <1>7 DEF Restart, logVars
  <1> QED BY <1>1, <1>3, <1>4, <1>5, <1>6, <1>7 DEF Next, Tally!Next

(* The report is one that AccessTally allows: with requests that read      *)
(* concurrently with Xray, logrotate and each other, counting still looks  *)
(* like one indivisible step per request.                                  *)
THEOREM ReportImplementsTally == Spec => ImplementsTally
  <1>1. Init => Tally!Init
    BY DEF Init, Tally!Init, Nothing, Lines, Tally!Nothing, Tally!Lines
  <1> QED BY <1>1, StepIsTallyStep, InvAlways, PTL DEF Spec, ImplementsTally, Tally!Spec
=============================================================================

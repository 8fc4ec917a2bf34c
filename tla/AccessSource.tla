----------------------------- MODULE AccessSource -----------------------------
(***************************************************************************)
(* The access report (web/service/access_source.go): requests of the panel *)
(* read what Xray has added to its access log since the last time, from a  *)
(* remembered offset, while Xray goes on writing and logrotate empties the *)
(* file (copytruncate), and the setting moves the log to another path.     *)
(*                                                                         *)
(* A log is a sequence of pieces: whole lines, and the head and the tail   *)
(* of a line that a reader may see half written.  A piece is the unit of   *)
(* offset and size.  Every line is one the report counts.                  *)
(***************************************************************************)
EXTENDS Naturals, Sequences

CONSTANTS
  Paths,
  Requests,       \* handlers of the analytics route
  Nobody,
  NoReport,
  MaxLines,       \* bound on the lines Xray writes
  MaxRead,        \* accessSourceMaxReadBytes, in pieces
  MaxTruncations, \* bound on rotations
  MaxFailures     \* bound on failing reads and restarts of the panel

Lines == 1..MaxLines
Nothing == [n \in Lines |-> 0]

ASSUME AccessSourceAssumption ==
  /\ Paths # {}
  /\ Nobody \notin Requests
  /\ MaxLines \in Nat
  /\ MaxRead \in Nat \ {0}
  /\ MaxTruncations \in Nat
  /\ MaxFailures \in Nat
  /\ NoReport \notin [Lines -> Nat]

VARIABLES
  logs,        \* contents of each path
  written,     \* lines Xray has begun
  unfinished,  \* the line whose tail is still to come, by path; 0 for none
  mu,          \* accessSourceState.mu
  logPath,     \* accessSourceState.logPath
  offset,
  tally,       \* accessSourceState.ports, as the count of each line
  report,      \* accessSourceState.report
  fresh,       \* lastRun is less than 30 seconds ago
  pc,          \* next step of each request
  wanted,      \* the path each request has looked up
  size,        \* info.Size() of the request that reads
  position,    \* pieces it has read past
  skipping,    \* it still looks for the end of the first line
  held,        \* the line whose head is in its scanner's buffer; 0 for none
  found,       \* events it has scanned
  truncations,
  failures,
  raced,       \* history: lines begun while a request was reading
  blind,       \* history: the log was emptied and analyze has not noticed
  cut,         \* history: lines left out by accessSourceMaxReadBytes
  split        \* history: lines half written at a Stat

logVars == <<logs, written, unfinished>>
stateVars == <<logPath, offset, tally, report, fresh>>
scanVars == <<size, position, skipping, held, found>>
boundVars == <<truncations, failures>>
historyVars == <<raced, blind, cut, split>>

vars == <<logVars, mu, stateVars, pc, wanted, scanVars, boundVars, historyVars>>

Piece == [line : Lines, part : {"all", "head", "tail"}]

TypeOK ==
  /\ logs \in [Paths -> Seq(Piece)]
  /\ written \in 0..MaxLines
  /\ unfinished \in [Paths -> 0..MaxLines]
  /\ mu \in Requests \cup {Nobody}
  /\ logPath \in Paths
  /\ offset \in Nat
  /\ tally \in [Lines -> Nat]
  /\ report \in {NoReport} \cup [Lines -> Nat]
  /\ fresh \in BOOLEAN
  /\ pc \in [Requests -> {"idle", "lock", "stat", "read"}]
  /\ wanted \in [Requests -> Paths]
  /\ size \in Nat
  /\ position \in Nat
  /\ skipping \in BOOLEAN
  /\ held \in 0..MaxLines
  /\ found \in SUBSET Lines
  /\ truncations \in 0..MaxTruncations
  /\ failures \in 0..MaxFailures
  /\ raced \subseteq Lines
  /\ blind \in BOOLEAN
  /\ cut \subseteq Lines
  /\ split \subseteq Lines

-----------------------------------------------------------------------------
log == logs[logPath]
Ends(piece) == piece.part \in {"all", "tail"}
InLog(n) == \E i \in 1..Len(log) : log[i].line = n

Scanning == \E r \in Requests : pc[r] = "read"

(* The lines of a log of which a tail read misses a piece: those before    *)
(* its start and the one its ReadString skips.                             *)
CutBy(pieces, start) ==
  {pieces[i].line : i \in {i \in 1..Len(pieces) :
      i <= start \/ \A j \in 1..i - 1 : j > start => ~Ends(pieces[j])}}

(* Nothing of a finished scan is kept.                                     *)
NoScan ==
  /\ size' = 0
  /\ position' = 0
  /\ skipping' = FALSE
  /\ held' = 0
  /\ found' = {}

Goto(r, label) == pc' = [pc EXCEPT ![r] = label]

AnyPath == CHOOSE p \in Paths : TRUE

(* The handler returns; its deferred Unlock runs.                          *)
Return(r) ==
  /\ Goto(r, "idle")
  /\ mu' = Nobody
  /\ wanted' = [wanted EXCEPT ![r] = AnyPath]

(* Mutant: the counts of the old log stay.                                 *)
BugKeepsCounts ==
  /\ offset' = 0
  /\ report' = NoReport
  /\ blind' = FALSE
  /\ cut' = {}
  /\ split' = {}
  /\ UNCHANGED tally

(* Everything counted so far is forgotten.                                 *)
Forget ==
  /\ offset' = 0
  /\ tally' = Nothing
  /\ report' = NoReport
  /\ blind' = FALSE
  /\ cut' = {}
  /\ split' = {}

-----------------------------------------------------------------------------
(* Xray, logrotate and the settings. *)

Put(p, piece) == logs' = [logs EXCEPT ![p] = Append(@, piece)]

(* A line reaches the file in one piece, or its head first.                *)
Write(p) ==
  /\ unfinished[p] = 0
  /\ written < MaxLines
  /\ written' = written + 1
  /\ \/ Put(p, [line |-> written', part |-> "all"]) /\ UNCHANGED unfinished
     \/ /\ Put(p, [line |-> written', part |-> "head"])
        /\ unfinished' = [unfinished EXCEPT ![p] = written']
  /\ raced' = IF Scanning THEN raced \cup {written'} ELSE raced
  /\ UNCHANGED <<mu, stateVars, pc, wanted, scanVars, boundVars, blind, cut, split>>

WriteTail(p) ==
  /\ unfinished[p] # 0
  /\ Put(p, [line |-> unfinished[p], part |-> "tail"])
  /\ unfinished' = [unfinished EXCEPT ![p] = 0]
  /\ UNCHANGED <<written, mu, stateVars, pc, wanted, scanVars, boundVars, historyVars>>

(* copytruncate empties the file under Xray, which goes on at its start.   *)
Truncate(p) ==
  /\ truncations < MaxTruncations
  /\ truncations' = truncations + 1
  /\ logs[p] # <<>>
  /\ logs' = [logs EXCEPT ![p] = <<>>]
  /\ blind' = (blind \/ (p = logPath /\ (offset > 0 \/ Scanning)))
  /\ UNCHANGED <<written, unfinished, mu, stateVars, pc, wanted, scanVars, failures, raced,
                 cut, split>>

(* Thirty seconds pass.                                                    *)
Expire ==
  /\ fresh
  /\ fresh' = FALSE
  /\ UNCHANGED <<logVars, mu, logPath, offset, tally, report, pc, wanted, scanVars,
                 boundVars, historyVars>>

(* The panel restarts: the aggregate was only in memory.                   *)
Restart ==
  /\ failures < MaxFailures
  /\ failures' = failures + 1
  /\ Forget
  /\ NoScan
  /\ fresh' = FALSE
  /\ mu' = Nobody
  /\ pc' = [r \in Requests |-> "idle"]
  /\ wanted' = [r \in Requests |-> AnyPath]
  /\ UNCHANGED <<logVars, logPath, truncations, raced>>

-----------------------------------------------------------------------------
(* analyze. *)

(* Analyze looks the path up in bin/config.json or in the template, which  *)
(* may name another at any time, before it takes the mutex.                *)
LookUp(r, p) ==
  /\ pc[r] = "idle"
  /\ wanted' = [wanted EXCEPT ![r] = p]
  /\ Goto(r, "lock")
  /\ UNCHANGED <<logVars, mu, stateVars, scanVars, boundVars, historyVars>>

(* analyze to readNewEvents: another path starts again; a report younger   *)
(* than accessSourceBatchEvery is returned as it is.                       *)
Begin(r) ==
  /\ pc[r] = "lock"
  /\ mu = Nobody
  /\ IF wanted[r] = logPath
     THEN UNCHANGED <<stateVars, blind, cut, split>>
     ELSE Forget /\ logPath' = wanted[r] /\ fresh' = FALSE
  /\ IF report' # NoReport /\ fresh'
     THEN Return(r)
     ELSE mu' = r /\ Goto(r, "stat") /\ UNCHANGED wanted
  /\ UNCHANGED <<logVars, scanVars, boundVars, raced>>

(* readNewEvents found nothing more: what analyze does with the events.    *)
Finish(r, counted) ==
  /\ tally' = [n \in Lines |-> IF n \in found THEN counted[n] + 1 ELSE counted[n]]
  /\ report' = tally'
  /\ fresh' = TRUE
  /\ Return(r)
  /\ NoScan

(* The file does not exist, as a log may that has nothing in it.           *)
NotFound(r) ==
  /\ pc[r] = "stat"
  /\ log = <<>>
  /\ Return(r)
  /\ UNCHANGED <<logVars, stateVars, scanVars, boundVars, historyVars>>

(* Of a large file that is read for the first time only the end is.        *)
Start(from) == IF from = 0 /\ Len(log) > MaxRead THEN Len(log) - MaxRead ELSE from

(* Open and Stat: a file shorter than the offset has been truncated and    *)
(* is read from its start.                                                 *)
Stat(r) ==
  /\ pc[r] = "stat"
  /\ LET shrunk == Len(log) < offset
         from == IF shrunk THEN 0 ELSE offset
         start == Start(from)
     IN
       /\ offset' = from
       /\ blind' = (blind /\ ~shrunk)
       /\ IF from = Len(log)
          THEN /\ Finish(r, IF shrunk THEN Nothing ELSE tally)
               /\ cut' = IF shrunk THEN {} ELSE cut
               /\ split' = IF shrunk THEN {} ELSE split
          ELSE /\ Goto(r, "read")
               /\ tally' = IF shrunk THEN Nothing ELSE tally
               /\ report' = IF shrunk THEN NoReport ELSE report
               /\ size' = Len(log)
               /\ position' = start
               /\ skipping' = (start # from)
               /\ cut' = (IF shrunk THEN {} ELSE cut)
                           \cup (IF start # from THEN CutBy(log, start) ELSE {})
               /\ split' = (IF shrunk THEN {} ELSE split)
                             \cup (IF Ends(log[Len(log)]) THEN {} ELSE {log[Len(log)].line})
               /\ UNCHANGED <<held, found, fresh, mu, wanted>>
  /\ UNCHANGED <<logVars, logPath, boundVars, raced>>

(* Mutant: a line is counted as soon as it is read.                        *)
BugCountsWhileReading(r) ==
  /\ pc[r] = "read"
  /\ position < Len(log)
  /\ LET piece == log[position + 1]
         whole == piece.part = "all" \/ (piece.part = "tail" /\ piece.line = held)
     IN
       /\ skipping' = (skipping /\ ~Ends(piece))
       /\ held' = IF piece.part = "head" /\ ~skipping THEN piece.line ELSE 0
       /\ tally' = IF whole /\ ~skipping THEN [tally EXCEPT ![piece.line] = @ + 1] ELSE tally
  /\ position' = position + 1
  /\ UNCHANGED <<logVars, mu, logPath, offset, report, fresh, pc, wanted, size, found,
                 boundVars, historyVars>>

(* The scanner meets one more piece: a line counts when its tokens come    *)
(* together.                                                               *)
Read(r) ==
  /\ pc[r] = "read"
  /\ position < Len(log)
  /\ LET piece == log[position + 1]
         whole == piece.part = "all" \/ (piece.part = "tail" /\ piece.line = held)
     IN
       /\ skipping' = (skipping /\ ~Ends(piece))
       /\ held' = IF piece.part = "head" /\ ~skipping THEN piece.line ELSE 0
       /\ found' = IF whole /\ ~skipping THEN found \cup {piece.line} ELSE found
  /\ position' = position + 1
  /\ UNCHANGED <<logVars, mu, stateVars, pc, wanted, size, boundVars, historyVars>>

(* Mutant: the offset stays where it was.                                  *)
BugKeepsOffset(r) ==
  /\ pc[r] = "read"
  /\ position >= Len(log)
  /\ Finish(r, tally)
  /\ UNCHANGED <<logVars, logPath, offset, boundVars, historyVars>>

(* The end of the file, wherever it is by now; the offset becomes what     *)
(* Stat said.                                                              *)
EndOfFile(r) ==
  /\ pc[r] = "read"
  /\ position >= Len(log)
  /\ offset' = size
  /\ Finish(r, tally)
  /\ UNCHANGED <<logVars, logPath, boundVars, historyVars>>

(* Mutant: the offset moves before the scanner's error is looked at.       *)
BugFailMovesOn(r) ==
  /\ pc[r] \in {"stat", "read"}
  /\ failures < MaxFailures
  /\ failures' = failures + 1
  /\ offset' = IF pc[r] = "read" THEN size ELSE offset
  /\ Return(r)
  /\ NoScan
  /\ UNCHANGED <<logVars, logPath, tally, report, fresh, truncations, historyVars>>

(* Open, Stat, Seek or the scanner fails: no event is applied and the      *)
(* offset stays.                                                           *)
Fail(r) ==
  /\ pc[r] \in {"stat", "read"}
  /\ failures < MaxFailures
  /\ failures' = failures + 1
  /\ Return(r)
  /\ NoScan
  /\ UNCHANGED <<logVars, stateVars, truncations, historyVars>>

-----------------------------------------------------------------------------
Init ==
  /\ logs = [p \in Paths |-> <<>>]
  /\ written = 0
  /\ unfinished = [p \in Paths |-> 0]
  /\ mu = Nobody
  /\ logPath \in Paths
  /\ offset = 0
  /\ tally = Nothing
  /\ report = NoReport
  /\ fresh = FALSE
  /\ pc = [r \in Requests |-> "idle"]
  /\ wanted = [r \in Requests |-> AnyPath]
  /\ size = 0 /\ position = 0 /\ skipping = FALSE /\ held = 0 /\ found = {}
  /\ truncations = 0 /\ failures = 0
  /\ raced = {} /\ blind = FALSE /\ cut = {} /\ split = {}

Next ==
  \/ \E p \in Paths : Write(p) \/ WriteTail(p) \/ Truncate(p)
  \/ Expire
  \/ Restart
  \/ \E r \in Requests :
       \/ \E p \in Paths : LookUp(r, p)
       \/ Begin(r)
       \/ NotFound(r)
       \/ Stat(r)
       \/ Read(r)
       \/ EndOfFile(r)
       \/ Fail(r)

Spec == Init /\ [][Next]_vars

-----------------------------------------------------------------------------
(* The report the panel shows, a record of lines counted atomically.       *)
Tally == INSTANCE AccessTally WITH MaxLines <- MaxLines, written <- written, tally <- tally

ImplementsTally == Tally!Spec

(* A line counts twice only when Xray wrote it while a request was reading *)
(* past the size its Stat had returned.                                    *)
TwiceOnlyIfRaced == \A n \in Lines : tally[n] <= 2 /\ (tally[n] = 2 => n \in raced)

(* What lies before the offset has been counted: a whole line, and a line  *)
(* in two pieces that no Stat fell between, except what the limit on the   *)
(* first read cut off and a tail whose head went with the log that was     *)
(* emptied; until an emptied log is noticed.                               *)
Covered(i) ==
  \/ tally[log[i].line] > 0
  \/ log[i].line \in cut \cup split
  \/ log[i].part = "tail" /\ i = 1

NothingMissed == ~blind => offset <= Len(log) /\ \A i \in 1..offset : Covered(i)

(* Counts are of the current log: rotation and a new path start again,     *)
(* once they are noticed.                                                  *)
CountsAreCurrent == ~blind => \A n \in Lines : tally[n] > 0 => InLog(n)

(* A report is only cached as long as it is what has been counted.         *)
ReportIsTally == report # NoReport => report = tally
=============================================================================

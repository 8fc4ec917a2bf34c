------------------------------ MODULE AccessTally ------------------------------
(***************************************************************************)
(* What the access report promises of the lines of a growing log: it only  *)
(* counts lines that have been written, all that one request finds at      *)
(* once, and no line more than twice; and it may start again from nothing. *)
(* AccessSource implements it while the log is written, rotated and read   *)
(* at the same time.                                                       *)
(***************************************************************************)
EXTENDS Naturals

CONSTANT MaxLines

Lines == 1..MaxLines
Nothing == [n \in Lines |-> 0]

VARIABLES
  written, \* number of lines Xray has begun
  tally    \* how often the report counts each

Init == written = 0 /\ tally = Nothing

Write ==
  /\ written < MaxLines
  /\ written' = written + 1
  /\ UNCHANGED tally

Count ==
  /\ \E found \in SUBSET (1..written) :
       /\ \A n \in found : tally[n] < 2
       /\ tally' = [n \in Lines |-> IF n \in found THEN tally[n] + 1 ELSE tally[n]]
  /\ UNCHANGED written

StartAgain == tally' = Nothing /\ UNCHANGED written

Next == Write \/ Count \/ StartAgain

Spec == Init /\ [][Next]_<<written, tally>>
=============================================================================

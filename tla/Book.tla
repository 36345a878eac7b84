-------------------------------- MODULE Book --------------------------------
(***************************************************************************)
(* What the journal promises an auditor, without requests, transactions or *)
(* rows: one book per fiscal year, written in order and never rewritten.   *)
(* A record is numbered by its place in the book of its year; nothing is   *)
(* recorded in a sealed period, and a record made in a period that was     *)
(* closed before is marked late (ITG 2000, item 36).                       *)
(***************************************************************************)
EXTENDS Sequences

CONSTANTS Period, Year, YearOf

VARIABLES
  page,     \* page[y]: the records of year y in the order of their numbers
  closed,   \* periods that were closed at some time
  sealed    \* periods closed for good

vars == <<page, closed, sealed>>

Init ==
  /\ page = [y \in Year |-> << >>]
  /\ closed = {}
  /\ sealed = {}

Record(p) ==
  /\ p \notin sealed
  /\ page' = [page EXCEPT ![YearOf[p]] =
       Append(page[YearOf[p]], [period |-> p, late |-> p \in closed])]
  /\ UNCHANGED <<closed, sealed>>

Close(p) ==
  /\ p \notin sealed
  /\ closed' = closed \cup {p}
  /\ UNCHANGED <<page, sealed>>

Seal(p) ==
  /\ p \notin sealed
  /\ closed' = closed \cup {p}
  /\ sealed' = sealed \cup {p}
  /\ UNCHANGED page

Next == \E p \in Period : Record(p) \/ Close(p) \/ Seal(p)

Spec == Init /\ [][Next]_vars
=============================================================================

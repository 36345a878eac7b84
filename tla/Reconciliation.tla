--------------------------- MODULE Reconciliation ---------------------------
(***************************************************************************)
(* Bank reconciliation over the journal (ReconciliationService and its     *)
(* repository): statements are imported, their lines are matched with the  *)
(* bank legs of entries, and an entry is Posted or Reconciled as a derived *)
(* marker.  Each operation is one transaction that reads again what it     *)
(* depends on; what was read before it is only a preflight, so an          *)
(* operation is one step here.  It runs beside everything Ledger does.     *)
(***************************************************************************)
EXTENDS Ledger, Integers, FiniteSetsExt

CONSTANTS
  Bank,        \* GL accounts that hold money in a bank
  Movements,   \* what a posted entry may move on each bank account
  Statement,   \* statement ids
  File,        \* statement files, by their sha256
  AmountsOf    \* the signed amount of each line of a file, in source order

\* An entry has one leg on an account it moves (bound: the code allows several).
\* The signed amount is debit - credit; 0: the entry has no leg there.
ASSUME ReconciliationAssumption ==
  /\ \A m \in Movements : m \in [Bank -> Int]
  /\ \A f \in File : \A n \in DOMAIN AmountsOf[f] : AmountsOf[f][n] \in Int \ {0}

Leg == EntryId \X Bank
LineNumber == UNION {DOMAIN AmountsOf[f] : f \in File}
Line == Statement \X LineNumber

VARIABLES
  moves,      \* the bank legs of each entry
  statement,  \* bank_statements, NULL for an id without a row
  lineStatus, \* bank_statement_lines.status
  matched,    \* reconciliation_matches with unmatchedAt NULL: <<line, leg>>
  undone      \* those softly undone, kept for the trail

bankVars == <<moves, statement, lineStatus, matched, undone>>
reconVars == <<vars, bankVars>>

ReconTypeOK ==
  /\ TypeOK
  /\ moves \in [EntryId -> [Bank -> Int]]
  /\ statement \in [Statement ->
       [account : Bank, file : File, deleted : BOOLEAN] \cup {NULL}]
  /\ lineStatus \in [Line -> {"NONE", "UNMATCHED", "MATCHED", "IGNORED"}]
  /\ matched \subseteq Line \X Leg
  /\ undone \subseteq Line \X Leg
  /\ matched \cap undone = {}

ReconInit ==
  /\ Init
  /\ moves = [e \in EntryId |-> [b \in Bank |-> 0]]
  /\ statement = [s \in Statement |-> NULL]
  /\ lineStatus = [l \in Line |-> "NONE"]
  /\ matched = {}
  /\ undone = {}

-----------------------------------------------------------------------------
Live(s) == statement[s] # NULL /\ ~statement[s].deleted

AccountOf(l) == statement[l[1]].account
AmountOf(l) == AmountsOf[statement[l[1]].file][l[2]]
Moved(leg) == moves[leg[1]][leg[2]]

\* The signed sum of some legs, given what the entries move.
Total(m, legs) == MapThenSumSet(LAMBDA leg : m[leg[1]][leg[2]], legs)

LegsOn(l) == {leg \in Leg : <<l, leg>> \in matched}
IsMatched(leg) == \E l \in Line : <<l, leg>> \in matched

\* findScopeBankAccountIds: the accounts that have a live statement.
BankAccounts == {statement[s].account : s \in {t \in Statement : Live(t)}}

\* D5: the legs an entry has on bank accounts, and the status they derive.
BankLegs(e) == {leg \in {e} \X BankAccounts : Moved(leg) # 0}

Covered(legs, pairs) == \A leg \in legs : \E l \in Line : <<l, leg>> \in pairs

\* Mutants: nothing brings an entry back to Posted; its status now is ignored.
DerivedStatusOneWay(e, pairs) ==
  IF BankLegs(e) # {} /\ Covered(BankLegs(e), pairs) /\ entry[e].status = "Posted"
    THEN "Reconciled" ELSE entry[e].status

DerivedStatusBlind(e, pairs) ==
  IF Covered(BankLegs(e), pairs) THEN "Reconciled" ELSE "Posted"

\* recomputeEntryFlip, with the matches as the transaction has left them.
DerivedStatus(e, pairs) ==
  LET all == Covered(BankLegs(e), pairs)  now == entry[e].status IN
  CASE BankLegs(e) = {} -> now
    [] BankLegs(e) # {} /\ all /\ now = "Posted" -> "Reconciled"
    [] BankLegs(e) # {} /\ ~all /\ now = "Reconciled" -> "Posted"
    [] OTHER -> now

Flip(entries, pairs) ==
  entry' = [e \in EntryId |->
    IF e \in entries THEN [entry[e] EXCEPT !.status = DerivedStatus(e, pairs)]
                     ELSE entry[e]]

\* What commitMatch asks of a leg (gates 2, 3 and 4) of a live statement's line.
Matchable(l, leg) ==
  /\ entry[leg[1]] # NULL
  /\ leg[2] = AccountOf(l)
  /\ entry[leg[1]].status = "Posted"
  /\ ~IsMatched(leg)
  /\ Moved(leg) # 0

\* Mutant: a pair matched again leaves its undone row behind.
LinkAnew(l, legs) ==
  LET pairs == {l} \X legs IN
  /\ matched' = matched \cup pairs
  /\ undone' = undone
  /\ lineStatus' = [lineStatus EXCEPT ![l] = "MATCHED"]
  /\ Flip({leg[1] : leg \in legs}, matched \cup pairs)

\* commitMatch for the legs of one line: a soft-undone pair is reactivated.
Link(l, legs) ==
  LET pairs == {l} \X legs IN
  /\ matched' = matched \cup pairs
  /\ undone' = undone \ pairs
  /\ lineStatus' = [lineStatus EXCEPT ![l] = "MATCHED"]
  /\ Flip({leg[1] : leg \in legs}, matched \cup pairs)

-----------------------------------------------------------------------------
(* Operations *)

\* importStatement: a live statement of the same file answers instead, and
\* @@unique(sha256) makes the loser of a race fail.
ImportStatement(s, f, b) ==
  /\ statement[s] = NULL
  /\ \A t \in Statement : Live(t) => statement[t].file # f
  /\ statement' = [statement EXCEPT ![s] = [account |-> b, file |-> f, deleted |-> FALSE]]
  /\ lineStatus' = [l \in Line |->
       IF l[1] = s /\ l[2] \in DOMAIN AmountsOf[f] THEN "UNMATCHED" ELSE lineStatus[l]]
  /\ UNCHANGED <<vars, moves, matched, undone>>

Imported == {l \in Line : lineStatus[l] # "NONE"}

\* findCandidates: the legs that would explain the line alone.  Dates are within
\* the window.
Candidates(l) == {leg \in Leg : Matchable(l, leg) /\ Moved(leg) = AmountOf(l)}

\* Mutant: a tie is committed.
AutoMatchTies(l) ==
  /\ lineStatus[l] = "UNMATCHED"
  /\ Live(l[1])
  /\ Candidates(l) # {}
  /\ Link(l, Candidates(l))
  /\ UNCHANGED <<period, last, audit, job, answers, moves, statement>>

\* autoMatchStatement on a batch of one line: commit a single candidate, abstain
\* when there is none or a tie (D6).
AutoMatch(l) ==
  /\ lineStatus[l] = "UNMATCHED"
  /\ Live(l[1])
  /\ \E leg \in Leg : Candidates(l) = {leg} /\ Link(l, {leg})
  /\ UNCHANGED <<period, last, audit, job, answers, moves, statement>>

\* manualMatch: the whole set of legs, of which the schema wants one at least,
\* explains the line to the cent.
ManualMatch(l, legs) ==
  /\ legs # {}
  /\ lineStatus[l] = "UNMATCHED"
  /\ Live(l[1])
  /\ LegsOn(l) = {}
  /\ Total(moves, legs) = AmountOf(l)
  /\ \A leg \in legs : Matchable(l, leg)
  /\ Link(l, legs)
  /\ UNCHANGED <<period, last, audit, job, answers, moves, statement>>

\* Mutant: the first link undone frees the line.
UnmatchFreesLine(l, leg) ==
  LET left == matched \ {<<l, leg>>} IN
  /\ <<l, leg>> \in matched
  /\ matched' = left
  /\ undone' = undone \cup {<<l, leg>>}
  /\ lineStatus' = [lineStatus EXCEPT ![l] = "UNMATCHED"]
  /\ Flip({leg[1]}, left)
  /\ UNCHANGED <<period, last, audit, job, answers, moves, statement>>

\* unmatch: the line is free again only when nothing else explains it.
Unmatch(l, leg) ==
  LET left == matched \ {<<l, leg>>} IN
  /\ <<l, leg>> \in matched
  /\ matched' = left
  /\ undone' = undone \cup {<<l, leg>>}
  /\ IF LegsOn(l) = {leg}
       THEN /\ lineStatus[l] = "MATCHED"
            /\ lineStatus' = [lineStatus EXCEPT ![l] = "UNMATCHED"]
       ELSE UNCHANGED lineStatus
  /\ Flip({leg[1]}, left)
  /\ UNCHANGED <<period, last, audit, job, answers, moves, statement>>

\* setLineIgnored, both ways; the statement is alive in the preflight only.
SetIgnored(l) ==
  /\ lineStatus[l] \in {"UNMATCHED", "IGNORED"}
  /\ lineStatus' = [lineStatus EXCEPT ![l] =
       IF lineStatus[l] = "IGNORED" THEN "UNMATCHED" ELSE "IGNORED"]
  /\ UNCHANGED <<vars, moves, statement, matched, undone>>

\* deleteStatement: soft, refused while a match of it is active; the sha256 is
\* renamed, so the file can be imported again.
DeleteStatement(s) ==
  /\ Live(s)
  /\ \A l \in Line : l[1] = s => LegsOn(l) = {}
  /\ statement' = [statement EXCEPT ![s].deleted = TRUE]
  /\ UNCHANGED <<vars, moves, lineStatus, matched, undone>>

Opposite(m) == [b \in Bank |-> -m[b]]

\* The journal's steps give a new entry its legs: those of a post, or the swapped
\* legs of the original of a reversal.
JournalStep ==
  /\ Next
  /\ IF Rows' = Rows THEN UNCHANGED moves
     ELSE \E e \in Rows' \ Rows :
            IF entry'[e].mirrors = NULL
              THEN \E m \in Movements : moves' = [moves EXCEPT ![e] = m]
              ELSE moves' = [moves EXCEPT ![e] = Opposite(moves[entry'[e].mirrors])]
  /\ UNCHANGED <<statement, lineStatus, matched, undone>>

ReconNext ==
  \/ \E s \in Statement, f \in File, b \in Bank : ImportStatement(s, f, b)
  \/ \E l \in Line : AutoMatch(l)
  \/ \E l \in Imported : \E legs \in SUBSET (EntryId \X {AccountOf(l)}) : ManualMatch(l, legs)
  \/ \E l \in Line, leg \in Leg : Unmatch(l, leg)
  \/ \E l \in Line : SetIgnored(l)
  \/ \E s \in Statement : DeleteStatement(s)
  \/ JournalStep

ReconSpec == ReconInit /\ [][ReconNext]_reconVars

-----------------------------------------------------------------------------
(* Properties *)

\* A leg is explained by one line at most (D3), a line is MATCHED exactly while a
\* match of it is active, and an active match never hangs from a deleted statement.
LinksSound ==
  /\ \A a, b \in matched : a[2] = b[2] => a = b
  /\ \A l \in Line : lineStatus[l] = "MATCHED" <=> LegsOn(l) # {}
  /\ \A a \in matched : Live(a[1][1])

\* A Reconciled entry is anchored in the bank: a leg of it has an active match, so
\* its unmatch exists and can bring it back to Posted.
ReconciledIsAnchored ==
  \A e \in Rows : entry[e].status = "Reconciled" => \E b \in Bank : IsMatched(<<e, b>>)

\* A line gets links only when it has none, and then as many as explain it to the
\* cent; afterwards links only fall away ("a second full batch would over-match the
\* line to 2x|line|").
LinesNeverOverMatched ==
  [][\A l \in Line :
       ~(LegsOn(l)' \subseteq LegsOn(l)) =>
         /\ LegsOn(l) = {}
         /\ Total(moves, LegsOn(l)') = AmountOf(l)]_reconVars

\* A reversed entry stays reversed whatever is matched or unmatched around it.
ReversedIsFinal ==
  [][\A e \in Rows : entry[e].status = "Reversed" => entry'[e].status = "Reversed"]_reconVars

\* "A Reconciled entry must be un-reconciled first" (PostingService.reverseEntry).
ReconciledNeverReversed ==
  [][\A e \in Rows : entry[e].status = "Reconciled" => entry'[e].status # "Reversed"]_reconVars
=============================================================================

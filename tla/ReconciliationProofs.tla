------------------------ MODULE ReconciliationProofs ------------------------
(***************************************************************************)
(* Proofs about Reconciliation, for every set of banks, statements, files  *)
(* and lines, beside every step of the journal.                            *)
(***************************************************************************)
EXTENDS Reconciliation, LedgerProofs

-----------------------------------------------------------------------------
(* The inductive invariant *)

StatementRow == [account : Bank, file : File, deleted : BOOLEAN]

\* A line that was imported belongs to a statement that has a row.
LinesOfStatements ==
  \A l \in Line : lineStatus[l] # "NONE" => statement[l[1]] \in StatementRow

\* What is matched is a leg of an existing entry that moves the line's account.
MatchesFit ==
  \A a \in matched :
    /\ entry[a[2][1]] # NULL
    /\ a[2][2] = AccountOf(a[1])
    /\ Moved(a[2]) # 0

ReconInv ==
  /\ ReconTypeOK
  /\ OriginalsExist
  /\ LinesOfStatements
  /\ MatchesFit
  /\ LinksSound
  /\ ReconciledIsAnchored

\* No row, line or statement exists.
LEMMA ReconInvInit == ReconInit => ReconInv
<1>. SUFFICES ASSUME ReconInit PROVE ReconInv
  OBVIOUS
<1>1. TypeOK /\ OriginalsExist
  BY TypeInit DEF ReconInit, Init, OriginalsExist, Idle, ReverseJob
<1>2. ReconTypeOK
  BY <1>1 DEF ReconInit, ReconTypeOK
<1>3. LinksSound
  BY DEF ReconInit, LinksSound, LegsOn
<1>. QED BY <1>1, <1>2, <1>3
     DEF ReconInv, ReconInit, Init, LinesOfStatements, MatchesFit, ReconciledIsAnchored, Rows

-----------------------------------------------------------------------------
(* The derived status *)

\* A match and its parts.
LEMMA MatchShape ==
  ASSUME ReconTypeOK, NEW a \in matched
  PROVE  /\ a[1] \in Line /\ a[1][1] \in Statement
         /\ a[2] \in Leg /\ a[2][1] \in EntryId /\ a[2][2] \in Bank
         /\ a = <<a[1], a[2]>> /\ a[2] = <<a[2][1], a[2][2]>>
<1>1. a \in Line \X Leg
  BY DEF ReconTypeOK
<1>2. a[1] \in Line /\ a[2] \in Leg /\ a = <<a[1], a[2]>>
  BY <1>1
<1>. QED BY <1>2 DEF Line, Leg

\* A live statement has a row, and its account is a bank.
LEMMA LiveRow ==
  ASSUME ReconTypeOK, NEW s \in Statement, Live(s)
  PROVE  statement[s] \in StatementRow /\ statement[s].account \in Bank
  BY DEF ReconTypeOK, Live, StatementRow

\* The derived status leaves what is neither Posted nor Reconciled alone, and
\* says Reconciled of a newly covered entry only.
LEMMA DerivedStatusFacts ==
  ASSUME TypeOK, NEW e \in Rows, NEW pairs
  PROVE  LET now == entry[e].status  derived == DerivedStatus(e, pairs) IN
         /\ derived \in EntryStatus
         /\ derived # now => {now, derived} \subseteq {"Posted", "Reconciled"}
         /\ derived = "Reconciled" =>
              \/ now = "Reconciled" /\ BankLegs(e) = {}
              \/ BankLegs(e) # {} /\ Covered(BankLegs(e), pairs)
<1>1. entry[e].status \in EntryStatus
  BY DEF TypeOK, Rows, Entry
<1>2. CASE BankLegs(e) = {}
  BY <1>1, <1>2 DEF DerivedStatus
<1>3. CASE BankLegs(e) # {} /\ Covered(BankLegs(e), pairs)
  BY <1>1, <1>3 DEF DerivedStatus, EntryStatus
<1>4. CASE BankLegs(e) # {} /\ ~Covered(BankLegs(e), pairs)
  BY <1>1, <1>4 DEF DerivedStatus, EntryStatus
<1>. QED BY <1>2, <1>3, <1>4

\* recomputeEntryFlip touches the status of the rows it is given, nothing else.
LEMMA FlipEffect ==
  ASSUME TypeOK, OriginalsExist, NEW entries \in SUBSET Rows, NEW pairs,
         Flip(entries, pairs), UNCHANGED <<period, last, audit, job, answers>>
  PROVE  /\ TypeOK'
         /\ OriginalsExist'
         /\ \A e \in EntryId : entry[e] # NULL => entry'[e] # NULL
         /\ \A e \in EntryId \ entries : entry'[e] = entry[e]
         /\ \A e \in entries : entry'[e].status = DerivedStatus(e, pairs)
<1>1. ASSUME NEW e \in entries
      PROVE  /\ entry'[e] \in Entry
             /\ entry'[e] # NULL
             /\ entry'[e].status = DerivedStatus(e, pairs)
  <2>1. e \in EntryId /\ entry[e] \in Entry
    BY DEF TypeOK, Rows
  <2>2. entry'[e] = [entry[e] EXCEPT !.status = DerivedStatus(e, pairs)]
    BY <2>1 DEF Flip
  <2>3. DerivedStatus(e, pairs) \in EntryStatus
    BY DerivedStatusFacts
  <2>. QED BY <2>1, <2>2, <2>3, LedgerAssumption DEF Entry
<1>2. \A e \in EntryId \ entries : entry'[e] = entry[e]
  BY DEF Flip
<1>3. entry' \in [EntryId -> Entry \cup {NULL}]
  <2>1. \A e \in EntryId : entry'[e] \in Entry \cup {NULL}
    BY <1>1, <1>2 DEF TypeOK
  <2>. QED BY <2>1 DEF Flip
<1>4. TypeOK'
  BY <1>3 DEF TypeOK
<1>5. \A e \in EntryId : entry[e] # NULL => entry'[e] # NULL
  BY <1>1, <1>2
<1>6. OriginalsExist'
  BY <1>5 DEF OriginalsExist, ReverseJob
<1>. QED BY <1>1, <1>2, <1>4, <1>5, <1>6

\* An entry whose bank legs are all matched is anchored.
LEMMA CoveredIsAnchored ==
  ASSUME ReconTypeOK, NEW e \in EntryId, NEW pairs, BankLegs(e) # {},
         Covered(BankLegs(e), pairs)
  PROVE  \E b \in Bank, l \in Line : <<l, <<e, b>> >> \in pairs
<1>1. PICK leg \in BankLegs(e) : TRUE
  OBVIOUS
<1>2. PICK b \in BankAccounts : leg = <<e, b>>
  BY <1>1 DEF BankLegs
<1>3. b \in Bank
  BY <1>2, LiveRow DEF BankAccounts
<1>4. PICK l \in Line : <<l, leg>> \in pairs
  BY <1>1 DEF Covered
<1>. QED BY <1>2, <1>3, <1>4

-----------------------------------------------------------------------------
(* Operations *)

\* commitMatch: links of a free line to legs no other line explains.
LEMMA LinkStep ==
  ASSUME ReconInv, NEW l \in Line, NEW legs \in SUBSET Leg, legs # {},
         lineStatus[l] = "UNMATCHED", Live(l[1]),
         \A leg \in legs : Matchable(l, leg),
         Link(l, legs),
         UNCHANGED <<period, last, audit, job, answers, moves, statement>>
  PROVE  ReconInv'
<1>. DEFINE pairs == {l} \X legs
            entries == {leg[1] : leg \in legs}
<1>1. /\ matched' = matched \cup pairs
      /\ undone' = undone \ pairs
      /\ lineStatus' = [lineStatus EXCEPT ![l] = "MATCHED"]
      /\ Flip(entries, matched')
  BY DEF Link
<1>2. ReconTypeOK /\ TypeOK /\ OriginalsExist
  BY DEF ReconInv, ReconTypeOK
<1>3. \A leg \in legs : leg[1] \in EntryId /\ leg[2] \in Bank /\ leg = <<leg[1], leg[2]>>
  BY DEF Leg
<1>4. entries \subseteq Rows /\ \A e \in entries : entry[e].status = "Posted"
  BY <1>3 DEF Matchable, Rows
<1>5. /\ TypeOK'
      /\ OriginalsExist'
      /\ \A e \in EntryId : entry[e] # NULL => entry'[e] # NULL
      /\ \A e \in EntryId \ entries : entry'[e] = entry[e]
      /\ \A e \in entries : entry'[e].status = DerivedStatus(e, matched')
  BY <1>1, <1>2, <1>4, FlipEffect
<1>6. ReconTypeOK'
  BY <1>1, <1>2, <1>5 DEF ReconTypeOK
<1>7. LinesOfStatements'
  BY <1>1, <1>2 DEF ReconInv, LinesOfStatements, ReconTypeOK
<1>8. MatchesFit'
  <2>1. ASSUME NEW a \in matched'
        PROVE  entry'[a[2][1]] # NULL /\ a[2][2] = AccountOf(a[1]) /\ Moved(a[2]) # 0
    <3>1. CASE a \in matched
      BY <1>2, <1>5, <3>1, MatchShape DEF ReconInv, MatchesFit
    <3>2. CASE a \in pairs
      BY <1>3, <1>5, <3>2 DEF Matchable
    <3>. QED BY <1>1, <2>1, <3>1, <3>2
  <2>. QED BY <2>1 DEF MatchesFit, AccountOf, Moved
<1>9. LinksSound'
  <2>1. ASSUME NEW a \in matched', NEW b \in matched', a[2] = b[2]
        PROVE  a = b
    <3>1. ASSUME NEW x \in matched, NEW y \in pairs
          PROVE  x[2] # y[2]
      BY <1>2, <3>1, MatchShape DEF Matchable, IsMatched
    <3>2. \A x \in pairs : x = <<l, x[2]>>
      OBVIOUS
    <3>. QED BY <1>1, <2>1, <3>1, <3>2 DEF ReconInv, LinksSound
  <2>2. ASSUME NEW k \in Line
        PROVE  lineStatus'[k] = "MATCHED" <=> \E leg \in Leg : <<k, leg>> \in matched'
    <3>1. CASE k = l
      <4>1. lineStatus'[k] = "MATCHED"
        BY <1>1, <1>2, <3>1 DEF ReconTypeOK
      <4>. QED BY <1>1, <3>1, <4>1
    <3>2. CASE k # l
      <4>1. lineStatus'[k] = lineStatus[k]
        BY <1>1, <1>2, <3>2 DEF ReconTypeOK
      <4>2. \A leg : <<k, leg>> \in matched' <=> <<k, leg>> \in matched
        BY <1>1, <3>2
      <4>. QED BY <4>1, <4>2 DEF ReconInv, LinksSound, LegsOn
    <3>. QED BY <3>1, <3>2
  <2>3. \A a \in matched' : Live(a[1][1])
    BY <1>1 DEF ReconInv, LinksSound
  <2>. QED BY <2>1, <2>2, <2>3 DEF LinksSound, LegsOn, Live
<1>10. ReconciledIsAnchored'
  <2>1. ASSUME NEW e \in EntryId, entry'[e] # NULL, entry'[e].status = "Reconciled"
        PROVE  \E b \in Bank, k \in Line : <<k, <<e, b>> >> \in matched'
    <3>1. CASE e \in entries
      <4>1. BankLegs(e) # {} /\ Covered(BankLegs(e), matched')
        BY <1>2, <1>4, <1>5, <2>1, <3>1, DerivedStatusFacts
      <4>. QED BY <1>2, <4>1, CoveredIsAnchored
    <3>2. CASE e \notin entries
      BY <1>1, <1>5, <2>1, <3>2 DEF ReconInv, ReconciledIsAnchored, Rows, IsMatched
    <3>. QED BY <3>1, <3>2
  <2>. QED BY <2>1 DEF ReconciledIsAnchored, Rows, IsMatched
<1>. QED BY <1>5, <1>6, <1>7, <1>8, <1>9, <1>10 DEF ReconInv

\* autoMatchStatement links the only candidate of a line.
LEMMA AutoMatchStep ==
  ASSUME ReconInv, NEW l \in Line, AutoMatch(l)
  PROVE  ReconInv'
<1>1. PICK leg \in Leg : Candidates(l) = {leg} /\ Link(l, {leg})
  BY DEF AutoMatch
<1>2. Matchable(l, leg)
  BY <1>1 DEF Candidates
<1>. QED BY <1>1, <1>2, LinkStep DEF AutoMatch

\* manualMatch links legs of the line's own account.
LEMMA ManualMatchStep ==
  ASSUME ReconInv, NEW l \in Imported, NEW legs \in SUBSET (EntryId \X {AccountOf(l)}),
         ManualMatch(l, legs)
  PROVE  ReconInv'
<1>1. l \in Line /\ AccountOf(l) \in Bank
  BY DEF Imported, ReconInv, LinesOfStatements, StatementRow, AccountOf
<1>2. legs \in SUBSET Leg
  BY <1>1 DEF Leg
<1>3. /\ legs # {}
      /\ lineStatus[l] = "UNMATCHED"
      /\ Live(l[1])
      /\ \A leg \in legs : Matchable(l, leg)
      /\ Link(l, legs)
      /\ UNCHANGED <<period, last, audit, job, answers, moves, statement>>
  BY DEF ManualMatch
<1>. QED BY <1>1, <1>2, <1>3, LinkStep

\* unmatch: the entry of the leg either leaves Reconciled or keeps an anchor.
LEMMA UnmatchStep ==
  ASSUME ReconInv, NEW l \in Line, NEW leg \in Leg, Unmatch(l, leg)
  PROVE  ReconInv'
<1>. DEFINE e == leg[1]
<1>1. /\ <<l, leg>> \in matched
      /\ matched' = matched \ {<<l, leg>>}
      /\ undone' = undone \cup {<<l, leg>>}
      /\ Flip({e}, matched')
      /\ UNCHANGED <<period, last, audit, job, answers, moves, statement>>
  BY DEF Unmatch
<1>2. ReconTypeOK /\ TypeOK /\ OriginalsExist
  BY DEF ReconInv, ReconTypeOK
<1>3. e \in EntryId /\ leg[2] \in Bank /\ leg = <<e, leg[2]>> /\ l[1] \in Statement
  BY DEF Leg, Line
<1>4. /\ entry[e] # NULL
      /\ leg[2] = AccountOf(l)
      /\ Moved(leg) # 0
      /\ Live(l[1])
  BY <1>1 DEF ReconInv, MatchesFit, LinksSound
<1>5. leg \in BankLegs(e)
  BY <1>3, <1>4 DEF BankLegs, BankAccounts, AccountOf
<1>6. /\ TypeOK'
      /\ OriginalsExist'
      /\ \A f \in EntryId : entry[f] # NULL => entry'[f] # NULL
      /\ \A f \in EntryId \ {e} : entry'[f] = entry[f]
      /\ entry'[e].status = DerivedStatus(e, matched')
  <2>1. {e} \in SUBSET Rows
    BY <1>3, <1>4 DEF Rows
  <2>. QED BY <1>1, <1>2, <2>1, FlipEffect
<1>7. lineStatus' = lineStatus \/ lineStatus' = [lineStatus EXCEPT ![l] = "UNMATCHED"]
  BY DEF Unmatch
<1>8. ReconTypeOK'
  BY <1>1, <1>2, <1>6, <1>7 DEF ReconTypeOK
<1>9. LinesOfStatements'
  <2>1. lineStatus[l] # "NONE"
    BY <1>1 DEF ReconInv, LinksSound, LegsOn
  <2>. QED BY <1>1, <1>2, <1>7, <2>1 DEF ReconInv, LinesOfStatements, ReconTypeOK
<1>10. MatchesFit'
  <2>1. \A a \in matched' :
          entry'[a[2][1]] # NULL /\ a[2][2] = AccountOf(a[1]) /\ Moved(a[2]) # 0
    BY <1>1, <1>2, <1>6, MatchShape DEF ReconInv, MatchesFit
  <2>. QED BY <1>1, <2>1 DEF MatchesFit, AccountOf, Moved
<1>11. LinksSound'
  <2>1. \A k \in Line \ {l}, x \in Leg : <<k, x>> \in matched' <=> <<k, x>> \in matched
    BY <1>1
  <2>2. \A x \in Leg : <<l, x>> \in matched' <=> <<l, x>> \in matched /\ x # leg
    BY <1>1
  <2>3. lineStatus'[l] = "MATCHED" <=> \E x \in Leg : <<l, x>> \in matched'
    <3>1. CASE LegsOn(l) = {leg}
      <4>1. lineStatus'[l] = "UNMATCHED"
        BY <1>2, <3>1 DEF Unmatch, ReconTypeOK
      <4>. QED BY <2>2, <3>1, <4>1 DEF LegsOn
    <3>2. CASE LegsOn(l) # {leg}
      <4>1. lineStatus'[l] = lineStatus[l] /\ lineStatus[l] = "MATCHED"
        BY <1>1, <3>2 DEF Unmatch, ReconInv, LinksSound, LegsOn
      <4>. QED BY <1>1, <2>2, <3>2, <4>1 DEF LegsOn
    <3>. QED BY <3>1, <3>2
  <2>4. \A k \in Line \ {l} : lineStatus'[k] = lineStatus[k]
    BY <1>2, <1>7 DEF ReconTypeOK
  <2>5. \A k \in Line : lineStatus'[k] = "MATCHED" <=> \E x \in Leg : <<k, x>> \in matched'
    BY <2>1, <2>3, <2>4 DEF ReconInv, LinksSound, LegsOn
  <2>. QED BY <1>1, <2>5 DEF ReconInv, LinksSound, LegsOn, Live
<1>12. ReconciledIsAnchored'
  <2>1. ASSUME NEW f \in EntryId, entry'[f] # NULL, entry'[f].status = "Reconciled"
        PROVE  \E b \in Bank, k \in Line : <<k, <<f, b>> >> \in matched'
    <3>1. CASE f = e
      <4>1. BankLegs(e) # {} /\ Covered(BankLegs(e), matched')
        <5>1. e \in Rows
          BY <1>3, <1>4 DEF Rows
        <5>. QED BY <1>2, <1>5, <1>6, <2>1, <3>1, <5>1, DerivedStatusFacts
      <4>. QED BY <1>2, <1>3, <3>1, <4>1, CoveredIsAnchored
    <3>2. CASE f # e
      <4>1. entry[f] # NULL /\ entry[f].status = "Reconciled"
        BY <1>6, <2>1, <3>2
      <4>2. PICK b \in Bank, k \in Line : <<k, <<f, b>> >> \in matched
        BY <4>1 DEF ReconInv, ReconciledIsAnchored, Rows, IsMatched
      <4>. QED BY <1>1, <1>3, <3>2, <4>2
    <3>. QED BY <3>1, <3>2
  <2>. QED BY <2>1 DEF ReconciledIsAnchored, Rows, IsMatched
<1>. QED BY <1>6, <1>8, <1>9, <1>10, <1>11, <1>12 DEF ReconInv

\* importStatement gives a new statement its lines, none of them matched.
LEMMA ImportStep ==
  ASSUME ReconInv, NEW s \in Statement, NEW f \in File, NEW b \in Bank,
         ImportStatement(s, f, b)
  PROVE  ReconInv'
<1>. DEFINE row == [account |-> b, file |-> f, deleted |-> FALSE]
<1>1. /\ statement[s] = NULL
      /\ statement' = [statement EXCEPT ![s] = row]
      /\ lineStatus' = [l \in Line |->
           IF l[1] = s /\ l[2] \in DOMAIN AmountsOf[f] THEN "UNMATCHED" ELSE lineStatus[l]]
      /\ UNCHANGED <<period, entry, last, audit, job, answers, moves, matched, undone>>
  BY DEF ImportStatement, vars
<1>2. row \in StatementRow
  BY DEF StatementRow
<1>3. statement'[s] = row /\ \A t \in Statement \ {s} : statement'[t] = statement[t]
  BY <1>1 DEF ReconInv, ReconTypeOK
<1>. HIDE DEF row
<1>4. ReconTypeOK'
  <2>1. statement' \in [Statement -> StatementRow \cup {NULL}]
    BY <1>1, <1>2 DEF ReconInv, ReconTypeOK, StatementRow
  <2>2. lineStatus' \in [Line -> {"NONE", "UNMATCHED", "MATCHED", "IGNORED"}]
    BY <1>1 DEF ReconInv, ReconTypeOK
  <2>. QED BY <1>1, <2>1, <2>2 DEF ReconInv, ReconTypeOK, TypeOK, StatementRow
<1>5. \A a \in matched : a[1] \in Line /\ a[1][1] \in Statement \ {s}
  BY <1>1, MatchShape DEF ReconInv, LinksSound, Live
<1>6. LinesOfStatements'
  <2>1. ASSUME NEW l \in Line, lineStatus'[l] # "NONE"
        PROVE  statement'[l[1]] \in StatementRow
    <3>1. CASE l[1] = s
      BY <1>2, <1>3, <3>1
    <3>2. CASE l[1] # s
      BY <1>1, <1>3, <2>1, <3>2 DEF ReconInv, LinesOfStatements, Line
    <3>. QED BY <3>1, <3>2
  <2>. QED BY <2>1 DEF LinesOfStatements
<1>7. MatchesFit'
  BY <1>1, <1>3, <1>5 DEF ReconInv, MatchesFit, AccountOf, Moved
<1>8. LinksSound'
  <2>1. \A a \in matched : Live(a[1][1])'
    BY <1>3, <1>5 DEF ReconInv, LinksSound, Live
  <2>2. ASSUME NEW l \in Line
        PROVE  lineStatus'[l] = "MATCHED" <=> LegsOn(l) # {}
    <3>1. CASE l[1] = s
      <4>1. LegsOn(l) = {}
        BY <1>5, <3>1 DEF LegsOn
      <4>. QED BY <1>1, <4>1 DEF ReconInv, LinksSound
    <3>2. CASE l[1] # s
      BY <1>1, <3>2 DEF ReconInv, LinksSound
    <3>. QED BY <3>1, <3>2
  <2>. QED BY <1>1, <2>1, <2>2 DEF ReconInv, LinksSound, LegsOn
<1>. QED BY <1>1, <1>4, <1>6, <1>7, <1>8
     DEF ReconInv, OriginalsExist, ReconciledIsAnchored, Rows, IsMatched

\* Only a line without matches is set aside, and only such a line comes back.
LEMMA SetIgnoredStep ==
  ASSUME ReconInv, NEW l \in Line, SetIgnored(l)
  PROVE  ReconInv'
<1>1. /\ lineStatus[l] \in {"UNMATCHED", "IGNORED"}
      /\ UNCHANGED <<period, entry, last, audit, job, answers, moves, statement, matched, undone>>
  BY DEF SetIgnored, vars
<1>2. /\ lineStatus' \in [Line -> {"NONE", "UNMATCHED", "MATCHED", "IGNORED"}]
      /\ lineStatus'[l] \in {"UNMATCHED", "IGNORED"}
      /\ \A k \in Line \ {l} : lineStatus'[k] = lineStatus[k]
  BY DEF SetIgnored, ReconInv, ReconTypeOK
<1>3. ReconTypeOK'
  BY <1>1, <1>2 DEF ReconInv, ReconTypeOK, TypeOK
<1>4. LinesOfStatements'
  BY <1>1, <1>2 DEF ReconInv, LinesOfStatements
<1>5. LinksSound'
  <2>1. \A k \in Line : lineStatus'[k] = "MATCHED" <=> lineStatus[k] = "MATCHED"
    BY <1>1, <1>2
  <2>. QED BY <1>1, <2>1 DEF ReconInv, LinksSound, LegsOn, Live
<1>. QED BY <1>1, <1>3, <1>4, <1>5
     DEF ReconInv, OriginalsExist, MatchesFit, AccountOf, Moved, ReconciledIsAnchored, Rows,
         IsMatched

\* deleteStatement takes a statement no match hangs from.
LEMMA DeleteStep ==
  ASSUME ReconInv, NEW s \in Statement, DeleteStatement(s)
  PROVE  ReconInv'
<1>1. /\ Live(s)
      /\ \A l \in Line : l[1] = s => LegsOn(l) = {}
      /\ statement' = [statement EXCEPT ![s].deleted = TRUE]
      /\ UNCHANGED <<period, entry, last, audit, job, answers, moves, lineStatus, matched, undone>>
  BY DEF DeleteStatement, vars
<1>2. statement[s] \in StatementRow
  BY <1>1, LiveRow DEF ReconInv
<1>3. /\ statement'[s] \in StatementRow
      /\ \A t \in Statement \ {s} : statement'[t] = statement[t]
      /\ statement' \in [Statement -> StatementRow \cup {NULL}]
  <2>1. statement \in [Statement -> StatementRow \cup {NULL}]
    BY DEF ReconInv, ReconTypeOK, StatementRow
  <2>. DEFINE row == [statement[s] EXCEPT !.deleted = TRUE]
  <2>2. row \in StatementRow
    BY <1>2 DEF StatementRow
  <2>3. statement' = [statement EXCEPT ![s] = row]
    BY <1>1
  <2>. HIDE DEF row
  <2>. QED BY <2>1, <2>2, <2>3
<1>4. \A a \in matched : a[1] \in Line /\ a[1][1] \in Statement \ {s}
  <2>1. ASSUME NEW a \in matched
        PROVE  a[1][1] # s
    <3>1. /\ a[1] \in Line
          /\ a[2] \in Leg
          /\ a = <<a[1], a[2]>>
      BY MatchShape DEF ReconInv
    <3>2. a[2] \in LegsOn(a[1])
      BY <3>1 DEF LegsOn
    <3>. QED BY <1>1, <3>1, <3>2
  <2>. QED BY <2>1, MatchShape DEF ReconInv
<1>5. ReconTypeOK'
  BY <1>1, <1>3 DEF ReconInv, ReconTypeOK, TypeOK, StatementRow
<1>6. LinesOfStatements'
  BY <1>1, <1>3 DEF ReconInv, LinesOfStatements, Line
<1>7. MatchesFit'
  BY <1>1, <1>3, <1>4 DEF ReconInv, MatchesFit, AccountOf, Moved
<1>8. LinksSound'
  <2>1. \A a \in matched : Live(a[1][1])'
    BY <1>3, <1>4 DEF ReconInv, LinksSound, Live
  <2>. QED BY <1>1, <2>1 DEF ReconInv, LinksSound, LegsOn
<1>. QED BY <1>1, <1>5, <1>6, <1>7, <1>8
     DEF ReconInv, OriginalsExist, ReconciledIsAnchored, Rows, IsMatched

\* The journal's own steps never make an entry Reconciled or undo a reversal.
LEMMA StatusStep ==
  ASSUME TypeOK, OriginalsExist, [Next]_vars, NEW e \in EntryId
  PROVE  /\ \/ entry'[e] = entry[e]
            \/ entry'[e] # NULL /\ entry'[e].status \in {"Posted", "Reversed"}
         /\ entry[e] # NULL /\ entry[e].status = "Reversed" => entry'[e].status = "Reversed"
<1>1. ASSUME NEW r \in Request, NEW f \in EntryId, PostCommit(r, f)
      PROVE  /\ e # f => entry'[e] = entry[e]
             /\ e = f => entry[e] = NULL /\ entry'[e] # NULL /\ entry'[e].status = "Posted"
  <2>1. /\ entry[f] = NULL
        /\ entry' = [entry EXCEPT ![f] =
             NewEntry(job[r].period, job[r].src, NULL, job[r].reason)]
        /\ NewEntry(job[r].period, job[r].src, NULL, job[r].reason) # NULL
    BY <1>1, PostCommitEffect DEF PostCommit
  <2>2. NewEntry(job[r].period, job[r].src, NULL, job[r].reason).status = "Posted"
    BY DEF NewEntry
  <2>. QED BY <2>1, <2>2 DEF TypeOK
<1>2. ASSUME NEW r \in Request, NEW rev \in EntryId, ReverseCommit(r, rev)
      PROVE  \/ entry'[e] = entry[e]
             \/ entry'[e] # NULL /\ entry[e] = NULL /\ entry'[e].status = "Posted"
             \/ entry'[e] # NULL /\ entry'[e].status = "Reversed"
  <2>. DEFINE o == job[r].original
              p == job[r].period
              row == NewEntry(p, ReversalSource(o), o, job[r].reason)
  <2>1. /\ p \in Period
        /\ o \in EntryId
        /\ job[r].reason \in BOOLEAN
        /\ entry[o] # NULL
        /\ entry[rev] = NULL
        /\ rev # o
        /\ entry' = [entry EXCEPT ![rev] = row, ![o] = ReversedRow(o, rev)]
    BY <1>2, ReverseCommitEffect DEF ReverseCommit
  <2>2. ReversalSource(o) \in Source
    BY <2>1 DEF ReversalSource, Source
  <2>3. row # NULL /\ ReversedRow(o, rev) # NULL
    BY <2>1, <2>2, NewEntryType, ReversedRowType
  <2>4. row.status = "Posted"
    BY DEF NewEntry
  <2>5. ReversedRow(o, rev).status = "Reversed"
    <3>1. entry[o] \in Entry
      BY <2>1 DEF TypeOK
    <3>. QED BY <3>1 DEF ReversedRow, Entry
  <2>. HIDE DEF row
  <2>. QED BY <2>1, <2>3, <2>4, <2>5 DEF TypeOK
<1>3. CASE UNCHANGED <<entry, last>>
  BY <1>3
<1>. QED BY <1>1, <1>2, <1>3, TableStep

\* A journal step gives legs to the row it inserts and keeps those of the others.
LEMMA MovesStep ==
  ASSUME ReconInv, TypeOK', JournalStep
  PROVE  /\ moves' \in [EntryId -> [Bank -> Int]]
         /\ \A e \in Rows : moves'[e] = moves[e]
<1>1. moves \in [EntryId -> [Bank -> Int]]
  BY DEF ReconInv, ReconTypeOK
<1>2. \A m \in Movements : m \in [Bank -> Int]
  BY ReconciliationAssumption
<1>3. ASSUME NEW e \in Rows' \ Rows, NEW m \in Movements, moves' = [moves EXCEPT ![e] = m]
      PROVE  /\ moves' \in [EntryId -> [Bank -> Int]]
             /\ \A f \in Rows : moves'[f] = moves[f]
  BY <1>1, <1>2, <1>3 DEF Rows
<1>4. ASSUME NEW e \in Rows' \ Rows, entry'[e].mirrors # NULL,
             moves' = [moves EXCEPT ![e] = Opposite(moves[entry'[e].mirrors])]
      PROVE  /\ moves' \in [EntryId -> [Bank -> Int]]
             /\ \A f \in Rows : moves'[f] = moves[f]
  <2>1. entry'[e].mirrors \in EntryId
    BY <1>4 DEF TypeOK, Entry, Rows
  <2>2. moves[entry'[e].mirrors] \in [Bank -> Int]
    BY <1>1, <2>1
  <2>3. Opposite(moves[entry'[e].mirrors]) \in [Bank -> Int]
    BY <2>2 DEF Opposite
  <2>. QED BY <1>1, <1>4, <2>3 DEF Rows
<1>. QED BY <1>1, <1>3, <1>4 DEF JournalStep

\* The journal beside the bank: what is matched stays what it was.
LEMMA BesideStep ==
  ASSUME ReconInv, [Next]_vars, UNCHANGED <<statement, lineStatus, matched, undone>>,
         moves' \in [EntryId -> [Bank -> Int]], \A e \in Rows : moves'[e] = moves[e]
  PROVE  ReconInv'
<1>1. TypeOK' /\ OriginalsExist' /\ RowsKept
  BY TypeStep, OriginalsStep, RowStep DEF ReconInv, ReconTypeOK
<1>2. ReconTypeOK'
  BY <1>1 DEF ReconInv, ReconTypeOK
<1>3. LinesOfStatements'
  BY DEF ReconInv, LinesOfStatements
<1>4. MatchesFit'
  <2>1. ASSUME NEW a \in matched
        PROVE  entry'[a[2][1]] # NULL /\ a[2][2] = AccountOf(a[1]) /\ Moved(a[2])' # 0
    <3>1. a[2][1] \in Rows
      BY MatchShape DEF ReconInv, MatchesFit, Rows
    <3>2. entry'[a[2][1]] # NULL /\ moves'[a[2][1]] = moves[a[2][1]]
      BY <1>1, <3>1 DEF RowsKept, Rows
    <3>. QED BY <3>2 DEF ReconInv, MatchesFit, Moved
  <2>. QED BY <2>1 DEF MatchesFit, AccountOf
<1>5. LinksSound'
  BY DEF ReconInv, LinksSound, LegsOn, Live
<1>6. ReconciledIsAnchored'
  <2>1. ASSUME NEW e \in EntryId, entry'[e] # NULL, entry'[e].status = "Reconciled"
        PROVE  \E b \in Bank : IsMatched(<<e, b>>)
    <3>1. entry'[e] = entry[e]
      BY <2>1, StatusStep DEF ReconInv, ReconTypeOK
    <3>. QED BY <2>1, <3>1 DEF ReconInv, ReconciledIsAnchored, Rows
  <2>. QED BY <2>1 DEF ReconciledIsAnchored, Rows, IsMatched
<1>. QED BY <1>1, <1>2, <1>3, <1>4, <1>5, <1>6 DEF ReconInv

-----------------------------------------------------------------------------
(* Theorems *)

\* Every step of the bank or of the journal keeps the invariant.
LEMMA ReconStep == ReconInv /\ [ReconNext]_reconVars => ReconInv'
<1>. SUFFICES ASSUME ReconInv, [ReconNext]_reconVars PROVE ReconInv'
  OBVIOUS
<1>1. CASE JournalStep
  <2>1. [Next]_vars /\ UNCHANGED <<statement, lineStatus, matched, undone>>
    BY <1>1 DEF JournalStep
  <2>2. TypeOK'
    BY <2>1, TypeStep DEF ReconInv, ReconTypeOK
  <2>. QED BY <1>1, <2>1, <2>2, MovesStep, BesideStep
<1>2. CASE UNCHANGED reconVars
  <2>1. /\ [Next]_vars
        /\ UNCHANGED <<statement, lineStatus, matched, undone>>
        /\ moves' = moves
    BY <1>2 DEF reconVars, bankVars
  <2>. QED BY <2>1, BesideStep DEF ReconInv, ReconTypeOK
<1>. QED BY <1>1, <1>2, ImportStep, AutoMatchStep, ManualMatchStep, UnmatchStep,
         SetIgnoredStep, DeleteStep DEF ReconNext

\* The strengthened invariant holds of every behaviour.
THEOREM ReconCorrect == ReconSpec => []ReconInv
BY ReconInvInit, ReconStep, PTL DEF ReconSpec

\* The rows of statements, lines and matches stay well-typed, and a pair is
\* never active and undone at once.
THEOREM ReconTypeCorrect == ReconSpec => []ReconTypeOK
<1>1. ReconInv => ReconTypeOK
  BY DEF ReconInv
<1>. QED BY <1>1, ReconCorrect, PTL

\* A leg is explained once, a line is MATCHED exactly while something explains it,
\* and no active match hangs from a deleted statement.
THEOREM LinksAreSound == ReconSpec => []LinksSound
<1>1. ReconInv => LinksSound
  BY DEF ReconInv
<1>. QED BY <1>1, ReconCorrect, PTL

\* Every Reconciled entry has an active match to undo, however statements come and
\* go and whatever is reversed around it.
THEOREM ReconciledIsUndoable == ReconSpec => []ReconciledIsAnchored
<1>1. ReconInv => ReconciledIsAnchored
  BY DEF ReconInv
<1>. QED BY <1>1, ReconCorrect, PTL

\* Neither a match nor an unmatch of a reversed entry brings it back.
THEOREM ReversalsAreFinal == ReconSpec => ReversedIsFinal
<1>. DEFINE Stays == \A e \in Rows : entry[e].status = "Reversed" => entry'[e].status = "Reversed"
<1>1. ASSUME ReconInv, NEW entries \in SUBSET Rows, NEW pairs, Flip(entries, pairs)
      PROVE  Stays
  <2>1. ASSUME NEW e \in Rows, entry[e].status = "Reversed"
        PROVE  entry'[e].status = "Reversed"
    <3>1. e \in EntryId /\ entry[e] \in Entry
      BY <1>1 DEF Rows, ReconInv, ReconTypeOK, TypeOK
    <3>2. DerivedStatus(e, pairs) = "Reversed"
      <4>1. TypeOK
        BY <1>1 DEF ReconInv, ReconTypeOK
      <4>. QED BY <2>1, <4>1, DerivedStatusFacts
    <3>3. entry'[e] = entry[e] \/ entry'[e] = [entry[e] EXCEPT !.status = "Reversed"]
      BY <1>1, <3>1, <3>2 DEF Flip
    <3>. QED BY <2>1, <3>1, <3>3 DEF Entry
  <2>. QED BY <2>1
<1>2. ASSUME ReconInv, NEW l \in Line, NEW legs \in SUBSET Leg, Link(l, legs),
             \A leg \in legs : Matchable(l, leg)
      PROVE  Stays
  <2>1. {leg[1] : leg \in legs} \in SUBSET Rows
    BY <1>2 DEF Leg, Matchable, Rows
  <2>. QED BY <1>1, <1>2, <2>1 DEF Link
<1>3. ASSUME ReconInv, ReconNext
      PROVE  Stays
  <2>1. ASSUME NEW l \in Line, AutoMatch(l)
        PROVE  Stays
    BY <1>2, <1>3, <2>1 DEF AutoMatch, Candidates
  <2>2. ASSUME NEW l \in Imported, NEW legs \in SUBSET (EntryId \X {AccountOf(l)}),
               ManualMatch(l, legs)
        PROVE  Stays
    <3>1. l \in Line /\ AccountOf(l) \in Bank
      BY <1>3 DEF Imported, ReconInv, LinesOfStatements, StatementRow, AccountOf
    <3>2. legs \in SUBSET Leg
      BY <3>1 DEF Leg
    <3>. QED BY <1>2, <1>3, <2>2, <3>1, <3>2 DEF ManualMatch
  <2>3. ASSUME NEW l \in Line, NEW leg \in Leg, Unmatch(l, leg)
        PROVE  Stays
    <3>1. {leg[1]} \in SUBSET Rows
      BY <1>3, <2>3 DEF Unmatch, ReconInv, MatchesFit, Leg, Rows
    <3>. QED BY <1>1, <1>3, <2>3, <3>1 DEF Unmatch
  <2>4. CASE JournalStep
    BY <1>3, <2>4, StatusStep DEF JournalStep, Rows, ReconInv, ReconTypeOK
  <2>5. CASE UNCHANGED entry
    BY <2>5
  <2>. QED BY <1>3, <2>1, <2>2, <2>3, <2>4, <2>5
       DEF ReconNext, ImportStatement, SetIgnored, DeleteStatement, vars
<1>4. ReconInv /\ [ReconNext]_reconVars => [Stays]_reconVars
  BY <1>3
<1>. QED BY <1>4, ReconCorrect, PTL DEF ReconSpec, ReversedIsFinal

-----------------------------------------------------------------------------
(* Lines are explained to the cent *)

\* The sum of one leg is the leg: the fold over a singleton, unrolled once.
LEMMA SingleTotal ==
  ASSUME NEW m, NEW leg, m[leg[1]][leg[2]] \in Int
  PROVE  Total(m, {leg}) = m[leg[1]][leg[2]]
<1>. DEFINE amount == m[leg[1]][leg[2]]
            sums == [s \in SUBSET {leg} |-> IF s = {} THEN 0 ELSE amount]
            Unrolled(f) == [s \in SUBSET {leg} |->
                              IF s = {} THEN 0
                              ELSE LET x == CHOOSE x \in s : TRUE
                                   IN  m[x[1]][x[2]] + f[s \ {x}]]
<1>1. sums = Unrolled(sums)
  <2>1. \A s \in SUBSET {leg} : s # {} => s = {leg} /\ (CHOOSE x \in s : TRUE) = leg
    OBVIOUS
  <2>2. {leg} \ {leg} = {}
    OBVIOUS
  <2>. QED BY <2>1, <2>2
<1>2. Total(m, {leg}) = (CHOOSE f : f = Unrolled(f))[{leg}]
  BY DEF Total, MapThenSumSet, MapThenFoldSet
<1>3. \A f : f = Unrolled(f) => f[{leg}] = amount
  <2>. SUFFICES ASSUME NEW f, f = Unrolled(f) PROVE f[{leg}] = amount
    OBVIOUS
  <2>1. f[{}] = 0
    OBVIOUS
  <2>2. (CHOOSE x \in {leg} : TRUE) = leg /\ {leg} \ {leg} = {}
    OBVIOUS
  <2>3. f[{leg}] = amount + f[{}]
    BY <2>2
  <2>. QED BY <2>1, <2>3
<1>. HIDE DEF Unrolled, sums
<1>. QED BY <1>1, <1>2, <1>3

\* A line without links gets legs that explain it, and no other line is touched.
LEMMA LinkExplains ==
  ASSUME ReconInv, NEW l \in Line, NEW legs \in SUBSET Leg,
         lineStatus[l] = "UNMATCHED", Link(l, legs), Total(moves, legs) = AmountOf(l),
         NEW k \in Line, ~(LegsOn(k)' \subseteq LegsOn(k))
  PROVE  LegsOn(k) = {} /\ Total(moves, LegsOn(k)') = AmountOf(k)
<1>1. matched' = matched \cup ({l} \X legs)
  BY DEF Link
<1>2. k = l
  BY <1>1 DEF LegsOn
<1>3. LegsOn(l) = {}
  BY DEF ReconInv, LinksSound
<1>4. LegsOn(l)' = legs
  BY <1>1, <1>3 DEF LegsOn
<1>. QED BY <1>2, <1>3, <1>4

\* No line is matched to more than its amount: whatever is imported, matched by
\* hand or by the batch, undone and matched again, links come to a line that has
\* none and their sum is the line, to the cent.
THEOREM LinesAreExplained == ReconSpec => LinesNeverOverMatched
<1>. DEFINE Explained(k) ==
       ~(LegsOn(k)' \subseteq LegsOn(k)) =>
         /\ LegsOn(k) = {}
         /\ Total(moves, LegsOn(k)') = AmountOf(k)
<1>1. ASSUME ReconInv, ReconNext, NEW k \in Line
      PROVE  Explained(k)
  <2>1. ASSUME NEW l \in Line, AutoMatch(l)
        PROVE  Explained(k)
    <3>1. PICK leg \in Leg : Candidates(l) = {leg} /\ Link(l, {leg})
      BY <2>1 DEF AutoMatch
    <3>2. Moved(leg) = AmountOf(l) /\ Moved(leg) \in Int
      BY <1>1, <3>1 DEF Candidates, Moved, Leg, ReconInv, ReconTypeOK
    <3>3. Total(moves, {leg}) = AmountOf(l)
      BY <3>2, SingleTotal DEF Moved
    <3>4. {leg} \in SUBSET Leg /\ lineStatus[l] = "UNMATCHED"
      BY <2>1 DEF AutoMatch
    <3>. QED BY <1>1, <3>1, <3>3, <3>4, LinkExplains
  <2>2. ASSUME NEW l \in Imported, NEW legs \in SUBSET (EntryId \X {AccountOf(l)}),
               ManualMatch(l, legs)
        PROVE  Explained(k)
    <3>1. l \in Line /\ AccountOf(l) \in Bank
      BY <1>1 DEF Imported, ReconInv, LinesOfStatements, StatementRow, AccountOf
    <3>2. legs \in SUBSET Leg
      BY <3>1 DEF Leg
    <3>3. /\ lineStatus[l] = "UNMATCHED"
          /\ Link(l, legs)
          /\ Total(moves, legs) = AmountOf(l)
      BY <2>2 DEF ManualMatch
    <3>. QED BY <1>1, <3>1, <3>2, <3>3, LinkExplains
  <2>3. ASSUME NEW l \in Line, NEW leg \in Leg, Unmatch(l, leg)
        PROVE  Explained(k)
    BY <2>3 DEF Unmatch, LegsOn
  <2>4. CASE UNCHANGED matched
    BY <2>4 DEF LegsOn
  <2>. QED BY <1>1, <2>1, <2>2, <2>3, <2>4
       DEF ReconNext, ImportStatement, SetIgnored, DeleteStatement, JournalStep
<1>2. ReconInv /\ [ReconNext]_reconVars =>
        [\A l \in Line :
           ~(LegsOn(l)' \subseteq LegsOn(l)) =>
             /\ LegsOn(l) = {}
             /\ Total(moves, LegsOn(l)') = AmountOf(l)]_reconVars
  BY <1>1
<1>. QED BY <1>2, ReconCorrect, PTL DEF ReconSpec, LinesNeverOverMatched

-----------------------------------------------------------------------------
(* The journal beside the bank *)

\* What a bank operation may do to the rows: mark a posted one reconciled or back.
OnlyMarks ==
  /\ \A e \in EntryId :
       \/ entry'[e] = entry[e]
       \/ /\ entry[e] # NULL
          /\ entry'[e] # NULL
          /\ entry'[e].period = entry[e].period
          /\ entry'[e].number = entry[e].number
          /\ entry'[e].late = entry[e].late
          /\ entry'[e].src = entry[e].src
          /\ entry'[e].mirrors = entry[e].mirrors
          /\ entry'[e].reversedBy = entry[e].reversedBy
          /\ entry[e].status # "Reversed"
          /\ entry'[e].status # "Reversed"
  /\ UNCHANGED <<period, last, audit, job, answers>>

\* recomputeEntryFlip writes the marker and nothing else.
LEMMA FlipMarks ==
  ASSUME TypeOK, NEW entries \in SUBSET Rows, NEW pairs, Flip(entries, pairs),
         UNCHANGED <<period, last, audit, job, answers>>
  PROVE  OnlyMarks
<1>1. ASSUME NEW e \in EntryId, entry'[e] # entry[e]
      PROVE  /\ entry[e] \in Entry
             /\ entry'[e] = [entry[e] EXCEPT !.status = DerivedStatus(e, pairs)]
             /\ DerivedStatus(e, pairs) # "Reversed"
             /\ entry[e].status # "Reversed"
             /\ entry'[e] \in Entry
  <2>1. e \in Rows /\ entry[e] \in Entry
    BY <1>1 DEF Flip, Rows, TypeOK
  <2>2. entry'[e] = [entry[e] EXCEPT !.status = DerivedStatus(e, pairs)]
    BY <1>1 DEF Flip
  <2>3. DerivedStatus(e, pairs) # entry[e].status
    BY <1>1, <2>1, <2>2 DEF Entry
  <2>4. {entry[e].status, DerivedStatus(e, pairs)} \subseteq {"Posted", "Reconciled"}
    BY <2>1, <2>3, DerivedStatusFacts
  <2>. QED BY <2>1, <2>2, <2>4 DEF Entry, EntryStatus
<1>2. ASSUME NEW e \in EntryId, entry'[e] # entry[e]
      PROVE  /\ entry[e] # NULL
             /\ entry'[e] # NULL
             /\ entry'[e].period = entry[e].period
             /\ entry'[e].number = entry[e].number
             /\ entry'[e].late = entry[e].late
             /\ entry'[e].src = entry[e].src
             /\ entry'[e].mirrors = entry[e].mirrors
             /\ entry'[e].reversedBy = entry[e].reversedBy
             /\ entry[e].status # "Reversed"
             /\ entry'[e].status # "Reversed"
  <2>1. entry[e] \in Entry /\ entry'[e] \in Entry
    BY <1>1, <1>2
  <2>2. entry[e] # NULL /\ entry'[e] # NULL
    BY <2>1, LedgerAssumption
  <2>3. PICK status : /\ status # "Reversed"
                      /\ entry'[e] = [entry[e] EXCEPT !.status = status]
    BY <1>1, <1>2
  <2>. QED BY <1>1, <1>2, <2>1, <2>2, <2>3 DEF Entry
<1>. QED BY <1>2 DEF OnlyMarks

\* The marker is no business of the book, the keys, the mirrors or the trail.
LEMMA MarksKeepJournal ==
  ASSUME LedgerInv, TypeOK', OriginalsExist', OnlyMarks
  PROVE  LedgerInv' /\ NumbersAtMostOne
<1>1. /\ Rows' = Rows
      /\ Numbered' = Numbered
      /\ \A e \in Rows :
           /\ entry'[e].period = entry[e].period
           /\ entry'[e].number = entry[e].number
           /\ entry'[e].late = entry[e].late
           /\ entry'[e].src = entry[e].src
           /\ entry'[e].mirrors = entry[e].mirrors
           /\ entry'[e].reversedBy = entry[e].reversedBy
           /\ (entry'[e].status = "Reversed") = (entry[e].status = "Reversed")
  BY DEF OnlyMarks, Rows, Numbered
<1>2. Numbered \subseteq Rows /\ \A e \in Rows : entry'[e] # NULL
  BY <1>1 DEF Numbered, Rows
<1>3. NumbersAtMostOne
  BY <1>1, <1>2 DEF OnlyMarks, NumbersAtMostOne, NumbersKept
<1>4. GaplessNumbering'
  BY <1>3, NumberingStep DEF LedgerInv
<1>5. UniqueSource' /\ FreedKeysNameOwner'
  BY <1>1 DEF LedgerInv, UniqueSource, FreedKeysNameOwner
<1>6. MirrorsAreKeyed'
  BY <1>1 DEF LedgerInv, MirrorsAreKeyed, IsClosing
<1>7. LinksAgree'
  BY <1>1 DEF LedgerInv, ReversalsPairUp, LinksAgree
<1>8. AnswersKeepKey'
  BY <1>1 DEF LedgerInv, AnswersKeepKey, OnlyMarks
<1>9. AuditTellsJournal' /\ TrailIsTrue'
  BY <1>1, <1>2 DEF LedgerInv, AuditTellsJournal, TrailIsTrue, OnlyMarks
<1>10. ReversalsPairUp'
  BY <1>5, <1>6, <1>7, KeysPairUpNext DEF Keys
<1>. QED BY <1>3, <1>4, <1>5, <1>6, <1>8, <1>9, <1>10 DEF LedgerInv

\* Every step of the bank is a step of the journal or only marks its rows.
LEMMA BankOrJournal ==
  ASSUME ReconInv, [ReconNext]_reconVars
  PROVE  [Next]_vars \/ OnlyMarks
<1>1. ASSUME NEW l \in Line, NEW legs \in SUBSET Leg, Link(l, legs),
             \A leg \in legs : Matchable(l, leg),
             UNCHANGED <<period, last, audit, job, answers>>
      PROVE  OnlyMarks
  <2>1. {leg[1] : leg \in legs} \in SUBSET Rows
    BY <1>1 DEF Leg, Matchable, Rows
  <2>. QED BY <1>1, <2>1, FlipMarks DEF Link, ReconInv, ReconTypeOK
<1>2. ASSUME NEW l \in Line, AutoMatch(l)
      PROVE  OnlyMarks
  BY <1>1, <1>2 DEF AutoMatch, Candidates
<1>3. ASSUME NEW l \in Imported, NEW legs \in SUBSET (EntryId \X {AccountOf(l)}),
             ManualMatch(l, legs)
      PROVE  OnlyMarks
  <2>1. l \in Line /\ AccountOf(l) \in Bank
    BY DEF Imported, ReconInv, LinesOfStatements, StatementRow, AccountOf
  <2>2. legs \in SUBSET Leg
    BY <2>1 DEF Leg
  <2>. QED BY <1>1, <1>3, <2>1, <2>2 DEF ManualMatch
<1>4. ASSUME NEW l \in Line, NEW leg \in Leg, Unmatch(l, leg)
      PROVE  OnlyMarks
  <2>1. {leg[1]} \in SUBSET Rows
    BY <1>4 DEF Unmatch, ReconInv, MatchesFit, Leg, Rows
  <2>. QED BY <1>4, <2>1, FlipMarks DEF Unmatch, ReconInv, ReconTypeOK
<1>5. CASE UNCHANGED vars
  BY <1>5
<1>. QED BY <1>2, <1>3, <1>4, <1>5
     DEF ReconNext, reconVars, ImportStatement, SetIgnored, DeleteStatement, JournalStep

\* Everything proved of the journal alone holds while statements are imported and
\* its entries matched and unmatched: the marker hides no reversal, frees no key and
\* leaves no number behind.
THEOREM JournalSoundBesideBank == ReconSpec => []LedgerInv
<1>1. ReconInit => LedgerInv
  BY LedgerInit DEF ReconInit
<1>2. ReconInv /\ ReconInv' /\ LedgerInv /\ [ReconNext]_reconVars => LedgerInv'
  BY BankOrJournal, LedgerStep, MarksKeepJournal DEF ReconInv, ReconTypeOK
<1>. QED BY <1>1, <1>2, ReconCorrect, PTL DEF ReconSpec

\* The journal with its bank reconciliation implements the auditor's book: no
\* reconciliation writes, moves or removes a record.
THEOREM BankKeepsTheBook == ReconSpec => KeepsTheBook
<1>1. ReconInv /\ ReconInv' /\ LedgerInv /\ LedgerInv' /\ [ReconNext]_reconVars
        => [AuditorsBook!Next]_AuditorsBook!vars
  <2>. SUFFICES ASSUME ReconInv, ReconInv', LedgerInv, LedgerInv', [ReconNext]_reconVars
                PROVE  AuditorsBook!Next \/ UNCHANGED AuditorsBook!vars
    OBVIOUS
  <2>1. CASE [Next]_vars
    BY <2>1, NumbersStep, ClosingStep, BookStep DEF LedgerInv
  <2>2. CASE OnlyMarks
    <3>1. NumbersAtMostOne
      BY <2>2, MarksKeepJournal DEF LedgerInv
    <3>2. ClosesAtMostOne
      BY <2>2 DEF OnlyMarks, ClosesAtMostOne, Closed, Sealed
    <3>. QED BY <3>1, <3>2, BookStep DEF LedgerInv
  <2>. QED BY <2>1, <2>2, BankOrJournal
<1>2. ReconInit => AuditorsBook!Init
  BY BookInit DEF ReconInit
<1>. QED BY <1>1, <1>2, ReconCorrect, JournalSoundBesideBank, PTL
         DEF ReconSpec, KeepsTheBook, AuditorsBook!Spec
=============================================================================

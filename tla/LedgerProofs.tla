---------------------------- MODULE LedgerProofs ----------------------------
(***************************************************************************)
(* Proofs about Ledger, for every set of entries, periods, years, keys and *)
(* concurrent handlers.                                                    *)
(***************************************************************************)
EXTENDS Ledger, TLAPS

-----------------------------------------------------------------------------
(* Type correctness *)

\* What a handler's job is, by its next await.
LEMMA JobShape ==
  ASSUME TypeOK, NEW r \in Request
  PROVE  /\ job[r] \in Job
         /\ job[r].at \in {"post.lookup", "post.commit", "post.refetch"}
              => job[r] \in PostJob
         /\ job[r].at \in {"reverse.read", "reverse.commit"} => job[r] \in ReverseJob
         /\ job[r].at = "period.commit" => job[r] \in PeriodJob
  BY DEF TypeOK, Job, Idle, PostJob, ReverseJob, PeriodJob

\* The tables are empty and no handler is in flight.
LEMMA TypeInit == Init => TypeOK
  BY LedgerAssumption DEF Init, TypeOK, Job, PeriodStatus, Idle

\* The row journalEntryRepo.create inserts is a row of the table.
LEMMA NewEntryType ==
  ASSUME TypeOK, NEW p \in Period, NEW src \in Source,
         NEW m \in EntryId \cup {NULL}, NEW reason \in BOOLEAN
  PROVE  /\ NewEntry(p, src, m, reason) \in Entry
         /\ NewEntry(p, src, m, reason) # NULL
         /\ last[YearOf[p]] \in Nat
  BY LedgerAssumption DEF TypeOK, NewEntry, Entry, EntryStatus

\* nextEntryNumber leaves a counter per fiscal year.
LEMMA CounterType ==
  ASSUME TypeOK, NEW p \in Period, NextEntryNumber(p)
  PROVE  /\ last' \in [Year -> Nat]
         /\ last' = [last EXCEPT ![YearOf[p]] = last[YearOf[p]] + 1]
         /\ YearOf[p] \in Year
<1>1. YearOf[p] \in Year /\ last[YearOf[p]] + 1 \in Nat
  BY LedgerAssumption DEF TypeOK
<1>. QED BY <1>1 DEF NextEntryNumber, TypeOK

\* Every step of postEntry keeps the types.
LEMMA PostType ==
  ASSUME TypeOK, NEW r \in Request, PostNext(r)
  PROVE  TypeOK'
<1>1. ASSUME NEW p \in Period, NEW reason \in BOOLEAN, NEW src \in PostSource(p),
             PostPreflight(r, p, src, reason)
      PROVE  TypeOK'
  <2>1. src \in PostKey
    BY DEF PostSource
  <2>2. [at |-> "post.lookup", period |-> p, src |-> src, reason |-> reason] \in Job
    BY <2>1 DEF Job, PostJob
  <2>. QED BY <1>1, <2>2 DEF PostPreflight, TypeOK
<1>2. CASE PostLookup(r)
  <2>1. job[r] \in PostJob
    BY <1>2, JobShape DEF PostLookup
  <2>2. job' \in [Request -> Job]
    BY <1>2, <2>1 DEF PostLookup, Goto, Finish, Job, PostJob, TypeOK
  <2>3. answers' \subseteq Source \X EntryId
    BY <1>2, <2>1 DEF PostLookup, BySource, Rows, PostJob, Source, TypeOK
  <2>. QED BY <1>2, <2>2, <2>3 DEF PostLookup, TypeOK
<1>3. ASSUME NEW e \in EntryId, PostCommit(r, e)
      PROVE  TypeOK'
  <2>1. job[r] \in PostJob
    BY <1>3, JobShape DEF PostCommit
  <2>2. /\ job[r].period \in Period
        /\ job[r].src \in Source
        /\ job[r].reason \in BOOLEAN
    BY <2>1 DEF PostJob, Source, TypeOK
  <2>3. entry' \in [EntryId -> Entry \cup {NULL}]
    BY <1>3, <2>2, NewEntryType DEF PostCommit, TypeOK
  <2>4. last' \in [Year -> Nat]
    BY <1>3, <2>2, CounterType DEF PostCommit
  <2>5. audit' \subseteq EventType \X (EntryId \cup Period) \X (EntryId \cup {NULL})
    BY <1>3 DEF PostCommit, TypeOK, EventType
  <2>6. job' \in [Request -> Job] /\ answers' \subseteq Source \X EntryId
    BY <1>3, <2>2 DEF PostCommit, Finish, Job, TypeOK
  <2>. QED BY <1>3, <2>3, <2>4, <2>5, <2>6 DEF PostCommit, TypeOK
<1>4. CASE PostConflict(r)
  <2>1. job[r] \in PostJob
    BY <1>4, JobShape DEF PostConflict
  <2>. QED BY <1>4, <2>1 DEF PostConflict, Goto, Job, PostJob, TypeOK
<1>5. CASE PostRefetch(r)
  <2>1. job[r] \in PostJob
    BY <1>5, JobShape DEF PostRefetch
  <2>. QED BY <1>5, <2>1 DEF PostRefetch, BySource, Rows, PostJob, Source, Finish, Job, TypeOK
<1>. QED BY <1>1, <1>2, <1>3, <1>4, <1>5 DEF PostNext

\* What a reversal leaves of its original is a row of the table.
LEMMA ReversedRowType ==
  ASSUME TypeOK, NEW e \in EntryId, NEW rev \in EntryId, entry[e] # NULL
  PROVE  /\ ReversedRow(e, rev) \in Entry
         /\ ReversedRow(e, rev) # NULL
<1>1. entry[e] \in Entry
  BY DEF TypeOK
<1>2. FreedSource(e) \in Source
  BY <1>1, LedgerAssumption DEF FreedSource, Source, Entry
<1>3. ReversedRow(e, rev) \in Entry
  BY <1>1, <1>2 DEF ReversedRow, Entry, EntryStatus
<1>. QED BY <1>3, LedgerAssumption

\* What a committed reversal does to the table, and who takes part in it.
LEMMA ReverseCommitEffect ==
  ASSUME TypeOK, OriginalsExist, NEW r \in Request, NEW rev \in EntryId,
         ReverseCommit(r, rev)
  PROVE  /\ job[r] \in ReverseJob
         /\ job[r].period \in Period
         /\ job[r].original \in EntryId
         /\ job[r].reason \in BOOLEAN
         /\ entry[job[r].original] # NULL
         /\ rev # job[r].original
         /\ entry' = [entry EXCEPT
              ![rev] = NewEntry(job[r].period, ReversalSource(job[r].original),
                                job[r].original, job[r].reason),
              ![job[r].original] = ReversedRow(job[r].original, rev)]
<1>1. job[r] \in ReverseJob
  BY JobShape DEF ReverseCommit
<1>2. job[r].period \in Period /\ job[r].original \in EntryId /\ job[r].reason \in BOOLEAN
  BY <1>1 DEF ReverseJob
<1>3. entry[job[r].original] # NULL /\ rev # job[r].original
  BY <1>1 DEF OriginalsExist, ReverseCommit
<1>. QED BY <1>1, <1>2, <1>3 DEF ReverseCommit

\* Every step of reverseEntry keeps the types.
LEMMA ReverseType ==
  ASSUME TypeOK, OriginalsExist, NEW r \in Request, ReverseNext(r)
  PROVE  TypeOK'
<1>1. ASSUME NEW p \in Period, NEW e \in EntryId, NEW reason \in BOOLEAN,
             ReversePreflight(r, p, e, reason)
      PROVE  TypeOK'
  <2>1. [at |-> "reverse.read", period |-> p, original |-> e, reason |-> reason] \in Job
    BY DEF Job, ReverseJob
  <2>. QED BY <1>1, <2>1 DEF ReversePreflight, TypeOK
<1>2. CASE ReverseRead(r)
  <2>1. job[r] \in ReverseJob
    BY <1>2, JobShape DEF ReverseRead
  <2>. QED BY <1>2, <2>1 DEF ReverseRead, Goto, Finish, Job, ReverseJob, TypeOK
<1>3. ASSUME NEW rev \in EntryId, ReverseCommit(r, rev)
      PROVE  TypeOK'
  <2>. DEFINE e == job[r].original
              p == job[r].period
  <2>1. /\ p \in Period
        /\ e \in EntryId
        /\ job[r].reason \in BOOLEAN
        /\ entry[e] # NULL
    BY <1>3, ReverseCommitEffect DEF TypeOK
  <2>2. ReversalSource(e) \in Source
    BY <2>1 DEF ReversalSource, Source
  <2>3. NewEntry(p, ReversalSource(e), e, job[r].reason) \in Entry
    BY <2>1, <2>2, NewEntryType
  <2>4. ReversedRow(e, rev) \in Entry
    BY <2>1, ReversedRowType
  <2>5. entry' \in [EntryId -> Entry \cup {NULL}]
    BY <1>3, <2>3, <2>4, ReverseCommitEffect DEF TypeOK
  <2>6. last' \in [Year -> Nat]
    BY <1>3, <2>1, CounterType DEF ReverseCommit
  <2>7. audit' \subseteq EventType \X (EntryId \cup Period) \X (EntryId \cup {NULL})
    BY <1>3, <2>1 DEF ReverseCommit, TypeOK, EventType
  <2>8. job' \in [Request -> Job]
    BY <1>3 DEF ReverseCommit, Finish, Job, TypeOK
  <2>. QED BY <1>3, <2>5, <2>6, <2>7, <2>8 DEF ReverseCommit, TypeOK
<1>. QED BY <1>1, <1>2, <1>3 DEF ReverseNext

\* Every step of PeriodService keeps the types.
LEMMA PeriodType ==
  ASSUME TypeOK, NEW r \in Request, PeriodNext(r)
  PROVE  TypeOK'
<1>1. ASSUME NEW p \in Period, NEW to \in PeriodStatus, PeriodRead(r, p, to)
      PROVE  TypeOK'
  <2>1. [at |-> "period.commit", period |-> p, from |-> period[p].status, to |-> to]
          \in PeriodJob
    BY <1>1 DEF PeriodRead, PeriodJob, TypeOK
  <2>. QED BY <1>1, <2>1 DEF PeriodRead, Job, TypeOK
<1>2. CASE PeriodCommit(r)
  <2>1. /\ job[r].period \in Period
        /\ job[r].to \in PeriodStatus
    BY <1>2, JobShape DEF PeriodCommit, PeriodJob
  <2>2. period' \in [Period -> [status : PeriodStatus, closedAt : BOOLEAN]]
    BY <1>2, <2>1 DEF PeriodCommit, TypeOK
  <2>3. audit' \subseteq EventType \X (EntryId \cup Period) \X (EntryId \cup {NULL})
    BY <1>2, <2>1 DEF PeriodCommit, PeriodEvent, EventType, TypeOK
  <2>4. job' \in [Request -> Job]
    BY <1>2 DEF PeriodCommit, Finish, Job, TypeOK
  <2>. QED BY <1>2, <2>2, <2>3, <2>4 DEF PeriodCommit, TypeOK
<1>. QED BY <1>1, <1>2 DEF PeriodNext

\* Every step keeps the types.
LEMMA TypeStep ==
  ASSUME TypeOK, OriginalsExist, [Next]_vars
  PROVE  TypeOK'
<1>1. ASSUME NEW y \in Year, SeedYear(y)
      PROVE  TypeOK'
  <2>1. period' \in [Period -> [status : PeriodStatus, closedAt : BOOLEAN]]
    BY <1>1 DEF SeedYear, TypeOK, PeriodStatus
  <2>. QED BY <1>1, <2>1 DEF SeedYear, TypeOK
<1>2. ASSUME NEW r \in Request, Abandon(r)
      PROVE  TypeOK'
  BY <1>2 DEF Abandon, Finish, Job, TypeOK
<1>3. CASE UNCHANGED vars
  BY <1>3 DEF vars, TypeOK
<1>. QED BY <1>1, <1>2, <1>3, PostType, ReverseType, PeriodType DEF Next

-----------------------------------------------------------------------------
(* What a step does to the table of entries *)

\* Only the two writing transactions touch journal_entries and the counters.
LEMMA TableStep ==
  ASSUME [Next]_vars
  PROVE  \/ UNCHANGED <<entry, last>>
         \/ \E r \in Request, e \in EntryId : PostCommit(r, e)
         \/ \E r \in Request, e \in EntryId : ReverseCommit(r, e)
  BY DEF Next, vars, SeedYear, Abandon, PostNext, PostPreflight, PostLookup,
         PostConflict, PostRefetch, ReverseNext, ReversePreflight, ReverseRead,
         PeriodNext, PeriodRead, PeriodCommit

\* The row a post inserts.
LEMMA PostCommitEffect ==
  ASSUME TypeOK, NEW r \in Request, NEW e \in EntryId, PostCommit(r, e)
  PROVE  LET p == job[r].period
             row == NewEntry(p, job[r].src, NULL, job[r].reason)
         IN  /\ job[r] \in PostJob
             /\ p \in Period
             /\ job[r].src \in PostKey
             /\ entry' = [entry EXCEPT ![e] = row]
             /\ row \in Entry
             /\ row # NULL
<1>1. job[r] \in PostJob
  BY JobShape DEF PostCommit
<1>2. job[r].period \in Period /\ job[r].src \in PostKey /\ job[r].src \in Source
  BY <1>1 DEF PostJob, Source
<1>3. job[r].reason \in BOOLEAN
  BY <1>1 DEF PostJob
<1>. QED BY <1>1, <1>2, <1>3, NewEntryType DEF PostCommit

\* No row disappears, and what it was written with stays.
RowsKept ==
  \A f \in EntryId : entry[f] # NULL =>
    /\ entry'[f] # NULL
    /\ entry'[f].number = entry[f].number
    /\ entry'[f].period = entry[f].period
    /\ entry'[f].mirrors = entry[f].mirrors
    /\ entry'[f].late = entry[f].late

\* The rows outside S that do not exist yet still do not.
NoRowBut(S) == \A f \in EntryId \ S : entry[f] = NULL => entry'[f] = NULL

\* Row e is inserted in the open period p, with the next number of its year.
Inserts(e, p) ==
  /\ entry[e] = NULL
  /\ IsOpen(p)
  /\ NextEntryNumber(p)
  /\ entry'[e] # NULL
  /\ entry'[e].number = last[YearOf[p]] + 1
  /\ entry'[e].period = p
  /\ entry'[e].late = period[p].closedAt
  /\ NoRowBut({e})
  /\ UNCHANGED period

\* Rows are kept, and a step leaves the counters alone or inserts one row.
LEMMA RowStep ==
  ASSUME TypeOK, OriginalsExist, [Next]_vars
  PROVE  /\ RowsKept
         /\ \/ UNCHANGED last /\ NoRowBut({})
            \/ \E e \in EntryId, p \in Period : Inserts(e, p)
<1>1. CASE UNCHANGED <<entry, last>>
  BY <1>1 DEF RowsKept, NoRowBut
<1>2. ASSUME NEW r \in Request, NEW e \in EntryId, PostCommit(r, e)
      PROVE  RowsKept /\ Inserts(e, job[r].period)
  <2>1. /\ entry[e] = NULL
        /\ IsOpen(job[r].period)
        /\ NextEntryNumber(job[r].period)
        /\ (period[job[r].period].closedAt /\ job[r].reason) = period[job[r].period].closedAt
        /\ UNCHANGED period
    BY <1>2, PostCommitEffect DEF PostCommit, GateTx, TypeOK, PostJob
  <2>2. entry' = [entry EXCEPT ![e] =
          NewEntry(job[r].period, job[r].src, NULL, job[r].reason)]
    BY <1>2, PostCommitEffect
  <2>3. entry'[e] # NULL
    BY <1>2, <2>2, PostCommitEffect DEF TypeOK
  <2>. QED BY <2>1, <2>2, <2>3 DEF NewEntry, TypeOK, RowsKept, Inserts, NoRowBut
<1>3. ASSUME NEW r \in Request, NEW rev \in EntryId, ReverseCommit(r, rev)
      PROVE  RowsKept /\ Inserts(rev, job[r].period)
  <2>. DEFINE e == job[r].original
              p == job[r].period
              row == NewEntry(p, ReversalSource(e), e, job[r].reason)
  <2>1. /\ entry[rev] = NULL
        /\ IsOpen(p)
        /\ NextEntryNumber(p)
        /\ (period[p].closedAt /\ job[r].reason) = period[p].closedAt
        /\ UNCHANGED period
    BY <1>3, ReverseCommitEffect DEF ReverseCommit, GateTx, TypeOK
  <2>2. /\ e \in EntryId
        /\ p \in Period
        /\ job[r].reason \in BOOLEAN
        /\ entry[e] # NULL
        /\ rev # e
        /\ entry' = [entry EXCEPT ![rev] = row, ![e] = ReversedRow(e, rev)]
    BY <1>3, ReverseCommitEffect
  <2>3. entry'[rev] = row /\ entry'[e] = ReversedRow(e, rev)
    BY <2>2 DEF TypeOK
  <2>4. \A f \in EntryId \ {rev, e} : entry'[f] = entry[f]
    BY <2>2 DEF TypeOK
  <2>5. row # NULL /\ row \in Entry
    <3>1. ReversalSource(e) \in Source /\ job[r].reason \in BOOLEAN
      BY <2>2 DEF ReversalSource, Source, TypeOK
    <3>. QED BY <2>2, <3>1, NewEntryType
  <2>6. /\ ReversedRow(e, rev) # NULL
        /\ ReversedRow(e, rev).number = entry[e].number
        /\ ReversedRow(e, rev).period = entry[e].period
        /\ ReversedRow(e, rev).mirrors = entry[e].mirrors
        /\ ReversedRow(e, rev).late = entry[e].late
    <3>1. entry[e] \in Entry
      BY <2>2 DEF TypeOK
    <3>. QED BY <2>2, <3>1, ReversedRowType DEF ReversedRow, Entry
  <2>7. RowsKept
    BY <2>1, <2>2, <2>3, <2>4, <2>6 DEF RowsKept
  <2>8. Inserts(rev, p)
    <3>1. NoRowBut({rev})
      BY <2>2, <2>4 DEF NoRowBut
    <3>2. /\ entry'[rev].number = last[YearOf[p]] + 1
          /\ entry'[rev].period = p
          /\ entry'[rev].late = period[p].closedAt
      BY <2>1, <2>3 DEF NewEntry
    <3>. QED BY <2>1, <2>3, <2>5, <3>1, <3>2 DEF Inserts
  <2>. QED BY <2>7, <2>8
<1>4. ASSUME NEW r \in Request, NEW e \in EntryId,
             PostCommit(r, e) \/ ReverseCommit(r, e)
      PROVE  job[r].period \in Period
  BY <1>4, PostCommitEffect, ReverseCommitEffect
<1>. QED BY <1>1, <1>2, <1>3, <1>4, TableStep

\* A reversal in flight keeps its original, which it read from a row.
LEMMA OriginalsStep ==
  ASSUME TypeOK, OriginalsExist, [Next]_vars
  PROVE  OriginalsExist'
<1>1. ASSUME NEW r \in Request, job'[r] \in ReverseJob
      PROVE  \/ job[r] \in ReverseJob /\ job'[r].original = job[r].original
             \/ entry[job'[r].original] # NULL
  <2>1. CASE job'[r] = job[r]
    BY <1>1, <2>1
  <2>2. ASSUME NEW p \in Period, NEW e \in EntryId, NEW reason \in BOOLEAN,
               ReversePreflight(r, p, e, reason)
        PROVE  entry[job'[r].original] # NULL
    BY <2>2 DEF ReversePreflight, TypeOK
  <2>3. CASE ReverseRead(r)
    <3>1. job[r] \in ReverseJob
      BY <2>3, JobShape DEF ReverseRead
    <3>. QED BY <1>1, <2>3, <3>1
           DEF ReverseRead, Goto, Finish, Idle, ReverseJob, TypeOK
  <2>4. ASSUME NEW s \in Request,
               PostNext(s) \/ ReverseNext(s) \/ PeriodNext(s) \/ Abandon(s)
        PROVE  \/ job'[r] = job[r]
               \/ s = r
    BY <2>4 DEF PostNext, PostPreflight, PostLookup, PostCommit, PostConflict,
         PostRefetch, ReverseNext, ReversePreflight, ReverseRead, ReverseCommit,
         PeriodNext, PeriodRead, PeriodCommit, Abandon, Finish, Goto, TypeOK
  <2>5. CASE PostNext(r)
    <3>1. job[r] \in PostJob \/ job[r] = Idle
      BY <2>5, JobShape DEF PostNext, PostPreflight, PostLookup, PostCommit,
           PostConflict, PostRefetch, Idle
    <3>2. job'[r] \notin ReverseJob
      BY <2>5, <3>1 DEF PostNext, PostPreflight, PostLookup, PostCommit,
           PostConflict, PostRefetch, Finish, Goto, Idle, PostJob, ReverseJob, TypeOK
    <3>. QED BY <1>1, <3>2
  <2>6. CASE PeriodNext(r)
    <3>1. ASSUME NEW p \in Period, NEW to \in PeriodStatus, PeriodRead(r, p, to)
          PROVE  job'[r] \notin ReverseJob
      BY <3>1 DEF PeriodRead, ReverseJob, TypeOK
    <3>2. CASE PeriodCommit(r)
      BY <1>1, <3>2 DEF PeriodCommit, Finish, Idle, ReverseJob, TypeOK
    <3>. QED BY <1>1, <2>6, <3>1, <3>2 DEF PeriodNext
  <2>7. CASE Abandon(r)
    BY <1>1, <2>7 DEF Abandon, Finish, Idle, ReverseJob, TypeOK
  <2>8. ASSUME NEW rev \in EntryId, ReverseCommit(r, rev)
        PROVE  job'[r] \notin ReverseJob
    BY <2>8 DEF ReverseCommit, Finish, Idle, ReverseJob, TypeOK
  <2>9. CASE ReverseNext(r)
    BY <1>1, <2>2, <2>3, <2>8, <2>9 DEF ReverseNext
  <2>10. (\E y \in Year : SeedYear(y)) \/ UNCHANGED vars => job'[r] = job[r]
    BY DEF SeedYear, vars
  <2>. QED BY <2>1, <2>4, <2>5, <2>6, <2>7, <2>9, <2>10 DEF Next
<1>. QED BY <1>1, RowStep DEF OriginalsExist, RowsKept, ReverseJob

-----------------------------------------------------------------------------
(* Numbering *)

\* A numbered row stays, under its number, period and mark.
NumbersKept ==
  \A f \in Numbered :
    /\ entry'[f] # NULL
    /\ entry'[f].number = entry[f].number
    /\ entry'[f].period = entry[f].period
    /\ entry'[f].late = entry[f].late

\* Row e gets the next number of the year of the open period p: it is inserted
\* with it, or it was a draft.
GetsNumber(e, p) ==
  /\ e \notin Numbered
  /\ IsOpen(p)
  /\ NextEntryNumber(p)
  /\ entry'[e] # NULL
  /\ entry'[e].number = last[YearOf[p]] + 1
  /\ entry'[e].period = p
  /\ entry'[e].late = period[p].closedAt
  /\ Numbered' = Numbered \cup {e}
  /\ UNCHANGED period

\* What a step does to the numbers: nothing, or one row gets the next one.
NumbersAtMostOne ==
  /\ NumbersKept
  /\ \/ UNCHANGED last /\ Numbered' = Numbered
     \/ \E e \in EntryId, p \in Period : GetsNumber(e, p)

\* A posted row is numbered by the transaction that inserts it.
LEMMA NumbersStep ==
  ASSUME TypeOK, OriginalsExist, [Next]_vars
  PROVE  NumbersAtMostOne
<1>1. /\ RowsKept
      /\ \/ UNCHANGED last /\ NoRowBut({})
         \/ \E e \in EntryId, p \in Period : Inserts(e, p)
  BY RowStep
<1>2. NumbersKept
  BY <1>1 DEF RowsKept, NumbersKept, Numbered, Rows
<1>3. CASE UNCHANGED last /\ NoRowBut({})
  <2>1. Numbered' = Numbered
    BY <1>1, <1>3 DEF NoRowBut, RowsKept, Numbered, Rows
  <2>. QED BY <1>2, <1>3, <2>1 DEF NumbersAtMostOne
<1>4. ASSUME NEW e \in EntryId, NEW p \in Period, Inserts(e, p)
      PROVE  GetsNumber(e, p)
  <2>1. e \notin Numbered /\ last[YearOf[p]] \in Nat
    BY <1>4, LedgerAssumption DEF Inserts, Numbered, Rows, TypeOK
  <2>2. Numbered' = Numbered \cup {e}
    BY <1>1, <1>4, <2>1 DEF Inserts, NoRowBut, RowsKept, Numbered, Rows
  <2>. QED BY <1>4, <2>1, <2>2 DEF Inserts, GetsNumber
<1>. QED BY <1>1, <1>2, <1>3, <1>4 DEF NumbersAtMostOne

\* Giving one row the next number of its year keeps the numbers of every year an
\* initial segment without duplicates.
LEMMA NumberingStep ==
  ASSUME TypeOK, TypeOK', GaplessNumbering, NumbersAtMostOne
  PROVE  GaplessNumbering'
<1>1. \A f \in Numbered :
        /\ f \in Numbered'
        /\ entry'[f].number = entry[f].number
        /\ YearOfEntry(f)' = YearOfEntry(f)
        /\ entry[f].number \in Nat \ {0}
        /\ YearOfEntry(f) \in Year
  BY LedgerAssumption
     DEF NumbersAtMostOne, NumbersKept, Numbered, Rows, YearOfEntry, TypeOK, Entry
<1>2. CASE UNCHANGED last /\ Numbered' = Numbered
  BY <1>1, <1>2 DEF GaplessNumbering
<1>3. ASSUME NEW e \in EntryId, NEW p \in Period, GetsNumber(e, p)
      PROVE  GaplessNumbering'
  <2>. DEFINE y == YearOf[p]
  <2>1. /\ y \in Year
        /\ last[y] \in Nat
        /\ last' = [last EXCEPT ![y] = last[y] + 1]
    BY <1>3, CounterType DEF GetsNumber, TypeOK
  <2>2. /\ e \in Numbered'
        /\ e \notin Numbered
        /\ YearOfEntry(e)' = y
        /\ entry'[e].number = last[y] + 1
    BY <1>3, <2>1 DEF GetsNumber, YearOfEntry
  <2>3. Numbered' = Numbered \cup {e}
    BY <1>3 DEF GetsNumber
  <2>4. last'[y] = last[y] + 1 /\ \A z \in Year \ {y} : last'[z] = last[z]
    BY <2>1 DEF TypeOK
  <2>5. \A f \in Numbered : entry[f].number <= last[YearOfEntry(f)]
    BY DEF GaplessNumbering
  <2>6. \A f \in Numbered' : entry'[f].number <= last'[YearOfEntry(f)']
    <3>1. SUFFICES ASSUME NEW f \in Numbered
                   PROVE  entry'[f].number <= last'[YearOfEntry(f)']
      BY <2>2, <2>3, <2>4, <2>1
    <3>2. /\ entry[f].number \in Nat
          /\ YearOfEntry(f) \in Year
          /\ last[YearOfEntry(f)] \in Nat
          /\ entry[f].number <= last[YearOfEntry(f)]
      BY <1>1, <2>5 DEF TypeOK
    <3>. QED BY <1>1, <2>1, <2>4, <3>2
  <2>7. \A f, g \in Numbered' :
          YearOfEntry(f)' = YearOfEntry(g)' /\ entry'[f].number = entry'[g].number
            => f = g
    <3>1. \A f, g \in Numbered :
            YearOfEntry(f)' = YearOfEntry(g)' /\ entry'[f].number = entry'[g].number
              => f = g
      BY <1>1 DEF GaplessNumbering
    <3>2. \A f \in Numbered : YearOfEntry(f)' = y => entry'[f].number # last[y] + 1
      BY <1>1, <2>1, <2>5
    <3>. QED BY <2>2, <2>3, <3>1, <3>2
  <2>8. \A z \in Year : \A n \in 1 .. last'[z] :
          \E f \in Numbered' : YearOfEntry(f)' = z /\ entry'[f].number = n
    <3>1. SUFFICES ASSUME NEW z \in Year, NEW n \in 1 .. last'[z]
                   PROVE  \E f \in Numbered' : YearOfEntry(f)' = z /\ entry'[f].number = n
      OBVIOUS
    <3>2. CASE z = y /\ n = last[y] + 1
      BY <2>2, <3>2
    <3>3. CASE n \in 1 .. last[z]
      BY <1>1, <2>3, <3>3 DEF GaplessNumbering
    <3>. QED BY <2>1, <2>4, <3>2, <3>3
  <2>. QED BY <2>6, <2>7, <2>8 DEF GaplessNumbering
<1>. QED BY <1>2, <1>3 DEF NumbersAtMostOne

-----------------------------------------------------------------------------
(* Keys, mirrors and answers *)

Keys == UniqueSource /\ FreedKeysNameOwner /\ MirrorsAreKeyed

\* Keys depends on nothing but the sources and the mirrors of the rows.
LEMMA KeysStable ==
  ASSUME TypeOK, Keys, entry' = entry
  PROVE  Keys'
  BY DEF Keys, UniqueSource, FreedKeysNameOwner, MirrorsAreKeyed, Rows, IsClosing

\* A post keeps the keys of the table distinct and told apart.
LEMMA PostKeys ==
  ASSUME TypeOK, Keys, NEW r \in Request, NEW e \in EntryId, PostCommit(r, e)
  PROVE  Keys'
<1>. DEFINE s == job[r].src
<1>1. /\ s \in PostKey
      /\ entry[e] = NULL
      /\ entry'[e] # NULL
      /\ entry'[e].src = s
      /\ entry'[e].mirrors = NULL
      /\ \A f \in EntryId \ {e} : entry'[f] = entry[f]
      /\ Rows' = Rows \cup {e}
  <2>. DEFINE row == NewEntry(job[r].period, s, NULL, job[r].reason)
  <2>1. /\ s \in PostKey
        /\ entry[e] = NULL
        /\ row # NULL
        /\ entry' = [entry EXCEPT ![e] = row]
    BY PostCommitEffect DEF PostCommit
  <2>2. entry'[e] = row /\ \A f \in EntryId \ {e} : entry'[f] = entry[f]
    BY <2>1 DEF TypeOK
  <2>3. row.src = s /\ row.mirrors = NULL
    BY DEF NewEntry
  <2>. QED BY <2>1, <2>2, <2>3 DEF Rows
<1>2. s[2] # NULL => \A f \in Rows : entry[f].src # s
  BY DEF PostCommit, IsTaken, BySource
<1>3. \A y \in Year, f \in EntryId : s # <<"closing", <<y, f>> >>
  BY <1>1, LedgerAssumption DEF PostKey
<1>4. UniqueSource'
  BY <1>1, <1>2 DEF Keys, UniqueSource, Rows
<1>5. FreedKeysNameOwner'
  BY <1>1, <1>3 DEF Keys, FreedKeysNameOwner, Rows
<1>6. MirrorsAreKeyed'
  BY <1>1 DEF Keys, MirrorsAreKeyed, IsClosing, Rows
<1>. QED BY <1>4, <1>5, <1>6 DEF Keys

\* So does a reversal, which may rename the key of a closing entry.
LEMMA ReverseKeys ==
  ASSUME TypeOK, OriginalsExist, Keys, NEW r \in Request, NEW rev \in EntryId,
         ReverseCommit(r, rev)
  PROVE  Keys'
<1>. DEFINE e == job[r].original
            s == ReversalSource(e)
            y == YearOf[entry[e].period]
<1>1. /\ e \in EntryId
      /\ entry[e] \in Entry
      /\ entry[e] # NULL
      /\ rev # e
      /\ entry[rev] = NULL
      /\ job[r].period \in Period
      /\ job[r].reason \in BOOLEAN
  BY ReverseCommitEffect DEF TypeOK, ReverseCommit
<1>2. /\ entry'[rev] = NewEntry(job[r].period, s, e, job[r].reason)
      /\ entry'[e] = ReversedRow(e, rev)
      /\ \A f \in EntryId \ {e, rev} : entry'[f] = entry[f]
  BY ReverseCommitEffect DEF TypeOK
<1>3. /\ entry'[rev].src = s
      /\ entry'[rev].mirrors = e
      /\ entry'[e].mirrors = entry[e].mirrors
      /\ entry'[e].src = IF IsClosing(entry[e].src) THEN FreedSource(e)
                                                    ELSE entry[e].src
  BY <1>1, <1>2 DEF NewEntry, ReversedRow, Entry
<1>4. Rows' = Rows \cup {rev} /\ e \in Rows /\ rev \notin Rows
  <2>1. entry'[rev] # NULL /\ entry'[e] # NULL
    <3>1. s \in Source /\ job[r].reason \in BOOLEAN
      BY <1>1 DEF ReversalSource, Source, TypeOK
    <3>. QED BY <1>1, <1>2, <3>1, NewEntryType, ReversedRowType
  <2>. QED BY <1>1, <1>2, <2>1 DEF Rows
<1>5. \A f \in Rows : entry[f].src # s
  <2>1. s[2] # NULL
    BY <1>1, LedgerAssumption DEF ReversalSource
  <2>. QED BY <2>1 DEF ReverseCommit, IsTaken, BySource
<1>6. /\ y \in Year
      /\ FreedSource(e) = <<"closing", <<y, e>> >>
      /\ FreedSource(e) # s
      /\ \A f \in EntryId, z \in Year : s # <<"closing", <<z, f>> >>
  BY <1>1, LedgerAssumption DEF FreedSource, ReversalSource, Entry
<1>7. \A f \in Rows : entry[f].src = FreedSource(e) => f = e
  <2>. SUFFICES ASSUME NEW f \in Rows, entry[f].src = <<"closing", <<y, e>> >>
                PROVE  f = e
    BY <1>6
  <2>. QED BY <1>1, <1>6 DEF Keys, FreedKeysNameOwner
<1>8. UniqueSource'
  <2>1. \A f \in Rows : entry'[f].src = entry[f].src \/ (f = e /\ entry'[f].src = FreedSource(e))
    BY <1>2, <1>3, <1>4 DEF Rows
  <2>2. \A f \in Rows : entry'[f].src # s
    BY <1>5, <1>6, <2>1
  <2>3. ASSUME NEW f \in Rows, NEW g \in Rows,
               entry'[f].src = entry'[g].src, entry'[f].src[2] # NULL
        PROVE  f = g
    <3>. HIDE DEF e
    <3>1. CASE entry'[f].src = entry[f].src /\ entry'[g].src = entry[g].src
      BY <2>3, <3>1 DEF Keys, UniqueSource
    <3>2. CASE ~(entry'[f].src = entry[f].src /\ entry'[g].src = entry[g].src)
      BY <1>7, <2>1, <2>3, <3>2
    <3>. QED BY <3>1, <3>2
  <2>. HIDE DEF e, s
  <2>. QED BY <1>3, <1>4, <2>2, <2>3 DEF UniqueSource
<1>9. FreedKeysNameOwner'
  <2>. SUFFICES ASSUME NEW f \in Rows', NEW g \in EntryId, NEW z \in Year,
                       entry'[f].src = <<"closing", <<z, g>> >>
                PROVE  f = g
    BY DEF FreedKeysNameOwner
  <2>1. f # rev
    BY <1>3, <1>6 DEF Rows
  <2>2. CASE f = e /\ IsClosing(entry[e].src)
    BY <1>3, <1>6, <2>2
  <2>3. CASE entry'[f].src = entry[f].src
    <3>1. f \in Rows /\ entry[f].src = <<"closing", <<z, g>> >>
      BY <1>4, <2>1, <2>3
    <3>. QED BY <3>1 DEF Keys, FreedKeysNameOwner
  <2>. QED BY <1>2, <1>3, <2>1, <2>2, <2>3 DEF Rows
<1>10. MirrorsAreKeyed'
  <2>1. \A f \in Rows : IsClosing(entry'[f].src) <=> IsClosing(entry[f].src)
    BY <1>1, <1>2, <1>3, <1>4, <1>6 DEF IsClosing, Rows
  <2>2. ~IsClosing(entry[e].src) => s = <<"reversal", e>> /\ entry'[e].src = entry[e].src
    BY <1>3 DEF ReversalSource
  <2>. SUFFICES ASSUME NEW f \in Rows', entry'[f].mirrors # NULL
                PROVE  /\ entry'[f].mirrors \in Rows'
                       /\ ~IsClosing(entry'[entry'[f].mirrors].src)
                            => entry'[f].src = <<"reversal", entry'[f].mirrors>>
    BY DEF MirrorsAreKeyed, IsClosing
  <2>3. CASE f = rev
    BY <1>3, <1>4, <2>1, <2>2, <2>3
  <2>4. CASE f # rev
    <3>1. f \in Rows /\ entry'[f].mirrors = entry[f].mirrors
      BY <1>2, <1>3, <1>4, <2>4 DEF Rows
    <3>2. /\ entry[f].mirrors \in Rows
          /\ ~IsClosing(entry[entry[f].mirrors].src)
               => entry[f].src = <<"reversal", entry[f].mirrors>>
      BY <3>1 DEF Keys, MirrorsAreKeyed
    <3>3. ~IsClosing(entry[f].src) => entry'[f].src = entry[f].src
      BY <1>2, <1>3, <2>4, <3>1 DEF Rows
    <3>4. <<"reversal", entry[f].mirrors>>[1] # "closing"
      OBVIOUS
    <3>. QED BY <1>4, <2>1, <3>1, <3>2, <3>3, <3>4 DEF IsClosing
  <2>. QED BY <2>3, <2>4
<1>. QED BY <1>8, <1>9, <1>10 DEF Keys

\* Every step keeps the keys of the table distinct and told apart.
LEMMA KeysStep ==
  ASSUME TypeOK, OriginalsExist, Keys, [Next]_vars
  PROVE  Keys'
  BY TableStep, KeysStable, PostKeys, ReverseKeys

\* Status, link and mirror of a row agree: the two halves of ReversalsPairUp
\* that are about one row.
LinksAgree ==
  \A e \in Rows :
    /\ entry[e].reversedBy # NULL =>
         /\ entry[e].status = "Reversed"
         /\ entry[e].reversedBy \in Rows
         /\ entry[entry[e].reversedBy].mirrors = e
    /\ entry[e].status = "Reversed" => entry[e].reversedBy # NULL

\* Every step keeps link, status and mirror of a reversal in agreement.
LEMMA LinksStep ==
  ASSUME TypeOK, OriginalsExist, LinksAgree, [Next]_vars
  PROVE  LinksAgree'
<1>1. CASE UNCHANGED <<entry, last>>
  BY <1>1 DEF LinksAgree, Rows
<1>2. ASSUME NEW r \in Request, NEW e \in EntryId, PostCommit(r, e)
      PROVE  LinksAgree'
  <2>. DEFINE row == NewEntry(job[r].period, job[r].src, NULL,
                              job[r].reason)
  <2>1. entry' = [entry EXCEPT ![e] = row] /\ entry[e] = NULL /\ row # NULL
    BY <1>2, PostCommitEffect DEF PostCommit
  <2>2. entry'[e] = row /\ \A f \in EntryId \ {e} : entry'[f] = entry[f]
    BY <2>1 DEF TypeOK
  <2>3. row.reversedBy = NULL /\ row.status = "Posted"
    BY DEF NewEntry
  <2>. QED BY <2>1, <2>2, <2>3 DEF LinksAgree, Rows
<1>3. ASSUME NEW r \in Request, NEW rev \in EntryId, ReverseCommit(r, rev)
      PROVE  LinksAgree'
  <2>. DEFINE e == job[r].original
              row == NewEntry(job[r].period, ReversalSource(e), e,
                              job[r].reason)
  <2>1. /\ e \in EntryId
        /\ entry[e] \in Entry
        /\ entry[e] # NULL
        /\ rev # e
        /\ entry[rev] = NULL
        /\ job[r].period \in Period
        /\ job[r].reason \in BOOLEAN
    BY <1>3, ReverseCommitEffect DEF TypeOK, ReverseCommit
  <2>2. /\ entry'[rev] = row
        /\ entry'[e] = ReversedRow(e, rev)
        /\ \A f \in EntryId \ {e, rev} : entry'[f] = entry[f]
    BY <1>3, ReverseCommitEffect DEF TypeOK
  <2>3. row.reversedBy = NULL /\ row.status = "Posted" /\ row.mirrors = e
    BY DEF NewEntry
  <2>4. /\ ReversedRow(e, rev).reversedBy = rev
        /\ ReversedRow(e, rev).status = "Reversed"
        /\ ReversedRow(e, rev).mirrors = entry[e].mirrors
    BY <2>1 DEF ReversedRow, Entry
  <2>5. RowsKept /\ entry'[rev] # NULL /\ rev # NULL
    <3>1. ReversalSource(e) \in Source /\ job[r].reason \in BOOLEAN
      BY <2>1 DEF ReversalSource, Source, TypeOK
    <3>. QED BY <2>1, <2>2, <3>1, NewEntryType, RowStep, LedgerAssumption
  <2>6. Rows' = Rows \cup {rev}
    BY <2>1, <2>2, <2>5 DEF Rows, RowsKept
  <2>7. \A f \in Rows : entry'[f].mirrors = entry[f].mirrors
    BY <2>5 DEF RowsKept, Rows
  <2>. SUFFICES ASSUME NEW f \in Rows'
                PROVE  /\ entry'[f].reversedBy # NULL =>
                            /\ entry'[f].status = "Reversed"
                            /\ entry'[f].reversedBy \in Rows'
                            /\ entry'[entry'[f].reversedBy].mirrors = f
                       /\ entry'[f].status = "Reversed" => entry'[f].reversedBy # NULL
    BY DEF LinksAgree
  <2>8. CASE f = rev
    BY <2>2, <2>3, <2>8
  <2>9. CASE f = e
    BY <2>2, <2>3, <2>4, <2>5, <2>6, <2>9
  <2>10. CASE f \in Rows \ {e}
    <3>1. entry'[f] = entry[f] /\ f \in Rows
      BY <2>1, <2>2, <2>10 DEF Rows
    <3>2. entry[f].reversedBy # NULL =>
            /\ entry[f].status = "Reversed"
            /\ entry[f].reversedBy \in Rows
            /\ entry[entry[f].reversedBy].mirrors = f
      BY <3>1 DEF LinksAgree
    <3>3. entry[f].status = "Reversed" => entry[f].reversedBy # NULL
      BY <3>1 DEF LinksAgree
    <3>. QED BY <2>6, <2>7, <3>1, <3>2, <3>3
  <2>. QED BY <2>6, <2>8, <2>9, <2>10
<1>. QED BY <1>1, <1>2, <1>3, TableStep

\* An entry other than a closing one has one mirror at most.
LEMMA KeysPairUp ==
  ASSUME TypeOK, Keys, LinksAgree
  PROVE  ReversalsPairUp
<1>1. ASSUME NEW e \in Rows, NEW f \in Rows,
             entry[e].mirrors = entry[f].mirrors, entry[e].mirrors # NULL,
             ~IsClosing(entry[entry[e].mirrors].src)
      PROVE  e = f
  <2>1. /\ entry[e].src = <<"reversal", entry[e].mirrors>>
        /\ entry[f].src = <<"reversal", entry[e].mirrors>>
    BY <1>1 DEF Keys, MirrorsAreKeyed
  <2>. QED BY <1>1, <2>1 DEF Keys, UniqueSource
<1>. QED BY <1>1 DEF ReversalsPairUp, LinksAgree

\* The same in the next state.
LEMMA KeysPairUpNext == (TypeOK /\ Keys /\ LinksAgree => ReversalsPairUp)'
  BY KeysPairUp, PTL

\* What postEntry answered for an automatic key keeps that key.
LEMMA AnswersStep ==
  ASSUME TypeOK, OriginalsExist, AnswersKeepKey, [Next]_vars
  PROVE  AnswersKeepKey'
<1>1. \A f \in Rows : /\ f \in Rows'
                      /\ entry[f].src[1] = "sync" => entry'[f].src = entry[f].src
  <2>1. CASE UNCHANGED <<entry, last>>
    BY <2>1 DEF Rows
  <2>2. ASSUME NEW r \in Request, NEW e \in EntryId, PostCommit(r, e)
        PROVE  \A f \in Rows : entry'[f] = entry[f]
    BY <2>2, PostCommitEffect DEF PostCommit, Rows, TypeOK
  <2>3. ASSUME NEW r \in Request, NEW rev \in EntryId, ReverseCommit(r, rev),
               NEW f \in Rows, entry[f].src[1] = "sync"
        PROVE  entry'[f].src = entry[f].src
    <3>. DEFINE e == job[r].original
    <3>1. /\ e \in EntryId
          /\ entry[e] \in Entry
          /\ f # rev
          /\ entry'[e] = ReversedRow(e, rev)
          /\ \A g \in EntryId \ {e, rev} : entry'[g] = entry[g]
      BY <2>3, ReverseCommitEffect DEF TypeOK, ReverseCommit, Rows
    <3>2. CASE f = e
      <4>1. ~IsClosing(entry[e].src)
        BY <2>3, <3>2 DEF IsClosing
      <4>2. ReversedRow(e, rev).src = entry[e].src
        BY <3>1, <4>1 DEF ReversedRow, Entry
      <4>. QED BY <3>1, <3>2, <4>2
    <3>. QED BY <3>1, <3>2 DEF Rows
  <2>4. \A f \in Rows : f \in Rows'
    BY RowStep DEF RowsKept, Rows
  <2>. QED BY <2>1, <2>2, <2>3, <2>4, TableStep
<1>2. ASSUME NEW a \in answers', a \notin answers, a[1][1] = "sync"
      PROVE  a[2] \in Rows' /\ entry'[a[2]].src = a[1]
  <2>1. ASSUME NEW r \in Request, PostLookup(r) \/ PostRefetch(r)
        PROVE  a[2] \in Rows' /\ entry'[a[2]].src = a[1]
    BY <1>2, <2>1 DEF PostLookup, PostRefetch, BySource, Rows
  <2>2. ASSUME NEW r \in Request, NEW e \in EntryId, PostCommit(r, e)
        PROVE  a[2] \in Rows' /\ entry'[a[2]].src = a[1]
    <3>1. a = <<job[r].src, e>>
      BY <1>2, <2>2 DEF PostCommit
    <3>. DEFINE row == NewEntry(job[r].period, job[r].src, NULL,
                                job[r].reason)
    <3>2. entry'[e] = row /\ row # NULL
      BY <2>2, PostCommitEffect DEF TypeOK
    <3>3. row.src = job[r].src
      BY DEF NewEntry
    <3>. QED BY <3>1, <3>2, <3>3 DEF Rows
  <2>3. \/ answers' = answers
        \/ \E r \in Request : PostLookup(r) \/ PostRefetch(r)
        \/ \E r \in Request, e \in EntryId : PostCommit(r, e)
    BY DEF Next, vars, SeedYear, Abandon, PostNext, PostPreflight, PostConflict,
           ReverseNext, ReversePreflight, ReverseRead, ReverseCommit,
           PeriodNext, PeriodRead, PeriodCommit
  <2>. QED BY <1>2, <2>1, <2>2, <2>3
<1>. QED BY <1>1, <1>2 DEF AnswersKeepKey

-----------------------------------------------------------------------------
(* The audit trail *)

Trail == AuditTellsJournal /\ TrailIsTrue

\* A step that neither writes a row nor reports one leaves the trail true.
LEMMA TrailStable ==
  ASSUME Trail, entry' = entry, audit \subseteq audit',
         \A a \in audit' \ audit : a[1] # "entry.reversed"
  PROVE  Trail'
<1>1. \A rev, e : <<"entry.reversed", rev, e>> \in audit' <=>
                  <<"entry.reversed", rev, e>> \in audit
  OBVIOUS
<1>. QED BY <1>1 DEF Trail, AuditTellsJournal, TrailIsTrue, Rows, Numbered

\* A post records the entry it creates.
LEMMA PostTrail ==
  ASSUME TypeOK, Trail, NEW r \in Request, NEW e \in EntryId, PostCommit(r, e)
  PROVE  Trail'
<1>. DEFINE row == NewEntry(job[r].period, job[r].src, NULL, job[r].reason)
<1>1. /\ entry[e] = NULL
      /\ row # NULL
      /\ entry' = [entry EXCEPT ![e] = row]
      /\ audit' = audit \cup {<<"entry.posted", e, NULL>>}
  BY PostCommitEffect DEF PostCommit
<1>2. entry'[e] = row /\ \A f \in EntryId \ {e} : entry'[f] = entry[f]
  BY <1>1 DEF TypeOK
<1>3. row.status = "Posted"
  BY DEF NewEntry
<1>4. Rows' = Rows \cup {e} /\ e \notin Rows
  BY <1>1, <1>2 DEF Rows
<1>5. \A rev, f : <<"entry.reversed", rev, f>> \in audit' <=>
                  <<"entry.reversed", rev, f>> \in audit
  BY <1>1
<1>6. \A rev \in EntryId : <<"entry.reversed", rev, e>> \notin audit
  BY <1>4 DEF Trail, TrailIsTrue
<1>7. \A f \in Rows : entry'[f] = entry[f]
  BY <1>2, <1>4 DEF Rows
<1>8. AuditTellsJournal'
  <2>1. \A f \in Numbered' :
          \/ <<"entry.posted", f, NULL>> \in audit'
          \/ <<"entry.approved", f, NULL>> \in audit'
          \/ \E g \in EntryId : <<"entry.reversed", f, g>> \in audit'
    BY <1>1, <1>4, <1>7 DEF Trail, AuditTellsJournal, Numbered
  <2>2. \A f \in Rows' : entry'[f].status = "Reversed" <=>
          \E rev \in EntryId : <<"entry.reversed", rev, f>> \in audit'
    BY <1>2, <1>3, <1>4, <1>5, <1>6, <1>7 DEF Trail, AuditTellsJournal
  <2>. QED BY <2>1, <2>2 DEF AuditTellsJournal
<1>9. TrailIsTrue'
  BY <1>4, <1>5, <1>7 DEF Trail, TrailIsTrue
<1>. QED BY <1>8, <1>9 DEF Trail

\* A reversal records the mirror and the original it cancels.
LEMMA ReverseTrail ==
  ASSUME TypeOK, OriginalsExist, Trail, NEW r \in Request, NEW rev \in EntryId,
         ReverseCommit(r, rev)
  PROVE  Trail'
<1>. DEFINE e == job[r].original
            row == NewEntry(job[r].period, ReversalSource(e), e,
                            job[r].reason)
<1>1. /\ e \in EntryId
      /\ entry[e] \in Entry
      /\ entry[e] # NULL
      /\ rev # e
      /\ entry[rev] = NULL
      /\ job[r].period \in Period
      /\ job[r].reason \in BOOLEAN
      /\ audit' = audit \cup {<<"entry.reversed", rev, e>>}
  BY ReverseCommitEffect DEF TypeOK, ReverseCommit
<1>2. /\ entry'[rev] = row
      /\ entry'[e] = ReversedRow(e, rev)
      /\ \A f \in EntryId \ {e, rev} : entry'[f] = entry[f]
  BY ReverseCommitEffect DEF TypeOK
<1>3. row.status = "Posted" /\ ReversedRow(e, rev).status = "Reversed"
  BY <1>1 DEF NewEntry, ReversedRow, Entry
<1>4. Rows' = Rows \cup {rev} /\ e \in Rows /\ rev \notin Rows
  <2>1. ReversalSource(e) \in Source /\ job[r].reason \in BOOLEAN
    BY <1>1 DEF ReversalSource, Source, TypeOK
  <2>2. entry'[rev] # NULL /\ entry'[e] # NULL
    BY <1>1, <1>2, <2>1, NewEntryType, ReversedRowType
  <2>. QED BY <1>1, <1>2, <2>2 DEF Rows
<1>5. \A x, f : <<"entry.reversed", x, f>> \in audit' <=>
                \/ <<"entry.reversed", x, f>> \in audit
                \/ x = rev /\ f = e
  BY <1>1
<1>6. \A x \in EntryId : <<"entry.reversed", x, rev>> \notin audit
  BY <1>4 DEF Trail, TrailIsTrue
<1>7. \A f \in Rows \ {e} : entry'[f] = entry[f]
  BY <1>2, <1>4 DEF Rows
<1>8. AuditTellsJournal'
  <2>1. \A f \in Numbered' :
          \/ <<"entry.posted", f, NULL>> \in audit'
          \/ <<"entry.approved", f, NULL>> \in audit'
          \/ \E g \in EntryId : <<"entry.reversed", f, g>> \in audit'
    <3>1. ReversedRow(e, rev).number = entry[e].number
      BY <1>1 DEF ReversedRow, Entry
    <3>2. Numbered' \subseteq Numbered \cup {rev}
      BY <1>2, <1>4, <1>7, <3>1 DEF Numbered
    <3>. QED BY <1>1, <3>2 DEF Trail, AuditTellsJournal
  <2>2. \A f \in Rows' : entry'[f].status = "Reversed" <=>
          \E x \in EntryId : <<"entry.reversed", x, f>> \in audit'
    <3>1. entry'[e].status = "Reversed" /\ entry'[rev].status # "Reversed"
      BY <1>2, <1>3
    <3>2. \A f \in Rows \ {e} : entry'[f].status = "Reversed" <=>
            \E x \in EntryId : <<"entry.reversed", x, f>> \in audit
      BY <1>7 DEF Trail, AuditTellsJournal
    <3>. QED BY <1>1, <1>4, <1>5, <1>6, <3>1, <3>2
  <2>. QED BY <2>1, <2>2 DEF AuditTellsJournal
<1>9. TrailIsTrue'
  BY <1>2, <1>3, <1>4, <1>5, <1>7 DEF Trail, TrailIsTrue
<1>. QED BY <1>8, <1>9 DEF Trail

\* Every step keeps the trail in agreement with the journal.
LEMMA TrailStep ==
  ASSUME TypeOK, OriginalsExist, Trail, [Next]_vars
  PROVE  Trail'
<1>1. ASSUME NEW r \in Request, NEW e \in EntryId, PostCommit(r, e)
      PROVE  Trail'
  BY <1>1, PostTrail
<1>2. ASSUME NEW r \in Request, NEW rev \in EntryId, ReverseCommit(r, rev)
      PROVE  Trail'
  BY <1>2, ReverseTrail
<1>3. ASSUME NEW r \in Request, PeriodCommit(r)
      PROVE  Trail'
  <2>1. PeriodEvent(job[r].to) # "entry.reversed"
    BY DEF PeriodEvent
  <2>. QED BY <1>3, <2>1, TrailStable DEF PeriodCommit
<1>4. CASE entry' = entry /\ audit' = audit
  BY <1>4, TrailStable
<1>. QED BY <1>1, <1>2, <1>3, <1>4
     DEF Next, vars, SeedYear, Abandon, PostNext, PostPreflight, PostLookup,
         PostConflict, PostRefetch, ReverseNext, ReversePreflight, ReverseRead,
         PeriodNext, PeriodRead

-----------------------------------------------------------------------------
(* The inductive invariant *)

\* The inductive invariant holds of the empty journal.
LEMMA LedgerInit == Init => LedgerInv
<1>. SUFFICES ASSUME Init PROVE LedgerInv
  OBVIOUS
<1>1. TypeOK
  BY TypeInit
<1>2. Rows = {} /\ Numbered = {} /\ audit = {} /\ answers = {}
  BY DEF Init, Rows, Numbered
<1>3. OriginalsExist
  BY DEF Init, OriginalsExist, Idle, ReverseJob
<1>4. GaplessNumbering
  <2>1. \A y \in Year : 1 .. last[y] = {}
    BY DEF Init
  <2>. QED BY <1>2, <2>1 DEF GaplessNumbering
<1>5. /\ UniqueSource
      /\ FreedKeysNameOwner
      /\ MirrorsAreKeyed
      /\ ReversalsPairUp
      /\ AnswersKeepKey
      /\ AuditTellsJournal
      /\ TrailIsTrue
  BY <1>2 DEF UniqueSource, FreedKeysNameOwner, MirrorsAreKeyed, ReversalsPairUp,
              AnswersKeepKey, AuditTellsJournal, TrailIsTrue
<1>. QED BY <1>1, <1>3, <1>4, <1>5 DEF LedgerInv

\* Every step preserves the inductive invariant.
LEMMA LedgerStep == LedgerInv /\ [Next]_vars => LedgerInv'
<1>. SUFFICES ASSUME LedgerInv, [Next]_vars PROVE LedgerInv'
  OBVIOUS
<1>1. /\ TypeOK
      /\ OriginalsExist
      /\ GaplessNumbering
      /\ Keys
      /\ AnswersKeepKey
      /\ Trail
  BY DEF LedgerInv, Keys, Trail
<1>2. LinksAgree
  BY DEF LedgerInv, ReversalsPairUp, LinksAgree
<1>3. TypeOK' /\ OriginalsExist'
  BY <1>1, TypeStep, OriginalsStep
<1>4. GaplessNumbering'
  BY <1>1, <1>3, NumbersStep, NumberingStep
<1>5. Keys' /\ LinksAgree'
  BY <1>1, <1>2, KeysStep, LinksStep
<1>6. ReversalsPairUp'
  BY <1>3, <1>5, KeysPairUpNext
<1>7. AnswersKeepKey' /\ Trail'
  BY <1>1, AnswersStep, TrailStep
<1>. QED BY <1>3, <1>4, <1>5, <1>6, <1>7 DEF LedgerInv, Keys, Trail

\* The inductive invariant holds, for every number of concurrent handlers.
THEOREM LedgerCorrect == Spec => []LedgerInv
  BY LedgerInit, LedgerStep, PTL DEF Spec

\* Every variable keeps its type.
THEOREM TypeCorrect == Spec => []TypeOK
<1>1. LedgerInv => TypeOK
  BY DEF LedgerInv
<1>. QED BY <1>1, LedgerCorrect, PTL

\* The numbers of a fiscal year are 1..last without gap or duplicate, whatever
\* transactions roll back or race for the counter.
THEOREM NumberingIsGapless == Spec => []GaplessNumbering
<1>1. LedgerInv => GaplessNumbering
  BY DEF LedgerInv
<1>. QED BY <1>1, LedgerCorrect, PTL

\* No two entries hold the same business key.
THEOREM SourcesAreUnique == Spec => []UniqueSource
<1>1. LedgerInv => UniqueSource
  BY DEF LedgerInv
<1>. QED BY <1>1, LedgerCorrect, PTL

\* An entry other than a closing one is reversed by one mirror at most, and
\* status, link and mirror agree.
THEOREM ReversalsAreSound == Spec => []ReversalsPairUp
<1>1. LedgerInv => ReversalsPairUp
  BY DEF LedgerInv
<1>. QED BY <1>1, LedgerCorrect, PTL

\* Callers of postEntry with one key of an automatic writer get one entry.
THEOREM PostingIsIdempotent == Spec => []IdempotentAnswers
<1>1. LedgerInv => IdempotentAnswers
  <2>. SUFFICES ASSUME LedgerInv, NEW a \in answers, NEW b \in answers,
                       a[1] = b[1], a[1][1] = "sync"
                PROVE  a[2] = b[2]
    BY DEF IdempotentAnswers
  <2>1. /\ a[2] \in Rows
        /\ b[2] \in Rows
        /\ entry[a[2]].src = a[1]
        /\ entry[b[2]].src = a[1]
    BY DEF LedgerInv, AnswersKeepKey
  <2>2. entry[a[2]].src[2] # NULL
    BY <2>1, LedgerAssumption
       DEF LedgerInv, TypeOK, Rows, Entry, Source, PostKey
  <2>. QED BY <2>1, <2>2 DEF LedgerInv, UniqueSource
<1>. QED BY <1>1, LedgerCorrect, PTL

\* The audit trail tells the journal.
THEOREM TrailTellsJournal == Spec => []AuditTellsJournal
<1>1. LedgerInv => AuditTellsJournal
  BY DEF LedgerInv
<1>. QED BY <1>1, LedgerCorrect, PTL

-----------------------------------------------------------------------------
(* What a step may not do *)

\* No transition leaves HARD_CLOSED.
LEMMA HardClosedIsTerminal ==
  ASSUME TypeOK, [Next]_vars, NEW p \in Period, period[p].status = "HARD_CLOSED"
  PROVE  period'[p].status = "HARD_CLOSED"
<1>1. ASSUME NEW y \in Year, SeedYear(y)
      PROVE  period'[p].status = "HARD_CLOSED"
  BY <1>1 DEF SeedYear
<1>2. ASSUME NEW r \in Request, PeriodCommit(r)
      PROVE  period'[p].status = "HARD_CLOSED"
  <2>1. <<job[r].from, job[r].to>> \in Transition
    BY <1>2, JobShape DEF PeriodCommit, PeriodJob
  <2>2. job[r].from # "HARD_CLOSED"
    BY <2>1 DEF Transition
  <2>3. job[r].period # p
    BY <1>2, <2>2 DEF PeriodCommit
  <2>. QED BY <1>2, <2>3 DEF PeriodCommit, TypeOK
<1>3. CASE period' = period
  BY <1>3
<1>. QED BY <1>1, <1>2, <1>3
     DEF Next, vars, Abandon, PostNext, PostPreflight, PostLookup, PostCommit,
         PostConflict, PostRefetch, ReverseNext, ReversePreflight, ReverseRead,
         ReverseCommit, PeriodNext, PeriodRead

\* A sealed period takes no number and keeps those it has.
LEMMA SealedStep ==
  ASSUME NumbersAtMostOne, NEW p \in Period, period[p].status = "HARD_CLOSED"
  PROVE  EntriesOf(p)' = EntriesOf(p)
<1>1. CASE UNCHANGED last /\ Numbered' = Numbered
  BY <1>1 DEF NumbersAtMostOne, NumbersKept, EntriesOf
<1>2. ASSUME NEW e \in EntryId, NEW q \in Period, GetsNumber(e, q)
      PROVE  EntriesOf(p)' = EntriesOf(p)
  <2>1. entry'[e].period # p /\ Numbered' = Numbered \cup {e}
    BY <1>2 DEF GetsNumber, IsOpen
  <2>. QED BY <2>1 DEF NumbersAtMostOne, NumbersKept, EntriesOf
<1>. QED BY <1>1, <1>2 DEF NumbersAtMostOne

\* A row that gets its number in a period that was closed is marked.
LEMMA LateStep ==
  ASSUME NumbersAtMostOne, NEW e \in EntryId, e \in Numbered' \ Numbered,
         period[entry'[e].period].closedAt
  PROVE  entry'[e].late
<1>1. PICK f \in EntryId, q \in Period : GetsNumber(f, q)
  BY DEF NumbersAtMostOne
<1>. QED BY <1>1 DEF GetsNumber

\* HARD_CLOSED is final: its period takes no entry and loses none, whatever the
\* handlers that saw it open do.
THEOREM HardCloseIsFinal == Spec => HardCloseSeals
<1>1. LedgerInv /\ [Next]_vars =>
        [\A p \in Period : period[p].status = "HARD_CLOSED" =>
           /\ period'[p].status = "HARD_CLOSED"
           /\ EntriesOf(p)' = EntriesOf(p)]_vars
  BY NumbersStep, SealedStep, HardClosedIsTerminal DEF LedgerInv
<1>. QED BY <1>1, LedgerCorrect, PTL DEF Spec, HardCloseSeals

\* An entry that gets its number in a period that was ever closed says so.
THEOREM LateRecordsAreMarked == Spec => LateRecordsSaySo
<1>1. LedgerInv /\ [Next]_vars =>
        [\A e \in EntryId :
           e \in Numbered' \ Numbered /\ period[entry'[e].period].closedAt
             => entry'[e].late]_vars
  BY NumbersStep, LateStep DEF LedgerInv
<1>. QED BY <1>1, LedgerCorrect, PTL DEF Spec, LateRecordsSaySo

-----------------------------------------------------------------------------
(* Refinement: the journal keeps the auditor's book *)

LineOf(e) == [period |-> entry[e].period, late |-> entry[e].late]

\* The record of a number is that of the entry that holds it.
LEMMA RecordOfEntry ==
  ASSUME GaplessNumbering, NEW e \in Numbered
  PROVE  RecordOf(YearOfEntry(e), entry[e].number) = LineOf(e)
<1>. DEFINE f == CHOOSE f \in Numbered :
                   YearOfEntry(f) = YearOfEntry(e) /\ entry[f].number = entry[e].number
<1>1. /\ f \in Numbered
      /\ YearOfEntry(f) = YearOfEntry(e)
      /\ entry[f].number = entry[e].number
  OBVIOUS
<1>2. f = e
  BY <1>1 DEF GaplessNumbering
<1>. QED BY <1>2 DEF RecordOf, LineOf

\* The same in the next state.
LEMMA RecordOfEntryNext ==
  (GaplessNumbering =>
     \A e \in Numbered : RecordOf(YearOfEntry(e), entry[e].number) = LineOf(e))'
<1>1. GaplessNumbering =>
        \A e \in Numbered : RecordOf(YearOfEntry(e), entry[e].number) = LineOf(e)
  BY RecordOfEntry
<1>. QED BY <1>1, PTL

\* What was recorded under a number stays recorded under it.
LEMMA RecordsStay ==
  ASSUME TypeOK, GaplessNumbering, GaplessNumbering', NumbersAtMostOne,
         NEW y \in Year, NEW n \in 1 .. last[y]
  PROVE  RecordOf(y, n)' = RecordOf(y, n)
<1>1. PICK e \in Numbered : YearOfEntry(e) = y /\ entry[e].number = n
  BY DEF GaplessNumbering
<1>2. /\ e \in Numbered'
      /\ YearOfEntry(e)' = y
      /\ entry'[e].number = n
      /\ LineOf(e)' = LineOf(e)
  BY <1>1 DEF NumbersAtMostOne, NumbersKept, Numbered, Rows, YearOfEntry, LineOf
<1>3. RecordOf(y, n) = LineOf(e)
  BY <1>1, RecordOfEntry
<1>4. RecordOf(y, n)' = LineOf(e)'
  BY <1>2, RecordOfEntryNext
<1>. QED BY <1>2, <1>3, <1>4

\* The empty journal is the empty book.
LEMMA BookInit == Init => AuditorsBook!Init
<1>. SUFFICES ASSUME Init PROVE AuditorsBook!Init
  OBVIOUS
<1>1. Closed = {} /\ Sealed = {}
  BY DEF Init, Closed, Sealed
<1>2. \A y \in Year : [n \in 1 .. last[y] |-> RecordOf(y, n)] = << >>
  BY DEF Init
<1>. QED BY <1>1, <1>2 DEF AuditorsBook!Init, BookOf

\* A step that numbers an entry records one more line in the book of its year.
LEMMA NumberRecords ==
  ASSUME TypeOK, GaplessNumbering, GaplessNumbering', NumbersAtMostOne,
         NEW e \in EntryId, NEW p \in Period, GetsNumber(e, p)
  PROVE  AuditorsBook!Record(p)
<1>. DEFINE y == YearOf[p]
            line == [period |-> p, late |-> p \in Closed]
<1>1. /\ y \in Year
      /\ last \in [Year -> Nat]
      /\ last' = [last EXCEPT ![y] = last[y] + 1]
  BY CounterType DEF GetsNumber, TypeOK
<1>2. Closed' = Closed /\ Sealed' = Sealed /\ p \notin Sealed
  BY DEF GetsNumber, IsOpen, Closed, Sealed
<1>3. \A n \in Nat : n = last[y] + 1 => RecordOf(y, n)' = line
  <2>. SUFFICES ASSUME NEW n \in Nat, n = last[y] + 1
                PROVE  RecordOf(y, n)' = line
    OBVIOUS
  <2>1. /\ e \in Numbered'
        /\ YearOfEntry(e)' = y
        /\ entry'[e].number = n
        /\ LineOf(e)' = line
    <3>1. period[p].closedAt \in BOOLEAN
      BY DEF TypeOK
    <3>. QED BY <1>1, <3>1 DEF GetsNumber, YearOfEntry, LineOf, Closed
  <2>. QED BY <2>1, RecordOfEntryNext
<1>4. \A z \in Year \ {y} :
        [n \in 1 .. last'[z] |-> RecordOf(z, n)'] = [n \in 1 .. last[z] |-> RecordOf(z, n)]
  BY <1>1, RecordsStay
<1>5. [n \in 1 .. last'[y] |-> RecordOf(y, n)']
        = Append([n \in 1 .. last[y] |-> RecordOf(y, n)], line)
  <2>. DEFINE old == [n \in 1 .. last[y] |-> RecordOf(y, n)]
  <2>1. Len(old) = last[y] /\ last[y] \in Nat /\ last'[y] = last[y] + 1
    BY <1>1
  <2>2. Append(old, line) =
          [n \in 1 .. last[y] + 1 |-> IF n = last[y] + 1 THEN line ELSE old[n]]
    BY <2>1
  <2>3. \A n \in 1 .. last[y] : RecordOf(y, n)' = RecordOf(y, n)
    BY <1>1, RecordsStay
  <2>4. \A n \in 1 .. last'[y] :
          RecordOf(y, n)' = IF n = last[y] + 1 THEN line ELSE old[n]
    BY <1>3, <2>1, <2>3
  <2>. QED BY <2>1, <2>2, <2>4
<1>6. BookOf' = [BookOf EXCEPT ![y] = Append(BookOf[y], line)]
  BY <1>1, <1>4, <1>5 DEF BookOf
<1>. QED BY <1>2, <1>6 DEF AuditorsBook!Record

\* A step that numbers nothing leaves every line of the book where it is.
LEMMA BookStays ==
  ASSUME TypeOK, GaplessNumbering, GaplessNumbering', NumbersAtMostOne, UNCHANGED last
  PROVE  BookOf' = BookOf
  BY RecordsStay DEF BookOf

\* At most one period counts as closed or sealed that did not.
ClosesAtMostOne ==
  \/ UNCHANGED <<Closed, Sealed>>
  \/ \E p \in Period :
       /\ p \notin Sealed
       /\ Closed' = Closed \cup {p}
       /\ Sealed' \in {Sealed, Sealed \cup {p}}

\* Which periods count as closed and sealed after a step of the journal.
LEMMA ClosingStep ==
  ASSUME TypeOK, [Next]_vars
  PROVE  ClosesAtMostOne
<1>1. ASSUME NEW y \in Year, SeedYear(y)
      PROVE  UNCHANGED <<Closed, Sealed>>
  BY <1>1 DEF SeedYear, Closed, Sealed, TypeOK
<1>2. ASSUME NEW r \in Request, PeriodCommit(r)
      PROVE  ClosesAtMostOne
  <2>. DEFINE p == job[r].period
              to == job[r].to
  <2>1. p \in Period /\ <<period[p].status, to>> \in Transition
    BY <1>2, JobShape DEF PeriodCommit, PeriodJob
  <2>2. /\ period'[p].status = to
        /\ period'[p].closedAt = (period[p].closedAt \/ to # "OPEN")
        /\ \A q \in Period \ {p} : period'[q] = period[q]
    BY <1>2, <2>1 DEF PeriodCommit, TypeOK
  <2>3. p \notin Sealed
    BY <2>1 DEF Sealed, Transition
  <2>4. CASE to = "OPEN"
    BY <2>1, <2>2, <2>4 DEF Closed, Sealed, Transition, ClosesAtMostOne
  <2>5. CASE to = "SOFT_CLOSED"
    BY <2>1, <2>2, <2>3, <2>5 DEF Closed, Sealed, ClosesAtMostOne
  <2>6. CASE to = "HARD_CLOSED"
    <3>1. Closed' = Closed \cup {p}
      BY <2>1, <2>2, <2>6 DEF Closed
    <3>2. Sealed' = Sealed \cup {p}
      BY <2>1, <2>2, <2>6 DEF Sealed
    <3>. QED BY <2>1, <2>3, <3>1, <3>2 DEF ClosesAtMostOne
  <2>. QED BY <2>1, <2>4, <2>5, <2>6 DEF Transition
<1>3. CASE period' = period
  BY <1>3 DEF Closed, Sealed, ClosesAtMostOne
<1>. QED BY <1>1, <1>2, <1>3
     DEF ClosesAtMostOne, Next, vars, Abandon, PostNext, PostPreflight, PostLookup, PostCommit,
         PostConflict, PostRefetch, ReverseNext, ReversePreflight, ReverseRead,
         ReverseCommit, PeriodNext, PeriodRead

\* A step that numbers one entry at most and closes one period at most, and not
\* both, is a step of the book.
LEMMA BookStep ==
  ASSUME TypeOK, GaplessNumbering, GaplessNumbering', NumbersAtMostOne, ClosesAtMostOne
  PROVE  AuditorsBook!Next \/ UNCHANGED AuditorsBook!vars
<1>1. ASSUME NEW e \in EntryId, NEW p \in Period, GetsNumber(e, p)
      PROVE  AuditorsBook!Next
  BY <1>1, NumberRecords DEF AuditorsBook!Next
<1>2. CASE UNCHANGED last
  BY <1>2, BookStays
     DEF ClosesAtMostOne, AuditorsBook!Next, AuditorsBook!vars, AuditorsBook!Close,
         AuditorsBook!Seal
<1>. QED BY <1>1, <1>2 DEF NumbersAtMostOne

\* The journal implements the book: whatever interleaving of posts, reversals and
\* closings runs, an auditor sees records appended in order, never rewritten, none
\* in a sealed period, and the late ones marked.
THEOREM LedgerKeepsTheBook == Spec => KeepsTheBook
<1>1. LedgerInv /\ LedgerInv' /\ [Next]_vars => [AuditorsBook!Next]_AuditorsBook!vars
  BY NumbersStep, ClosingStep, BookStep DEF LedgerInv
<1>. QED BY <1>1, BookInit, LedgerCorrect, PTL DEF Spec, KeepsTheBook, AuditorsBook!Spec
=============================================================================

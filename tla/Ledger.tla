------------------------------- MODULE Ledger -------------------------------
(***************************************************************************)
(* The journal of one accounting scope (userId, unitId): PostingService    *)
(* (postEntry, reverseEntry), PeriodService (the period state machine) and *)
(* the repositories they write through.                                    *)
(*                                                                         *)
(* A handler runs as a sequence of awaits.  What it reads before it opens  *)
(* prisma.$transaction may be stale when the transaction runs; the         *)
(* transaction itself is one step, since SQLite has a single writer.  Each *)
(* in-flight handler is a Request whose job records the next await and     *)
(* what was read so far.                                                   *)
(***************************************************************************)
EXTENDS Naturals, FiniteSets, Sequences

CONSTANTS
  EntryId,    \* journal entry ids (cuid)
  Period,     \* accounting periods (year, month)
  Year,       \* fiscal years
  YearOf,     \* the fiscal year of a date in the period (fiscalYearFrom)
  SourceId,   \* business keys of automatic writers (sale, payment, ...)
  Request,    \* in-flight HTTP handlers and jobs
  NULL        \* SQL NULL

PeriodStatus == {"NONE", "FUTURE", "OPEN", "SOFT_CLOSED", "HARD_CLOSED"}
EntryStatus == {"Draft", "PendingApproval", "Posted", "Reconciled", "Reversed"}

\* (sourceType, sourceId) given to postEntry by createEntry, an automatic
\* writer or closeExercise.  A manual entry has a NULL sourceId, which SQLite
\* treats as distinct.
PostKey ==
  {<<"manual", NULL>>} \cup ({"sync"} \X SourceId) \cup ({"closing"} \X Year)

\* Those, the sources of reversals, and reversedClosingSourceId(year, id).
Source ==
  PostKey \cup ({"reversal", "closing"} \X EntryId)
    \cup ({"closing"} \X (Year \X EntryId))

\* A row of journal_entries.  number = 0 stands for a NULL entryNumber;
\* mirrors is the entry whose legs are swapped into this one (a reversal);
\* late: the history line carries the reason of an extemporaneous record.
Entry ==
  [period : Period, number : Nat, src : Source, status : EntryStatus,
   reversedBy : EntryId \cup {NULL}, mirrors : EntryId \cup {NULL},
   late : BOOLEAN]

ASSUME LedgerAssumption ==
  /\ YearOf \in [Period -> Year]
  /\ NULL \notin EntryId \cup SourceId \cup Year \cup (Year \X EntryId) \cup Entry
  /\ Year \cap EntryId = {}
  /\ (Year \X EntryId) \cap (Year \cup EntryId) = {}

EventType ==
  {"entry.posted", "entry.reversed", "entry.drafted", "entry.draft_updated",
   "entry.submitted", "entry.approved", "entry.rejected", "period.opened", "period.soft_closed", "period.hard_closed"}

VARIABLES
  period,   \* period[p].status and whether closedAt was ever written
  entry,    \* journal_entries, NULL for an id that has no row
  last,     \* journal_entry_sequences.last per fiscal year
  audit,    \* the facts in the audit trail: <<eventType, target, other>>
  job,      \* what each in-flight handler does next
  answers   \* history: the (source, entry) pairs postEntry has returned

vars == <<period, entry, last, audit, job, answers>>

Idle == [at |-> "idle"]

PostJob ==
  [at : {"post.lookup", "post.commit", "post.refetch"}, period : Period,
   src : PostKey, reason : BOOLEAN]
ReverseJob ==
  [at : {"reverse.read", "reverse.commit"}, period : Period,
   original : EntryId, reason : BOOLEAN]
\* Which transitions the four operations offer: openPeriod, softClosePeriod,
\* hardClosePeriod and reopenPeriod, from the status read outside the tx.
Transition ==
  {<<"FUTURE", "OPEN">>, <<"SOFT_CLOSED", "OPEN">>, <<"OPEN", "SOFT_CLOSED">>,
   <<"OPEN", "HARD_CLOSED">>, <<"SOFT_CLOSED", "HARD_CLOSED">>}

PeriodJob ==
  {j \in [at : {"period.commit"}, period : Period, from : PeriodStatus, to : PeriodStatus] :
     <<j.from, j.to>> \in Transition}

Job == {Idle} \cup PostJob \cup ReverseJob \cup PeriodJob

\* closeExercise dates its entry in the year it closes.
PostSource(p) == {src \in PostKey : src[1] = "closing" => src[2] = YearOf[p]}

TypeOK ==
  /\ period \in [Period -> [status : PeriodStatus, closedAt : BOOLEAN]]
  /\ entry \in [EntryId -> Entry \cup {NULL}]
  /\ last \in [Year -> Nat]
  /\ audit \subseteq EventType \X (EntryId \cup Period) \X (EntryId \cup {NULL})
  /\ job \in [Request -> Job]
  /\ answers \subseteq Source \X EntryId

Init ==
  /\ period = [p \in Period |-> [status |-> "NONE", closedAt |-> FALSE]]
  /\ entry = [e \in EntryId |-> NULL]
  /\ last = [y \in Year |-> 0]
  /\ audit = {}
  /\ job = [r \in Request |-> Idle]
  /\ answers = {}

-----------------------------------------------------------------------------
Rows == {e \in EntryId : entry[e] # NULL}

IsOpen(p) == period[p].status = "OPEN"

\* findBySource, and the index behind @@unique([..., sourceType, sourceId]).
BySource(src) == {e \in Rows : entry[e].src = src}

\* Mutant: a lookup that forgets reversed entries.
IsTakenInForce(src) ==
  src[2] # NULL /\ \E e \in BySource(src) : entry[e].status # "Reversed"

IsTaken(src) == src[2] # NULL /\ BySource(src) # {}

IsClosing(src) == src[1] = "closing"

Finish(r) == job' = [job EXCEPT ![r] = Idle]

Goto(r, where) == job' = [job EXCEPT ![r].at = where]

\* journalEntryRepo.create with nextEntryNumber: number the entry of period p
\* and insert it, in the transaction that increments the counter.
NewEntry(p, src, mirrors, reason) ==
  [period |-> p, number |-> last[YearOf[p]] + 1, src |-> src,
   status |-> "Posted", reversedBy |-> NULL, mirrors |-> mirrors,
   late |-> period[p].closedAt /\ reason]

NextEntryNumber(p) == last' = [last EXCEPT ![YearOf[p]] = @ + 1]

\* Mutants: the preflight gate is trusted; the reason is not asked again.
GateTxTrustsPreflight(p, reason) == period[p].closedAt => reason
GateTxAsksNoReason(p, reason) == IsOpen(p)

\* assertPeriodOpenTx and historicoExtemporaneo: the period is OPEN, and one
\* that was closed before takes an entry only with a reason.
GateTx(p, reason) == IsOpen(p) /\ (period[p].closedAt => reason)

-----------------------------------------------------------------------------
(* PostingService.postEntry *)

\* Preflight period gate, outside the transaction.
PostPreflight(r, p, src, reason) ==
  /\ job[r] = Idle
  /\ IsOpen(p)
  /\ job' = [job EXCEPT ![r] = [at |-> "post.lookup", period |-> p,
                                 src |-> src, reason |-> reason]]
  /\ UNCHANGED <<period, entry, last, audit, answers>>

\* Idempotency, read side: an entry of this source is returned as it is.
PostLookup(r) ==
  /\ job[r].at = "post.lookup"
  /\ IF IsTaken(job[r].src)
       THEN /\ \E e \in BySource(job[r].src) :
                 answers' = answers \cup {<<job[r].src, e>>}
            /\ Finish(r)
       ELSE /\ Goto(r, "post.commit")
            /\ UNCHANGED answers
  /\ UNCHANGED <<period, entry, last, audit>>

\* The transaction: authoritative gate, number, entry with its legs, audit.
PostCommit(r, e) ==
  /\ job[r].at = "post.commit"
  /\ GateTx(job[r].period, job[r].reason)
  /\ ~IsTaken(job[r].src)
  /\ entry[e] = NULL
  /\ entry' = [entry EXCEPT ![e] =
       NewEntry(job[r].period, job[r].src, NULL, job[r].reason)]
  /\ NextEntryNumber(job[r].period)
  /\ audit' = audit \cup {<<"entry.posted", e, NULL>>}
  /\ answers' = answers \cup {<<job[r].src, e>>}
  /\ Finish(r)
  /\ UNCHANGED period

\* Mutant: the number is taken outside the transaction that rolls back.
PostConflictBurnsNumber(r) ==
  /\ job[r].at = "post.commit"
  /\ GateTx(job[r].period, job[r].reason)
  /\ IsTaken(job[r].src)
  /\ NextEntryNumber(job[r].period)
  /\ Goto(r, "post.refetch")
  /\ UNCHANGED <<period, entry, audit, answers>>

\* P2002: a concurrent poster won; the transaction rolled back.
PostConflict(r) ==
  /\ job[r].at = "post.commit"
  /\ GateTx(job[r].period, job[r].reason)
  /\ IsTaken(job[r].src)
  /\ Goto(r, "post.refetch")
  /\ UNCHANGED <<period, entry, last, audit, answers>>

\* The catch block returns the winner's entry (no row: the error is rethrown).
PostRefetch(r) ==
  /\ job[r].at = "post.refetch"
  /\ \E e \in BySource(job[r].src) : answers' = answers \cup {<<job[r].src, e>>}
  /\ Finish(r)
  /\ UNCHANGED <<period, entry, last, audit>>

-----------------------------------------------------------------------------
(* PostingService.reverseEntry *)

\* Mutant: a reversal without a key.
ReversalSourceMissing(e) == <<"manual", NULL>>

ReversalSource(e) ==
  <<IF IsClosing(entry[e].src) THEN "closing" ELSE "reversal", e>>

\* reversedClosingSourceId(original.fiscalYear, original.id)
FreedSource(e) == <<"closing", <<YearOf[entry[e].period], e>> >>

\* Mutant: setStatus is forgotten.
ReversedRowStillPosted(e, rev) == [entry[e] EXCEPT !.reversedBy = rev]

\* setStatus, setReversedBy and, for a closing entry, setSourceId.
ReversedRow(e, rev) ==
  [entry[e] EXCEPT !.status = "Reversed", !.reversedBy = rev,
     !.src = IF IsClosing(entry[e].src) THEN FreedSource(e) ELSE entry[e].src]

\* Preflight gate on the date of the reversal.
ReversePreflight(r, p, e, reason) ==
  /\ job[r] = Idle
  /\ IsOpen(p)
  /\ entry[e] # NULL
  /\ job' = [job EXCEPT ![r] = [at |-> "reverse.read", period |-> p,
                                 original |-> e, reason |-> reason]]
  /\ UNCHANGED <<period, entry, last, audit, answers>>

\* Reads of the original outside the transaction.  An entry already reversed
\* is answered with its reversal; only a Posted one goes on (a Reconciled one
\* is refused, and so is a draft).
ReverseRead(r) ==
  LET e == job[r].original IN
  /\ job[r].at = "reverse.read"
  /\ IF /\ entry[e].status = "Posted"
        /\ entry[e].reversedBy = NULL
        /\ BySource(<<"reversal", e>>) = {}
       THEN Goto(r, "reverse.commit")
       ELSE Finish(r)
  /\ UNCHANGED <<period, entry, last, audit, answers>>

\* The transaction: mirror entry, original -> Reversed and linked, and the key
\* of a closing entry freed.  The status of the original is not read again.
ReverseCommit(r, rev) ==
  LET e == job[r].original  p == job[r].period IN
  /\ job[r].at = "reverse.commit"
  /\ GateTx(p, job[r].reason)
  /\ ~IsTaken(ReversalSource(e))
  /\ entry[rev] = NULL
  /\ entry' = [entry EXCEPT
       ![rev] = NewEntry(p, ReversalSource(e), e, job[r].reason),
       ![e] = ReversedRow(e, rev)]
  /\ NextEntryNumber(p)
  /\ audit' = audit \cup {<<"entry.reversed", rev, e>>}
  /\ Finish(r)
  /\ UNCHANGED <<period, answers>>

-----------------------------------------------------------------------------
(* PeriodService *)

\* openPeriod and reopenPeriod both write OPEN and differ in the event's name.
PeriodEvent(to) ==
  CASE to = "SOFT_CLOSED" -> "period.soft_closed"
    [] to = "HARD_CLOSED" -> "period.hard_closed"
    [] OTHER -> "period.opened"

\* seedYear: upsert the periods of the year, FUTURE; existing ones are kept.
SeedYear(y) ==
  /\ period' = [p \in Period |->
       IF YearOf[p] = y /\ period[p].status = "NONE"
         THEN [period[p] EXCEPT !.status = "FUTURE"] ELSE period[p]]
  /\ UNCHANGED <<entry, last, audit, job, answers>>

\* Mutant: the status is not checked.
PeriodReadUnchecked(r, p, to) ==
  /\ job[r] = Idle
  /\ job' = [job EXCEPT ![r] = [at |-> "period.commit", period |-> p,
                                 from |-> period[p].status, to |-> to]]
  /\ UNCHANGED <<period, entry, last, audit, answers>>

\* findById and the check of the status, before the transaction.
PeriodRead(r, p, to) ==
  /\ job[r] = Idle
  /\ <<period[p].status, to>> \in Transition
  /\ job' = [job EXCEPT ![r] = [at |-> "period.commit", period |-> p,
                                 from |-> period[p].status, to |-> to]]
  /\ UNCHANGED <<period, entry, last, audit, answers>>

\* Mutant: a reopening that clears closedAt.
PeriodCommitForgets(r) ==
  LET p == job[r].period  to == job[r].to IN
  /\ job[r].at = "period.commit"
  /\ period[p].status = job[r].from
  /\ period' = [period EXCEPT ![p] = [status |-> to, closedAt |-> to # "OPEN"]]
  /\ audit' = audit \cup {<<PeriodEvent(to), p, NULL>>}
  /\ Finish(r)
  /\ UNCHANGED <<entry, last, answers>>

\* setStatus is a compare-and-set on the status read: another transition that
\* won makes it touch no row and throw (PERIOD_STATUS_CHANGED).  Opening does
\* not clear closedAt.
PeriodCommit(r) ==
  LET p == job[r].period  to == job[r].to IN
  /\ job[r].at = "period.commit"
  /\ period[p].status = job[r].from
  /\ period' = [period EXCEPT ![p] =
       [status |-> to, closedAt |-> @.closedAt \/ to # "OPEN"]]
  /\ audit' = audit \cup {<<PeriodEvent(to), p, NULL>>}
  /\ Finish(r)
  /\ UNCHANGED <<entry, last, answers>>

-----------------------------------------------------------------------------
\* Any check that throws (validation, permission, a gate in the transaction,
\* a lost compare-and-set), a rolled-back transaction or the death of the
\* process: the handler is gone and nothing it had not committed remains.
Abandon(r) ==
  /\ job[r] # Idle
  /\ Finish(r)
  /\ UNCHANGED <<period, entry, last, audit, answers>>

PostNext(r) ==
  \/ \E p \in Period, reason \in BOOLEAN : \E src \in PostSource(p) :
       PostPreflight(r, p, src, reason)
  \/ PostLookup(r)
  \/ \E e \in EntryId : PostCommit(r, e)
  \/ PostConflict(r)
  \/ PostRefetch(r)

ReverseNext(r) ==
  \/ \E p \in Period, e \in EntryId, reason \in BOOLEAN :
       ReversePreflight(r, p, e, reason)
  \/ ReverseRead(r)
  \/ \E rev \in EntryId : ReverseCommit(r, rev)

PeriodNext(r) ==
  \/ \E p \in Period, to \in PeriodStatus : PeriodRead(r, p, to)
  \/ PeriodCommit(r)

Next ==
  \/ \E y \in Year : SeedYear(y)
  \/ \E r \in Request : PostNext(r) \/ ReverseNext(r) \/ PeriodNext(r) \/ Abandon(r)

Spec == Init /\ [][Next]_vars

-----------------------------------------------------------------------------
(* Properties *)

YearOfEntry(e) == YearOf[entry[e].period]

Numbered == {e \in Rows : entry[e].number # 0}

\* "gapless transacional" (schema.prisma, JournalEntrySequence): the numbers of
\* a fiscal year are exactly 1..last, each held by one entry, whatever
\* transactions roll back or race for the counter.
GaplessNumbering ==
  /\ \A e \in Numbered : entry[e].number <= last[YearOfEntry(e)]
  /\ \A e, f \in Numbered :
       YearOfEntry(e) = YearOfEntry(f) /\ entry[e].number = entry[f].number => e = f
  /\ \A y \in Year : \A n \in 1 .. last[y] :
       \E e \in Numbered : YearOfEntry(e) = y /\ entry[e].number = n

\* No two entries share a business key, through posts, reversals and the
\* renaming of closing keys (JournalEntry.@@unique).
UniqueSource ==
  \A e, f \in Rows :
    entry[e].src = entry[f].src /\ entry[e].src[2] # NULL => e = f

\* An entry other than a closing one is cancelled by at most one mirror entry,
\* and the link, the status and the mirror agree, however many reversers read
\* the original as Posted before the first of them commits.
ReversalsPairUp ==
  /\ \A e \in Rows :
       entry[e].reversedBy # NULL =>
         /\ entry[e].status = "Reversed"
         /\ entry[e].reversedBy \in Rows
         /\ entry[entry[e].reversedBy].mirrors = e
  /\ \A e \in Rows : entry[e].status = "Reversed" => entry[e].reversedBy # NULL
  /\ \A e, f \in Rows :
       /\ entry[e].mirrors = entry[f].mirrors
       /\ entry[e].mirrors # NULL
       /\ ~IsClosing(entry[entry[e].mirrors].src)
       => e = f

\* Every caller of postEntry with the same key of an automatic writer is given
\* the same entry: a retry, a concurrent poster and a reconcile agree.
IdempotentAnswers ==
  \A a, b \in answers : a[1] = b[1] /\ a[1][1] = "sync" => a[2] = b[2]

\* The trail tells the journal: an entry that got a number has the event of its
\* creation, and an entry is Reversed exactly when an event records its reversal.
AuditTellsJournal ==
  /\ \A e \in Numbered :
       \/ <<"entry.posted", e, NULL>> \in audit
       \/ <<"entry.approved", e, NULL>> \in audit
       \/ \E f \in EntryId : <<"entry.reversed", e, f>> \in audit
  /\ \A e \in Rows :
       entry[e].status = "Reversed" <=>
         \E rev \in EntryId : <<"entry.reversed", rev, e>> \in audit

(* The inductive invariant behind UniqueSource, ReversalsPairUp and           *)
(* IdempotentAnswers.                                                         *)

\* The original of a reversal in flight was read from the table; rows of
\* journal_entries are never deleted.
OriginalsExist ==
  \A r \in Request : job[r] \in ReverseJob => entry[job[r].original] # NULL

\* A renamed closing key names the entry that gave the original key up.
FreedKeysNameOwner ==
  \A e \in Rows, f \in EntryId, y \in Year :
    entry[e].src = <<"closing", <<y, f>> >> => e = f

\* A mirror of an entry other than a closing one is keyed by it.
MirrorsAreKeyed ==
  \A e \in Rows :
    entry[e].mirrors # NULL =>
      /\ entry[e].mirrors \in Rows
      /\ ~IsClosing(entry[entry[e].mirrors].src)
           => entry[e].src = <<"reversal", entry[e].mirrors>>

\* What postEntry answered for an automatic writer's key still has that key.
AnswersKeepKey ==
  \A a \in answers : a[1][1] = "sync" => a[2] \in Rows /\ entry[a[2]].src = a[1]

\* What the trail says was reversed is an entry, and is reversed for good.
TrailIsTrue ==
  \A rev, e \in EntryId :
    <<"entry.reversed", rev, e>> \in audit => e \in Rows /\ entry[e].status = "Reversed"

LedgerInv ==
  /\ TypeOK
  /\ OriginalsExist
  /\ GaplessNumbering
  /\ UniqueSource
  /\ FreedKeysNameOwner
  /\ MirrorsAreKeyed
  /\ ReversalsPairUp
  /\ AnswersKeepKey
  /\ AuditTellsJournal
  /\ TrailIsTrue

EntriesOf(p) == {e \in Numbered : entry[e].period = p}

\* "HARD_CLOSED is terminal" (PeriodService.reopenPeriod): once a period is
\* definitively closed its status stays and no entry joins or leaves it, though
\* handlers that saw it OPEN in their preflight are still running.
HardCloseSeals ==
  [][\A p \in Period : period[p].status = "HARD_CLOSED" =>
       /\ period'[p].status = "HARD_CLOSED"
       /\ EntriesOf(p)' = EntriesOf(p)]_vars

\* ITG 2000 item 36: an entry that gets its number in a period closed at any
\* time before says so, even when the close and the reopening came between the
\* preflight of the post and its transaction.
LateRecordsSaySo ==
  [][\A e \in EntryId :
       e \in Numbered' \ Numbered /\ period[entry'[e].period].closedAt
         => entry'[e].late]_vars

\* The journal read as a book: the records of a year by number, and the periods
\* that were closed once or for good.
RecordOf(y, n) ==
  LET e == CHOOSE f \in Numbered : YearOfEntry(f) = y /\ entry[f].number = n
  IN  [period |-> entry[e].period, late |-> entry[e].late]

BookOf == [y \in Year |-> [n \in 1 .. last[y] |-> RecordOf(y, n)]]
Closed == {p \in Period : period[p].closedAt}
Sealed == {p \in Period : period[p].status = "HARD_CLOSED"}

AuditorsBook == INSTANCE Book WITH page <- BookOf, closed <- Closed, sealed <- Sealed

\* The journal keeps the promise of the book: every step of every interleaving
\* records one numbered entry, closes or seals one period, or changes nothing an
\* auditor reads.
KeepsTheBook == AuditorsBook!Spec

\* InForce[e]: the legs of e are not cancelled by a mirror that is in force.
InForce[e \in Rows] ==
  entry[e].reversedBy = NULL \/ ~InForce[entry[e].reversedBy]

\* "One closing per (owner, unit, exercise)" (ExerciseClosingService.ts:40).
OneClosingPerExercise ==
  \A y \in Year :
    Cardinality({e \in Rows : /\ IsClosing(entry[e].src)
                              /\ entry[e].mirrors = NULL
                              /\ YearOfEntry(e) = y
                              /\ InForce[e]}) <= 1
=============================================================================

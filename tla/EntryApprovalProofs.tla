------------------------ MODULE EntryApprovalProofs ------------------------
(***************************************************************************)
(* Proofs about EntryApproval, for every set of entries, users, texts,     *)
(* commands and versions, beside every step of the journal.                *)
(***************************************************************************)
EXTENDS EntryApproval, LedgerProofs

-----------------------------------------------------------------------------
(* The inductive invariant *)

\* A reversal about to commit read its original as Posted, so it has a number.
OriginalsNumbered ==
  \A r \in Request : job[r].at = "reverse.commit" =>
    /\ entry[job[r].original] # NULL
    /\ entry[job[r].original].number # 0

\* An id that has no row has no approval columns and no approval event.
DraftsOfRows ==
  \A e \in EntryId : entry[e] = NULL =>
    /\ draft[e] = NoDraft
    /\ <<"entry.approved", e, NULL>> \notin audit

\* An entry without a number came through createDraft, and nobody approved it.
DraftsUnapproved ==
  \A e \in Rows : entry[e].number = 0 =>
    /\ draft[e].content # NULL
    /\ draft[e].approvedBy = NULL

\* A command read a row, at a version the row has not gone back from.
VersionsBehind ==
  \A c \in Command : command[c] # NoCommand =>
    /\ entry[command[c].entry] # NULL
    /\ command[c].version <= draft[command[c].entry].version
    /\ command[c].version < MaxVersion

\* What command c read is what the row still says.
Fresh(c) ==
  LET e == command[c].entry IN
  /\ entry[e].status =
       IF command[c].do \in {"update", "submit"} THEN "Draft" ELSE "PendingApproval"
  /\ command[c].do # "update" =>
       /\ entry[e].period = command[c].period
       /\ draft[e].content = command[c].content
  /\ command[c].do = "approve" /\ EnforcesSegregation(command[c].actor) =>
         command[c].actor \notin {draft[e].createdBy, draft[e].submittedBy}

\* The version stands for everything a command read: no writer of the columns
\* it checks forgets to raise it.
CommandsFresh ==
  \A c \in Command :
    command[c] # NoCommand /\ command[c].version = draft[command[c].entry].version
      => Fresh(c)

ApprovalInv ==
  /\ ApprovalTypeOK
  /\ OriginalsExist
  /\ OriginalsNumbered
  /\ DraftsOfRows
  /\ DraftsUnapproved
  /\ VersionsBehind
  /\ CommandsFresh
  /\ ContentFrozen
  /\ DutiesSegregated
  /\ NumberedIffPosted

-----------------------------------------------------------------------------
(* Steps of the journal *)

\* A row the journal finds: left as it is, or a numbered one now reversed.
AtMostReversed(e) ==
  \/ entry'[e] = entry[e]
  \/ /\ entry[e].number # 0
     /\ entry'[e] # NULL
     /\ entry'[e].number = entry[e].number
     /\ entry'[e].period = entry[e].period
     /\ entry'[e].status = "Reversed"

\* A row the journal inserts is posted and numbered.
AtMostPosted(e) ==
  \/ entry'[e] = NULL
  \/ entry'[e] # NULL /\ entry'[e].number # 0 /\ entry'[e].status = "Posted"

JournalEffect ==
  /\ \A e \in EntryId : entry[e] # NULL => AtMostReversed(e)
  /\ \A e \in EntryId : entry[e] = NULL => AtMostPosted(e)
  /\ \A e \in EntryId :
       <<"entry.approved", e, NULL>> \in audit' <=> <<"entry.approved", e, NULL>> \in audit

\* No step of the journal writes an approval event.
LEMMA JournalApprovesNothing ==
  ASSUME [Next]_vars, NEW e \in EntryId
  PROVE  <<"entry.approved", e, NULL>> \in audit' <=> <<"entry.approved", e, NULL>> \in audit
<1>1. \A to : PeriodEvent(to) # "entry.approved"
  BY DEF PeriodEvent
<1>. QED
  BY <1>1 DEF Next, vars, SeedYear, Abandon, PostNext, PostPreflight, PostLookup,
       PostCommit, PostConflict, PostRefetch, ReverseNext, ReversePreflight,
       ReverseRead, ReverseCommit, PeriodNext, PeriodRead, PeriodCommit

\* What the journal's steps do to the rows the approval works on.
LEMMA JournalStep ==
  ASSUME TypeOK, OriginalsExist, OriginalsNumbered, [Next]_vars
  PROVE  JournalEffect
<1>1. CASE UNCHANGED <<entry, last>>
  BY <1>1, JournalApprovesNothing DEF JournalEffect, AtMostReversed, AtMostPosted
<1>2. ASSUME NEW r \in Request, NEW e \in EntryId, PostCommit(r, e)
      PROVE  JournalEffect
  <2>1. /\ job[r].period \in Period
        /\ entry[e] = NULL
        /\ entry' = [entry EXCEPT ![e] =
             NewEntry(job[r].period, job[r].src, NULL, job[r].reason)]
        /\ NewEntry(job[r].period, job[r].src, NULL, job[r].reason) # NULL
    BY <1>2, PostCommitEffect DEF PostCommit
  <2>2. last[YearOf[job[r].period]] \in Nat
    BY <2>1, LedgerAssumption DEF TypeOK
  <2>3. AtMostPosted(e)
    BY <2>1, <2>2 DEF AtMostPosted, NewEntry, TypeOK
  <2>4. \A f \in EntryId \ {e} : entry'[f] = entry[f]
    BY <2>1 DEF TypeOK
  <2>. QED BY <2>1, <2>3, <2>4, JournalApprovesNothing
         DEF JournalEffect, AtMostReversed, AtMostPosted
<1>3. ASSUME NEW r \in Request, NEW rev \in EntryId, ReverseCommit(r, rev)
      PROVE  JournalEffect
  <2>. DEFINE e == job[r].original
              p == job[r].period
              row == NewEntry(p, ReversalSource(e), e, job[r].reason)
  <2>1. /\ p \in Period
        /\ e \in EntryId
        /\ job[r].reason \in BOOLEAN
        /\ entry[e] # NULL
        /\ entry[rev] = NULL
        /\ rev # e
        /\ entry' = [entry EXCEPT ![rev] = row, ![e] = ReversedRow(e, rev)]
        /\ entry[e].number # 0
    BY <1>3, ReverseCommitEffect DEF ReverseCommit, OriginalsNumbered
  <2>2. last[YearOf[p]] \in Nat
    BY <2>1, LedgerAssumption DEF TypeOK
  <2>3. ReversalSource(e) \in Source
    BY <2>1 DEF ReversalSource, Source
  <2>4. row # NULL /\ ReversedRow(e, rev) # NULL
    BY <2>1, <2>3, NewEntryType, ReversedRowType
  <2>5. entry'[rev] = row /\ entry'[e] = ReversedRow(e, rev)
    BY <2>1 DEF TypeOK
  <2>6. AtMostPosted(rev)
    BY <2>2, <2>4, <2>5 DEF AtMostPosted, NewEntry
  <2>7. AtMostReversed(e)
    <3>1. entry[e] \in Entry
      BY <2>1 DEF TypeOK
    <3>2. /\ ReversedRow(e, rev).number = entry[e].number
          /\ ReversedRow(e, rev).period = entry[e].period
          /\ ReversedRow(e, rev).status = "Reversed"
      BY <3>1 DEF ReversedRow, Entry
    <3>. QED BY <2>1, <2>4, <2>5, <3>2 DEF AtMostReversed
  <2>8. \A f \in EntryId \ {e, rev} : entry'[f] = entry[f]
    BY <2>1 DEF TypeOK
  <2>. QED BY <2>1, <2>6, <2>7, <2>8, JournalApprovesNothing
         DEF JournalEffect, AtMostReversed, AtMostPosted
<1>. QED BY <1>1, <1>2, <1>3, TableStep

\* The reversals in flight keep their originals when no row or number is lost.
LEMMA OriginalsKept ==
  ASSUME TypeOK, OriginalsExist, OriginalsNumbered, job' = job,
         \A f \in EntryId : entry[f] # NULL =>
           entry'[f] # NULL /\ (entry[f].number # 0 => entry'[f].number # 0)
  PROVE  OriginalsExist' /\ OriginalsNumbered'
<1>1. \A r \in Request : job[r] \in ReverseJob => job[r].original \in EntryId
  BY DEF ReverseJob
<1>2. \A r \in Request : job[r].at = "reverse.commit" => job[r] \in ReverseJob
  BY JobShape
<1>. QED BY <1>1, <1>2 DEF OriginalsExist, OriginalsNumbered

\* A reversal that goes on to its transaction has just read a posted original.
LEMMA OriginalsNumberedStep ==
  ASSUME TypeOK, TypeOK', OriginalsExist, OriginalsExist', OriginalsNumbered,
         NumberedIffPosted, [Next]_vars, RowsKept
  PROVE  OriginalsNumbered'
<1>1. ASSUME NEW r \in Request, job'[r].at = "reverse.commit"
      PROVE  \/ job'[r] = job[r]
             \/ ReverseRead(r) /\ job'[r] = [job[r] EXCEPT !.at = "reverse.commit"]
  <2>1. ASSUME NEW s \in Request,
               PostNext(s) \/ ReverseNext(s) \/ PeriodNext(s) \/ Abandon(s)
        PROVE  job'[r] = job[r] \/ s = r
    BY <2>1 DEF PostNext, PostPreflight, PostLookup, PostCommit, PostConflict,
         PostRefetch, ReverseNext, ReversePreflight, ReverseRead, ReverseCommit,
         PeriodNext, PeriodRead, PeriodCommit, Abandon, Finish, Goto, TypeOK
  <2>2. CASE PostNext(r)
    <3>1. job[r] \in PostJob \/ job[r] = Idle
      BY <2>2, JobShape DEF PostNext, PostPreflight, PostLookup, PostCommit,
           PostConflict, PostRefetch, Idle
    <3>. QED BY <1>1, <2>2, <3>1 DEF PostNext, PostPreflight, PostLookup, PostCommit,
           PostConflict, PostRefetch, Finish, Goto, Idle, PostJob, TypeOK
  <2>3. CASE PeriodNext(r) \/ Abandon(r)
    <3>1. ASSUME NEW p \in Period, NEW to \in PeriodStatus, PeriodRead(r, p, to)
          PROVE  job'[r].at # "reverse.commit"
      BY <3>1 DEF PeriodRead, TypeOK
    <3>2. CASE PeriodCommit(r) \/ Abandon(r)
      BY <1>1, <3>2 DEF PeriodCommit, Abandon, Finish, Idle, TypeOK
    <3>. QED BY <1>1, <2>3, <3>1, <3>2 DEF PeriodNext
  <2>4. CASE ReverseNext(r)
    <3>1. CASE ReverseRead(r)
      BY <1>1, <3>1 DEF ReverseRead, Goto, Finish, Idle, TypeOK
    <3>. QED BY <1>1, <2>4, <3>1
           DEF ReverseNext, ReversePreflight, ReverseCommit, Finish, Idle, TypeOK
  <2>5. (\E y \in Year : SeedYear(y)) \/ UNCHANGED vars => job'[r] = job[r]
    BY DEF SeedYear, vars
  <2>. QED BY <2>1, <2>2, <2>3, <2>4, <2>5 DEF Next
<1>2. ASSUME NEW r \in Request, job'[r].at = "reverse.commit"
      PROVE  entry'[job'[r].original] # NULL /\ entry'[job'[r].original].number # 0
  <2>1. CASE job'[r] = job[r]
    <3>1. job[r].original \in EntryId
      BY <1>2, <2>1, JobShape DEF ReverseJob
    <3>. QED BY <1>2, <2>1, <3>1 DEF OriginalsNumbered, RowsKept
  <2>2. CASE ReverseRead(r) /\ job'[r] = [job[r] EXCEPT !.at = "reverse.commit"]
    <3>1. /\ job[r] \in ReverseJob
          /\ job[r].original \in EntryId
          /\ job'[r].original = job[r].original
      BY <2>2, JobShape DEF ReverseRead, ReverseJob
    <3>2. entry[job[r].original].status = "Posted" /\ entry' = entry
      <4>1. job'[r].at # "idle"
        BY <1>2
      <4>. QED BY <2>2, <4>1 DEF ReverseRead, Finish, Idle, TypeOK
    <3>. QED BY <3>1, <3>2 DEF NumberedIffPosted, Rows, OriginalsExist
  <2>. QED BY <1>1, <1>2, <2>1, <2>2
<1>. QED BY <1>2 DEF OriginalsNumbered

-----------------------------------------------------------------------------
(* Commands *)

\* What an in-flight command holds.
LEMMA CommandShape ==
  ASSUME ApprovalTypeOK, NEW c \in Command, command[c] # NoCommand
  PROVE  /\ command[c] \in CommandState
         /\ command[c].entry \in EntryId
         /\ command[c].actor \in User
         /\ command[c].version \in 1 .. MaxVersion
         /\ command[c].period \in Period
         /\ command[c].content \in Content
         /\ command[c].reason \in BOOLEAN
  BY DEF ApprovalTypeOK, CommandState

\* An idle command carries no operation.
LEMMA CommandBusy ==
  ASSUME NEW c \in Command, command[c].do \in {"update", "submit", "approve", "reject"}
  PROVE  command[c] # NoCommand
  BY DEF NoCommand

\* What every committed command does: it wins the compare-and-set, raises the
\* version of its entry and touches no other.
Commits(c) ==
  LET e == command[c].entry IN
  /\ command[c] # NoCommand
  /\ Cas(c)
  /\ \A f \in EntryId \ {e} : entry'[f] = entry[f] /\ draft'[f] = draft[f]
  /\ entry'[e] # NULL
  /\ draft'[e].version = command[c].version + 1
  /\ Done(c)

\* A commit makes every other command on its entry stale, and no other.
LEMMA CommitOvertakes ==
  ASSUME ApprovalTypeOK, VersionsBehind, CommandsFresh, NEW c \in Command, Commits(c)
  PROVE  VersionsBehind' /\ CommandsFresh'
<1>. DEFINE e == command[c].entry
<1>1. /\ e \in EntryId
      /\ draft[e].version = command[c].version
      /\ command[c].version \in Nat
  BY CommandShape, ApprovalAssumption DEF Commits, Cas
<1>2. ASSUME NEW d \in Command, command'[d] # NoCommand
      PROVE  /\ command[d] # NoCommand
             /\ command'[d] = command[d]
             /\ command[d].entry \in EntryId
             /\ command[d].version \in Nat
  BY <1>2, CommandShape, ApprovalAssumption DEF Commits, Done, ApprovalTypeOK
<1>3. ASSUME NEW d \in Command, command'[d] # NoCommand
      PROVE  /\ entry'[command[d].entry] # NULL
             /\ command[d].version <= draft'[command[d].entry].version
             /\ command[d].version < MaxVersion
             /\ command[d].version = draft'[command[d].entry].version => command[d].entry # e
  <2>1. /\ entry[command[d].entry] # NULL
        /\ command[d].version <= draft[command[d].entry].version
        /\ command[d].version < MaxVersion
    BY <1>2, <1>3 DEF VersionsBehind
  <2>2. CASE command[d].entry = e
    BY <1>1, <1>2, <1>3, <2>1, <2>2 DEF Commits
  <2>3. CASE command[d].entry # e
    BY <1>2, <1>3, <2>1, <2>3 DEF Commits
  <2>. QED BY <2>2, <2>3
<1>4. VersionsBehind'
  BY <1>2, <1>3 DEF VersionsBehind
<1>5. ASSUME NEW d \in Command, command'[d] # NoCommand,
             command'[d].version = draft'[command'[d].entry].version
      PROVE  Fresh(d)'
  <2>1. command[d].entry # e
    BY <1>2, <1>3, <1>5
  <2>2. /\ entry'[command[d].entry] = entry[command[d].entry]
        /\ draft'[command[d].entry] = draft[command[d].entry]
    BY <1>2, <1>5, <2>1 DEF Commits
  <2>3. Fresh(d)
    BY <1>2, <1>5, <2>2 DEF CommandsFresh
  <2>. QED BY <1>2, <1>5, <2>2, <2>3 DEF Fresh
<1>. QED BY <1>4, <1>5 DEF CommandsFresh

\* What holds of each row, whatever commands are in flight.
RowsSound ==
  /\ DraftsOfRows
  /\ DraftsUnapproved
  /\ ContentFrozen
  /\ DutiesSegregated
  /\ NumberedIffPosted

\* Rows a command does not touch stay sound, so its own entry is what is left.
OwnRowSound(e) ==
  LET row == entry[e]  d == draft[e] IN
  /\ row \in Entry
  /\ row # NULL
  /\ d \in DraftColumns
  /\ row.number = 0 => d.content # NULL /\ d.approvedBy = NULL
  /\ row.status = "PendingApproval" \/ d.approvedBy # NULL
       => d.hash = <<row.period, d.content, FALSE>>
  /\ d.approvedBy \notin {NULL, Owner} => d.approvedBy \notin {d.createdBy, d.submittedBy}
  /\ row.status \in {"Draft", "PendingApproval"} <=> row.number = 0
  /\ d.approvedBy # NULL <=> <<"entry.approved", e, NULL>> \in audit

\* A step on one entry that leaves its row sound leaves all of them sound.
LEMMA OwnRowSuffices ==
  ASSUME RowsSound, NEW e \in EntryId, OwnRowSound(e)',
         \A f \in EntryId \ {e} : entry'[f] = entry[f] /\ draft'[f] = draft[f],
         \A f \in EntryId \ {e} :
           <<"entry.approved", f, NULL>> \in audit' <=> <<"entry.approved", f, NULL>> \in audit
  PROVE  RowsSound'
<1>1. DraftsOfRows'
  BY DEF RowsSound, DraftsOfRows, OwnRowSound
<1>2. DraftsUnapproved'
  BY DEF RowsSound, DraftsUnapproved, OwnRowSound, Rows
<1>3. ContentFrozen'
  BY DEF RowsSound, ContentFrozen, OwnRowSound, Rows
<1>4. DutiesSegregated'
  BY DEF RowsSound, DutiesSegregated, OwnRowSound
<1>5. NumberedIffPosted'
  BY DEF RowsSound, NumberedIffPosted, OwnRowSound, Rows
<1>. QED BY <1>1, <1>2, <1>3, <1>4, <1>5 DEF RowsSound

\* A command that wins the compare-and-set finds its entry as it read it.
LEMMA WinnerFindsWhatItRead ==
  ASSUME ApprovalTypeOK, RowsSound, VersionsBehind, CommandsFresh,
         NEW c \in Command, command[c] # NoCommand, Cas(c)
  PROVE  LET e == command[c].entry IN
         /\ e \in EntryId
         /\ entry[e] # NULL
         /\ entry[e] \in Entry
         /\ draft[e] \in DraftColumns
         /\ Fresh(c)
         /\ entry[e].number = 0
         /\ draft[e].content \in Content
         /\ draft[e].approvedBy = NULL
         /\ Bumped(c) = [draft[e] EXCEPT !.version = command[c].version + 1]
         /\ command[c].version + 1 \in 1 .. MaxVersion
<1>. DEFINE e == command[c].entry
<1>1. /\ e \in EntryId
      /\ entry[e] # NULL
      /\ entry[e] \in Entry
      /\ draft[e] \in DraftColumns
      /\ command[c].version < MaxVersion
      /\ command[c].version \in 1 .. MaxVersion
  BY CommandShape DEF VersionsBehind, ApprovalTypeOK, TypeOK
<1>2. Fresh(c)
  BY DEF CommandsFresh, Cas
<1>3. entry[e].number = 0
  BY <1>1, <1>2 DEF RowsSound, NumberedIffPosted, Rows, Fresh
<1>4. draft[e].content # NULL /\ draft[e].approvedBy = NULL
  BY <1>1, <1>3 DEF RowsSound, DraftsUnapproved, Rows
<1>. QED BY <1>1, <1>2, <1>3, <1>4, ApprovalAssumption DEF Bumped, DraftColumns

\* A committed command that leaves its own row sound keeps the invariant.
LEMMA CommitStep ==
  ASSUME ApprovalInv, NEW c \in Command, NEW e \in EntryId, command[c].entry = e,
         Commits(c), OwnRowSound(e)',
         NEW what \in {"entry.draft_updated", "entry.submitted", "entry.approved",
                       "entry.rejected"},
         audit' = audit \cup {<<what, e, NULL>>},
         entry' \in [EntryId -> Entry \cup {NULL}],
         draft' \in [EntryId -> DraftColumns],
         last' \in [Year -> Nat],
         UNCHANGED <<period, job, answers>>
  PROVE  ApprovalInv'
<1>1. entry[e] # NULL /\ entry[e].number = 0
  BY WinnerFindsWhatItRead DEF ApprovalInv, Commits, RowsSound
<1>2. TypeOK'
  BY <1>1 DEF ApprovalInv, ApprovalTypeOK, TypeOK, EventType
<1>3. command' \in [Command -> CommandState \cup {NoCommand}]
  BY DEF ApprovalInv, ApprovalTypeOK, Commits, Done
<1>4. OriginalsExist' /\ OriginalsNumbered'
  <2>1. \A f \in EntryId : entry[f] # NULL =>
          entry'[f] # NULL /\ (entry[f].number # 0 => entry'[f].number # 0)
    BY <1>1 DEF Commits
  <2>. QED BY <2>1, OriginalsKept DEF ApprovalInv, ApprovalTypeOK
<1>5. VersionsBehind' /\ CommandsFresh'
  BY CommitOvertakes DEF ApprovalInv
<1>6. RowsSound'
  <2>1. RowsSound
    BY DEF ApprovalInv, RowsSound
  <2>2. \A f \in EntryId \ {e} : entry'[f] = entry[f] /\ draft'[f] = draft[f]
    BY DEF Commits
  <2>. QED BY <2>1, <2>2, OwnRowSuffices
<1>. QED BY <1>2, <1>3, <1>4, <1>5, <1>6 DEF ApprovalInv, ApprovalTypeOK, RowsSound

\* updateDraft writes the new date and text and drops the hash.
LEMMA UpdateStep ==
  ASSUME ApprovalInv, NEW c \in Command, NEW e \in EntryId, command[c].entry = e,
         UpdateCommit(c)
  PROVE  ApprovalInv'
<1>1. /\ command[c] # NoCommand
      /\ Cas(c)
      /\ command[c].period \in Period
      /\ command[c].content \in Content
  BY CommandBusy, CommandShape DEF UpdateCommit, ApprovalInv
<1>2. /\ e \in EntryId
      /\ entry[e] # NULL
      /\ entry[e] \in Entry
      /\ draft[e] \in DraftColumns
      /\ entry[e].status = "Draft"
      /\ entry[e].number = 0
      /\ draft[e].approvedBy = NULL
      /\ Bumped(c) = [draft[e] EXCEPT !.version = command[c].version + 1]
      /\ command[c].version + 1 \in 1 .. MaxVersion
  BY <1>1, WinnerFindsWhatItRead DEF ApprovalInv, RowsSound, Fresh, UpdateCommit
<1>. DEFINE row == [entry[e] EXCEPT !.period = command[c].period]
            d == [Bumped(c) EXCEPT !.content = command[c].content, !.hash = NULL]
<1>3. row \in Entry /\ row # NULL /\ row.status = "Draft" /\ row.number = 0
  BY <1>1, <1>2, LedgerAssumption DEF Entry
<1>4. d \in DraftColumns
  <2>. DEFINE b == [draft[e] EXCEPT !.version = command[c].version + 1]
  <2>1. b \in DraftColumns
    BY <1>2 DEF DraftColumns
  <2>2. d = [b EXCEPT !.content = command[c].content, !.hash = NULL]
    BY <1>2
  <2>. HIDE DEF b, d
  <2>. QED BY <1>1, <2>1, <2>2 DEF DraftColumns
<1>5. /\ d.version = command[c].version + 1
      /\ d.content = command[c].content
      /\ d.approvedBy = NULL
  BY <1>2 DEF DraftColumns
<1>6. entry' = [entry EXCEPT ![e] = row] /\ draft' = [draft EXCEPT ![e] = d]
  BY DEF UpdateCommit
<1>7. entry'[e] = row /\ draft'[e] = d
  BY <1>2, <1>6 DEF ApprovalInv, ApprovalTypeOK, TypeOK
<1>. HIDE DEF row, d
<1>8. <<"entry.approved", e, NULL>> \notin audit'
  BY <1>2 DEF UpdateCommit, ApprovalInv, NumberedIffPosted, Rows
<1>9. Commits(c)
  BY <1>1, <1>3, <1>5, <1>6, <1>7 DEF Commits, UpdateCommit, ApprovalInv, ApprovalTypeOK, TypeOK
<1>10. OwnRowSound(e)'
  BY <1>1, <1>3, <1>4, <1>5, <1>7, <1>8, ApprovalAssumption DEF OwnRowSound
<1>11. /\ entry' \in [EntryId -> Entry \cup {NULL}]
       /\ draft' \in [EntryId -> DraftColumns]
       /\ last' \in [Year -> Nat]
  BY <1>3, <1>4, <1>6 DEF UpdateCommit, ApprovalInv, ApprovalTypeOK, TypeOK
<1>. QED BY <1>9, <1>10, <1>11, CommitStep DEF UpdateCommit

\* submitForApproval freezes the hash over the text and date it read.
LEMMA SubmitStep ==
  ASSUME ApprovalInv, NEW c \in Command, NEW e \in EntryId, command[c].entry = e,
         SubmitCommit(c)
  PROVE  ApprovalInv'
<1>1. /\ command[c] # NoCommand
      /\ Cas(c)
      /\ command[c].period \in Period
      /\ command[c].content \in Content
      /\ command[c].actor \in User
  BY CommandBusy, CommandShape DEF SubmitCommit, ApprovalInv
<1>2. /\ entry[e] # NULL
      /\ entry[e] \in Entry
      /\ draft[e] \in DraftColumns
      /\ entry[e].number = 0
      /\ entry[e].period = command[c].period
      /\ draft[e].content = command[c].content
      /\ draft[e].approvedBy = NULL
      /\ Bumped(c) = [draft[e] EXCEPT !.version = command[c].version + 1]
      /\ command[c].version + 1 \in 1 .. MaxVersion
  BY <1>1, WinnerFindsWhatItRead DEF ApprovalInv, RowsSound, Fresh, SubmitCommit
<1>. DEFINE row == [entry[e] EXCEPT !.status = "PendingApproval"]
            hash == <<command[c].period, command[c].content, FALSE>>
            d == [Bumped(c) EXCEPT !.hash = hash, !.submittedBy = command[c].actor]
<1>3. /\ row \in Entry
      /\ row # NULL
      /\ row.status = "PendingApproval"
      /\ row.number = 0
      /\ row.period = command[c].period
  BY <1>1, <1>2, LedgerAssumption DEF Entry, EntryStatus
<1>4. hash \in Hash
  BY <1>1 DEF Hash
<1>5. d \in DraftColumns
  BY <1>1, <1>2, <1>4 DEF DraftColumns
<1>6. /\ d.version = command[c].version + 1
      /\ d.content = command[c].content
      /\ d.hash = <<command[c].period, command[c].content, FALSE>>
      /\ d.approvedBy = NULL
  BY <1>2 DEF DraftColumns
<1>7. entry' = [entry EXCEPT ![e] = row] /\ draft' = [draft EXCEPT ![e] = d]
  BY DEF SubmitCommit
<1>8. entry'[e] = row /\ draft'[e] = d
  BY <1>2, <1>7 DEF ApprovalInv, ApprovalTypeOK, TypeOK
<1>. HIDE DEF row, d
<1>9. <<"entry.approved", e, NULL>> \notin audit'
  BY <1>2 DEF SubmitCommit, ApprovalInv, NumberedIffPosted, Rows
<1>10. Commits(c)
  BY <1>1, <1>3, <1>6, <1>7, <1>8 DEF Commits, SubmitCommit, ApprovalInv, ApprovalTypeOK, TypeOK
<1>11. OwnRowSound(e)'
  BY <1>1, <1>3, <1>5, <1>6, <1>8, <1>9, ApprovalAssumption DEF OwnRowSound
<1>12. /\ entry' \in [EntryId -> Entry \cup {NULL}]
       /\ draft' \in [EntryId -> DraftColumns]
       /\ last' \in [Year -> Nat]
  BY <1>3, <1>5, <1>7 DEF SubmitCommit, ApprovalInv, ApprovalTypeOK, TypeOK
<1>. QED BY <1>10, <1>11, <1>12, CommitStep DEF SubmitCommit

\* rejectEntry gives the draft back without hash or submitter.
LEMMA RejectStep ==
  ASSUME ApprovalInv, NEW c \in Command, NEW e \in EntryId, command[c].entry = e,
         RejectCommit(c)
  PROVE  ApprovalInv'
<1>1. command[c] # NoCommand /\ Cas(c)
  BY CommandBusy DEF RejectCommit
<1>2. /\ entry[e] # NULL
      /\ entry[e] \in Entry
      /\ draft[e] \in DraftColumns
      /\ entry[e].number = 0
      /\ draft[e].content # NULL
      /\ draft[e].approvedBy = NULL
      /\ Bumped(c) = [draft[e] EXCEPT !.version = command[c].version + 1]
      /\ command[c].version + 1 \in 1 .. MaxVersion
  BY <1>1, WinnerFindsWhatItRead, ApprovalAssumption DEF ApprovalInv, RowsSound
<1>. DEFINE row == [entry[e] EXCEPT !.status = "Draft"]
            d == [Bumped(c) EXCEPT !.hash = NULL, !.submittedBy = NULL]
<1>3. row \in Entry /\ row # NULL /\ row.status = "Draft" /\ row.number = 0
  BY <1>2, LedgerAssumption DEF Entry, EntryStatus
<1>4. d \in DraftColumns
  <2>1. Bumped(c) \in DraftColumns
    BY <1>2 DEF DraftColumns
  <2>. QED BY <2>1 DEF DraftColumns
<1>5. /\ d.version = command[c].version + 1
      /\ d.content # NULL
      /\ d.approvedBy = NULL
  BY <1>2 DEF DraftColumns
<1>6. entry' = [entry EXCEPT ![e] = row] /\ draft' = [draft EXCEPT ![e] = d]
  BY DEF RejectCommit
<1>7. entry'[e] = row /\ draft'[e] = d
  BY <1>2, <1>6 DEF ApprovalInv, ApprovalTypeOK, TypeOK
<1>. HIDE DEF row, d
<1>8. <<"entry.approved", e, NULL>> \notin audit'
  BY <1>2 DEF RejectCommit, ApprovalInv, NumberedIffPosted, Rows
<1>9. Commits(c)
  BY <1>1, <1>3, <1>5, <1>6, <1>7 DEF Commits, RejectCommit, ApprovalInv, ApprovalTypeOK, TypeOK
<1>10. OwnRowSound(e)'
  BY <1>3, <1>4, <1>5, <1>7, <1>8, ApprovalAssumption DEF OwnRowSound
<1>11. /\ entry' \in [EntryId -> Entry \cup {NULL}]
       /\ draft' \in [EntryId -> DraftColumns]
       /\ last' \in [Year -> Nat]
  BY <1>3, <1>4, <1>6 DEF RejectCommit, ApprovalInv, ApprovalTypeOK, TypeOK
<1>. QED BY <1>9, <1>10, <1>11, CommitStep DEF RejectCommit

\* approveEntry numbers the entry and leaves its hash, text and date alone.
LEMMA ApproveStep ==
  ASSUME ApprovalInv, NEW c \in Command, NEW e \in EntryId, command[c].entry = e,
         ApproveCommit(c)
  PROVE  ApprovalInv'
<1>. DEFINE p == command[c].period
            actor == command[c].actor
<1>1. /\ command[c] # NoCommand
      /\ Cas(c)
      /\ p \in Period
      /\ actor \in User
      /\ command[c].reason \in BOOLEAN
  BY CommandBusy, CommandShape DEF ApproveCommit, ApprovalInv
<1>2. /\ entry[e] # NULL
      /\ entry[e] \in Entry
      /\ draft[e] \in DraftColumns
      /\ entry[e].status = "PendingApproval"
      /\ EnforcesSegregation(actor) => actor \notin {draft[e].createdBy, draft[e].submittedBy}
      /\ draft[e].content # NULL
      /\ Bumped(c) = [draft[e] EXCEPT !.version = command[c].version + 1]
      /\ command[c].version + 1 \in 1 .. MaxVersion
  BY <1>1, WinnerFindsWhatItRead, ApprovalAssumption
     DEF ApprovalInv, RowsSound, Fresh, ApproveCommit
<1>3. draft[e].hash = <<entry[e].period, draft[e].content, FALSE>>
  BY <1>2 DEF ApprovalInv, ContentFrozen, Rows
<1>4. /\ last[YearOf[p]] \in Nat
      /\ last' \in [Year -> Nat]
      /\ period[p].closedAt \in BOOLEAN
  BY <1>1, CounterType, LedgerAssumption DEF ApproveCommit, ApprovalInv, ApprovalTypeOK, TypeOK
<1>. DEFINE late == period[p].closedAt /\ command[c].reason
            number == last[YearOf[p]] + 1
            row == [entry[e] EXCEPT !.status = "Posted",
                                    !.number = number,
                                    !.late = late]
            d == [Bumped(c) EXCEPT !.approvedBy = actor]
<1>5. /\ row \in Entry
      /\ row # NULL
      /\ row.status = "Posted"
      /\ row.number # 0
      /\ row.period = entry[e].period
  <2>1. late \in BOOLEAN /\ number \in Nat /\ number # 0
    BY <1>1, <1>4
  <2>. HIDE DEF late, number
  <2>2. row \in Entry
    BY <1>2, <2>1 DEF Entry, EntryStatus
  <2>. QED BY <1>2, <2>1, <2>2, LedgerAssumption DEF Entry
<1>6. d \in DraftColumns
  BY <1>1, <1>2 DEF DraftColumns
<1>7. /\ d.version = command[c].version + 1
      /\ d.content = draft[e].content
      /\ d.hash = draft[e].hash
      /\ d.approvedBy = actor
      /\ d.createdBy = draft[e].createdBy
      /\ d.submittedBy = draft[e].submittedBy
  BY <1>2 DEF DraftColumns
<1>8. entry' = [entry EXCEPT ![e] = row] /\ draft' = [draft EXCEPT ![e] = d]
  BY <1>2 DEF ApproveCommit, ApprovalInv, ApprovalTypeOK, TypeOK
<1>9. entry'[e] = row /\ draft'[e] = d
  BY <1>2, <1>8 DEF ApprovalInv, ApprovalTypeOK, TypeOK
<1>. HIDE DEF row, d
<1>10. <<"entry.approved", e, NULL>> \in audit'
  BY DEF ApproveCommit
<1>11. Commits(c)
  BY <1>1, <1>5, <1>7, <1>8, <1>9 DEF Commits, ApproveCommit, ApprovalInv, ApprovalTypeOK, TypeOK
<1>12. OwnRowSound(e)'
  BY <1>1, <1>2, <1>3, <1>5, <1>6, <1>7, <1>9, <1>10, ApprovalAssumption
     DEF OwnRowSound, EnforcesSegregation
<1>13. /\ entry' \in [EntryId -> Entry \cup {NULL}]
       /\ draft' \in [EntryId -> DraftColumns]
  BY <1>5, <1>6, <1>8 DEF ApprovalInv, ApprovalTypeOK, TypeOK
<1>. QED BY <1>4, <1>11, <1>12, <1>13, CommitStep DEF ApproveCommit

\* The row that createDraft inserts is a row.
LEMMA DraftRowType ==
  ASSUME NEW p \in Period
  PROVE  DraftRow(p) \in Entry /\ DraftRow(p) # NULL
<1>1. <<"manual", NULL>> \in Source
  BY DEF Source, PostKey
<1>. DEFINE src == <<"manual", NULL>>
<1>. HIDE DEF src
<1>2. DraftRow(p) = [period |-> p, number |-> 0, src |-> src, status |-> "Draft",
                     reversedBy |-> NULL, mirrors |-> NULL, late |-> FALSE]
  BY DEF DraftRow, src
<1>3. DraftRow(p) \in Entry
  BY <1>1, <1>2 DEF Entry, EntryStatus, src
<1>. QED BY <1>3, LedgerAssumption

\* createDraft takes an id no command and no reversal knows of.
LEMMA CreateStep ==
  ASSUME ApprovalInv, NEW e \in EntryId, NEW p \in Period, NEW content \in Content,
         NEW actor \in User, CreateDraft(e, p, content, actor)
  PROVE  ApprovalInv'
<1>. DEFINE d == [NoDraft EXCEPT !.content = content, !.createdBy = actor]
<1>1. DraftRow(p) \in Entry /\ DraftRow(p) # NULL
  BY DraftRowType
<1>2. /\ d \in DraftColumns
      /\ d.content # NULL
      /\ d.approvedBy = NULL
  <2>1. 1 \in 1 .. MaxVersion
    BY ApprovalAssumption
  <2>2. NoDraft \in DraftColumns
    BY <2>1 DEF NoDraft, DraftColumns
  <2>3. d \in DraftColumns /\ d.content = content
    BY <2>2 DEF DraftColumns
  <2>. QED BY <2>3, ApprovalAssumption DEF NoDraft
<1>3. /\ entry[e] = NULL
      /\ entry' = [entry EXCEPT ![e] = DraftRow(p)]
      /\ draft' = [draft EXCEPT ![e] = d]
      /\ UNCHANGED <<period, last, job, answers, command>>
  BY DEF CreateDraft
<1>4. entry'[e] = DraftRow(p) /\ draft'[e] = d
  BY <1>3 DEF ApprovalInv, ApprovalTypeOK, TypeOK
<1>5. \A f \in EntryId \ {e} : entry'[f] = entry[f] /\ draft'[f] = draft[f]
  BY <1>3 DEF ApprovalInv, ApprovalTypeOK, TypeOK
<1>. HIDE DEF d
<1>6. ApprovalTypeOK'
  <2>1. TypeOK'
    BY <1>1, <1>3 DEF CreateDraft, ApprovalInv, ApprovalTypeOK, TypeOK, EventType
  <2>. QED BY <1>2, <1>3, <2>1 DEF ApprovalInv, ApprovalTypeOK
<1>7. OriginalsExist' /\ OriginalsNumbered'
  BY <1>3, <1>5, OriginalsKept DEF ApprovalInv, ApprovalTypeOK
<1>8. \A f \in EntryId :
        <<"entry.approved", f, NULL>> \in audit' <=> <<"entry.approved", f, NULL>> \in audit
  BY DEF CreateDraft
<1>9. OwnRowSound(e)'
  <2>1. <<"entry.approved", e, NULL>> \notin audit'
    BY <1>3, <1>8 DEF ApprovalInv, DraftsOfRows
  <2>2. DraftRow(p).status = "Draft" /\ DraftRow(p).number = 0
    BY DEF DraftRow
  <2>. QED BY <1>1, <1>2, <1>4, <2>1, <2>2 DEF OwnRowSound
<1>10. RowsSound'
  <2>1. RowsSound
    BY DEF ApprovalInv, RowsSound
  <2>. QED BY <1>5, <1>8, <1>9, <2>1, OwnRowSuffices
<1>11. ASSUME NEW c \in Command, command[c] # NoCommand
       PROVE  /\ command[c].entry \in EntryId \ {e}
              /\ entry'[command[c].entry] = entry[command[c].entry]
              /\ draft'[command[c].entry] = draft[command[c].entry]
  BY <1>3, <1>5, <1>11, CommandShape DEF ApprovalInv, VersionsBehind
<1>12. VersionsBehind'
  BY <1>3, <1>11 DEF ApprovalInv, VersionsBehind
<1>13. CommandsFresh'
  BY <1>3, <1>11 DEF ApprovalInv, CommandsFresh, Fresh
<1>. QED BY <1>6, <1>7, <1>10, <1>12, <1>13 DEF ApprovalInv, RowsSound

\* A read leaves the rows alone and starts a command that is fresh.
LEMMA ReadStep ==
  ASSUME ApprovalInv, NEW c \in Command, NEW e \in EntryId, NEW actor \in User,
         NEW do \in {"update", "submit", "approve", "reject"},
         NEW p \in Period, NEW content \in Content, NEW reason \in BOOLEAN,
         Read(c, do, e, actor, p, content, reason),
         entry[e].status = IF do \in {"update", "submit"} THEN "Draft" ELSE "PendingApproval",
         do # "update" => entry[e].period = p /\ draft[e].content = content,
         do = "approve" /\ EnforcesSegregation(actor) =>
           actor \notin {draft[e].createdBy, draft[e].submittedBy}
  PROVE  ApprovalInv'
<1>. DEFINE taken == [do |-> do, entry |-> e, actor |-> actor, version |-> draft[e].version,
                      period |-> p, content |-> content, hash |-> draft[e].hash,
                      reason |-> reason]
<1>1. /\ draft[e] \in DraftColumns
      /\ entry[e] # NULL
      /\ draft[e].version < MaxVersion
      /\ command' = [command EXCEPT ![c] = taken]
      /\ UNCHANGED <<period, entry, last, audit, job, answers, draft>>
  BY DEF Read, vars, ApprovalInv, ApprovalTypeOK
<1>2. taken \in CommandState
  BY <1>1 DEF CommandState, DraftColumns
<1>3. /\ taken # NoCommand
      /\ taken.do = do
      /\ taken.entry = e
      /\ taken.actor = actor
      /\ taken.period = p
      /\ taken.content = content
      /\ taken.version = draft[e].version
  BY DEF NoCommand
<1>4. /\ command'[c] = taken
      /\ \A x \in Command \ {c} : command'[x] = command[x]
  BY <1>1 DEF ApprovalInv, ApprovalTypeOK
<1>5. command' \in [Command -> CommandState \cup {NoCommand}]
  BY <1>1, <1>2 DEF ApprovalInv, ApprovalTypeOK
<1>. HIDE DEF taken
<1>6. draft[e].version \in Nat
  BY <1>1, ApprovalAssumption DEF DraftColumns
<1>7. VersionsBehind'
  BY <1>1, <1>3, <1>4, <1>6 DEF ApprovalInv, VersionsBehind
<1>8. \A x \in Command : command'[x] # NoCommand
        /\ command'[x].version = draft[command'[x].entry].version => Fresh(x)'
  <2>1. Fresh(c)'
    BY <1>1, <1>3, <1>4 DEF Fresh
  <2>2. \A x \in Command \ {c} : Fresh(x)' <=> Fresh(x)
    BY <1>1, <1>4 DEF Fresh
  <2>. QED BY <1>4, <2>1, <2>2 DEF ApprovalInv, CommandsFresh
<1>9. CommandsFresh'
  BY <1>1, <1>8 DEF CommandsFresh
<1>10. ApprovalTypeOK'
  BY <1>1, <1>5 DEF ApprovalInv, ApprovalTypeOK, TypeOK
<1>. QED BY <1>1, <1>7, <1>9, <1>10
     DEF ApprovalInv, OriginalsExist, OriginalsNumbered, DraftsOfRows, DraftsUnapproved,
         ContentFrozen, DutiesSegregated, NumberedIffPosted, Rows

\* The four reads meet what ReadStep asks of them.
LEMMA ReadsStep ==
  ASSUME ApprovalInv, NEW c \in Command, NEW e \in EntryId, NEW actor \in User,
         \/ \E p \in Period, content \in Content : ReadForUpdate(c, e, actor, p, content)
         \/ ReadForSubmit(c, e, actor)
         \/ \E reason \in BOOLEAN : ReadForApprove(c, e, actor, reason)
         \/ ReadForReject(c, e, actor)
  PROVE  ApprovalInv'
<1>1. ASSUME NEW p \in Period, NEW content \in Content,
             ReadForUpdate(c, e, actor, p, content)
      PROVE  ApprovalInv'
  BY <1>1, ReadStep DEF ReadForUpdate
<1>2. ASSUME entry[e] # NULL, entry[e].status \in {"Draft", "PendingApproval"}
      PROVE  entry[e].period \in Period /\ draft[e].content \in Content
  <2>1. entry[e] \in Entry /\ draft[e] \in DraftColumns
    BY <1>2 DEF ApprovalInv, ApprovalTypeOK, TypeOK
  <2>2. draft[e].content # NULL
    BY <1>2 DEF ApprovalInv, NumberedIffPosted, DraftsUnapproved, Rows
  <2>. QED BY <2>1, <2>2 DEF Entry, DraftColumns
<1>3. CASE ReadForSubmit(c, e, actor)
  BY <1>2, <1>3, ReadStep DEF ReadForSubmit
<1>4. ASSUME NEW reason \in BOOLEAN, ReadForApprove(c, e, actor, reason)
      PROVE  ApprovalInv'
  BY <1>2, <1>4, ReadStep DEF ReadForApprove
<1>5. CASE ReadForReject(c, e, actor)
  BY <1>2, <1>5, ReadStep DEF ReadForReject
<1>. QED BY <1>1, <1>3, <1>4, <1>5

\* A command that is given up writes nothing.
LEMMA AbandonStep ==
  ASSUME ApprovalInv, NEW c \in Command, AbandonCommand(c)
  PROVE  ApprovalInv'
<1>1. /\ UNCHANGED <<period, entry, last, audit, job, answers, draft>>
      /\ command' = [command EXCEPT ![c] = NoCommand]
  BY DEF AbandonCommand, Done, vars
<1>2. ApprovalTypeOK'
  BY <1>1 DEF ApprovalInv, ApprovalTypeOK, TypeOK
<1>3. \A x \in Command : command'[x] # NoCommand => command'[x] = command[x]
  BY <1>1 DEF ApprovalInv, ApprovalTypeOK
<1>4. VersionsBehind'
  BY <1>1, <1>3 DEF ApprovalInv, VersionsBehind
<1>5. CommandsFresh'
  BY <1>1, <1>3 DEF ApprovalInv, CommandsFresh, Fresh
<1>. QED BY <1>1, <1>2, <1>4, <1>5
     DEF ApprovalInv, OriginalsExist, OriginalsNumbered, DraftsOfRows, DraftsUnapproved,
         ContentFrozen, DutiesSegregated, NumberedIffPosted, Rows

\* The journal's own steps never touch an entry that is still being approved.
LEMMA BesideStep ==
  ASSUME ApprovalInv, [Next]_vars, UNCHANGED approvalVars
  PROVE  ApprovalInv'
<1>1. UNCHANGED <<draft, command>>
  BY DEF approvalVars
<1>2. TypeOK' /\ OriginalsExist' /\ RowsKept
  BY TypeStep, OriginalsStep, RowStep DEF ApprovalInv, ApprovalTypeOK
<1>3. ApprovalTypeOK'
  BY <1>1, <1>2 DEF ApprovalInv, ApprovalTypeOK
<1>4. OriginalsNumbered'
  BY <1>2, OriginalsNumberedStep DEF ApprovalInv, ApprovalTypeOK
<1>5. JournalEffect
  BY JournalStep DEF ApprovalInv, ApprovalTypeOK
<1>6. DraftsOfRows'
  BY <1>1, <1>2, <1>5 DEF ApprovalInv, DraftsOfRows, RowsKept, JournalEffect
<1>7. DraftsUnapproved'
  BY <1>1, <1>5 DEF ApprovalInv, DraftsUnapproved, Rows, JournalEffect,
       AtMostReversed, AtMostPosted
<1>8. ContentFrozen'
  <2>1. ASSUME NEW e \in EntryId, entry'[e] # NULL,
               entry'[e].status = "PendingApproval" \/ draft[e].approvedBy # NULL
        PROVE  draft[e].hash = <<entry'[e].period, draft[e].content, FALSE>>
    <3>1. CASE entry[e] = NULL
      <4>1. entry'[e].status = "Posted"
        BY <1>5, <2>1, <3>1 DEF JournalEffect, AtMostPosted
      <4>2. draft[e].approvedBy = NULL
        <5>1. draft[e] = NoDraft
          BY <3>1 DEF ApprovalInv, DraftsOfRows
        <5>. QED BY <5>1 DEF NoDraft
      <4>. QED BY <2>1, <4>1, <4>2
    <3>2. CASE entry[e] # NULL
      <4>1. AtMostReversed(e)
        BY <1>5, <3>2 DEF JournalEffect
      <4>. QED BY <2>1, <3>2, <4>1 DEF ApprovalInv, ContentFrozen, Rows, AtMostReversed
    <3>. QED BY <3>1, <3>2
  <2>. QED BY <1>1, <2>1 DEF ContentFrozen, Rows
<1>9. DutiesSegregated'
  BY <1>1 DEF ApprovalInv, DutiesSegregated
<1>10. NumberedIffPosted'
  <2>1. ASSUME NEW e \in EntryId, entry'[e] # NULL
        PROVE  /\ entry'[e].status \in {"Draft", "PendingApproval"} <=> entry'[e].number = 0
               /\ draft[e].approvedBy # NULL <=> <<"entry.approved", e, NULL>> \in audit
    <3>1. CASE entry[e] = NULL
      <4>1. entry'[e].number # 0 /\ entry'[e].status = "Posted"
        BY <1>5, <2>1, <3>1 DEF JournalEffect, AtMostPosted
      <4>2. draft[e] = NoDraft /\ <<"entry.approved", e, NULL>> \notin audit
        BY <3>1 DEF ApprovalInv, DraftsOfRows
      <4>3. draft[e].approvedBy = NULL
        BY <4>2 DEF NoDraft
      <4>. QED BY <4>1, <4>2, <4>3
    <3>2. CASE entry[e] # NULL
      <4>1. AtMostReversed(e)
        BY <1>5, <3>2 DEF JournalEffect
      <4>. QED BY <2>1, <3>2, <4>1 DEF ApprovalInv, NumberedIffPosted, Rows, AtMostReversed
    <3>. QED BY <3>1, <3>2
  <2>. QED BY <1>1, <1>5, <2>1 DEF NumberedIffPosted, Rows, JournalEffect
<1>11. VersionsBehind'
  BY <1>1, <1>2, CommandShape DEF ApprovalInv, VersionsBehind, RowsKept
<1>12. CommandsFresh'
  <2>1. ASSUME NEW c \in Command, command[c] # NoCommand,
               command[c].version = draft[command[c].entry].version
        PROVE  Fresh(c)'
    <3>1. Fresh(c) /\ entry[command[c].entry] # NULL /\ command[c].entry \in EntryId
      BY <2>1, CommandShape DEF ApprovalInv, CommandsFresh, VersionsBehind
    <3>2. entry[command[c].entry].number = 0
      BY <3>1 DEF ApprovalInv, NumberedIffPosted, Rows, Fresh
    <3>3. entry'[command[c].entry] = entry[command[c].entry]
      BY <1>5, <3>1, <3>2 DEF JournalEffect, AtMostReversed
    <3>. QED BY <1>1, <3>1, <3>3 DEF Fresh
  <2>. QED BY <1>1, <2>1 DEF CommandsFresh
<1>. QED BY <1>2, <1>3, <1>4, <1>6, <1>7, <1>8, <1>9, <1>10, <1>11, <1>12 DEF ApprovalInv

-----------------------------------------------------------------------------
(* Theorems *)

\* Nothing is drafted and no command is in flight.
LEMMA ApprovalInvInit == ApprovalInit => ApprovalInv
<1>. SUFFICES ASSUME ApprovalInit PROVE ApprovalInv
  OBVIOUS
<1>1. TypeOK /\ OriginalsExist
  BY TypeInit DEF ApprovalInit, Init, OriginalsExist, Idle, ReverseJob
<1>2. NoDraft \in DraftColumns
  <2>1. 1 \in 1 .. MaxVersion
    BY ApprovalAssumption
  <2>. QED BY <2>1 DEF NoDraft, DraftColumns
<1>3. ApprovalTypeOK
  BY <1>1, <1>2 DEF ApprovalInit, ApprovalTypeOK
<1>4. OriginalsNumbered
  BY DEF ApprovalInit, Init, OriginalsNumbered, Idle
<1>5. DutiesSegregated
  BY DEF ApprovalInit, DutiesSegregated, NoDraft
<1>. QED BY <1>1, <1>3, <1>4, <1>5
     DEF ApprovalInv, ApprovalInit, Init, DraftsOfRows, DraftsUnapproved, VersionsBehind,
         CommandsFresh, ContentFrozen, NumberedIffPosted, Rows

\* Every step of the approval keeps the invariant.
LEMMA ApprovalNextStep ==
  ASSUME ApprovalInv, ApprovalNext
  PROVE  ApprovalInv'
<1>1. ASSUME NEW c \in Command,
             UpdateCommit(c) \/ SubmitCommit(c) \/ ApproveCommit(c) \/ RejectCommit(c)
      PROVE  ApprovalInv'
  <2>1. PICK e \in EntryId : command[c].entry = e
    BY <1>1, CommandBusy, CommandShape
       DEF ApprovalInv, UpdateCommit, SubmitCommit, ApproveCommit, RejectCommit
  <2>. QED BY <1>1, <2>1, UpdateStep, SubmitStep, ApproveStep, RejectStep
<1>. QED BY <1>1, CreateStep, ReadsStep, AbandonStep DEF ApprovalNext

\* Approvals and the journal, in any interleaving, keep the invariant.
LEMMA ApprovalStep ==
  ApprovalInv /\ [ApprovalNext \/ (Next /\ UNCHANGED approvalVars)]_allVars => ApprovalInv'
<1>. SUFFICES ASSUME ApprovalInv, [ApprovalNext \/ (Next /\ UNCHANGED approvalVars)]_allVars
              PROVE  ApprovalInv'
  OBVIOUS
<1>1. CASE Next /\ UNCHANGED approvalVars
  BY <1>1, BesideStep
<1>2. CASE UNCHANGED allVars
  BY <1>2, BesideStep DEF allVars
<1>. QED BY <1>1, <1>2, ApprovalNextStep

\* The strengthened invariant holds of every behaviour of the approval.
THEOREM ApprovalCorrect == ApprovalSpec => []ApprovalInv
BY ApprovalInvInit, ApprovalStep, PTL DEF ApprovalSpec

\* EntryApprovalService and everything beside it keep their columns well-typed.
THEOREM ApprovalTypeCorrect == ApprovalSpec => []ApprovalTypeOK
<1>1. ApprovalInv => ApprovalTypeOK
  BY DEF ApprovalInv
<1>. QED BY <1>1, ApprovalCorrect, PTL

\* "The checker approves exactly what was submitted": the compare-and-set on the
\* version is enough to keep the frozen hash true of the row, although the row is
\* checked before the transaction.
THEOREM ApprovedIsSubmitted == ApprovalSpec => []ContentFrozen
<1>1. ApprovalInv => ContentFrozen
  BY DEF ApprovalInv
<1>. QED BY <1>1, ApprovalCorrect, PTL

\* No delegate is the approver of an entry it created or submitted, through any
\* number of rejections and resubmissions.
THEOREM DutiesAreSegregated == ApprovalSpec => []DutiesSegregated
<1>1. ApprovalInv => DutiesSegregated
  BY DEF ApprovalInv
<1>. QED BY <1>1, ApprovalCorrect, PTL

\* Exactly the drafts and pending entries are without a number, and exactly the
\* approved ones have an approver.
THEOREM NumbersAreBornAtPost == ApprovalSpec => []NumberedIffPosted
<1>1. ApprovalInv => NumberedIffPosted
  BY DEF ApprovalInv
<1>. QED BY <1>1, ApprovalCorrect, PTL

\* A command in flight cannot win the compare-and-set of a numbered entry.
LEMMA CommitsSpareNumbered ==
  ASSUME ApprovalInv, ApprovalNext
  PROVE  \A e \in Numbered : entry'[e] = entry[e] /\ draft'[e] = draft[e]
<1>. SUFFICES ASSUME NEW e \in EntryId, entry[e] # NULL, entry[e].number # 0
              PROVE  entry'[e] = entry[e] /\ draft'[e] = draft[e]
  BY DEF Numbered, Rows
<1>1. ASSUME NEW c \in Command,
             UpdateCommit(c) \/ SubmitCommit(c) \/ ApproveCommit(c) \/ RejectCommit(c)
      PROVE  entry'[e] = entry[e] /\ draft'[e] = draft[e]
  <2>1. command[c] # NoCommand /\ Cas(c)
    BY <1>1, CommandBusy DEF UpdateCommit, SubmitCommit, ApproveCommit, RejectCommit
  <2>2. command[c].entry # e
    BY <2>1, WinnerFindsWhatItRead DEF ApprovalInv, RowsSound
  <2>. QED BY <1>1, <2>2 DEF UpdateCommit, SubmitCommit, ApproveCommit, RejectCommit,
         ApprovalInv, ApprovalTypeOK, TypeOK
<1>2. ASSUME NEW f \in EntryId, NEW p \in Period, NEW content \in Content,
             NEW actor \in User, CreateDraft(f, p, content, actor)
      PROVE  entry'[e] = entry[e] /\ draft'[e] = draft[e]
  BY <1>2 DEF CreateDraft, ApprovalInv, ApprovalTypeOK, TypeOK
<1>. QED BY <1>1, <1>2
     DEF ApprovalNext, ReadForUpdate, ReadForSubmit, ReadForApprove, ReadForReject, Read,
         AbandonCommand, vars

\* A late update, submit, approve or reject never reaches an entry that has its
\* number: only the reversal of the journal changes it, and only its status.
THEOREM NumberedEntriesAreImmutable == ApprovalSpec => PostedIsImmutable
<1>. DEFINE Kept(e) == /\ entry'[e].number = entry[e].number
                       /\ entry'[e].period = entry[e].period
                       /\ entry'[e].status \in {entry[e].status, "Reversed"}
                       /\ draft'[e] = draft[e]
<1>1. ApprovalInv /\ [ApprovalNext \/ (Next /\ UNCHANGED approvalVars)]_allVars
        => [\A e \in Numbered : Kept(e)]_allVars
  <2>. SUFFICES ASSUME ApprovalInv,
                       [ApprovalNext \/ (Next /\ UNCHANGED approvalVars)]_allVars
                PROVE  [\A e \in Numbered : Kept(e)]_allVars
    OBVIOUS
  <2>1. CASE ApprovalNext
    BY <2>1, CommitsSpareNumbered
  <2>2. CASE Next /\ UNCHANGED approvalVars
    <3>1. JournalEffect
      BY <2>2, JournalStep DEF ApprovalInv, ApprovalTypeOK
    <3>. QED BY <2>2, <3>1 DEF approvalVars, JournalEffect, AtMostReversed, Numbered, Rows
  <2>. QED BY <2>1, <2>2
<1>. QED BY <1>1, ApprovalCorrect, PTL DEF ApprovalSpec, PostedIsImmutable

-----------------------------------------------------------------------------
(* The journal beside the approval *)

\* What createDraft or a committed command does to the journal: one entry that
\* has no number is inserted or rewritten, and keeps its key and its links.
TouchesDraft(e) ==
  /\ \A f \in EntryId \ {e} : entry'[f] = entry[f]
  /\ \/ /\ entry[e] = NULL
        /\ entry'[e].src = <<"manual", NULL>>
        /\ entry'[e].mirrors = NULL
        /\ entry'[e].reversedBy = NULL
     \/ /\ entry[e] # NULL
        /\ entry[e].number = 0
        /\ entry[e].status # "Reversed"
        /\ entry'[e].src = entry[e].src
        /\ entry'[e].mirrors = entry[e].mirrors
        /\ entry'[e].reversedBy = entry[e].reversedBy
  /\ entry'[e] # NULL
  /\ entry'[e].status # "Reversed"
  /\ \E what \in {"entry.drafted", "entry.draft_updated", "entry.submitted",
                  "entry.approved", "entry.rejected"} :
       audit' = audit \cup {<<what, e, NULL>>}
  /\ UNCHANGED <<period, job, answers>>

\* The entry is still without a number.
StaysDraft(e) == entry'[e].number = 0 /\ UNCHANGED last

\* The entry gets the number of an approval.
IsApproved(e) ==
  /\ <<"entry.approved", e, NULL>> \in audit'
  /\ \E p \in Period : GetsNumber(e, p)

\* createDraft inserts a row that has neither number nor key.
LEMMA CreateTouches ==
  ASSUME ApprovalInv, NEW e \in EntryId, NEW p \in Period, NEW content \in Content,
         NEW actor \in User, CreateDraft(e, p, content, actor)
  PROVE  TouchesDraft(e) /\ StaysDraft(e)
<1>1. /\ entry[e] = NULL
      /\ entry'[e] = DraftRow(p)
      /\ \A f \in EntryId \ {e} : entry'[f] = entry[f]
      /\ audit' = audit \cup {<<"entry.drafted", e, NULL>>}
      /\ UNCHANGED <<period, last, job, answers>>
  BY DEF CreateDraft, ApprovalInv, ApprovalTypeOK, TypeOK
<1>2. /\ DraftRow(p).number = 0
      /\ DraftRow(p).status = "Draft"
      /\ DraftRow(p).src = <<"manual", NULL>>
      /\ DraftRow(p).mirrors = NULL
      /\ DraftRow(p).reversedBy = NULL
  BY DEF DraftRow
<1>3. entry'[e] # NULL
  BY <1>1, DraftRowType
<1>. QED BY <1>1, <1>2, <1>3 DEF TouchesDraft, StaysDraft

\* The row that a committed command finds and the row that it leaves.
LEMMA CommitTouches ==
  ASSUME ApprovalInv, NEW c \in Command, command[c] # NoCommand, Cas(c),
         NEW e \in EntryId, command[c].entry = e,
         NEW row \in Entry, entry' = [entry EXCEPT ![e] = row],
         row.src = entry[e].src,
         row.mirrors = entry[e].mirrors,
         row.reversedBy = entry[e].reversedBy,
         row.status # "Reversed",
         NEW what \in {"entry.draft_updated", "entry.submitted", "entry.approved",
                       "entry.rejected"},
         audit' = audit \cup {<<what, e, NULL>>},
         UNCHANGED <<period, job, answers>>
  PROVE  TouchesDraft(e) /\ entry'[e] = row
<1>1. entry[e] # NULL /\ entry[e].number = 0 /\ entry[e].status # "Reversed"
  BY WinnerFindsWhatItRead DEF ApprovalInv, RowsSound, Fresh
<1>2. entry'[e] = row /\ \A f \in EntryId \ {e} : entry'[f] = entry[f]
  BY DEF ApprovalInv, ApprovalTypeOK, TypeOK
<1>3. row # NULL
  BY LedgerAssumption
<1>. QED BY <1>1, <1>2, <1>3 DEF TouchesDraft

\* updateDraft, submitForApproval and rejectEntry leave a draft.
LEMMA DraftingTouches ==
  ASSUME ApprovalInv, NEW c \in Command, NEW e \in EntryId, command[c].entry = e,
         UpdateCommit(c) \/ SubmitCommit(c) \/ RejectCommit(c)
  PROVE  TouchesDraft(e) /\ StaysDraft(e)
<1>1. /\ command[c] # NoCommand
      /\ Cas(c)
      /\ UNCHANGED <<period, last, job, answers>>
  BY CommandBusy DEF UpdateCommit, SubmitCommit, RejectCommit
<1>2. entry[e] \in Entry /\ entry[e].number = 0 /\ command[c].period \in Period
  BY <1>1, WinnerFindsWhatItRead, CommandShape DEF ApprovalInv, RowsSound
<1>3. CASE UpdateCommit(c)
  <2>. DEFINE row == [entry[e] EXCEPT !.period = command[c].period]
  <2>1. entry[e].status = "Draft"
    BY <1>1, <1>3, WinnerFindsWhatItRead DEF ApprovalInv, RowsSound, Fresh, UpdateCommit
  <2>2. /\ row \in Entry
        /\ row.src = entry[e].src
        /\ row.mirrors = entry[e].mirrors
        /\ row.reversedBy = entry[e].reversedBy
        /\ row.status # "Reversed"
        /\ row.number = 0
    BY <1>2, <2>1 DEF Entry
  <2>3. entry' = [entry EXCEPT ![e] = row]
    BY <1>3 DEF UpdateCommit
  <2>4. audit' = audit \cup {<<"entry.draft_updated", e, NULL>>}
    BY <1>3 DEF UpdateCommit
  <2>. HIDE DEF row
  <2>5. TouchesDraft(e) /\ entry'[e] = row
    BY <1>1, <2>2, <2>3, <2>4, CommitTouches
  <2>. QED BY <1>1, <2>2, <2>5 DEF StaysDraft
<1>4. CASE SubmitCommit(c) \/ RejectCommit(c)
  <2>1. PICK status \in {"PendingApproval", "Draft"} :
          entry' = [entry EXCEPT ![e].status = status]
    BY <1>4 DEF SubmitCommit, RejectCommit
  <2>. DEFINE row == [entry[e] EXCEPT !.status = status]
  <2>2. /\ row \in Entry
        /\ row.src = entry[e].src
        /\ row.mirrors = entry[e].mirrors
        /\ row.reversedBy = entry[e].reversedBy
        /\ row.status # "Reversed"
        /\ row.number = 0
    BY <1>2 DEF Entry, EntryStatus
  <2>3. entry' = [entry EXCEPT ![e] = row]
    BY <2>1
  <2>4. PICK what \in {"entry.submitted", "entry.rejected"} :
          audit' = audit \cup {<<what, e, NULL>>}
    BY <1>4 DEF SubmitCommit, RejectCommit
  <2>. HIDE DEF row
  <2>5. TouchesDraft(e) /\ entry'[e] = row
    BY <1>1, <2>2, <2>3, <2>4, CommitTouches
  <2>. QED BY <1>1, <2>2, <2>5 DEF StaysDraft
<1>. QED BY <1>3, <1>4

\* approveEntry gates on the period it read and numbers the entry there: the
\* compare-and-set says that the row is still dated in it.
LEMMA ApproveTouches ==
  ASSUME ApprovalInv, NEW c \in Command, NEW e \in EntryId, command[c].entry = e,
         ApproveCommit(c)
  PROVE  TouchesDraft(e) /\ IsApproved(e)
<1>. DEFINE p == command[c].period
            number == last[YearOf[p]] + 1
            row == [entry[e] EXCEPT !.status = "Posted", !.number = number,
                                    !.late = period[p].closedAt]
<1>1. /\ command[c] # NoCommand
      /\ Cas(c)
      /\ p \in Period
      /\ IsOpen(p)
      /\ NextEntryNumber(p)
      /\ audit' = audit \cup {<<"entry.approved", e, NULL>>}
      /\ UNCHANGED <<period, job, answers>>
  BY CommandBusy, CommandShape DEF ApproveCommit, GateTx, ApprovalInv
<1>2. /\ entry[e] \in Entry
      /\ entry[e] # NULL
      /\ entry[e].number = 0
      /\ entry[e].period = p
  BY <1>1, WinnerFindsWhatItRead DEF ApprovalInv, RowsSound, Fresh, ApproveCommit
<1>3. /\ number \in Nat
      /\ number # 0
      /\ period[p].closedAt \in BOOLEAN
  BY <1>1, LedgerAssumption DEF ApprovalInv, ApprovalTypeOK, TypeOK
<1>4. (period[p].closedAt /\ command[c].reason) = period[p].closedAt
  BY <1>1, <1>3, CommandShape DEF ApproveCommit, GateTx, ApprovalInv
<1>5. entry' = [entry EXCEPT ![e].status = "Posted", ![e].number = number,
                             ![e].late = period[p].closedAt]
  BY <1>4 DEF ApproveCommit
<1>6. entry' = [entry EXCEPT ![e] = row]
  BY <1>2, <1>5 DEF ApprovalInv, ApprovalTypeOK, TypeOK
<1>. HIDE DEF number
<1>7. /\ row \in Entry
      /\ row.src = entry[e].src
      /\ row.mirrors = entry[e].mirrors
      /\ row.reversedBy = entry[e].reversedBy
      /\ row.status # "Reversed"
      /\ row.number = number
      /\ row.period = p
      /\ row.late = period[p].closedAt
  <2>1. row \in Entry
    BY <1>2, <1>3 DEF Entry, EntryStatus
  <2>. QED BY <1>2, <2>1 DEF Entry
<1>. HIDE DEF row
<1>8. TouchesDraft(e) /\ entry'[e] = row
  BY <1>1, <1>6, <1>7, CommitTouches
<1>9. Numbered' = Numbered \cup {e}
  BY <1>3, <1>7, <1>8 DEF TouchesDraft, Numbered, Rows
<1>10. GetsNumber(e, p)
  BY <1>1, <1>2, <1>3, <1>7, <1>8, <1>9 DEF GetsNumber, TouchesDraft, Numbered, number
<1>. QED BY <1>1, <1>8, <1>10 DEF IsApproved

\* Every step of the approval leaves the journal alone or touches one draft.
LEMMA ApprovalTouches ==
  ASSUME ApprovalInv, ApprovalNext
  PROVE  \/ UNCHANGED vars
         \/ \E e \in EntryId : TouchesDraft(e) /\ (StaysDraft(e) \/ IsApproved(e))
<1>1. ASSUME NEW c \in Command,
             UpdateCommit(c) \/ SubmitCommit(c) \/ ApproveCommit(c) \/ RejectCommit(c)
      PROVE  \E e \in EntryId : TouchesDraft(e) /\ (StaysDraft(e) \/ IsApproved(e))
  <2>1. PICK e \in EntryId : command[c].entry = e
    BY <1>1, CommandBusy, CommandShape
       DEF ApprovalInv, UpdateCommit, SubmitCommit, ApproveCommit, RejectCommit
  <2>. QED BY <1>1, <2>1, DraftingTouches, ApproveTouches
<1>2. ASSUME NEW e \in EntryId, NEW p \in Period, NEW content \in Content,
             NEW actor \in User, CreateDraft(e, p, content, actor)
      PROVE  TouchesDraft(e) /\ StaysDraft(e)
  BY <1>2, CreateTouches
<1>3. ASSUME NEW c \in Command, NEW e \in EntryId, NEW actor \in User,
             \/ \E p \in Period, content \in Content :
                  ReadForUpdate(c, e, actor, p, content)
             \/ ReadForSubmit(c, e, actor)
             \/ \E reason \in BOOLEAN : ReadForApprove(c, e, actor, reason)
             \/ ReadForReject(c, e, actor)
      PROVE  UNCHANGED vars
  BY <1>3 DEF ReadForUpdate, ReadForSubmit, ReadForApprove, ReadForReject, Read
<1>4. ASSUME NEW c \in Command, AbandonCommand(c)
      PROVE  UNCHANGED vars
  BY <1>4 DEF AbandonCommand
<1>. QED BY <1>1, <1>2, <1>3, <1>4 DEF ApprovalNext

\* The approval gives one entry the next number, or none.
LEMMA ApprovalNumbers ==
  ASSUME ApprovalInv, ApprovalNext
  PROVE  NumbersAtMostOne
<1>1. NumbersKept
  <2>1. \A e \in Numbered : entry'[e] = entry[e] /\ entry[e] # NULL
    BY CommitsSpareNumbered DEF Numbered, Rows
  <2>. QED BY <2>1 DEF NumbersKept
<1>2. CASE UNCHANGED vars
  BY <1>1, <1>2 DEF vars, NumbersAtMostOne, Numbered, Rows
<1>3. ASSUME NEW e \in EntryId, TouchesDraft(e), StaysDraft(e)
      PROVE  NumbersAtMostOne
  <2>1. Numbered' = Numbered
    BY <1>3 DEF TouchesDraft, StaysDraft, Numbered, Rows
  <2>. QED BY <1>1, <1>3, <2>1 DEF StaysDraft, NumbersAtMostOne
<1>4. ASSUME NEW e \in EntryId, IsApproved(e)
      PROVE  NumbersAtMostOne
  BY <1>1, <1>4 DEF IsApproved, NumbersAtMostOne
<1>. QED BY <1>2, <1>3, <1>4, ApprovalTouches

\* Drafts have no key, so they take none from an entry and give none up.
LEMMA TouchKeepsKeys ==
  ASSUME Keys, LinksAgree, AnswersKeepKey, NEW e \in EntryId, TouchesDraft(e)
  PROVE  Keys' /\ LinksAgree' /\ AnswersKeepKey'
<1>1. /\ Rows' = Rows \cup {e}
      /\ \A f \in Rows :
           /\ entry'[f].src = entry[f].src
           /\ entry'[f].mirrors = entry[f].mirrors
           /\ entry'[f].reversedBy = entry[f].reversedBy
           /\ (entry'[f].status = "Reversed") = (entry[f].status = "Reversed")
      /\ e \notin Rows =>
           /\ entry'[e].src = <<"manual", NULL>>
           /\ entry'[e].mirrors = NULL
           /\ entry'[e].reversedBy = NULL
           /\ entry'[e].status # "Reversed"
  BY DEF TouchesDraft, Rows
<1>2. UniqueSource'
  BY <1>1 DEF Keys, UniqueSource
<1>3. FreedKeysNameOwner'
  BY <1>1 DEF Keys, FreedKeysNameOwner
<1>4. MirrorsAreKeyed'
  BY <1>1 DEF Keys, MirrorsAreKeyed, IsClosing
<1>5. LinksAgree'
  BY <1>1 DEF LinksAgree
<1>6. AnswersKeepKey'
  BY <1>1 DEF AnswersKeepKey, TouchesDraft
<1>. QED BY <1>2, <1>3, <1>4, <1>5, <1>6 DEF Keys

\* The trail of drafts and approvals says nothing of reversals, and an entry that
\* got its number from an approval has the event of the approval.
LEMMA TouchKeepsTrail ==
  ASSUME Trail, NEW e \in EntryId, TouchesDraft(e), StaysDraft(e) \/ IsApproved(e)
  PROVE  Trail'
<1>1. /\ \A f \in EntryId \ {e} : entry'[f] = entry[f]
      /\ audit \subseteq audit'
      /\ \A rev, f \in EntryId :
           <<"entry.reversed", rev, f>> \in audit' <=> <<"entry.reversed", rev, f>> \in audit
  BY DEF TouchesDraft
<1>2. /\ entry'[e] # NULL
      /\ entry'[e].status # "Reversed"
      /\ entry[e] # NULL => entry[e].status # "Reversed"
  BY DEF TouchesDraft
<1>3. TrailIsTrue'
  BY <1>1, <1>2 DEF Trail, TrailIsTrue, Rows
<1>4. \A f \in Rows' : entry'[f].status = "Reversed" <=>
        \E rev \in EntryId : <<"entry.reversed", rev, f>> \in audit'
  <2>1. CASE entry[e] = NULL
    BY <1>1, <1>2, <2>1 DEF Trail, TrailIsTrue, AuditTellsJournal, Rows
  <2>2. CASE entry[e] # NULL
    BY <1>1, <1>2, <2>2 DEF Trail, AuditTellsJournal, Rows
  <2>. QED BY <2>1, <2>2
<1>5. \A f \in Numbered' :
        \/ <<"entry.posted", f, NULL>> \in audit'
        \/ <<"entry.approved", f, NULL>> \in audit'
        \/ \E g \in EntryId : <<"entry.reversed", f, g>> \in audit'
  <2>1. e \in Numbered' => <<"entry.approved", e, NULL>> \in audit'
    BY DEF StaysDraft, IsApproved, Numbered
  <2>2. \A f \in Numbered' \ {e} : f \in Numbered
    BY <1>1 DEF Numbered, Rows
  <2>. QED BY <1>1, <2>1, <2>2 DEF Trail, AuditTellsJournal
<1>. QED BY <1>3, <1>4, <1>5 DEF Trail, AuditTellsJournal

\* Everything that holds of the journal alone holds beside the approval.
LEMMA ApprovalKeepsJournal ==
  ASSUME ApprovalInv, ApprovalInv', LedgerInv, ApprovalNext
  PROVE  LedgerInv'
<1>1. /\ TypeOK
      /\ TypeOK'
      /\ OriginalsExist'
  BY DEF ApprovalInv, ApprovalTypeOK
<1>2. GaplessNumbering'
  BY <1>1, ApprovalNumbers, NumberingStep DEF LedgerInv
<1>3. Keys /\ AnswersKeepKey /\ LinksAgree /\ Trail
  BY DEF LedgerInv, Keys, ReversalsPairUp, LinksAgree, Trail
<1>4. Keys' /\ AnswersKeepKey' /\ LinksAgree' /\ Trail'
  <2>1. CASE UNCHANGED vars
    BY <1>3, <2>1
       DEF vars, Keys, UniqueSource, FreedKeysNameOwner, MirrorsAreKeyed, LinksAgree,
           AnswersKeepKey, Trail, AuditTellsJournal, TrailIsTrue, Rows, Numbered
  <2>2. ASSUME NEW e \in EntryId, TouchesDraft(e), StaysDraft(e) \/ IsApproved(e)
        PROVE  Keys' /\ AnswersKeepKey' /\ LinksAgree' /\ Trail'
    BY <1>3, <2>2, TouchKeepsKeys, TouchKeepsTrail
  <2>. QED BY <2>1, <2>2, ApprovalTouches
<1>5. ReversalsPairUp'
  BY <1>1, <1>4, KeysPairUpNext
<1>. QED BY <1>1, <1>2, <1>4, <1>5 DEF LedgerInv, Keys, Trail

\* A step of the journal beside the approval is a step of the journal.
LEMMA EitherStep ==
  ASSUME [ApprovalNext \/ (Next /\ UNCHANGED approvalVars)]_allVars
  PROVE  ApprovalNext \/ [Next]_vars
  BY DEF allVars

\* The journal's invariant holds with drafts being written, submitted, approved and
\* rejected between any two steps of it: numbers without gap or duplicate, keys and
\* reversals unique, and a trail that tells who got a number and how.
THEOREM JournalSoundBesideApprovals == ApprovalSpec => []LedgerInv
<1>1. ApprovalInit => LedgerInv
  BY LedgerInit DEF ApprovalInit
<1>2. ApprovalInv /\ ApprovalInv' /\ LedgerInv
        /\ [ApprovalNext \/ (Next /\ UNCHANGED approvalVars)]_allVars => LedgerInv'
  BY EitherStep, ApprovalKeepsJournal, LedgerStep
<1>. QED BY <1>1, <1>2, ApprovalCorrect, PTL DEF ApprovalSpec

\* A step of either numbers at most one entry.
LEMMA EitherNumbers ==
  ASSUME ApprovalInv, [ApprovalNext \/ (Next /\ UNCHANGED approvalVars)]_allVars
  PROVE  NumbersAtMostOne
<1>1. TypeOK /\ OriginalsExist
  BY DEF ApprovalInv, ApprovalTypeOK
<1>. QED BY <1>1, EitherStep, ApprovalNumbers, NumbersStep

\* The approval closes no period, so a step of either closes at most one.
LEMMA EitherCloses ==
  ASSUME ApprovalInv, [ApprovalNext \/ (Next /\ UNCHANGED approvalVars)]_allVars
  PROVE  /\ ClosesAtMostOne
         /\ \A p \in Period : period[p].status = "HARD_CLOSED"
                                => period'[p].status = "HARD_CLOSED"
<1>1. TypeOK
  BY DEF ApprovalInv, ApprovalTypeOK
<1>2. CASE ApprovalNext
  <2>1. UNCHANGED period
    BY <1>2, ApprovalTouches DEF TouchesDraft, vars
  <2>. QED BY <2>1 DEF ClosesAtMostOne, Closed, Sealed
<1>3. CASE [Next]_vars
  BY <1>1, <1>3, ClosingStep, HardClosedIsTerminal
<1>. QED BY <1>2, <1>3, EitherStep

\* HARD_CLOSED is final for the approval too: an approval that saw the period open
\* numbers nothing in it once it is closed for good.
THEOREM HardCloseSealsApprovals == ApprovalSpec => HardCloseSeals
<1>1. ApprovalInv /\ [ApprovalNext \/ (Next /\ UNCHANGED approvalVars)]_allVars =>
        [\A p \in Period : period[p].status = "HARD_CLOSED" =>
           /\ period'[p].status = "HARD_CLOSED"
           /\ EntriesOf(p)' = EntriesOf(p)]_vars
  BY EitherNumbers, EitherCloses, SealedStep
<1>. QED BY <1>1, ApprovalCorrect, PTL DEF ApprovalSpec, HardCloseSeals

\* A draft approved in a period that was closed before carries its remark, whatever
\* happened to the period between the read of the approver and the transaction.
THEOREM LateApprovalsAreMarked == ApprovalSpec => LateRecordsSaySo
<1>1. ApprovalInv /\ [ApprovalNext \/ (Next /\ UNCHANGED approvalVars)]_allVars =>
        [\A e \in EntryId :
           e \in Numbered' \ Numbered /\ period[entry'[e].period].closedAt
             => entry'[e].late]_vars
  BY EitherNumbers, LateStep
<1>. QED BY <1>1, ApprovalCorrect, PTL DEF ApprovalSpec, LateRecordsSaySo

\* The journal with its approvals implements the auditor's book: an approval records
\* one line at the end of the book of the year, and drafts are not in it.
THEOREM ApprovalsKeepTheBook == ApprovalSpec => KeepsTheBook
<1>1. LedgerInv /\ LedgerInv' /\ ApprovalInv
        /\ [ApprovalNext \/ (Next /\ UNCHANGED approvalVars)]_allVars
        => [AuditorsBook!Next]_AuditorsBook!vars
  BY EitherNumbers, EitherCloses, BookStep DEF LedgerInv
<1>2. ApprovalInit => AuditorsBook!Init
  BY BookInit DEF ApprovalInit
<1>. QED BY <1>1, <1>2, ApprovalCorrect, JournalSoundBesideApprovals, PTL
         DEF ApprovalSpec, KeepsTheBook, AuditorsBook!Spec
=============================================================================

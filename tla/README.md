# A verified model of Luminaris' accounting core

Luminaris is a multi-tenant business system: an Express/Prisma server
(`src/server`) over one SQLite database, and a Next.js client (`src/my-app`). Its
core is double-entry accounting. This directory models that core in TLA+, checks
it with TLC and proves the central results with TLAPS.

## 1. The system

Every writer goes through `prisma.$transaction` on SQLite (WAL, one writer). A
transaction is therefore one atomic step; what a handler awaits *before* it is
not part of it and may be stale when the transaction runs. Almost every defect
this project looks for lives in that gap.

| Component | State | Operations | Talks to | What makes it correct |
|---|---|---|---|---|
| Journal posting (`PostingService`) | `journal_entries`, `postings`, `journal_entry_sequences` | `postEntry`, `reverseEntry` | periods (gate), audit (same tx) | gapless numbers, one entry per business key, a reversal pairs with its original |
| Periods (`PeriodService`) | `accounting_periods` | seed, open, soft close, hard close, reopen | journal reads it | transitions are compare-and-set; HARD_CLOSED is terminal; no entry enters a closed period |
| Exercise closing | closing entries | `closeExercise`, reopening by reversal | journal | one closing per exercise |
| Entry approval (`EntryApprovalService`) | drafts: version, authors, `contentHash` | create, update, submit, approve, reject | journal (number, audit), periods | the checker approves what was submitted, is not the maker, and a posted entry is immutable |
| Bank reconciliation | statements, lines, matches, entry status | import, auto/manual match, unmatch, ignore, delete | journal status, reversals | a line is explained exactly, a leg once, Reconciled is derived |
| Audit trail (`AuditService`) | `audit_events`, chain head | append, verify | every writer | the trail tells what happened, hash-chained |
| Payables and receivables | documents, payments, claims | create, pay, cancel, reconcile | journal, audit | a payment is posted once, never lost, never over the balance |
| Sales and their accounting sync (bridges, reconcile job, pending items) | rows of sales, one watermark, `reconcile_pending_items` | finalize, pay, cancel, return; rounds; rescan | journal | what a sale owes the journal is booked, in a window or captured; it is booked in the end |
| Fiscal documents (`FiscalDocument*Service`, `NfceContingenciaService`, `FiscalNumberVoidService`) | documents, attempts, numbers, contingency, orphans, voids, pending attachments | emit, consult, resend, cancel, go off-line, void; tick | tax office | the program believes no more than the office holds; no second note of a sale is lost sight of |
| Collection, bank settlement, inventory, assets, taxes, deliveries | own tables | CRUD, poll, post | journal | their postings are idempotent |
| Packages, sales, dynamic tables, kits | prepaid balances, rows, versions | consume, expire, install | journal, sync | balances never go negative |
| Chat, documents, analytics, CRM, payroll, FX, schedulers, web client | own tables | mostly reads and records | - | little concurrent state |

The hard behaviour, per hazard and line, is listed in `PROJECT.json`.

## 2. The modules

```
Book            abstract: what an auditor is promised
  ^ refined by
Ledger          PostingService + PeriodService + their repositories   LedgerProofs
  ^ extended by
EntryApproval   EntryApprovalService, over the steps of the journal   EntryApprovalProofs
Reconciliation  statements and matches, over the same                 ReconciliationProofs

over the journal as the theorems of Ledger guarantee it:
PayableSettlement   PayableService                                    PayableProofs
SaleSync            sales, their bridges, the reconcile job and items SaleSyncProofs

FiscalDocument      NFC-e between the program and the tax office      FiscalProofs
                                                                      FiscalTrackingProofs
```

**Book** (no code of its own) is the promise to an auditor: per fiscal year a
sequence of records that only grows by one record at a time, each record in a
period, marked if that period had been closed before; periods that were closed
stay known as closed; a sealed period takes no more records.

**Ledger** models one accounting scope (`userId`, `unitId`; scopes share no rows).
- `period` is `accounting_periods` (status, and whether `closedAt` was written);
  `entry` is `journal_entries`; `last` is `journal_entry_sequences`; `audit` is the
  set of facts in the trail; `job` holds the in-flight handlers, one per
  `Request`, with the await each resumes from and what it read;
  `answers` is a history variable: what `postEntry` returned to whom.
- `postEntry` is `PostPreflight` (period gate), `PostLookup` (idempotency read),
  `PostCommit` (the transaction) or `PostConflict` and `PostRefetch` (the unique
  index refuses, the catch block answers with the winner). `reverseEntry` is
  `ReversePreflight`, `ReverseRead`, `ReverseCommit`. A transition of a period is
  `PeriodRead` and `PeriodCommit`.
- `Abandon` is everything that ends a handler without effect: validation, a gate
  inside the transaction, a lost compare-and-set, a rollback, a dead process.
  Nothing is volatile but `job`, so a crash of the server is an `Abandon` of each
  handler, in any order.
- Business keys are the three shapes that behave differently: a manual entry (NULL
  `sourceId`, distinct from itself in SQLite), an automatic writer's key, and the
  year of a closing; and those reversals create or rename.
- Abstracted: accounts, amounts and dimensions of the legs (checks that can only
  refuse; the balance of an entry is checked on its own input), permissions,
  texts. Rows are never deleted by the code.

**EntryApproval** adds the maker-checker commands and their columns (`draft`).
A command is a read with its checks, and a transaction whose compare-and-set is on
`version` alone; everything else it writes comes from the read. Client versions:
`expectedVersion` is compared in the transaction only, never with what the command read
(EntryApprovalService.ts:135, 186, 240). The model assumes an honest client, one that sends a version it was
shown: an older one than the row's loses, so it sends the row's at the time of the read. A client that
guesses a version ahead of the row's is outside the model. The hash is the tuple it is
computed over (sha256 taken as injective).

**Reconciliation** adds statements, lines, matches and the bank legs of entries
(`moves`). Each operation re-reads in its transaction what it depends on
and is one step; the journal's handlers keep their steps. Audit events of matches and
texts are left out. `AutoMatch` matches one line per step: the code commits a
batch of lines in one transaction, whose outcome is that of the lines in order.
`Candidates` are the legs the matcher would take; it links a line that has exactly one.
An entry has one leg on an account that it moves.

**PayableSettlement** models accounts payable, where sub-ledger and journal are
written by different transactions.
- `title` is `payables` (status, `paidCents`; CANCELLED stands for `deletedAt`, which
  the code always writes with it), `payment` is `payable_payments`, `call` is where
  each request or pass is between two awaits. `journal` is one entry per source key,
  with what the theorems of Ledger guarantee: posted once however often it is asked
  for (`UniqueSource`, `IdempotentAnswers`), reversed once (`ReversalsPairUp`). Keys of
  titles and payments are ordinary keys, never those of a closing.
- `registerPayment` is `Claim` (the conditional update), `Mint` (the payment row),
  `PostSettlement`, `FinalizeSettlement`, or `Revert` when the row or the posting threw;
  `createPayable` is `CreateTitle`, `PostRecognition` or `Compensate`; `cancelPayment` is
  `CancelPayment` (reads), `ReverseSettlement`, `ReleaseSettlement` or `AlreadyUnpaid`;
  `cancelPayable` is `VoidTitle` (reads), `ReverseRecognition`, `CancelTitle`. A read and the
  conditional write that checks the same again are one step.
- A posting may throw although its key is posted: `postEntry` gates the period before
  it looks the key up. So `Revert` and `Compensate` are possible whatever the journal holds.
- `reconcilePayables` takes the rows one by one: `FindTitle` and `RedriveRecognition`;
  `FindPayment`, `RedriveSettlement`, `FinalizeRedriven`. What it read may be stale when it acts.
- Abstracted: accounts and methods, withholding (a title here is worth what is paid
  for it in cash), stock and fixed assets, unique document numbers, audit events.

**SaleSync** models how a sale reaches the journal: the row first, then, best-effort, a bridge.
- `sale` is the row (status, paid, `updatedAt`), `entry` one journal entry per effect
  (revenue, settlement, return; `postEntry` is idempotent by key, `reverseEntry` by original),
  `pending` the captured items, `watermark` the cursor of the job, `handler` and `round` what each HTTP
  handler and each round holds between awaits.
- A handler writes the row (`FinalizeSale`; `CheckFinalized`, `ReadForWrite`, `WriteMerged` for
  a payment, a cancellation and a return: the merge of `updateTableData` is over a row read before
  the write, so two of them may overwrite each other) and then calls its bridge (`BookFinalized`, `BookSettled`,
  `ReverseFinalized` and `ReverseSettled`, `BookReturned`). `HandlerStops` is a swallowed error or a crash at any await.
- A round is `OpenRound` (the watermark, then the clock), `ListFinalized`, the four passes over
  sales in their order, each item tried (`TryToBook`, `TryToReverse` and `ReverseOther`, `TryToSettle`)
  or failed (`ItemFails`), then reported (`ReportResolved`, `Capture`, `CaptureFails`), and `CloseRound`, which moves the
  watermark unless a capture failed. `RoundDies` anywhere.
- `rescan` is the core of a pass over one item (`Rescan`, `RescanCancelled`, `RescanReverse`), then
  `RescanResolve`. The core does not look at what the sale has become.
- `updatedAt` is stamped by the client before the commit: `Skew` bounds how long before, and the
  code relies on it being within `OVERLAP_MS` (`SyncAssumption`; accountingSyncReconcile.job.ts:277-283).
- Abstracted: amounts, cost of goods and packages (passes of the same shape), sales without a unit.

**FiscalDocument** models the notes (NFC-e) of a series between this program and the tax office. No
call to the office is inside a transaction: a task (request or job) reads, calls, and writes what
it was told under a guard on the status (`whenStatusIn`).
- `document`, `notes` (attempts, with the count of consultations that did not find them), `orphan`,
  `attachment`, `provenance`, `sequence`, `void` and `contingency` are the tables of the same names;
  `office` is what SEFAZ holds (external: a number is authorized once and never after it was
  voided; requests whose caller gave up may still arrive, `LateNote`); `task` is what each worker does next.
- Emission is `Emit` (or `EmitOffline`, `EmitUnsigned`), `ReceiveNote`, and what becomes of the answer
  (`ApplyAuthorized`, `ApplyRejected`, `ApplyNotFound`, `DropAnswer`) or of its loss (`SessionExpired`,
  `OfflineFails`, `EnterContingency`, `SendFails` and `KeepSent`). Consultations are `StartAsk` by an operator, `ListPending` and
  `PollNote` by the poll, then `AskNote`, where `Counted` says which of the misses are counted; any number of them may be in flight for one note;
  resending is `CheckResend`, `Resend`; a cancellation `StartCancel`, `CancelNote`, `MarkCancelled`, `RetireSource`.
- The tick is `Transmit` and, for orphans, `StartOrphan`, `AskOrphan`, then `Substitute` or `VoidOrphan`, and `CloseOrphan`.
  A voiding is `VoidNumber`, `SendVoid` or `VoidUnanswered`, `ApplyVoid`.
- Assumed of the timeouts (in `StartOrphan`): a request whose caller gave up (30 s) reaches the office within the two minutes an
  orphan waits before it is resolved (`DFE_POLL_AFTER_MS`), or never. Nothing is assumed of how long consultations,
  answers or people take, nor of how many processes run the tick: two consultations may count the same miss, and a note may be
  resent while answers about its earlier attempts are awaited, as the code compares no attempt when it applies one.
- Abstracted: payloads, signatures, NFS-e and NF-e events, values. A cancelled sale may be
  emitted again, as a new row: another element of `Doc`.

The modules **...Proofs** hold the theorems about the module on their line (`EntryApprovalProofs` and
`ReconciliationProofs` extend `LedgerProofs`, and `FiscalTrackingProofs` extends `FiscalProofs`); the modules **MC...** instantiate the others for TLC.

Definitions named as mutants ("Mutant: ...") are not part of any specification: each
is a plausible bug of the definition it precedes, kept to show that the properties
tell the difference.

## 3. What TLC checks

All runs are exhaustive. Entries, requests, commands, periods with their years and files are
symmetric where the configuration says so; the properties name none of them. Over the
journal some handler can always start, so deadlock is left checked. Payables, sales and notes do come to
rest (no id, instant or attempt left), so there it is not.

| Run | Bounds | Shows |
|---|---|---|
| `ledger` | 3 entries, 1 period, 1 automatic key, 2 handlers | `LedgerInv` (type, gapless numbers, unique keys, reversals in pairs, same answer to every caller, trail), `HardCloseSeals`, `LateRecordsSaySo`, refinement of Book |
| `approval` | 1 entry, 2 periods in 2 years, 2 commands, 1 journal handler, owner and delegate, 4 versions | frozen content, segregation of duties, numbers only when posted, immutability; a draft re-dated against approval and closing; refinement of Book |
| `reconciliation` | 2 entries, 2 banks, 2 statements, 2 files (an inflow of 2, an outflow of 1), 1 handler; entries that move 1 or 2 on one bank, or 1 between the two | sound links, Reconciled anchored in the bank, no line matched over, Reversed final |
| `payables` | 1 title of 2 cents, 1 payment, 2 requests, 1 pass | the balance stays within the title, status agrees with it, a cancelled title stays so; passes settle, book and recognize what a request left behind |
| `sale_sync` | 1 sale, 1 handler, 1 round, 3 instants, overlap and skew of 1 | nothing owed leaves the window uncaptured, items resolved are booked, settlements follow their opening; what was missed is re-driven |
| `fiscal` | 1 sale, 2 operators, 1 job, 2 attempts, 2 misses | the program believes the office, no duplicate is lost sight of, orphans close for what happened to them |
| `fiscal_ends` | 1 sale, 1 operator, 1 job, 2 attempts, 2 misses, crashes | off-line notes leave contingency and an automatic contingency ends |
| `ledger_closing`, `reconciliation_reversed`, `payables_sum`, `sale_sync_cancelled`, `fiscal_overwritten` | near their base run; `payables_sum` has 2 payments | statements of the code's own comments that the code does not keep (section 4) |

Why the bounds suffice. Two concurrent handlers are the smallest number that races, and
every check the code makes compares one handler's stale read with one other commit;
three entries are an original, its mirror and a mirror of the mirror or a rival; two periods in two years separate counters
and allow a change of date; four versions are create, submit, approve with one command lost, or create, edit, submit, reject.
Titles, sales and documents share nothing but the sequence and the contingency of the unit, so one is enough. Three instants
hold a write in front of a window, in it, and a round after it. Two attempts are the normal note and
the off-line note that replaces it, or a note and its resend (all three in the larger instances below); the code's five misses only make a longer count.
The caps in guards are `MaxVersion`, `MaxTime` and `MaxTry`; all else is bounded by the sets. The theorems of section 5 remove
the bounds for every property they state.

Larger instances that take longer than a regression should were run once, without an error: two
overlapping rounds and two handlers of `SaleSync` (14,482,525 states), one round with a fourth instant; `FiscalDocument` with three attempts: one operator,
the job and crashes (780,992 states), two operators alone with one miss (106,154), and `ContingencyEnds` without crashes and with one miss (215,681); payables with 2 payments, 2 requests and 2 passes (safety),
and 2 payments, 1 request and 1 pass (liveness); approval of two entries in one year, and with two contents.

Fairness. The safety properties assume none: the code offers no guarantee that a handler
finishes, a request may die.
- `payables` assumes nothing of requests and strong
fairness of each step of a pass for each row: somebody keeps calling
`POST /payables/reconcile` (only that route runs it, no scheduler does), and a row that
is tried over and over is not refused for ever, that is, its period is open in the end
and the database answers. Weak fairness would not do, as a pass that throws or dies
starts over. The code itself tolerates refusals by going on with the next row.
- `sale_sync` assumes weak fairness of each round as a whole: `AccountingSyncScheduler` starts one at every
interval. Handlers may stop for ever and booking may fail for ever. `MissedIsRedriven` is conditional on
`RoundsRecover`, that from some moment on rounds do not die and captures do not fail.
- `fiscal_ends` assumes that a call in flight ends (every call has a timeout), and strong fairness of the tick
for each off-line note and orphan: `DfePollScheduler` visits all of them at each interval. `ContingencyEnds`
is conditional on `Recovers`: from some moment on the office answers, nothing dies and the operator
leaves the contingency alone.

## 4. Where the code and its comments disagree

- **Two closings in force** (`OneClosingPerExercise`). Close the year, reopen by
  reversing, close again, reverse the first reversal: the legs of both closings are in force.
- **A reconciled entry reversed** (`ReconciledNeverReversed`). The status is not read
  again in the transaction of the reversal.
- **Cents given back twice** (`PaidIsSumOfActive`). A title of 2 has a payment of 1. A second
  payment of 1 is claimed and minted; it is cancelled before it is posted, which gives
  its cent back; its posting then fails, and `revertClaim` gives the cent back again. The
  title is OPEN with nothing paid under an active payment of 1, and can be paid 2 more.
- **A cancelled sale booked** (`CancelledGetsReversed`). The revenue of a sale fails and is captured; the sale is cancelled, its
  bridge and the rounds find nothing to reverse; a person rescans the item, and the revenue of a
  Cancelled sale is booked, with no window and no item that would take it out.
- **An authorized note overwritten** (`AuthorizedIsKept`). An emission waits; an operator consults and the note is
  authorized; the emission times out and `enviarTentativa` writes SENT over it. Further consultations
  find AUTHORIZED and fail on the unique pending attachment: the document stays SENT.

Seen in the same models and kept as prose:
- A late answer rejects the wrong attempt. Two consultations of one note are in flight, the poll and an operator's, and both find that the
  last miss is missing (217). The first rejects the note as not received; the operator resends it, attempt 2, and the office authorizes it.
  The second then writes REJECTED over the SENT of attempt 2, as `applyResult` checks the status and
  no attempt (FiscalDocumentLifecycleService.ts:1070-1077), and the AUTHORIZED of attempt 2 is dropped by its guard
  (dfeEnvio.ts:84-92). The office holds an authorized note under a REJECTED document, in spite of
  "resultado automático velho não sobrescreve o status gravado durante a consulta"
  (staleResult.integration.test.ts:67). TLC finds it in 12 states if asked for "no note of a REJECTED document is authorized", which
  therefore is not a property here. It does not make a second note: a further resend keeps
  the number, which the office authorizes once.
- A closing may be mirrored twice: a reverser that read it as Posted waits while it is reversed and its mirror
  is reversed too, which renames the mirror's key; the waiting reverser finds its key free, although
  "@@unique blocks a second reversal" (PostingService.ts:746-747).
- A cancellation that read the document before its provenance was linked retires nothing, and the
  provenance stays alive in a cancelled document; the guard of `drainOne`
  (FiscalDocumentLifecycleService.ts:1325) covers only the other order.
- A crash between the event of a cancellation and `markCancelled` leaves the document authorized, and
  cancelling again is refused by the office. A void whose answer is lost stays REQUESTED.
- A payment and a cancellation of one sale that read the same row overwrite each other.
- A pass may post a payment whose request is then refused by the period gate and
  reverts: the payment is cancelled and its entry stays in force.
  `registerPayment` says never to revert over a real posting (PayableService.ts:828-829), but
  knows only of its own. Cancelling a payment before its posting commits ends the same way.
- A crash between claim and payment row leaves the title PAYING for good: reconcile goes
  from active payments to titles, and there is no payment.
- `cancelPayable` cancels a title that was claimed after it looked for active payments.
- An in-flight payment that is cancelled and still finalized leaves its title
  PARTIALLY_PAID with nothing paid.
- A late approval appends its remark to the description the frozen hash covers, so
  the hash of the row no longer verifies.
- Importing the first statement of the other bank of a transfer makes a Reconciled
  entry pending on that bank.

## 5. What is proved

**LedgerProofs** rests on `LedgerAssumption` (`YearOf` maps periods to years; NULL is none of the
ids; the three shapes of a closing key are told apart, as a year, a cuid and a
`year:cuid` string are). TLC evaluates it in every run over the journal. Nothing is
assumed of the number of entries, periods, years, keys or handlers.

The argument. Types and the properties are inductive only together
with facts about what handlers hold while they wait: the original of a reversal in flight exists
(`OriginalsExist`, rows are never deleted), a mirror of an ordinary entry is keyed by it
(`MirrorsAreKeyed`), a renamed closing key names the entry that gave it up
(`FreedKeysNameOwner`), an answered key stays where it was (`AnswersKeepKey`), and an
event of a reversal names a reversed entry (`TrailIsTrue`). `LedgerInv` is their conjunction;
`LedgerInit` and `LedgerStep` show that it is inductive. Why no reverser needs to
look twice: the second of two stale reversers would insert a second row with key
`("reversal", e)`, which the unique index refuses, and `MirrorsAreKeyed` says there is no
other kind of mirror. For closing entries there is, which is the finding above and the
reason `ReversalsPairUp` excludes them.

- Every step of the journal (`RowStep`) keeps the rows and either leaves the counters or inserts
  one row with the next number of its year. What the properties need of that is less, and is
  stated apart (`NumbersAtMostOne`, by `NumbersStep`): numbers stay where they are and at most one entry gets one, in
  a period that its transaction found open, marked if that period had been closed. An approval, which numbers a row that exists, satisfies
  it too, so the next lemmas serve the journal alone, with its approvals and with the bank.
- `NumberingStep` turns it into gaplessness, `SealedStep` and `LateStep` (with the
  compare-and-set on periods) into `HardCloseSeals` and `LateRecordsSaySo`.
- `BookStep` is the refinement: the mapping sends the table to the records by number
  (`RecordOf` chooses the holder of a number, unique by `GaplessNumbering`). A number
  given is a record, a transition that closes or seals is a step of the book, all else stutters.

**PayableProofs** rests on `PayableAssumption` (amounts are positive, the ids are told apart,
NULL is no row). `PayableTypeOK` is not inductive: a pass takes a posted payment
up without reading its title, so the title must exist for the finalize that follows.
`PaymentsBelong` says it does, because a payment is minted of a title that the claim found and
no row is deleted. Balance and status are inductive only as a pair (`SoundTitles`): a claim may
raise the balance because no OPEN or PARTIALLY_PAID title is over its amount, and a finalize may
write PAID on `paid >= amount` because the balance says `paid <= amount`. A revert or release
lowers the balance by what it holds, checks the sum against zero and derives the status from it.
Each step is shown to keep the titles (`TitlesKept`: none deleted, none revived, all sound) and
the payments (`PaymentsKept`: none deleted, moved or revalued) and to move one handler
(`Moves`), which is enough for the four theorems; `NoTitleRevives` reads
`TitlesKept` alone.

**EntryApprovalProofs** rests on `LedgerAssumption` and `ApprovalAssumption` and reuses the lemmas of `LedgerProofs`
about rows and original entries. Nothing that is proved of drafts is inductive without what the commands in flight
have read. `VersionsBehind` says that the version a command read is not ahead of the row's, and `CommandsFresh` that
while the versions agree everything else it read still holds (`Fresh`: status, period, content, and the authors, as
far as segregation binds the actor). So the compare-and-set on `version` alone is enough: a command whose version
still matches writes what it checked, which gives `ContentFrozen` and `DutiesSegregated`. The journal's handlers
write rows without raising any version; of the rows there are they touch numbered ones only (`OriginalsNumbered`), and no
fresh command is about one. `NumberedEntriesAreImmutable` follows from the same two facts.

The other direction, that approvals do the journal no harm, is `JournalSoundBesideApprovals`: the whole `LedgerInv` holds of the
composition. A command writes one row without a number (`TouchesDraft`), and such a row holds no key, mirrors
nothing, is nobody's original and is not in the numbering. An approval gives it the next
number (`GetsNumber`): it counts in the year of the period that was *read*, and `Fresh` says that the row is still
dated in it, so the counter of the year and the number of the row agree. `HardCloseSealsApprovals`,
`LateApprovalsAreMarked` and `ApprovalsKeepTheBook` then follow by the lemmas of `LedgerProofs`.

**ReconciliationProofs** rests on `LedgerAssumption` and `ReconciliationAssumption`. Each operation is one transaction, so the
difficulty is not what it read but that five tables must agree: `LinksSound` is inductive with `LinesOfStatements`
(an imported line belongs to a statement with a row) and `MatchesFit` (what is matched is a leg of an
existing entry, on the account of the line, that moves it), and `ReconciledIsAnchored` because an operation that takes a match
away recomputes the status of the entry in the same transaction.

`LinesAreExplained` says of every step that a line gains legs only if it had none, and that they sum up to it. A manual
match checks the sum it is given, which needs nothing of the fold; an automatic one checks the amount of a single leg, and `SingleTotal` unrolls the
fold over that one leg. That the sum stays right for as long as the match lasts needs no induction: `moves` of an existing
entry never changes. `JournalSoundBesideBank` and `BankKeepsTheBook` carry the journal over: all that a bank operation does to a row is
to move the marker between Posted and Reconciled (`OnlyMarks`), never of a Reversed one, and no invariant
of the journal tells these two apart.

**SaleSyncProofs** rests on `SyncAssumption` (the overlap covers the skew of the stamps). That nothing is forgotten is
a statement about the present; a round moves the watermark on what it saw in the past. The invariant
carries it through a round in three forms. `WindowCovers`: what is owed lies in the window the round opened
with, or is captured; it holds when the round opens (`NothingForgotten`) and is kept because a row written later is
stamped later. `ListCovers`: once the list for an effect is made, what is owed of it lies in the window the round will
*leave* (`start - Overlap`), or is captured, or is in hand (still to be tried, or its failure to be captured), or the round
has failed to capture something and will not move the watermark. When nothing is left in hand, this is
`NothingForgotten` for the new watermark. The step between them is `TimesOrdered`: a row that was not in the list
because it is written after it is stamped at most `Skew` before its commit, which the overlap covers. A round that dies
leaves its watermark. `ItemBooked` and `RescanBooked` are what a worker about to resolve an item has
already done, and booked entries are never removed, whoever reopens the item meanwhile.

**FiscalProofs** rests on `FiscalAssumption` and, though it makes no use of the wait of orphans, holds whatever the timing: late
answers cannot make the program believe what is not so. Two things carry the argument. The office only moves forward (`Keeps`: a
note authorized is never unknown again, a cancelled one never revived, attempts keep their numbers), so what a
task was told stays true however late it applies it (`SoundTask`). And a document has its key from
the moment it has its pending attachment, and never another one (`DocSound`): the unique index on attachments, not the guard on the status, is what
refuses a second authorization, so the key a cancellation was asked for is the key the document still has.

**FiscalTrackingProofs** proves that no second note of a sale is lost sight of (`NoLostDuplicate`) and that orphans are closed for
what happened to them (`OrphansClosedRightly`). The one assumption on time is the wait of an orphan (`StartOrphan`).
Neither is inductive, because the answer that decides may be with a worker, on its way to the office or in another table. The
invariant is built in layers over `FiscalInv`, each proved with the ones below it:
- `Numbers`: numbers are drawn in order, no two documents share one, and a resend repeats one of its own document. So
  voiding the number of an orphan touches no other note.
- `Lines`: for each document, what its row says of its attempts (`RowSound`) and what became of each of them (`AttemptsSound`: what is at the
  office or late has its number and is recorded; an orphan is the last attempt that was not off-line). `Numbered` is the part that matters:
  if attempts of a sale have two numbers, one of these is an orphan's. It holds because a new number is drawn only where an attempt becomes an
  orphan or has none yet, and it needs `Together`, that an attempt is emitted by one request, with what that request and a resend know
  of the row (`SendSound`, `ResendSound`). Consultations do not appear in it: whatever they write, they draw no number.
- `Orphans`: what a worker that resolves an orphan has established, step by step (`ResolveSound`), until it is written
  (`OrphanSound`); and that whoever asks for a number to be voided is alone with it (`VoidSound`), so that the answer to a voiding does not
  overwrite another one.
- `Books`: the office authorizes a number once, and never after it was voided; a number homologated here is voided there.

`NoLostDuplicate` follows: two notes alive have two numbers (`Books`), one of them an orphan's (`Numbered`). If that orphan were closed, either it
was cancelled by substitution, and the only note of its number is not alive, or its number is homologated as voided and was never authorized.

`FiscalTypes` follows too. Its bounds are not obvious: that no number exceeds `MaxNumber` rests on counting (every number up to the
sequence is one of at most `MaxTry` attempts of a document, by `Numbers`); that no attempt collects more misses than `MissLimit` is
`Counted`, kept by every answer in flight.

The theorems are listed in `PROJECT.json`; every safety property of the passing runs is stated by one of them. Only
model-checked:

| Only model-checked | Why |
|---|---|
| liveness: `InFlightSettles`, `PaymentsGetBooked`, `TitlesGetRecognized`, `MissedIsRedriven`, `ContingencyEnds` | fairness and `ENABLED` are out of the prover's reach |
| the counterexamples of section 4 | they are behaviours, which TLC exhibits |

What a recursive definition computes is out of its reach too; the one fold of the models (`Total`) is used above without induction.

## 6. Not modelled

- Receivables, collection charges and bank settlement: the saga of payables again, with the roles of
  debit and credit exchanged and a payment provider in place of the office.
- Chart of accounts and dimensions, the legs and amounts of entries, the hash chain of the trail and its verifier:
  the journal is modelled by its rows, numbers, keys and events.
- Of sales: cost of goods, packages and opportunities, whose passes have the shape of those modelled; balances of packages.
- Of fiscal documents: NFS-e substitution, correction letters, returns, the payloads.
- Inventory, fixed assets, taxes, profit distribution, deliveries: arithmetic over tables, short status machines.
- Reports and SPED files (pure reads and formatting), the client, chat and retrieval (external model
  calls), configuration CRUD, payroll, CRM, kits: little concurrent state.
- The implementation has some 280,000 lines, most of them user interface, contracts, reports and tests; the models cover the state
  machines of its accounting core.

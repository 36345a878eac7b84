------------------------------ MODULE SaleSync ------------------------------
(***************************************************************************)
(* How a sale reaches the journal.  The handlers of a sale commit its row  *)
(* first and then, best-effort, call the bridge that books the accounting  *)
(* effect.  What a bridge missed is re-driven by the rounds of             *)
(* accountingSyncReconcile over the rows touched since a trailing          *)
(* watermark, and what a round could not book is captured as a pending     *)
(* item, which a person may have rescanned.                                *)
(*                                                                         *)
(* The journal is reduced to one entry per sale and effect: postEntry is   *)
(* idempotent by (sourceType, sourceId) (Ledger.IdempotentAnswers).        *)
(***************************************************************************)
EXTENDS Naturals, FiniteSets

CONSTANTS
  Sale,      \* rows of the table "sales"
  Handler,   \* in-flight HTTP handlers
  Round,     \* processes that run rounds: the scheduler of a server, a CLI
  NULL,
  Overlap,   \* OVERLAP_MS
  Skew,      \* how long a write may wait for its commit after its updatedAt
  MaxTime    \* bound: instants explored

ASSUME SyncAssumption ==
  /\ Overlap \in Nat /\ MaxTime \in Nat
  /\ Skew \in 0 .. Overlap
  /\ NULL \notin Sale

VARIABLES
  clock,      \* the database's and the servers' time
  sale,       \* the row of each sale, NULL before it is finalized
  entry,      \* entry[s][k]: the journal entry of effect k of sale s
  pending,    \* reconcile_pending_items by sale and source type
  watermark,  \* job_watermarks
  handler,    \* what each in-flight handler does next
  round       \* where each round is

vars == <<clock, sale, entry, pending, watermark, handler, round>>

Status == {"Finalized", "Cancelled", "Returned"}
Row == [status : Status, paid : BOOLEAN]
Effect == {"finalized", "settled", "returned"}
Phase == {"finalized", "cancelled", "returned", "settled"}

Idle == [at |-> "idle"]

\* row: what write.commit will write; settle: the settlement bridge follows.
HandlerState ==
  {Idle}
    \cup [at : {"write.read"}, do : {"pay", "cancel", "return"}, sale : Sale]
    \cup [at : {"write.commit"}, do : {"pay", "cancel", "return"}, sale : Sale, row : Row]
    \cup [at : {"book.finalized"}, sale : Sale, settle : BOOLEAN]
    \cup [at : {"book.settled", "book.returned", "reverse.finalized", "reverse.settled",
                 "rescan.reverse"}, sale : Sale]
    \cup [at : {"rescan.resolve"}, sale : Sale, kind : Phase]

\* paid: the Finalized and Paid rows of the list made at the start; todo: the
\* rows of the phase not reached; item: the row tried last, and how it went.
RoundState ==
  {Idle}
    \cup [at : {"list"} \cup Phase, since : Nat, start : Nat, paid : SUBSET Sale,
          todo : SUBSET Sale, item : Sale \cup {NULL},
          outcome : {"half", "ok", "failed"}, uncaptured : BOOLEAN]

SyncTypeOK ==
  /\ clock \in Nat
  /\ sale \in [Sale -> [status : Status, paid : BOOLEAN, updatedAt : Nat] \cup {NULL}]
  /\ entry \in [Sale -> [Effect -> {"none", "Posted", "Reversed"}]]
  /\ pending \in [Sale -> [Phase -> {"none", "open", "resolved"}]]
  /\ watermark \in Nat
  /\ handler \in [Handler -> HandlerState]
  /\ round \in [Round -> RoundState]

SyncInit ==
  /\ clock = Overlap
  /\ sale = [s \in Sale |-> NULL]
  /\ entry = [s \in Sale |-> [k \in Effect |-> "none"]]
  /\ pending = [s \in Sale |-> [k \in Phase |-> "none"]]
  /\ watermark = 0
  /\ handler = [h \in Handler |-> Idle]
  /\ round = [j \in Round |-> Idle]

-----------------------------------------------------------------------------
Booked(s, k) == entry[s][k] # "none"

\* AccountingSyncService.sync over postEntry: an entry of this key is kept.
Book(s, k) ==
  entry' = [entry EXCEPT ![s][k] = IF @ = "none" THEN "Posted" ELSE @]

\* reverseEntry of the entry found by its source, if there is one.
Unbook(s, k) ==
  entry' = [entry EXCEPT ![s][k] = IF @ = "Posted" THEN "Reversed" ELSE @]

\* dynamicTableData.update: the whole row, and @updatedAt, which the client
\* stamps up to Skew before the commit.
WriteRow(s, row) ==
  \E t \in (clock - Skew) .. clock :
    sale' = [sale EXCEPT ![s] =
      [status |-> row.status, paid |-> row.paid, updatedAt |-> t]]

RowOf(s) == [status |-> sale[s].status, paid |-> sale[s].paid]

Free(h) == handler' = [handler EXCEPT ![h] = Idle]

Becomes(h, next) == handler' = [handler EXCEPT ![h] = next]

-----------------------------------------------------------------------------
(* Handlers *)

\* POST of a sale born Finalized (create), or the PUT that finalizes a draft,
\* which calls no settlement bridge.  Drafts have no accounting effect.
FinalizeSale(h, s, paid, create) ==
  /\ handler[h] = Idle
  /\ sale[s] = NULL
  /\ WriteRow(s, [status |-> "Finalized", paid |-> paid])
  /\ Becomes(h, [at |-> "book.finalized", sale |-> s, settle |-> create /\ paid])
  /\ UNCHANGED <<clock, entry, pending, watermark, round>>

\* maybeSyncSaleFinalized, then (after a POST) maybeSyncSaleSettled.
BookFinalized(h) ==
  /\ handler[h].at = "book.finalized"
  /\ Book(handler[h].sale, "finalized")
  /\ IF handler[h].settle
       THEN Becomes(h, [at |-> "book.settled", sale |-> handler[h].sale]) ELSE Free(h)
  /\ UNCHANGED <<clock, sale, pending, watermark, round>>

\* The bridge swallows its error; the settlement bridge is still called.
MissFinalized(h) ==
  /\ handler[h].at = "book.finalized"
  /\ handler[h].settle
  /\ Becomes(h, [at |-> "book.settled", sale |-> handler[h].sale])
  /\ UNCHANGED <<clock, sale, entry, pending, watermark, round>>

\* Mutant: a settlement without the ordering gate.
BookSettledUngated(h) ==
  /\ handler[h].at = "book.settled"
  /\ Book(handler[h].sale, "settled")
  /\ Free(h)
  /\ UNCHANGED <<clock, sale, pending, watermark, round>>

\* maybeSyncSaleSettled: without the opening entry nothing is cleared.
BookSettled(h) ==
  /\ handler[h].at = "book.settled"
  /\ IF Booked(handler[h].sale, "finalized")
       THEN Book(handler[h].sale, "settled") ELSE UNCHANGED entry
  /\ Free(h)
  /\ UNCHANGED <<clock, sale, pending, watermark, round>>

\* registerPayment, cancel, return_: findDataById and the check of the status.
\* A sale already Paid only has its settlement bridge called again.
CheckFinalized(h, s, do) ==
  /\ handler[h] = Idle
  /\ sale[s] # NULL /\ sale[s].status = "Finalized"
  /\ Becomes(h, IF do = "pay" /\ sale[s].paid
       THEN [at |-> "book.settled", sale |-> s]
       ELSE [at |-> "write.read", do |-> do, sale |-> s])
  /\ UNCHANGED <<clock, sale, entry, pending, watermark, round>>

Patched(row, do) ==
  CASE do = "pay" -> [row EXCEPT !.paid = TRUE]
    [] do = "cancel" -> [row EXCEPT !.status = "Cancelled"]
    [] do = "return" -> [row EXCEPT !.status = "Returned"]

\* updateTableData reads the row again and merges the patch into it; an
\* isSystem write meets no lifecycle guard.
ReadForWrite(h) ==
  /\ handler[h].at = "write.read"
  /\ Becomes(h, [at |-> "write.commit", do |-> handler[h].do, sale |-> handler[h].sale,
                 row |-> Patched(RowOf(handler[h].sale), handler[h].do)])
  /\ UNCHANGED <<clock, sale, entry, pending, watermark, round>>

\* The bridge called after the commit, by what was asked and written.
BridgeOf(do, row) ==
  CASE do = "cancel" -> "reverse.finalized"
    [] do = "return" -> "book.returned"
    [] OTHER -> IF row.status = "Finalized" THEN "book.settled" ELSE "idle"

\* The merged row replaces the one in the table, whatever it has become.
WriteMerged(h) ==
  LET row == handler[h].row  bridge == BridgeOf(handler[h].do, row) IN
  /\ handler[h].at = "write.commit"
  /\ WriteRow(handler[h].sale, row)
  /\ Becomes(h, IF bridge = "idle" THEN Idle
       ELSE [at |-> bridge, sale |-> handler[h].sale])
  /\ UNCHANGED <<clock, entry, pending, watermark, round>>

\* maybeReverseSale of a Cancelled sale: revenue, then settlement.
ReverseFinalized(h) ==
  /\ handler[h].at = "reverse.finalized"
  /\ Unbook(handler[h].sale, "finalized")
  /\ Becomes(h, [at |-> "reverse.settled", sale |-> handler[h].sale])
  /\ UNCHANGED <<clock, sale, pending, watermark, round>>

ReverseSettled(h) ==
  /\ handler[h].at = "reverse.settled"
  /\ Unbook(handler[h].sale, "settled")
  /\ Free(h)
  /\ UNCHANGED <<clock, sale, pending, watermark, round>>

\* maybeReverseSale of a Returned sale: a contra-revenue entry of its own.
BookReturned(h) ==
  /\ handler[h].at = "book.returned"
  /\ Book(handler[h].sale, "returned")
  /\ Free(h)
  /\ UNCHANGED <<clock, sale, pending, watermark, round>>

\* A check that throws, a bridge whose error is swallowed, or a crash.
HandlerStops(h) ==
  /\ handler[h] # Idle
  /\ Free(h)
  /\ UNCHANGED <<clock, sale, entry, pending, watermark, round>>

-----------------------------------------------------------------------------
(* retryOneReconcilePendingItem, called by ReconcilePendingService.rescan *)

\* The core of the item's pass over the row loaded by id: its status and its
\* payment are not looked at.  An attempt that fails only counts in attempts,
\* which is not modelled.
Rescan(h, s, kind) ==
  /\ handler[h] = Idle
  /\ pending[s][kind] = "open"
  /\ kind = "settled" => Booked(s, "settled") \/ Booked(s, "finalized")
  /\ Book(s, kind)
  /\ Becomes(h, [at |-> "rescan.resolve", sale |-> s, kind |-> kind])
  /\ UNCHANGED <<clock, sale, pending, watermark, round>>

RescanCancelled(h, s) ==
  /\ handler[h] = Idle
  /\ pending[s]["cancelled"] = "open"
  /\ Unbook(s, "finalized")
  /\ Becomes(h, [at |-> "rescan.reverse", sale |-> s])
  /\ UNCHANGED <<clock, sale, pending, watermark, round>>

RescanReverse(h) ==
  /\ handler[h].at = "rescan.reverse"
  /\ Unbook(handler[h].sale, "settled")
  /\ Becomes(h, [at |-> "rescan.resolve", sale |-> handler[h].sale, kind |-> "cancelled"])
  /\ UNCHANGED <<clock, sale, pending, watermark, round>>

\* resolvePending and its audit event, in one transaction.
Resolved(s, kind) ==
  pending' = [pending EXCEPT ![s][kind] = IF @ = "open" THEN "resolved" ELSE @]

RescanResolve(h) ==
  /\ handler[h].at = "rescan.resolve"
  /\ Resolved(handler[h].sale, handler[h].kind)
  /\ Free(h)
  /\ UNCHANGED <<clock, sale, entry, watermark, round>>

-----------------------------------------------------------------------------
(* runAccountingSyncReconcile, one round *)

\* findRowsByFieldValueSince
ListedBy(status, since) ==
  {s \in Sale : sale[s] # NULL /\ sale[s].status = status /\ sale[s].updatedAt >= since}

\* withReconcileWatermark: the watermark is read, then the clock.
OpenRound(j) ==
  /\ round[j] = Idle
  /\ round' = [round EXCEPT ![j] =
       [at |-> "list", since |-> watermark, start |-> clock, paid |-> {},
        todo |-> {}, item |-> NULL, outcome |-> "ok", uncaptured |-> FALSE]]
  /\ UNCHANGED <<clock, sale, entry, pending, watermark, handler>>

\* classifiedFinalized: listed once, for the revenue and settlement passes.
ListFinalized(j) ==
  LET listed == ListedBy("Finalized", round[j].since) IN
  /\ round[j].at = "list"
  /\ round' = [round EXCEPT ![j].at = "finalized", ![j].todo = listed,
                            ![j].paid = {s \in listed : sale[s].paid}]
  /\ UNCHANGED <<clock, sale, entry, pending, watermark, handler>>

\* The rows of the pass that follows: Cancelled and Returned ones are listed
\* when their pass begins, Paid ones come from the list of the start.
ListFor(j, phase) ==
  CASE phase = "cancelled" -> ListedBy("Cancelled", round[j].since)
    [] phase = "returned" -> ListedBy("Returned", round[j].since)
    [] phase = "settled" -> round[j].paid

NextPhase(j, from, to) ==
  /\ round[j].at = from
  /\ round[j].todo = {} /\ round[j].item = NULL
  /\ round' = [round EXCEPT ![j].at = to, ![j].todo = ListFor(j, to),
                            ![j].paid = IF to = "settled" THEN {} ELSE @]
  /\ UNCHANGED <<clock, sale, entry, pending, watermark, handler>>

Tried(j, s, outcome) ==
  round' = [round EXCEPT ![j].todo = @ \ {s}, ![j].item = s, ![j].outcome = outcome]

\* reconcileSaleSales, reconcileSaleReturns: an existing entry, whatever its
\* status, is an idempotent hit.
TryToBook(j, s, phase) ==
  /\ round[j].at = phase /\ phase \in {"finalized", "returned"}
  /\ round[j].item = NULL /\ s \in round[j].todo
  /\ Book(s, phase)
  /\ Tried(j, s, "ok")
  /\ UNCHANGED <<clock, sale, pending, watermark, handler>>

\* Mutant: an item without opening entry is passed over, not blocked.
TryToSettleSkips(j, s) ==
  /\ round[j].at = "settled"
  /\ round[j].item = NULL /\ s \in round[j].todo
  /\ IF Booked(s, "finalized") THEN Book(s, "settled") ELSE UNCHANGED entry
  /\ Tried(j, s, "ok")
  /\ UNCHANGED <<clock, sale, pending, watermark, handler>>

\* reconcileSaleSettlements: with no opening entry the item is blocked.
TryToSettle(j, s) ==
  /\ round[j].at = "settled"
  /\ round[j].item = NULL /\ s \in round[j].todo
  /\ IF Booked(s, "settled") \/ Booked(s, "finalized")
       THEN Book(s, "settled") /\ Tried(j, s, "ok")
       ELSE UNCHANGED entry /\ Tried(j, s, "failed")
  /\ UNCHANGED <<clock, sale, pending, watermark, handler>>

\* reconcileSaleCancellations: revenue, then settlement, in two transactions.
TryToReverse(j, s) ==
  /\ round[j].at = "cancelled"
  /\ round[j].item = NULL /\ s \in round[j].todo
  /\ Unbook(s, "finalized")
  /\ Tried(j, s, "half")
  /\ UNCHANGED <<clock, sale, pending, watermark, handler>>

ReverseOther(j) ==
  /\ round[j].at = "cancelled" /\ round[j].item # NULL /\ round[j].outcome = "half"
  /\ Unbook(round[j].item, "settled")
  /\ round' = [round EXCEPT ![j].outcome = "ok"]
  /\ UNCHANGED <<clock, sale, pending, watermark, handler>>

\* An error of the item is isolated: blocked or failed.
ItemFails(j, s) ==
  /\ round[j].at \in Phase
  /\ \/ round[j].item = NULL /\ s \in round[j].todo
     \/ round[j].item = s /\ round[j].outcome = "half"
  /\ Tried(j, s, "failed")
  /\ UNCHANGED <<clock, sale, entry, pending, watermark, handler>>

Reported(j) == round' = [round EXCEPT ![j].item = NULL, ![j].outcome = "ok"]

\* Mutant: a blocked item is resolved too.
ReportAnyResolved(j) ==
  /\ round[j].at \in Phase /\ round[j].item # NULL /\ round[j].outcome # "half"
  /\ \/ Resolved(round[j].item, round[j].at)
     \/ UNCHANGED pending
  /\ Reported(j)
  /\ UNCHANGED <<clock, sale, entry, watermark, handler>>

\* reportResolvedSafely: best-effort.
ReportResolved(j) ==
  /\ round[j].at \in Phase /\ round[j].item # NULL /\ round[j].outcome = "ok"
  /\ \/ Resolved(round[j].item, round[j].at)
     \/ UNCHANGED pending
  /\ Reported(j)
  /\ UNCHANGED <<clock, sale, entry, watermark, handler>>

\* reportPendingSafely: upsertPending creates or reopens the item.
Capture(j) ==
  /\ round[j].at \in Phase /\ round[j].item # NULL /\ round[j].outcome = "failed"
  /\ pending' = [pending EXCEPT ![round[j].item][round[j].at] = "open"]
  /\ Reported(j)
  /\ UNCHANGED <<clock, sale, entry, watermark, handler>>

\* The capture row itself failed to write.
CaptureFails(j) ==
  /\ round[j].at \in Phase /\ round[j].item # NULL /\ round[j].outcome = "failed"
  /\ round' = [round EXCEPT ![j].item = NULL, ![j].outcome = "ok",
                            ![j].uncaptured = TRUE]
  /\ UNCHANGED <<clock, sale, entry, pending, watermark, handler>>

\* Mutant: a capture that failed is ignored.
NextWatermarkForgetsFailures(j) == round[j].start - Overlap
\* Mutant: the overlap taken from the start and again from the result.
NextWatermarkTwiceOverlap(j) ==
  IF round[j].uncaptured THEN round[j].since ELSE round[j].start - Overlap - Overlap

NextWatermark(j) ==
  IF round[j].uncaptured THEN round[j].since ELSE round[j].start - Overlap

CloseRound(j) ==
  /\ round[j].at = "settled"
  /\ round[j].todo = {} /\ round[j].item = NULL
  /\ watermark' = NextWatermark(j)
  /\ round' = [round EXCEPT ![j] = Idle]
  /\ UNCHANGED <<clock, sale, entry, pending, handler>>

\* A listing that throws, or the death of the process: no setWatermark.
RoundDies(j) ==
  /\ round[j] # Idle
  /\ round' = [round EXCEPT ![j] = Idle]
  /\ UNCHANGED <<clock, sale, entry, pending, watermark, handler>>

-----------------------------------------------------------------------------
Tick ==
  /\ clock < MaxTime
  /\ clock' = clock + 1
  /\ UNCHANGED <<sale, entry, pending, watermark, handler, round>>

HandlerNext(h) ==
  \/ \E s \in Sale, paid, create \in BOOLEAN : FinalizeSale(h, s, paid, create)
  \/ BookFinalized(h) \/ MissFinalized(h) \/ BookSettled(h)
  \/ \E s \in Sale, do \in {"pay", "cancel", "return"} : CheckFinalized(h, s, do)
  \/ ReadForWrite(h) \/ WriteMerged(h)
  \/ ReverseFinalized(h) \/ ReverseSettled(h) \/ BookReturned(h)
  \/ \E s \in Sale, kind \in Effect : Rescan(h, s, kind)
  \/ \E s \in Sale : RescanCancelled(h, s)
  \/ RescanReverse(h) \/ RescanResolve(h)
  \/ HandlerStops(h)

RoundStep(j) ==
  \/ OpenRound(j) \/ ListFinalized(j)
  \/ NextPhase(j, "finalized", "cancelled")
  \/ NextPhase(j, "cancelled", "returned")
  \/ NextPhase(j, "returned", "settled")
  \/ \E s \in Sale :
       \/ \E phase \in Phase : TryToBook(j, s, phase)
       \/ TryToSettle(j, s) \/ TryToReverse(j, s) \/ ItemFails(j, s)
  \/ ReverseOther(j)
  \/ ReportResolved(j) \/ Capture(j) \/ CaptureFails(j)
  \/ CloseRound(j)

SyncNext ==
  \/ Tick
  \/ \E h \in Handler : HandlerNext(h)
  \/ \E j \in Round : RoundStep(j) \/ RoundDies(j)

SyncSpec == SyncInit /\ [][SyncNext]_vars

\* AccountingSyncScheduler starts a round at every interval, and a round that
\* was started goes on.  Nothing is assumed of the handlers or of the clients.
SyncFairSpec == SyncSpec /\ \A j \in Round : WF_vars(RoundStep(j))

-----------------------------------------------------------------------------
(* Properties *)

\* What the row of a sale says its books should hold, and do not.
Owed(s, k) ==
  /\ sale[s] # NULL
  /\ ~Booked(s, k)
  /\ CASE k = "finalized" -> sale[s].status = "Finalized"
       [] k = "settled" -> sale[s].status = "Finalized" /\ sale[s].paid
       [] k = "returned" -> sale[s].status = "Returned"

\* "Without weakening the never-skip-an-eligible-row invariant" (header of the
\* job): what a sale still owes the journal is either inside the window of the
\* rounds to come or captured as an open item, whatever rounds overlap, die or
\* fail to capture, and whatever commits late.
NothingForgotten ==
  \A s \in Sale, k \in Effect :
    Owed(s, k) => sale[s].updatedAt >= watermark \/ pending[s][k] = "open"

\* An item is closed only for an effect the journal holds: nobody reads a
\* resolved item whose entry was never booked.
ResolvedIsBooked ==
  \A s \in Sale, k \in Effect : pending[s][k] = "resolved" => Booked(s, k)

\* The settlement clears the receivable that the revenue entry opened, whoever
\* books it: the bridge, a round or a rescan.
SettledAfterOpening ==
  \A s \in Sale : Booked(s, "settled") => Booked(s, "finalized")

\* Rounds no longer die and no longer fail to capture (a step that CloseRound or
\* Capture takes as well is not such a failure).
RoundsRecover ==
  <>[][\A j \in Round : /\ RoundDies(j) => CloseRound(j)
                        /\ CaptureFails(j) => Capture(j)]_vars

\* What the scheduler is for: once the rounds recover, an effect the handlers
\* missed is booked, captured for a person, or no longer due, whatever the
\* clients go on doing and however often booking fails.
MissedIsRedriven ==
  RoundsRecover =>
    \A s \in Sale, k \in Effect : Owed(s, k) ~> ~Owed(s, k) \/ pending[s][k] = "open"

InFlight(s) ==
  \/ \E h \in Handler : handler[h] # Idle /\ handler[h].sale = s
  \/ \E j \in Round : round[j] # Idle

\* "These passes re-drive any transition whose accounting effect failed"
\* (accountingSyncReconcile.job.ts:593): a Cancelled sale whose revenue is still
\* in the books is in the window of the rounds or has an open item.
CancelledGetsReversed ==
  \A s \in Sale :
    /\ sale[s] # NULL /\ sale[s].status = "Cancelled"
    /\ entry[s]["finalized"] = "Posted"
    /\ ~InFlight(s)
    => sale[s].updatedAt >= watermark \/ pending[s]["cancelled"] = "open"
=============================================================================

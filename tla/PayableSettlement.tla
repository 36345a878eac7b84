-------------------------- MODULE PayableSettlement --------------------------
(***************************************************************************)
(* Accounts payable (PayableService and its repository): a title is        *)
(* recognized in the journal when it is created and settled by payments,   *)
(* each booked in the journal too.  Sub-ledger and journal never change in *)
(* one transaction: a request claims, mints, posts and finalizes in        *)
(* separate steps, may fail or crash between any two of them, and          *)
(* reconcilePayables drives again what was left behind.                    *)
(*                                                                         *)
(* The journal is what Ledger guarantees of it: a source key is posted at  *)
(* most once, its reversal at most once, and both answers are idempotent.  *)
(* Titles are plain expenses: no withholding, no stock, no fixed asset.    *)
(***************************************************************************)
EXTENDS Integers, FiniteSetsExt

CONSTANTS
  Title,     \* payable ids
  Payment,   \* payment ids
  AmountOf,  \* amountCents of each title
  Request,   \* in-flight HTTP requests
  Pass,      \* in-flight reconcilePayables passes
  NULL

TitleRow ==
  [status : {"OPEN", "PARTIALLY_PAID", "PAYING", "PAID", "CANCELLED"}, paid : Int]

PaymentRow ==
  [title : Title, cents : Nat \ {0}, status : {"ACTIVE", "CANCELLED"}, linked : BOOLEAN]

ASSUME PayableAssumption ==
  /\ AmountOf \in [Title -> Nat \ {0}]
  /\ Title \cap Payment = {}
  /\ Request \cap Pass = {}
  /\ NULL \notin Title \cup Payment \cup TitleRow \cup PaymentRow

VARIABLES
  title,    \* payables, NULL for an id without a row
  payment,  \* payable_payments, NULL for an id without a row
  journal,  \* the entry of each source key: ap.payable/title, ap.payment/payment
  call      \* where each request or pass is, between two of its steps

payableVars == <<title, payment, journal, call>>

Handler == Request \cup Pass

Idle == [at |-> "idle", title |-> NULL, payment |-> NULL, cents |-> 0]

OnTitle == {"created", "voiding", "voided", "recognizing"}
OnPayment == {"minted", "posted", "unpaying", "unpaid", "redriving", "finalizing"}

CallState ==
  [at : OnTitle \cup OnPayment \cup {"idle", "claimed"},
   title : Title \cup {NULL}, payment : Payment \cup {NULL}, cents : Nat]

\* What a handler holds at each of its steps, of the payments in rows.
Holds(c, rows) ==
  \/ c = Idle
  \/ c.at \in OnTitle /\ c.title # NULL /\ c.payment = NULL
  \/ c.at = "claimed" /\ c.title # NULL /\ c.payment = NULL /\ c.cents > 0
  \/ /\ c.at \in OnPayment /\ c.payment # NULL
     /\ rows[c.payment] # NULL
     /\ rows[c.payment].title = c.title /\ rows[c.payment].cents = c.cents

\* A handler past its first read holds rows that exist.
PayableTypeOK ==
  /\ title \in [Title -> TitleRow \cup {NULL}]
  /\ payment \in [Payment -> PaymentRow \cup {NULL}]
  /\ journal \in [Title \cup Payment -> {"none", "posted", "reversed"}]
  /\ call \in [Handler -> CallState]
  /\ \A h \in Handler : /\ Holds(call[h], payment)
                        /\ call[h].title # NULL => title[call[h].title] # NULL

PayableInit ==
  /\ title = [t \in Title |-> NULL]
  /\ payment = [p \in Payment |-> NULL]
  /\ journal = [k \in Title \cup Payment |-> "none"]
  /\ call = [h \in Handler |-> Idle]

-----------------------------------------------------------------------------
\* CANCELLED and deletedAt are always written together, and the reads of a title
\* leave deleted rows out.
Alive(t) == title[t] # NULL /\ title[t].status # "CANCELLED"

Paying(t) == title[t] # NULL /\ title[t].status = "PAYING"

Active(p) == payment[p] # NULL /\ payment[p].status = "ACTIVE"

ActiveOf(t) == {p \in Payment : Active(p) /\ payment[p].title = t}

\* payableStatusForBalance, for a balance it does not reject.
StatusForBalance(paid, amount) ==
  CASE paid = 0 -> "OPEN" [] paid = amount -> "PAID" [] OTHER -> "PARTIALLY_PAID"

Balanced(paid, t) == 0 <= paid /\ paid <= AmountOf[t]

\* postEntry answers with the entry of the key when there is one.
Post(k) == journal' = [journal EXCEPT ![k] = IF @ = "none" THEN "posted" ELSE @]

\* findEntryBySource, then reverseEntry of what it found.
Reverse(k) == journal' = [journal EXCEPT ![k] = IF @ = "posted" THEN "reversed" ELSE @]

\* Mutant: whatever became of the title meanwhile.
FinalizeBlindly(t, p) ==
  /\ payment' = [payment EXCEPT ![p].linked = TRUE]
  /\ title' = [title EXCEPT ![t].status =
                  IF title[t].paid >= AmountOf[t] THEN "PAID" ELSE "PARTIALLY_PAID"]

\* finalizeIfPaying, inside the transaction that links the payment to its entry.
Finalize(t, p) ==
  /\ payment' = [payment EXCEPT ![p].linked = TRUE]
  /\ title' = IF title[t].status = "PAYING"
                THEN [title EXCEPT ![t].status =
                        IF title[t].paid >= AmountOf[t] THEN "PAID" ELSE "PARTIALLY_PAID"]
                ELSE title

Goto(h, at) == call' = [call EXCEPT ![h].at = at]
Return(h) == call' = [call EXCEPT ![h] = Idle]

-----------------------------------------------------------------------------
(* createPayable *)

\* The row commits on its own, before its recognition is posted.
CreateTitle(r, t) ==
  /\ call[r] = Idle
  /\ title[t] = NULL
  /\ title' = [title EXCEPT ![t] = [status |-> "OPEN", paid |-> 0]]
  /\ call' = [call EXCEPT ![r] = [Idle EXCEPT !.at = "created", !.title = t]]
  /\ UNCHANGED <<payment, journal>>

PostRecognition(r) ==
  /\ call[r].at = "created"
  /\ Post(call[r].title)
  /\ Return(r)
  /\ UNCHANGED <<title, payment>>

\* postEntry threw (a closed period, a busy database), whoever else has posted:
\* compensateFailedRecognition cancels the row without reading it again.
Compensate(r) ==
  /\ call[r].at = "created"
  /\ title' = [title EXCEPT ![call[r].title].status = "CANCELLED"]
  /\ Return(r)
  /\ UNCHANGED <<payment, journal>>

-----------------------------------------------------------------------------
(* registerPayment *)

\* Mutant: the claim checks the status and not the balance.
ClaimAnyAmount(r, t, cents) ==
  /\ call[r] = Idle
  /\ Alive(t)
  /\ title[t].status \in {"OPEN", "PARTIALLY_PAID"}
  /\ title' = [title EXCEPT ![t] = [status |-> "PAYING", paid |-> @.paid + cents]]
  /\ call' = [call EXCEPT ![r] =
       [at |-> "claimed", title |-> t, payment |-> NULL, cents |-> cents]]
  /\ UNCHANGED <<payment, journal>>

\* claimForPayment: balance and status in one conditional write.
Claim(r, t, cents) ==
  /\ call[r] = Idle
  /\ Alive(t)
  /\ title[t].status \in {"OPEN", "PARTIALLY_PAID"}
  /\ title[t].paid + cents <= AmountOf[t]
  /\ title' = [title EXCEPT ![t] = [status |-> "PAYING", paid |-> @.paid + cents]]
  /\ call' = [call EXCEPT ![r] =
       [at |-> "claimed", title |-> t, payment |-> NULL, cents |-> cents]]
  /\ UNCHANGED <<payment, journal>>

\* Mutant: the failure handler is not told of the payment.
MintUntold(r, p) ==
  /\ call[r].at = "claimed"
  /\ payment[p] = NULL
  /\ payment' = [payment EXCEPT ![p] =
       [title |-> call[r].title, cents |-> call[r].cents, status |-> "ACTIVE", linked |-> FALSE]]
  /\ Goto(r, "minted")
  /\ UNCHANGED <<title, journal>>

\* A fresh id each time.
Mint(r, p) ==
  /\ call[r].at = "claimed"
  /\ payment[p] = NULL
  /\ p = CHOOSE q \in Payment : payment[q] = NULL
  /\ payment' = [payment EXCEPT ![p] =
       [title |-> call[r].title, cents |-> call[r].cents, status |-> "ACTIVE", linked |-> FALSE]]
  /\ call' = [call EXCEPT ![r].at = "minted", ![r].payment = p]
  /\ UNCHANGED <<title, journal>>

PostSettlement(r) ==
  /\ call[r].at = "minted"
  /\ Post(call[r].payment)
  /\ Goto(r, "posted")
  /\ UNCHANGED <<title, payment>>

FinalizeSettlement(r) ==
  /\ call[r].at = "posted"
  /\ Finalize(call[r].title, call[r].payment)
  /\ Return(r)
  /\ UNCHANGED journal

\* Mutant: the title comes back as it was when claimed.
RevertToOpen(r) ==
  LET t == call[r].title  p == call[r].payment  paid == title[t].paid - call[r].cents IN
  /\ call[r].at \in {"claimed", "minted"}
  /\ Balanced(paid, t)
  /\ title' = [title EXCEPT ![t] =
       [status |-> IF Alive(t) THEN "OPEN" ELSE @.status, paid |-> paid]]
  /\ payment' = IF p = NULL THEN payment ELSE [payment EXCEPT ![p].status = "CANCELLED"]
  /\ Return(r)
  /\ UNCHANGED journal

\* createPayment or postEntry threw, and revertClaim gives the claim back: the
\* decrement finds a deleted row too; the status follows the balance of a live
\* one.  A balance out of bounds rolls everything back and is logged (Abandon).
Revert(r) ==
  LET t == call[r].title  p == call[r].payment  paid == title[t].paid - call[r].cents IN
  /\ call[r].at \in {"claimed", "minted"}
  /\ Alive(t) => Balanced(paid, t)
  /\ title' = [title EXCEPT ![t] =
       [status |-> IF Alive(t) THEN StatusForBalance(paid, AmountOf[t]) ELSE @.status,
        paid |-> paid]]
  /\ payment' = IF p = NULL THEN payment ELSE [payment EXCEPT ![p].status = "CANCELLED"]
  /\ Return(r)
  /\ UNCHANGED journal

-----------------------------------------------------------------------------
(* cancelPayment *)

CancelPayment(r, p) ==
  /\ call[r] = Idle
  /\ Active(p)
  /\ Alive(payment[p].title)
  /\ title[payment[p].title].paid >= payment[p].cents
  /\ call' = [call EXCEPT ![r] =
       [at |-> "unpaying", title |-> payment[p].title, payment |-> p, cents |-> payment[p].cents]]
  /\ UNCHANGED <<title, payment, journal>>

ReverseSettlement(r) ==
  /\ call[r].at = "unpaying"
  /\ Reverse(call[r].payment)
  /\ Goto(r, "unpaid")
  /\ UNCHANGED <<title, payment>>

\* cancelPaymentIfActive lost: nothing is given back twice.
AlreadyUnpaid(r) ==
  /\ call[r].at = "unpaid"
  /\ ~Active(call[r].payment)
  /\ Return(r)
  /\ UNCHANGED <<title, payment, journal>>

\* cancelPaymentIfActive and releaseSettlement; while a settlement is in flight
\* the status is left to it.  A refusal rolls back (Abandon).
ReleaseSettlement(r) ==
  LET t == call[r].title  p == call[r].payment  paid == title[t].paid - call[r].cents IN
  /\ call[r].at = "unpaid"
  /\ Active(p)
  /\ title[t].status \in {"PARTIALLY_PAID", "PAID", "PAYING"}
  /\ paid >= 0
  /\ Paying(t) \/ paid < AmountOf[t]
  /\ payment' = [payment EXCEPT ![p].status = "CANCELLED"]
  /\ title' = [title EXCEPT ![t] =
       [status |-> IF @.status = "PAYING" THEN "PAYING"
                                          ELSE StatusForBalance(paid, AmountOf[t]),
        paid |-> paid]]
  /\ Return(r)
  /\ UNCHANGED journal

-----------------------------------------------------------------------------
(* cancelPayable *)

VoidTitle(r, t) ==
  /\ call[r] = Idle
  /\ Alive(t)
  /\ title[t].status = "OPEN"
  /\ ActiveOf(t) = {}
  /\ call' = [call EXCEPT ![r] = [Idle EXCEPT !.at = "voiding", !.title = t]]
  /\ UNCHANGED <<title, payment, journal>>

ReverseRecognition(r) ==
  /\ call[r].at = "voiding"
  /\ Reverse(call[r].title)
  /\ Goto(r, "voided")
  /\ UNCHANGED <<title, payment>>

\* The row is cancelled whatever it has become since it was read.
CancelTitle(r) ==
  /\ call[r].at = "voided"
  /\ title' = [title EXCEPT ![call[r].title].status = "CANCELLED"]
  /\ Return(r)
  /\ UNCHANGED <<payment, journal>>

-----------------------------------------------------------------------------
(* reconcilePayables *)

\* Mutant: only OPEN titles are looked at.
FindOpenTitle(w, t) ==
  /\ call[w] = Idle
  /\ Alive(t)
  /\ title[t].status = "OPEN"
  /\ journal[t] = "none"
  /\ call' = [call EXCEPT ![w] = [Idle EXCEPT !.at = "recognizing", !.title = t]]
  /\ UNCHANGED <<title, payment, journal>>

\* A live title, read with the others, whose recognition was not found.
FindTitle(w, t) ==
  /\ call[w] = Idle
  /\ Alive(t)
  /\ journal[t] = "none"
  /\ call' = [call EXCEPT ![w] = [Idle EXCEPT !.at = "recognizing", !.title = t]]
  /\ UNCHANGED <<title, payment, journal>>

RedriveRecognition(w, t) ==
  /\ call[w].at = "recognizing" /\ call[w].title = t
  /\ Post(t)
  /\ Return(w)
  /\ UNCHANGED <<title, payment>>

\* Mutant: what is posted is left alone.
FindUnposted(w, p) ==
  /\ call[w] = Idle
  /\ Active(p)
  /\ journal[p] = "none"
  /\ Alive(payment[p].title)
  /\ call' = [call EXCEPT ![w] =
       [at |-> "redriving", title |-> payment[p].title, payment |-> p, cents |-> payment[p].cents]]
  /\ UNCHANGED <<title, payment, journal>>

\* An ACTIVE payment: posted already, or to be posted when its title is alive.
FindPayment(w, p) ==
  /\ call[w] = Idle
  /\ Active(p)
  /\ \/ journal[p] # "none"
     \/ Alive(payment[p].title)
  /\ call' = [call EXCEPT ![w] =
       [at |-> IF journal[p] = "none" THEN "redriving" ELSE "finalizing",
        title |-> payment[p].title, payment |-> p, cents |-> payment[p].cents]]
  /\ UNCHANGED <<title, payment, journal>>

RedriveSettlement(w, p) ==
  /\ call[w].at = "redriving" /\ call[w].payment = p
  /\ Post(p)
  /\ Goto(w, "finalizing")
  /\ UNCHANGED <<title, payment>>

\* Mutant: the payment is linked and its title left as it is.
LinkRedriven(w, p) ==
  /\ call[w].at = "finalizing" /\ call[w].payment = p
  /\ payment' = [payment EXCEPT ![p].linked = TRUE]
  /\ Return(w)
  /\ UNCHANGED <<title, journal>>

\* Whoever put the title in PAYING.
FinalizeRedriven(w, p) ==
  /\ call[w].at = "finalizing" /\ call[w].payment = p
  /\ Finalize(call[w].title, p)
  /\ Return(w)
  /\ UNCHANGED journal

\* An exception with nothing left to undo, or a crash.
Abandon(h) ==
  /\ call[h] # Idle
  /\ Return(h)
  /\ UNCHANGED <<title, payment, journal>>

-----------------------------------------------------------------------------
RequestStep(r) ==
  \/ \E t \in Title :
       \/ CreateTitle(r, t) \/ VoidTitle(r, t)
       \/ \E cents \in 1 .. AmountOf[t] : Claim(r, t, cents)
  \/ \E p \in Payment : Mint(r, p) \/ CancelPayment(r, p)
  \/ PostRecognition(r) \/ Compensate(r)
  \/ PostSettlement(r) \/ FinalizeSettlement(r) \/ Revert(r)
  \/ ReverseSettlement(r) \/ AlreadyUnpaid(r) \/ ReleaseSettlement(r)
  \/ ReverseRecognition(r) \/ CancelTitle(r)

PassStep(w) ==
  \/ \E t \in Title : FindTitle(w, t) \/ RedriveRecognition(w, t)
  \/ \E p \in Payment :
       FindPayment(w, p) \/ RedriveSettlement(w, p) \/ FinalizeRedriven(w, p)

PayableNext ==
  \/ \E r \in Request : RequestStep(r)
  \/ \E w \in Pass : PassStep(w)
  \/ \E h \in Handler : Abandon(h)

PayableSpec == PayableInit /\ [][PayableNext]_payableVars

\* The operator keeps calling POST /payables/reconcile, and a pass that tries a
\* row again and again gets through (its period is open, the database answers).
\* Nothing is assumed of the requests.
PassFairness ==
  /\ \A w \in Pass, t \in Title :
       SF_payableVars(FindTitle(w, t)) /\ SF_payableVars(RedriveRecognition(w, t))
  /\ \A w \in Pass, p \in Payment :
       /\ SF_payableVars(FindPayment(w, p))
       /\ SF_payableVars(RedriveSettlement(w, p))
       /\ SF_payableVars(FinalizeRedriven(w, p))

FairPayableSpec == PayableSpec /\ PassFairness

-----------------------------------------------------------------------------
(* Properties *)

\* What is settled of a live title is never negative and never more than it
\* owes, whatever claims, reverts and cancellations race for it.
BalanceWithinTitle ==
  \A t \in Title : Alive(t) => Balanced(title[t].paid, t)

\* A status at rest agrees with the balance: an OPEN title has nothing settled,
\* a PAID one everything, a PARTIALLY_PAID one still owes.  Claim, finalize,
\* revert and release write balance and status from reads of different ages.
StatusTellsBalance ==
  \A t \in Title : title[t] # NULL =>
    LET paid == title[t].paid IN
    CASE title[t].status = "OPEN" -> paid = 0
      [] title[t].status = "PAID" -> paid = AmountOf[t]
      [] title[t].status = "PARTIALLY_PAID" -> paid < AmountOf[t]
      [] OTHER -> TRUE

\* No late finalize, revert or release brings a cancelled title back to life.
CancelledIsFinal ==
  [][\A t \in Title :
       title[t] # NULL /\ ~Alive(t) => title'[t] # NULL /\ title'[t].status = "CANCELLED"]_payableVars

\* A title does not stay PAYING under an active payment, wherever the request
\* that claimed it stopped: the passes finalize it.
InFlightSettles ==
  \A t \in Title :
    (Paying(t) /\ ActiveOf(t) # {}) ~> (~Paying(t) \/ ActiveOf(t) = {})

\* An active payment of a live title ends up in the journal and linked to its
\* entry, unless it is cancelled or its title is.
PaymentsGetBooked ==
  \A p \in Payment :
    Active(p) ~> \/ ~Active(p)
                 \/ ~Alive(payment[p].title)
                 \/ payment[p].linked /\ journal[p] # "none"

\* A title is recognized in the journal or cancelled.
TitlesGetRecognized ==
  \A t \in Title : Alive(t) ~> (~Alive(t) \/ journal[t] # "none")

\* PayableService.ts:716: paidCents is the atomic cache of the sum of the ACTIVE
\* payments, once no settlement is in flight.
PaidIsSumOfActive ==
  \A t \in Title :
    Alive(t) /\ ~Paying(t) =>
      title[t].paid = MapThenSumSet(LAMBDA p : payment[p].cents, ActiveOf(t))
=============================================================================

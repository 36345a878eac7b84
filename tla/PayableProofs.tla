---------------------------- MODULE PayableProofs ----------------------------
(***************************************************************************)
(* Proofs about PayableSettlement, for every set of titles, amounts,       *)
(* payments and concurrent requests and reconcilePayables passes.          *)
(***************************************************************************)
EXTENDS PayableSettlement, TLAPS

\* BalanceWithinTitle and StatusTellsBalance, of one row.
SoundRow(row, amount) ==
  /\ row.status # "CANCELLED" => 0 <= row.paid /\ row.paid <= amount
  /\ row.status = "OPEN" => row.paid = 0
  /\ row.status = "PAID" => row.paid = amount
  /\ row.status = "PARTIALLY_PAID" => row.paid < amount

SoundTitles == \A t \in Title : title[t] # NULL => SoundRow(title[t], AmountOf[t])

\* The foreign key of payable_payments: a pass finds a posted payment without
\* reading its title, and finalizes it.
PaymentsBelong == \A p \in Payment : payment[p] # NULL => title[payment[p].title] # NULL

\* The inductive invariant.  Neither property of a row is kept without the other,
\* and what a handler holds exists because what it found did.
PayableInv == PayableTypeOK /\ PaymentsBelong /\ SoundTitles

\* What every step does to the titles: none is deleted, none is revived, all are sound.
TitlesKept ==
  /\ title' \in [Title -> TitleRow \cup {NULL}]
  /\ \A t \in Title : title[t] # NULL =>
       /\ title'[t] # NULL
       /\ title[t].status = "CANCELLED" => title'[t].status = "CANCELLED"
  /\ \A t \in Title : title'[t] # NULL => SoundRow(title'[t], AmountOf[t])

\* ... and to the payments: none is deleted, moved or revalued, and a new one is
\* of a title that exists.
PaymentsKept ==
  /\ payment' \in [Payment -> PaymentRow \cup {NULL}]
  /\ \A p \in Payment : payment'[p] # NULL => title[payment'[p].title] # NULL
  /\ \A p \in Payment : payment[p] # NULL =>
       /\ payment'[p] # NULL
       /\ payment'[p].title = payment[p].title
       /\ payment'[p].cents = payment[p].cents

JournalTyped == journal' \in [Title \cup Payment -> {"none", "posted", "reversed"}]

\* One handler moves, to a place where what it holds is there.
Moves(h) ==
  \E c \in CallState :
    /\ call' = [call EXCEPT ![h] = c]
    /\ Holds(c, payment')
    /\ c.title # NULL => title'[c.title] # NULL

StepOf(h) == TitlesKept /\ PaymentsKept /\ JournalTyped /\ Moves(h)

-----------------------------------------------------------------------------
(* What the steps are made of *)

\* Titles that are not written stay sound.
LEMMA TitlesStay ==
  ASSUME PayableInv, UNCHANGED title
  PROVE  TitlesKept
  BY DEF PayableInv, PayableTypeOK, SoundTitles, TitlesKept

\* Payments that are not written keep their titles.
LEMMA PaymentsStay ==
  ASSUME PayableInv, UNCHANGED payment
  PROVE  PaymentsKept
  BY DEF PayableInv, PayableTypeOK, PaymentsBelong, PaymentsKept

\* A journal that is not written keeps its type.
LEMMA JournalStays ==
  ASSUME PayableInv, UNCHANGED journal
  PROVE  JournalTyped
  BY DEF PayableInv, PayableTypeOK, JournalTyped

\* A posting or a reversal leaves the journal typed.
LEMMA JournalMoves ==
  ASSUME PayableInv, NEW k, Post(k) \/ Reverse(k)
  PROVE  JournalTyped
  BY DEF PayableInv, PayableTypeOK, JournalTyped, Post, Reverse

\* One title is written, soundly, and not revived.
LEMMA TitleWritten ==
  ASSUME PayableInv, NEW t \in Title, NEW row \in TitleRow,
         title' = [title EXCEPT ![t] = row],
         SoundRow(row, AmountOf[t]),
         title[t] # NULL /\ title[t].status = "CANCELLED" => row.status = "CANCELLED"
  PROVE  TitlesKept
<1>1. row # NULL
  BY PayableAssumption
<1>. QED BY <1>1 DEF PayableInv, PayableTypeOK, SoundTitles, TitlesKept

\* One payment is inserted, or written in its status or link only.
LEMMA PaymentWritten ==
  ASSUME PayableInv, NEW p \in Payment, NEW row \in PaymentRow,
         payment' = [payment EXCEPT ![p] = row],
         title[row.title] # NULL,
         payment[p] # NULL => row.title = payment[p].title /\ row.cents = payment[p].cents
  PROVE  PaymentsKept
<1>1. row # NULL
  BY PayableAssumption
<1>. QED BY <1>1 DEF PayableInv, PayableTypeOK, PaymentsBelong, PaymentsKept

\* An idle handler holds nothing.
LEMMA IdleHolds == Idle \in CallState /\ Idle.title = NULL /\ Holds(Idle, payment')
  BY DEF Idle, CallState, Holds

\* A handler that returns holds nothing.
LEMMA Returns ==
  ASSUME NEW h \in Handler, Return(h)
  PROVE  Moves(h)
  BY IdleHolds DEF Return, Moves

\* What a handler holds at each of its steps.
LEMMA OnTitleHolds ==
  ASSUME PayableInv, NEW h \in Handler, call[h].at \in OnTitle \cup {"claimed"}
  PROVE  /\ call[h] \in CallState
         /\ call[h].title \in Title
         /\ call[h].payment = NULL
         /\ title[call[h].title] \in TitleRow
         /\ call[h].at = "claimed" => call[h].cents \in Nat \ {0}
<1>1. call[h] \in CallState /\ Holds(call[h], payment) /\ call[h] # Idle
  BY DEF PayableInv, PayableTypeOK, Idle, OnTitle
<1>2. call[h].title # NULL /\ call[h].payment = NULL
  BY <1>1 DEF Holds, OnTitle, OnPayment
<1>. QED BY <1>1, <1>2 DEF PayableInv, PayableTypeOK, CallState, Holds, OnTitle, OnPayment

\* A handler at work on a payment holds it, its title and its amount.
LEMMA OnPaymentHolds ==
  ASSUME PayableInv, NEW h \in Handler, call[h].at \in OnPayment
  PROVE  /\ call[h] \in CallState
         /\ call[h].payment \in Payment
         /\ payment[call[h].payment] \in PaymentRow
         /\ call[h].title = payment[call[h].payment].title
         /\ call[h].cents = payment[call[h].payment].cents
         /\ call[h].title \in Title
         /\ title[call[h].title] \in TitleRow
         /\ call[h].cents \in Nat \ {0}
<1>1. call[h] \in CallState /\ Holds(call[h], payment) /\ call[h] # Idle
  BY DEF PayableInv, PayableTypeOK, Idle, OnPayment
<1>2. /\ call[h].payment # NULL /\ payment[call[h].payment] # NULL
      /\ call[h].title = payment[call[h].payment].title
      /\ call[h].cents = payment[call[h].payment].cents
  BY <1>1 DEF Holds, OnTitle, OnPayment
<1>3. call[h].payment \in Payment /\ payment[call[h].payment] \in PaymentRow
  BY <1>1, <1>2 DEF PayableInv, PayableTypeOK, CallState
<1>4. call[h].title \in Title /\ call[h].cents \in Nat \ {0}
  BY <1>2, <1>3 DEF PaymentRow
<1>5. title[call[h].title] \in TitleRow
  BY <1>1, <1>4, PayableAssumption DEF PayableInv, PayableTypeOK
<1>. QED BY <1>1, <1>2, <1>3, <1>4, <1>5

\* A handler goes on with what it holds.
LEMMA GoesOnTitle ==
  ASSUME PayableInv, NEW h \in Handler, call[h].at \in OnTitle,
         NEW at \in OnTitle, Goto(h, at), TitlesKept
  PROVE  Moves(h)
<1> DEFINE c == [call[h] EXCEPT !.at = at]
<1>1. /\ call[h] \in CallState /\ call[h].title \in Title
      /\ call[h].payment = NULL /\ title[call[h].title] \in TitleRow
  BY OnTitleHolds
<1>2. c \in CallState /\ c.at = at /\ c.title = call[h].title /\ c.payment = NULL
  BY <1>1 DEF CallState
<1>3. Holds(c, payment')
  BY <1>1, <1>2, PayableAssumption DEF Holds
<1>4. title'[c.title] # NULL
  BY <1>1, <1>2, PayableAssumption DEF TitlesKept
<1>5. call' = [call EXCEPT ![h] = c]
  BY DEF Goto
<1>. QED BY <1>2, <1>3, <1>4, <1>5 DEF Moves

\* A handler at work on a payment goes on with it.
LEMMA GoesOnPayment ==
  ASSUME PayableInv, NEW h \in Handler, call[h].at \in OnPayment,
         NEW at \in OnPayment, Goto(h, at), TitlesKept, PaymentsKept
  PROVE  Moves(h)
<1> DEFINE c == [call[h] EXCEPT !.at = at]
<1>1. /\ call[h] \in CallState /\ call[h].payment \in Payment
      /\ payment[call[h].payment] \in PaymentRow
      /\ call[h].title = payment[call[h].payment].title
      /\ call[h].cents = payment[call[h].payment].cents
      /\ call[h].title \in Title /\ title[call[h].title] \in TitleRow
  BY OnPaymentHolds
<1>2. /\ c \in CallState /\ c.at = at /\ c.title = call[h].title
      /\ c.payment = call[h].payment /\ c.cents = call[h].cents
  BY <1>1 DEF CallState, OnPayment
<1>3. Holds(c, payment')
  BY <1>1, <1>2, PayableAssumption DEF Holds, PaymentsKept
<1>4. title'[c.title] # NULL
  BY <1>1, <1>2, PayableAssumption DEF TitlesKept
<1>5. call' = [call EXCEPT ![h] = c]
  BY DEF Goto
<1>. QED BY <1>2, <1>3, <1>4, <1>5 DEF Moves

-----------------------------------------------------------------------------
(* Every step of a request *)

\* createPayable inserts an open title with nothing paid.
LEMMA CreateTitleStep ==
  ASSUME PayableInv, NEW r \in Request, NEW t \in Title, CreateTitle(r, t)
  PROVE  StepOf(r)
<1> DEFINE row == [status |-> "OPEN", paid |-> 0]
           c == [Idle EXCEPT !.at = "created", !.title = t]
<1>1. row \in TitleRow /\ SoundRow(row, AmountOf[t])
  BY PayableAssumption DEF TitleRow, SoundRow
<1>2. TitlesKept
  BY <1>1, TitleWritten DEF CreateTitle
<1>3. /\ c \in CallState /\ c.at = "created" /\ c.title = t /\ c.payment = NULL
      /\ title'[t] # NULL
  BY <1>1, PayableAssumption DEF CreateTitle, CallState, Idle, OnTitle, PayableInv, PayableTypeOK
<1>4. Holds(c, payment')
  BY <1>3, PayableAssumption DEF Holds, OnTitle
<1>5. Moves(r)
  BY <1>3, <1>4 DEF CreateTitle, Moves
<1>. QED BY <1>2, <1>5, PaymentsStay, JournalStays DEF CreateTitle, StepOf

\* The recognition is posted, or its title is cancelled in compensation.
LEMMA RecognitionStep ==
  ASSUME PayableInv, NEW r \in Request, PostRecognition(r) \/ Compensate(r)
  PROVE  StepOf(r)
<1>. r \in Handler
  BY DEF Handler
<1>1. CASE PostRecognition(r)
  BY <1>1, TitlesStay, PaymentsStay, JournalMoves, Returns DEF PostRecognition, StepOf
<1>2. CASE Compensate(r)
  <2> DEFINE t == call[r].title
             row == [title[t] EXCEPT !.status = "CANCELLED"]
  <2>1. t \in Title /\ title[t] \in TitleRow
    BY <1>2, OnTitleHolds DEF Compensate, OnTitle
  <2>2. row \in TitleRow /\ row.status = "CANCELLED"
    BY <2>1 DEF TitleRow
  <2>3. SoundRow(row, AmountOf[t])
    BY <2>2 DEF SoundRow
  <2>4. title' = [title EXCEPT ![t] = row]
    BY <1>2 DEF Compensate
  <2>5. TitlesKept
    BY <2>1, <2>2, <2>3, <2>4, TitleWritten
  <2>. QED BY <1>2, <2>5, PaymentsStay, JournalStays, Returns DEF Compensate, StepOf
<1>. QED BY <1>1, <1>2

\* The claim adds to the balance what the title still has room for.
LEMMA ClaimStep ==
  ASSUME PayableInv, NEW r \in Request, NEW t \in Title, NEW cents \in 1 .. AmountOf[t],
         Claim(r, t, cents)
  PROVE  StepOf(r)
<1> DEFINE row == [status |-> "PAYING", paid |-> title[t].paid + cents]
           c == [at |-> "claimed", title |-> t, payment |-> NULL, cents |-> cents]
<1>1. title[t] \in TitleRow /\ AmountOf[t] \in Nat
  BY PayableAssumption DEF Claim, Alive, PayableInv, PayableTypeOK
<1>2. 0 <= title[t].paid
  BY <1>1, PayableAssumption DEF Claim, Alive, PayableInv, SoundTitles, SoundRow
<1>3. row \in TitleRow /\ SoundRow(row, AmountOf[t])
  BY <1>1, <1>2 DEF TitleRow, SoundRow, Claim
<1>4. title' = [title EXCEPT ![t] = row]
  BY DEF Claim
<1>5. TitlesKept
  BY <1>3, <1>4, TitleWritten DEF Claim
<1>6. c \in CallState /\ Holds(c, payment') /\ title'[t] # NULL
  BY <1>1, <1>5, PayableAssumption DEF CallState, Holds, TitlesKept
<1>7. Moves(r)
  BY <1>6 DEF Claim, Moves
<1>. QED BY <1>5, <1>7, PaymentsStay, JournalStays DEF Claim, StepOf

\* The payment row is inserted for the title claimed.
LEMMA MintStep ==
  ASSUME PayableInv, NEW r \in Request, NEW p \in Payment, Mint(r, p)
  PROVE  StepOf(r)
<1> DEFINE row == [title |-> call[r].title, cents |-> call[r].cents,
                   status |-> "ACTIVE", linked |-> FALSE]
           c == [call[r] EXCEPT !.at = "minted", !.payment = p]
<1>1. /\ r \in Handler /\ call[r] \in CallState
      /\ call[r].title \in Title /\ title[call[r].title] \in TitleRow
      /\ call[r].cents \in Nat \ {0}
  BY OnTitleHolds DEF Mint, Handler
<1>2. row \in PaymentRow
  BY <1>1 DEF PaymentRow
<1>3. PaymentsKept
  BY <1>1, <1>2, PaymentWritten, PayableAssumption DEF Mint
<1>4. /\ c \in CallState /\ c.at = "minted" /\ c.title = call[r].title
      /\ c.payment = p /\ c.cents = call[r].cents
  BY <1>1 DEF CallState, OnPayment
<1>5. payment'[p] = row /\ p # NULL /\ row # NULL
  BY <1>2, PayableAssumption DEF Mint, PayableInv, PayableTypeOK
<1>6. Holds(c, payment')
  BY <1>4, <1>5 DEF Holds, OnPayment
<1>7. title'[c.title] # NULL
  BY <1>1, <1>4, PayableAssumption DEF Mint
<1>8. Moves(r)
  BY <1>4, <1>6, <1>7 DEF Mint, Moves
<1>. QED BY <1>3, <1>8, TitlesStay, JournalStays DEF Mint, StepOf

\* Finalize keeps a PAYING title sound: paid >= amount is paid = amount.
LEMMA Finalizes ==
  ASSUME PayableInv, NEW p \in Payment, payment[p] \in PaymentRow,
         NEW t \in Title, title[t] \in TitleRow, Finalize(t, p)
  PROVE  TitlesKept /\ PaymentsKept
<1>1. PaymentsKept
  <2> DEFINE row == [payment[p] EXCEPT !.linked = TRUE]
  <2>1. row \in PaymentRow /\ row.title = payment[p].title /\ row.cents = payment[p].cents
    BY DEF PaymentRow
  <2>2. payment' = [payment EXCEPT ![p] = row]
    BY DEF Finalize
  <2>3. payment[p] # NULL
    BY PayableAssumption
  <2>. QED BY <2>1, <2>2, <2>3, PaymentWritten DEF PayableInv, PaymentsBelong
<1>2. CASE title[t].status = "PAYING"
  <2> DEFINE status == IF title[t].paid >= AmountOf[t] THEN "PAID" ELSE "PARTIALLY_PAID"
             row == [title[t] EXCEPT !.status = status]
  <2>1. row \in TitleRow /\ row.status = status /\ row.paid = title[t].paid
    BY DEF TitleRow
  <2>2. 0 <= title[t].paid /\ title[t].paid <= AmountOf[t]
    BY <1>2, PayableAssumption DEF PayableInv, SoundTitles, SoundRow
  <2>3. AmountOf[t] \in Nat /\ title[t].paid \in Int
    BY PayableAssumption DEF TitleRow
  <2>4. SoundRow(row, AmountOf[t])
    BY <2>1, <2>2, <2>3 DEF SoundRow
  <2>5. title' = [title EXCEPT ![t] = row]
    BY <1>2 DEF Finalize
  <2>6. TitlesKept
    BY <1>2, <2>1, <2>4, <2>5, TitleWritten
  <2>. QED BY <1>1, <2>6
<1>. QED BY <1>1, <1>2, TitlesStay DEF Finalize

\* The settlement is posted, and then the payment and its title are finalized.
LEMMA SettlementStep ==
  ASSUME PayableInv, NEW r \in Request, PostSettlement(r) \/ FinalizeSettlement(r)
  PROVE  StepOf(r)
<1>. r \in Handler
  BY DEF Handler
<1>1. CASE PostSettlement(r)
  <2>1. TitlesKept /\ PaymentsKept /\ JournalTyped
    BY <1>1, TitlesStay, PaymentsStay, JournalMoves DEF PostSettlement
  <2>2. Moves(r)
    BY <1>1, <2>1, GoesOnPayment DEF PostSettlement, OnPayment
  <2>. QED BY <2>1, <2>2 DEF StepOf
<1>2. CASE FinalizeSettlement(r)
  <2>1. TitlesKept /\ PaymentsKept
    BY <1>2, OnPaymentHolds, Finalizes DEF FinalizeSettlement, OnPayment
  <2>. QED BY <1>2, <2>1, JournalStays, Returns DEF FinalizeSettlement, StepOf
<1>. QED BY <1>1, <1>2

\* The status that follows a balance within the title is sound.
LEMMA FollowsBalance ==
  ASSUME NEW t \in Title, NEW paid \in Int, Balanced(paid, t)
  PROVE  LET row == [status |-> StatusForBalance(paid, AmountOf[t]), paid |-> paid] IN
         row \in TitleRow /\ SoundRow(row, AmountOf[t])
<1>. AmountOf[t] \in Nat \ {0}
  BY PayableAssumption
<1>. QED BY DEF Balanced, StatusForBalance, TitleRow, SoundRow

\* A payment is cancelled.
LEMMA PaymentCancelled ==
  ASSUME PayableInv, NEW p \in Payment, payment[p] \in PaymentRow,
         payment' = [payment EXCEPT ![p].status = "CANCELLED"]
  PROVE  PaymentsKept
<1> DEFINE row == [payment[p] EXCEPT !.status = "CANCELLED"]
<1>1. row \in PaymentRow /\ row.title = payment[p].title /\ row.cents = payment[p].cents
  BY DEF PaymentRow
<1>2. payment' = [payment EXCEPT ![p] = row]
  OBVIOUS
<1>3. payment[p] # NULL
  BY PayableAssumption
<1>. QED BY <1>1, <1>2, <1>3, PaymentWritten DEF PayableInv, PaymentsBelong

\* A failed posting gives the claim back and cancels the payment.
LEMMA RevertStep ==
  ASSUME PayableInv, NEW r \in Request, Revert(r)
  PROVE  StepOf(r)
<1> DEFINE t == call[r].title
           p == call[r].payment
           paid == title[t].paid - call[r].cents
           row == [status |-> IF Alive(t) THEN StatusForBalance(paid, AmountOf[t])
                                          ELSE title[t].status,
                   paid |-> paid]
<1>. r \in Handler
  BY DEF Handler
<1>1. /\ t \in Title /\ title[t] \in TitleRow /\ call[r].cents \in Nat
      /\ p # NULL => p \in Payment /\ payment[p] \in PaymentRow
  BY OnTitleHolds, OnPaymentHolds DEF Revert, OnPayment
<1>2. title[t] # NULL /\ paid \in Int
  BY <1>1, PayableAssumption DEF TitleRow
<1>3. row \in TitleRow /\ SoundRow(row, AmountOf[t])
  <2>1. CASE Alive(t)
    BY <1>1, <1>2, <2>1, FollowsBalance DEF Revert
  <2>2. CASE ~Alive(t)
    <3>1. row = [status |-> "CANCELLED", paid |-> paid]
      BY <1>2, <2>2 DEF Alive
    <3>. QED BY <1>2, <3>1 DEF TitleRow, SoundRow
  <2>. QED BY <2>1, <2>2
<1>4. title' = [title EXCEPT ![t] = row]
  BY DEF Revert
<1>5. title[t].status = "CANCELLED" => row.status = "CANCELLED"
  BY DEF Alive
<1>6. TitlesKept
  BY <1>1, <1>3, <1>4, <1>5, TitleWritten
<1>7. PaymentsKept
  BY <1>1, PaymentsStay, PaymentCancelled DEF Revert
<1>. QED BY <1>6, <1>7, JournalStays, Returns DEF Revert, StepOf

\* cancelPayment begins with an active payment of a living title.
LEMMA CancelPaymentStep ==
  ASSUME PayableInv, NEW r \in Request, NEW p \in Payment, CancelPayment(r, p)
  PROVE  StepOf(r)
<1> DEFINE c == [at |-> "unpaying", title |-> payment[p].title, payment |-> p,
                 cents |-> payment[p].cents]
<1>1. payment[p] \in PaymentRow /\ title[payment[p].title] # NULL
  BY DEF CancelPayment, Active, Alive, PayableInv, PayableTypeOK
<1>2. c \in CallState /\ Holds(c, payment')
  BY <1>1, PayableAssumption DEF CancelPayment, CallState, Holds, PaymentRow, OnPayment
<1>3. Moves(r)
  BY <1>1, <1>2 DEF CancelPayment, Moves
<1>. QED BY <1>3, TitlesStay, PaymentsStay, JournalStays DEF CancelPayment, StepOf

\* The settlement is reversed, or found reversed.
LEMMA UnpayStep ==
  ASSUME PayableInv, NEW r \in Request, ReverseSettlement(r) \/ AlreadyUnpaid(r)
  PROVE  StepOf(r)
<1>. r \in Handler
  BY DEF Handler
<1>1. CASE ReverseSettlement(r)
  <2>1. TitlesKept /\ PaymentsKept /\ JournalTyped
    BY <1>1, TitlesStay, PaymentsStay, JournalMoves DEF ReverseSettlement
  <2>2. Moves(r)
    BY <1>1, <2>1, GoesOnPayment DEF ReverseSettlement, OnPayment
  <2>. QED BY <2>1, <2>2 DEF StepOf
<1>2. CASE AlreadyUnpaid(r)
  BY <1>2, TitlesStay, PaymentsStay, JournalStays, Returns DEF AlreadyUnpaid, StepOf
<1>. QED BY <1>1, <1>2

\* A cancelled payment gives its amount back to the title.
LEMMA ReleaseStep ==
  ASSUME PayableInv, NEW r \in Request, ReleaseSettlement(r)
  PROVE  StepOf(r)
<1> DEFINE t == call[r].title
           p == call[r].payment
           paid == title[t].paid - call[r].cents
           row == [status |-> IF title[t].status = "PAYING" THEN "PAYING"
                                                ELSE StatusForBalance(paid, AmountOf[t]),
                   paid |-> paid]
<1>. r \in Handler
  BY DEF Handler
<1>1. /\ t \in Title /\ title[t] \in TitleRow /\ call[r].cents \in Nat \ {0}
      /\ p \in Payment /\ payment[p] \in PaymentRow
  BY OnPaymentHolds DEF ReleaseSettlement, OnPayment
<1>2. /\ paid \in Int /\ title[t].paid \in Int /\ AmountOf[t] \in Nat
      /\ title[t] # NULL /\ title[t].status # "CANCELLED"
  BY <1>1, PayableAssumption DEF ReleaseSettlement, TitleRow
<1>3. title[t].paid <= AmountOf[t]
  BY <1>1, <1>2 DEF PayableInv, SoundTitles, SoundRow
<1>4. Balanced(paid, t)
  BY <1>1, <1>2, <1>3 DEF ReleaseSettlement, Balanced
<1>5. row \in TitleRow /\ SoundRow(row, AmountOf[t])
  <2>1. CASE title[t].status = "PAYING"
    <3>1. row = [status |-> "PAYING", paid |-> paid]
      BY <2>1
    <3>. QED BY <1>2, <1>4, <3>1 DEF TitleRow, SoundRow, Balanced
  <2>2. CASE title[t].status # "PAYING"
    BY <1>1, <1>2, <1>4, <2>2, FollowsBalance
  <2>. QED BY <2>1, <2>2
<1>6. title' = [title EXCEPT ![t] = row]
  BY DEF ReleaseSettlement
<1>7. TitlesKept
  BY <1>1, <1>2, <1>5, <1>6, TitleWritten
<1>8. PaymentsKept
  BY <1>1, PaymentCancelled DEF ReleaseSettlement
<1>. QED BY <1>7, <1>8, JournalStays, Returns DEF ReleaseSettlement, StepOf

\* cancelPayable begins with an open title that has no active payment.
LEMMA VoidStep ==
  ASSUME PayableInv, NEW r \in Request, NEW t \in Title, VoidTitle(r, t)
  PROVE  StepOf(r)
<1> DEFINE c == [Idle EXCEPT !.at = "voiding", !.title = t]
<1>1. /\ c \in CallState /\ c.at = "voiding" /\ c.title = t /\ c.payment = NULL
      /\ title'[t] # NULL
  BY DEF VoidTitle, Alive, CallState, Idle, OnTitle
<1>2. Holds(c, payment')
  BY <1>1, PayableAssumption DEF Holds, OnTitle
<1>3. Moves(r)
  BY <1>1, <1>2 DEF VoidTitle, Moves
<1>. QED BY <1>3, TitlesStay, PaymentsStay, JournalStays DEF VoidTitle, StepOf

\* The recognition is reversed and the title is cancelled.
LEMMA CancelTitleStep ==
  ASSUME PayableInv, NEW r \in Request, ReverseRecognition(r) \/ CancelTitle(r)
  PROVE  StepOf(r)
<1>. r \in Handler
  BY DEF Handler
<1>1. CASE ReverseRecognition(r)
  <2>1. TitlesKept /\ PaymentsKept /\ JournalTyped
    BY <1>1, TitlesStay, PaymentsStay, JournalMoves DEF ReverseRecognition
  <2>2. Moves(r)
    BY <1>1, <2>1, GoesOnTitle DEF ReverseRecognition, OnTitle
  <2>. QED BY <2>1, <2>2 DEF StepOf
<1>2. CASE CancelTitle(r)
  <2> DEFINE t == call[r].title
             row == [title[t] EXCEPT !.status = "CANCELLED"]
  <2>1. t \in Title /\ title[t] \in TitleRow
    BY <1>2, OnTitleHolds DEF CancelTitle, OnTitle
  <2>2. row \in TitleRow /\ row.status = "CANCELLED"
    BY <2>1 DEF TitleRow
  <2>3. SoundRow(row, AmountOf[t])
    BY <2>2 DEF SoundRow
  <2>4. title' = [title EXCEPT ![t] = row]
    BY <1>2 DEF CancelTitle
  <2>5. TitlesKept
    BY <2>1, <2>2, <2>3, <2>4, TitleWritten
  <2>. QED BY <1>2, <2>5, PaymentsStay, JournalStays, Returns DEF CancelTitle, StepOf
<1>. QED BY <1>1, <1>2

-----------------------------------------------------------------------------
(* Every step of a pass *)

\* A pass picks a title that has no recognition.
LEMMA FindTitleStep ==
  ASSUME PayableInv, NEW w \in Pass, NEW t \in Title, FindTitle(w, t)
  PROVE  StepOf(w)
<1> DEFINE c == [Idle EXCEPT !.at = "recognizing", !.title = t]
<1>1. /\ c \in CallState /\ c.at = "recognizing" /\ c.title = t /\ c.payment = NULL
      /\ title'[t] # NULL
  BY DEF FindTitle, Alive, CallState, Idle, OnTitle
<1>2. Holds(c, payment')
  BY <1>1, PayableAssumption DEF Holds, OnTitle
<1>3. Moves(w)
  BY <1>1, <1>2 DEF FindTitle, Moves
<1>. QED BY <1>3, TitlesStay, PaymentsStay, JournalStays DEF FindTitle, StepOf

\* A pass picks a payment that is not linked to its settlement.
LEMMA FindPaymentStep ==
  ASSUME PayableInv, NEW w \in Pass, NEW p \in Payment, FindPayment(w, p)
  PROVE  StepOf(w)
<1> DEFINE c == [at |-> IF journal[p] = "none" THEN "redriving" ELSE "finalizing",
                 title |-> payment[p].title, payment |-> p, cents |-> payment[p].cents]
<1>1. payment[p] \in PaymentRow /\ title[payment[p].title] # NULL
  BY DEF FindPayment, Active, PayableInv, PayableTypeOK, PaymentsBelong
<1>2. c \in CallState /\ Holds(c, payment')
  BY <1>1, PayableAssumption DEF FindPayment, CallState, Holds, PaymentRow, OnPayment
<1>3. Moves(w)
  BY <1>1, <1>2 DEF FindPayment, Moves
<1>. QED BY <1>3, TitlesStay, PaymentsStay, JournalStays DEF FindPayment, StepOf

\* A pass posts what is missing and finalizes.
LEMMA RedriveStep ==
  ASSUME PayableInv, NEW w \in Pass,
         \/ \E t \in Title : RedriveRecognition(w, t)
         \/ \E p \in Payment : RedriveSettlement(w, p) \/ FinalizeRedriven(w, p)
  PROVE  StepOf(w)
<1>. w \in Handler
  BY DEF Handler
<1>1. ASSUME NEW t \in Title, RedriveRecognition(w, t)
      PROVE  StepOf(w)
  BY <1>1, TitlesStay, PaymentsStay, JournalMoves, Returns DEF RedriveRecognition, StepOf
<1>2. ASSUME NEW p \in Payment, RedriveSettlement(w, p)
      PROVE  StepOf(w)
  <2>1. TitlesKept /\ PaymentsKept /\ JournalTyped
    BY <1>2, TitlesStay, PaymentsStay, JournalMoves DEF RedriveSettlement
  <2>2. Moves(w)
    BY <1>2, <2>1, GoesOnPayment DEF RedriveSettlement, OnPayment
  <2>. QED BY <2>1, <2>2 DEF StepOf
<1>3. ASSUME NEW p \in Payment, FinalizeRedriven(w, p)
      PROVE  StepOf(w)
  <2>1. TitlesKept /\ PaymentsKept
    BY <1>3, OnPaymentHolds, Finalizes DEF FinalizeRedriven, OnPayment
  <2>. QED BY <1>3, <2>1, JournalStays, Returns DEF FinalizeRedriven, StepOf
<1>. QED BY <1>1, <1>2, <1>3

-----------------------------------------------------------------------------
(* The invariant *)

\* Every step is one of a handler that keeps titles, payments and journal sound.
LEMMA PayableStep ==
  ASSUME PayableInv, PayableNext
  PROVE  \E h \in Handler : StepOf(h)
<1>1. ASSUME NEW r \in Request, RequestStep(r)
      PROVE  StepOf(r)
  <2>1. CASE \E t \in Title :
               \/ CreateTitle(r, t) \/ VoidTitle(r, t)
               \/ \E cents \in 1 .. AmountOf[t] : Claim(r, t, cents)
    BY <2>1, CreateTitleStep, VoidStep, ClaimStep
  <2>2. CASE \E p \in Payment : Mint(r, p) \/ CancelPayment(r, p)
    BY <2>2, MintStep, CancelPaymentStep
  <2>3. CASE PostRecognition(r) \/ Compensate(r)
    BY <2>3, RecognitionStep
  <2>4. CASE PostSettlement(r) \/ FinalizeSettlement(r) \/ Revert(r)
    BY <2>4, SettlementStep, RevertStep
  <2>5. CASE ReverseSettlement(r) \/ AlreadyUnpaid(r) \/ ReleaseSettlement(r)
    BY <2>5, UnpayStep, ReleaseStep
  <2>6. CASE ReverseRecognition(r) \/ CancelTitle(r)
    BY <2>6, CancelTitleStep
  <2>. QED BY <1>1, <2>1, <2>2, <2>3, <2>4, <2>5, <2>6 DEF RequestStep
<1>2. ASSUME NEW w \in Pass, PassStep(w)
      PROVE  StepOf(w)
  BY <1>2, FindTitleStep, FindPaymentStep, RedriveStep DEF PassStep
<1>3. ASSUME NEW h \in Handler, Abandon(h)
      PROVE  StepOf(h)
  BY <1>3, TitlesStay, PaymentsStay, JournalStays, Returns DEF Abandon, StepOf
<1>. QED BY <1>1, <1>2, <1>3 DEF PayableNext, Handler

\* No title exists at first.
LEMMA PayableInvInit == PayableInit => PayableInv
<1>. SUFFICES ASSUME PayableInit PROVE PayableInv
  OBVIOUS
<1>1. Idle \in CallState /\ Idle.title = NULL
  BY DEF Idle, CallState
<1>2. PayableTypeOK
  BY <1>1 DEF PayableInit, PayableTypeOK, Holds
<1>. QED BY <1>2 DEF PayableInit, PayableInv, PaymentsBelong, SoundTitles

\* Every step keeps the invariant.
LEMMA PayableInvStep ==
  ASSUME PayableInv, [PayableNext]_payableVars
  PROVE  PayableInv'
<1>1. CASE PayableNext
  <2>1. PICK h \in Handler : StepOf(h)
    BY <1>1, PayableStep
  <2>2. TitlesKept /\ PaymentsKept /\ JournalTyped
    BY <2>1 DEF StepOf
  <2>3. PICK c \in CallState :
               /\ call' = [call EXCEPT ![h] = c]
               /\ Holds(c, payment')
               /\ c.title # NULL => title'[c.title] # NULL
    BY <2>1 DEF StepOf, Moves
  <2>4. call \in [Handler -> CallState]
    BY DEF PayableInv, PayableTypeOK
  <2>5. call' \in [Handler -> CallState]
    BY <2>3, <2>4
  <2>6. ASSUME NEW g \in Handler
        PROVE  /\ Holds(call'[g], payment')
               /\ call'[g].title # NULL => title'[call'[g].title] # NULL
    <3>1. CASE g = h
      BY <2>3, <2>4, <3>1
    <3>2. CASE g # h
      <4>1. call'[g] = call[g] /\ call[g] \in CallState
        BY <2>3, <2>4, <3>2
      <4>2. Holds(call[g], payment) /\ (call[g].title # NULL => title[call[g].title] # NULL)
        BY DEF PayableInv, PayableTypeOK
      <4>3. Holds(call[g], payment')
        BY <2>2, <4>1, <4>2 DEF Holds, PaymentsKept, CallState
      <4>4. call[g].title # NULL => title'[call[g].title] # NULL
        BY <2>2, <4>1, <4>2 DEF TitlesKept, CallState
      <4>. QED BY <4>1, <4>3, <4>4
    <3>. QED BY <3>1, <3>2
  <2>7. PayableTypeOK'
    BY <2>2, <2>5, <2>6 DEF PayableTypeOK, TitlesKept, PaymentsKept, JournalTyped
  <2>8. PaymentsBelong'
    <3>1. \A p \in Payment : payment'[p] # NULL => payment'[p].title \in Title
      BY <2>2 DEF PaymentsKept, PaymentRow
    <3>. QED BY <2>2, <3>1 DEF PaymentsKept, TitlesKept, PaymentsBelong
  <2>9. SoundTitles'
    BY <2>2 DEF TitlesKept, SoundTitles
  <2>. QED BY <2>7, <2>8, <2>9 DEF PayableInv
<1>2. CASE UNCHANGED payableVars
  <2>. UNCHANGED <<title, payment, journal, call>>
    BY <1>2 DEF payableVars
  <2>1. PayableTypeOK'
    BY DEF PayableInv, PayableTypeOK, Holds
  <2>. QED BY <2>1 DEF PayableInv, PaymentsBelong, SoundTitles
<1>. QED BY <1>1, <1>2

\* The tables of the payables and what the requests and passes in flight hold of
\* them stay well-formed: a settlement never loses the payment or the title it is
\* about, whoever else cancels, reverts or finalizes.
THEOREM PayablesTyped == PayableSpec => []PayableTypeOK
<1>1. PayableInv => PayableTypeOK
  BY DEF PayableInv
<1>. QED BY <1>1, PayableInvInit, PayableInvStep, PTL DEF PayableSpec

\* No race of claims, reverts, releases and finalizes settles a live title below
\* zero or above its amount (PayableService, IPayableRepository): for any number
\* of titles, payments, requests and passes.
THEOREM NeverOverpaid == PayableSpec => []BalanceWithinTitle
<1>1. PayableInv => BalanceWithinTitle
  BY DEF PayableInv, PayableTypeOK, SoundTitles, SoundRow, BalanceWithinTitle, Alive, Balanced
<1>. QED BY <1>1, PayableInvInit, PayableInvStep, PTL DEF PayableSpec

\* The status of a title never contradicts its balance, though the four writers of
\* the pair work from reads of different ages.
THEOREM StatusIsTrue == PayableSpec => []StatusTellsBalance
<1>1. PayableInv => StatusTellsBalance
  BY DEF PayableInv, PayableTypeOK, TitleRow, SoundTitles, SoundRow, StatusTellsBalance
<1>. QED BY <1>1, PayableInvInit, PayableInvStep, PTL DEF PayableSpec

\* A cancelled title is never brought back by a finalize, revert or release that
\* was in flight when it was cancelled.
THEOREM NoTitleRevives == PayableSpec => CancelledIsFinal
<1>1. PayableInv /\ [PayableNext]_payableVars =>
        [\A t \in Title :
           title[t] # NULL /\ ~Alive(t)
             => title'[t] # NULL /\ title'[t].status = "CANCELLED"]_payableVars
  <2>. SUFFICES ASSUME PayableInv, PayableNext, NEW t \in Title, title[t] # NULL, ~Alive(t)
                PROVE  title'[t] # NULL /\ title'[t].status = "CANCELLED"
    OBVIOUS
  <2>1. TitlesKept
    BY PayableStep DEF StepOf
  <2>. QED BY <2>1 DEF TitlesKept, Alive
<1>. QED BY <1>1, PayableInvInit, PayableInvStep, PTL DEF PayableSpec, CancelledIsFinal
=============================================================================

--------------------------- MODULE SaleSyncProofs ---------------------------
(***************************************************************************)
(* Proofs about SaleSync, for every set of sales, handlers and rounds, any *)
(* overlap, and any skew that the overlap covers.                          *)
(***************************************************************************)
EXTENDS SaleSync, TLAPS

-----------------------------------------------------------------------------
(* The inductive invariant *)

SaleRow == [status : Status, paid : BOOLEAN, updatedAt : Nat]

\* The window that a round will leave behind is OVERLAP_MS before its start.
TimesOrdered == clock >= Overlap /\ watermark + Overlap <= clock

\* Round j has made the list that its pass over effect k works from.
Listed(j, k) ==
  round[j].at \in (IF k = "returned" THEN {"returned", "settled"} ELSE Phase)

\* Sale s is still to be tried, or its failure to be captured, for effect k.
InHand(j, s, k) ==
  \/ round[j].at = k /\ s \in round[j].todo
  \/ round[j].at = k /\ round[j].item = s /\ round[j].outcome = "failed"
  \/ k = "settled" /\ round[j].at # "settled" /\ s \in round[j].paid

RoundTimes(j) ==
  /\ round[j].since + Overlap <= round[j].start
  /\ round[j].start <= clock

\* What is owed is in the window that round j opened with, or captured.
WindowCovers(j) ==
  \A s \in Sale, k \in Effect : Owed(s, k) =>
    sale[s].updatedAt >= round[j].since \/ pending[s][k] = "open"

\* Of the effects whose list is made, what is owed is in the window that round j
\* will leave, captured, in hand, or keeps the round from moving the watermark.
ListCovers(j) ==
  \A s \in Sale, k \in Effect : Listed(j, k) /\ Owed(s, k) =>
    \/ sale[s].updatedAt + Overlap >= round[j].start
    \/ pending[s][k] = "open"
    \/ round[j].uncaptured
    \/ InHand(j, s, k)

\* A row tried with success has its entry, and none is tried before the lists.
ItemBooked(j) ==
  /\ round[j].at = "list" => round[j].item = NULL
  /\ round[j].at \in Effect /\ round[j].item # NULL =>
       /\ round[j].outcome # "half"
       /\ round[j].outcome = "ok" => Booked(round[j].item, round[j].at)

RoundSound(j) ==
  round[j] # Idle => RoundTimes(j) /\ WindowCovers(j) /\ ListCovers(j) /\ ItemBooked(j)

\* A rescan about to resolve its item has booked the effect.
RescanBooked(h) ==
  handler[h].at = "rescan.resolve" /\ handler[h].kind \in Effect =>
    Booked(handler[h].sale, handler[h].kind)

\* A handler about to merge its patch into a row has seen the row.
WriterHasRow(h) == handler[h].at = "write.read" => sale[handler[h].sale] \in SaleRow

SyncInv ==
  /\ SyncTypeOK
  /\ TimesOrdered
  /\ NothingForgotten
  /\ \A j \in Round : RoundSound(j)
  /\ \A h \in Handler : RescanBooked(h) /\ WriterHasRow(h)
  /\ ResolvedIsBooked
  /\ SettledAfterOpening

-----------------------------------------------------------------------------
(* Shapes *)

RoundRecord ==
  [at : {"list"} \cup Phase, since : Nat, start : Nat, paid : SUBSET Sale,
   todo : SUBSET Sale, item : Sale \cup {NULL},
   outcome : {"half", "ok", "failed"}, uncaptured : BOOLEAN]

\* What an in-flight handler holds, by its next await.
LEMMA HandlerShape ==
  ASSUME SyncTypeOK, NEW h \in Handler, handler[h].at # "idle"
  PROVE  /\ handler[h].sale \in Sale
         /\ handler[h].at = "book.finalized" => handler[h].settle \in BOOLEAN
         /\ handler[h].at \in {"write.read", "write.commit"} =>
              handler[h].do \in {"pay", "cancel", "return"}
         /\ handler[h].at = "write.commit" => handler[h].row \in Row
         /\ handler[h].at = "rescan.resolve" => handler[h].kind \in Phase
  BY DEF SyncTypeOK, HandlerState, Idle

\* What a round in progress holds.
LEMMA RoundShape ==
  ASSUME SyncTypeOK, NEW j \in Round
  PROVE  /\ round[j] = Idle \/ round[j] \in RoundRecord
         /\ round[j].at # "idle" => round[j] # Idle /\ round[j] \in RoundRecord
  BY DEF SyncTypeOK, RoundState, RoundRecord, Idle

\* A booking keeps every entry, and adds the one it is about.
LEMMA BookEffect ==
  ASSUME SyncTypeOK, NEW s \in Sale, NEW k \in Effect, Book(s, k)
  PROVE  /\ entry' \in [Sale -> [Effect -> {"none", "Posted", "Reversed"}]]
         /\ entry'[s][k] # "none"
         /\ \A t \in Sale, m \in Effect :
              (entry'[t][m] # "none") <=> (Booked(t, m) \/ (t = s /\ m = k))
<1>. DEFINE new == IF entry[s][k] = "none" THEN "Posted" ELSE entry[s][k]
<1>1. entry' = [entry EXCEPT ![s] = [entry[s] EXCEPT ![k] = new]]
  BY DEF Book
<1>2. new \in {"Posted", "Reversed"} /\ (entry[s][k] # "none" => new = entry[s][k])
  BY DEF SyncTypeOK
<1>. HIDE DEF new
<1>3. entry'[s][k] = new
  BY <1>1 DEF SyncTypeOK
<1>4. \A t \in Sale, m \in Effect : t # s \/ m # k => entry'[t][m] = entry[t][m]
  BY <1>1 DEF SyncTypeOK
<1>5. entry' \in [Sale -> [Effect -> {"none", "Posted", "Reversed"}]]
  BY <1>1, <1>2 DEF SyncTypeOK
<1>. QED BY <1>2, <1>3, <1>4, <1>5 DEF Booked

\* A reversal adds and removes no entry.
LEMMA UnbookEffect ==
  ASSUME SyncTypeOK, NEW s \in Sale, NEW k \in Effect, Unbook(s, k)
  PROVE  /\ entry' \in [Sale -> [Effect -> {"none", "Posted", "Reversed"}]]
         /\ \A t \in Sale, m \in Effect : (entry'[t][m] # "none") <=> Booked(t, m)
<1>. DEFINE new == IF entry[s][k] = "Posted" THEN "Reversed" ELSE entry[s][k]
<1>1. entry' = [entry EXCEPT ![s] = [entry[s] EXCEPT ![k] = new]]
  BY DEF Unbook
<1>2. new \in {"none", "Posted", "Reversed"} /\ (new # "none" <=> entry[s][k] # "none")
  BY DEF SyncTypeOK
<1>. HIDE DEF new
<1>3. entry'[s][k] = new
  BY <1>1 DEF SyncTypeOK
<1>4. \A t \in Sale, m \in Effect : t # s \/ m # k => entry'[t][m] = entry[t][m]
  BY <1>1 DEF SyncTypeOK
<1>5. entry' \in [Sale -> [Effect -> {"none", "Posted", "Reversed"}]]
  BY <1>1, <1>2 DEF SyncTypeOK
<1>. QED BY <1>2, <1>3, <1>4, <1>5 DEF Booked

\* A write replaces one row, stamped at most Skew ago.
LEMMA WriteEffect ==
  ASSUME SyncTypeOK, TimesOrdered, NEW s \in Sale, NEW row \in Row, WriteRow(s, row)
  PROVE  /\ sale' \in [Sale -> SaleRow \cup {NULL}]
         /\ \A t \in Sale \ {s} : sale'[t] = sale[t]
         /\ sale'[s] \in SaleRow
         /\ sale'[s].updatedAt + Overlap >= clock
<1>1. PICK t \in (clock - Skew) .. clock :
        sale' = [sale EXCEPT ![s] =
          [status |-> row.status, paid |-> row.paid, updatedAt |-> t]]
  BY DEF WriteRow
<1>2. t \in Nat /\ t + Overlap >= clock
  BY SyncAssumption DEF SyncTypeOK, TimesOrdered
<1>3. [status |-> row.status, paid |-> row.paid, updatedAt |-> t] \in SaleRow
  BY <1>2 DEF Row, SaleRow
<1>. QED BY <1>1, <1>2, <1>3 DEF SyncTypeOK, SaleRow

-----------------------------------------------------------------------------
(* What every step has in common *)

\* Entries stay, a row that changes is stamped in the window of every round, and
\* an open item is closed only for an effect that is booked.
Grows ==
  /\ \A s \in Sale, k \in Effect : Booked(s, k) => entry'[s][k] # "none"
  /\ \A s \in Sale :
       \/ sale'[s] = sale[s]
       \/ sale'[s] \in SaleRow /\ sale'[s].updatedAt + Overlap >= clock
  /\ \A s \in Sale, k \in Effect :
       pending[s][k] = "open" => pending'[s][k] = "open" \/ entry'[s][k] # "none"
  /\ clock <= clock'

\* What is owed after a step was owed before it, or its row has just been stamped.
LEMMA OwedBefore ==
  ASSUME Grows, NEW s \in Sale, NEW k \in Effect, Owed(s, k)'
  PROVE  \/ sale'[s] = sale[s] /\ Owed(s, k)
            /\ (pending[s][k] = "open" => pending'[s][k] = "open")
         \/ sale'[s].updatedAt + Overlap >= clock
<1>1. entry'[s][k] = "none" /\ sale'[s] # NULL
  BY DEF Owed, Booked
<1>2. ~Booked(s, k)
  BY <1>1 DEF Grows
<1>3. CASE sale'[s] = sale[s]
  <2>1. Owed(s, k)
    BY <1>1, <1>2, <1>3 DEF Owed, Effect
  <2>. QED BY <1>1, <1>3, <2>1 DEF Grows
<1>. QED BY <1>3 DEF Grows

\* Of what the types say, the numbers.
LEMMA SyncNumbers ==
  ASSUME SyncTypeOK
  PROVE  /\ clock \in Nat /\ watermark \in Nat /\ Overlap \in Nat
         /\ \A s \in Sale : sale[s] # NULL => sale[s].updatedAt \in Nat
         /\ \A j \in Round : round[j] # Idle => round[j].since \in Nat /\ round[j].start \in Nat
<1>1. \A s \in Sale : sale[s] # NULL => sale[s].updatedAt \in Nat
  BY DEF SyncTypeOK
<1>2. \A j \in Round : round[j] # Idle => round[j].since \in Nat /\ round[j].start \in Nat
  BY RoundShape DEF RoundRecord
<1>. QED BY <1>1, <1>2, SyncAssumption DEF SyncTypeOK

\* Of what the types say after a step, the stamps of the rows.
LEMMA SyncNumbersNext ==
  SyncTypeOK' => \A s \in Sale : sale'[s] # NULL => sale'[s].updatedAt \in Nat
  BY DEF SyncTypeOK

\* A round that does not step is left as sound as it was.
LEMMA RoundStays ==
  ASSUME SyncInv, SyncTypeOK', Grows, NEW j \in Round, round'[j] = round[j], clock' \in Nat
  PROVE  RoundSound(j)'
<1>. SUFFICES ASSUME round[j] # Idle
              PROVE  RoundTimes(j)' /\ WindowCovers(j)' /\ ListCovers(j)' /\ ItemBooked(j)'
  BY DEF RoundSound
<1>1. RoundTimes(j) /\ WindowCovers(j) /\ ListCovers(j) /\ ItemBooked(j)
  BY DEF SyncInv, RoundSound
<1>2. /\ clock \in Nat /\ Overlap \in Nat
      /\ round[j].since \in Nat /\ round[j].start \in Nat
      /\ \A s \in Sale : sale'[s] # NULL => sale'[s].updatedAt \in Nat
      /\ round[j] \in RoundRecord
  BY SyncNumbers, SyncNumbersNext, RoundShape DEF SyncInv
<1>3. RoundTimes(j)'
  BY <1>1, <1>2 DEF RoundTimes, Grows
<1>4. WindowCovers(j)'
  <2>1. ASSUME NEW s \in Sale, NEW k \in Effect, Owed(s, k)'
        PROVE  sale'[s].updatedAt >= round[j].since \/ pending'[s][k] = "open"
    <3>1. sale'[s].updatedAt \in Nat
      BY <1>2, <2>1 DEF Owed
    <3>2. CASE sale'[s].updatedAt + Overlap >= clock
      BY <1>1, <1>2, <3>1, <3>2 DEF RoundTimes
    <3>. QED BY <1>1, <2>1, <3>2, OwedBefore DEF WindowCovers
  <2>. QED BY <2>1 DEF WindowCovers
<1>5. ListCovers(j)'
  <2>1. ASSUME NEW s \in Sale, NEW k \in Effect, Listed(j, k), Owed(s, k)'
        PROVE  \/ sale'[s].updatedAt + Overlap >= round[j].start
               \/ pending'[s][k] = "open"
               \/ round[j].uncaptured
               \/ InHand(j, s, k)
    <3>1. sale'[s].updatedAt \in Nat
      BY <1>2, <2>1 DEF Owed
    <3>2. CASE sale'[s].updatedAt + Overlap >= clock
      BY <1>1, <1>2, <3>1, <3>2 DEF RoundTimes
    <3>. QED BY <1>1, <2>1, <3>2, OwedBefore DEF ListCovers
  <2>. QED BY <2>1 DEF ListCovers, Listed, InHand
<1>6. ItemBooked(j)'
  BY <1>1, <1>2 DEF ItemBooked, Grows, RoundRecord, Booked
<1>. QED BY <1>3, <1>4, <1>5, <1>6

\* Nothing is forgotten while the watermark stays where it is.
LEMMA WatermarkStays ==
  ASSUME SyncInv, SyncTypeOK', Grows, watermark' = watermark
  PROVE  NothingForgotten'
<1>1. ASSUME NEW s \in Sale, NEW k \in Effect, Owed(s, k)'
      PROVE  sale'[s].updatedAt >= watermark \/ pending'[s][k] = "open"
  <2>1. sale'[s].updatedAt \in Nat
    BY <1>1, SyncNumbersNext DEF Owed
  <2>2. CASE sale'[s].updatedAt + Overlap >= clock
    BY <2>1, <2>2, SyncNumbers DEF SyncInv, TimesOrdered
  <2>. QED BY <1>1, <2>2, OwedBefore DEF SyncInv, NothingForgotten
<1>. QED BY <1>1 DEF NothingForgotten

\* A step of a handler, of which only its bookings and resolutions are its own.
LEMMA HandlerFrame ==
  ASSUME SyncInv, SyncTypeOK', Grows, UNCHANGED <<clock, watermark, round>>,
         NEW h \in Handler, \A g \in Handler \ {h} : handler'[g] = handler[g],
         RescanBooked(h)', WriterHasRow(h)', ResolvedIsBooked', SettledAfterOpening'
  PROVE  SyncInv'
<1>1. TimesOrdered'
  BY DEF SyncInv, TimesOrdered
<1>2. \A j \in Round : RoundSound(j)'
  <2>1. clock' \in Nat
    BY SyncNumbers DEF SyncInv
  <2>. QED BY <2>1, RoundStays
<1>3. \A g \in Handler \ {h} : RescanBooked(g)'
  <2>1. ASSUME NEW g \in Handler \ {h}, handler[g].at = "rescan.resolve",
               handler[g].kind \in Effect
        PROVE  entry'[handler[g].sale][handler[g].kind] # "none"
    BY <2>1, HandlerShape DEF SyncInv, RescanBooked, Grows
  <2>. QED BY <2>1 DEF RescanBooked, Booked
<1>4. \A g \in Handler \ {h} : WriterHasRow(g)'
  BY HandlerShape DEF SyncInv, WriterHasRow, Grows
<1>. QED BY <1>1, <1>2, <1>3, <1>4, WatermarkStays DEF SyncInv

-----------------------------------------------------------------------------
(* Handlers *)

\* Entries, rows and items a step does not touch.
LEMMA StillBooked ==
  ASSUME SyncInv, UNCHANGED <<entry, pending>>
  PROVE  ResolvedIsBooked' /\ SettledAfterOpening'
  BY DEF SyncInv, ResolvedIsBooked, SettledAfterOpening, Booked

\* Steps of a handler that touch nothing but its own state.
LEMMA IdleSteps ==
  ASSUME SyncInv, NEW h \in Handler, NEW next \in HandlerState,
         next.at # "rescan.resolve",
         next.at = "write.read" => sale[next.sale] \in SaleRow,
         handler' = [handler EXCEPT ![h] = next],
         UNCHANGED <<clock, sale, entry, pending, watermark, round>>
  PROVE  SyncInv'
<1>1. SyncTypeOK'
  BY DEF SyncInv, SyncTypeOK
<1>2. Grows
  BY SyncNumbers DEF SyncInv, Grows, Booked
<1>3. handler'[h] = next /\ \A g \in Handler \ {h} : handler'[g] = handler[g]
  BY DEF SyncInv, SyncTypeOK
<1>4. RescanBooked(h)' /\ WriterHasRow(h)'
  BY <1>3 DEF RescanBooked, WriterHasRow
<1>. QED BY <1>1, <1>2, <1>3, <1>4, StillBooked, HandlerFrame

\* Steps of a handler that write the row of a sale.
LEMMA WriteSteps ==
  ASSUME SyncInv, NEW h \in Handler, NEW next \in HandlerState,
         next.at \notin {"rescan.resolve", "write.read"},
         NEW s \in Sale, NEW row \in Row, WriteRow(s, row),
         handler' = [handler EXCEPT ![h] = next],
         UNCHANGED <<clock, entry, pending, watermark, round>>
  PROVE  SyncInv'
<1>1. /\ sale' \in [Sale -> SaleRow \cup {NULL}]
      /\ \A t \in Sale \ {s} : sale'[t] = sale[t]
      /\ sale'[s] \in SaleRow
      /\ sale'[s].updatedAt + Overlap >= clock
  BY WriteEffect DEF SyncInv
<1>2. SyncTypeOK'
  BY <1>1 DEF SyncInv, SyncTypeOK, SaleRow
<1>3. Grows
  BY <1>1, SyncNumbers DEF SyncInv, Grows, Booked
<1>4. handler'[h] = next /\ \A g \in Handler \ {h} : handler'[g] = handler[g]
  BY DEF SyncInv, SyncTypeOK
<1>5. RescanBooked(h)' /\ WriterHasRow(h)'
  BY <1>4 DEF RescanBooked, WriterHasRow
<1>. QED BY <1>2, <1>3, <1>4, <1>5, StillBooked, HandlerFrame

\* Steps of a handler that book an effect; a settlement needs its opening.
LEMMA BookSteps ==
  ASSUME SyncInv, NEW h \in Handler, NEW next \in HandlerState,
         NEW s \in Sale, NEW k \in Effect, Book(s, k),
         k = "settled" => Booked(s, "settled") \/ Booked(s, "finalized"),
         next.at # "write.read",
         next.at = "rescan.resolve" => next.sale = s /\ next.kind = k,
         handler' = [handler EXCEPT ![h] = next],
         UNCHANGED <<clock, sale, pending, watermark, round>>
  PROVE  SyncInv'
<1>1. /\ entry' \in [Sale -> [Effect -> {"none", "Posted", "Reversed"}]]
      /\ entry'[s][k] # "none"
      /\ \A t \in Sale, m \in Effect :
           (entry'[t][m] # "none") <=> (Booked(t, m) \/ (t = s /\ m = k))
  BY BookEffect DEF SyncInv
<1>2. SyncTypeOK'
  BY <1>1 DEF SyncInv, SyncTypeOK
<1>3. Grows
  BY <1>1, SyncNumbers DEF SyncInv, Grows
<1>4. handler'[h] = next /\ \A g \in Handler \ {h} : handler'[g] = handler[g]
  BY DEF SyncInv, SyncTypeOK
<1>5. RescanBooked(h)' /\ WriterHasRow(h)'
  BY <1>1, <1>4 DEF RescanBooked, Booked, WriterHasRow
<1>6. ResolvedIsBooked'
  BY <1>3 DEF SyncInv, ResolvedIsBooked, Grows, Booked
<1>7. SettledAfterOpening'
  BY <1>1 DEF SyncInv, SettledAfterOpening, Booked, Effect
<1>. QED BY <1>2, <1>3, <1>4, <1>5, <1>6, <1>7, HandlerFrame

\* Steps of a handler that reverse an entry.
LEMMA UnbookSteps ==
  ASSUME SyncInv, NEW h \in Handler, NEW next \in HandlerState,
         NEW s \in Sale, NEW k \in Effect, Unbook(s, k),
         next.at # "write.read",
         next.at = "rescan.resolve" => next.kind \notin Effect,
         handler' = [handler EXCEPT ![h] = next],
         UNCHANGED <<clock, sale, pending, watermark, round>>
  PROVE  SyncInv'
<1>1. /\ entry' \in [Sale -> [Effect -> {"none", "Posted", "Reversed"}]]
      /\ \A t \in Sale, m \in Effect : (entry'[t][m] # "none") <=> Booked(t, m)
  BY UnbookEffect DEF SyncInv
<1>2. SyncTypeOK'
  BY <1>1 DEF SyncInv, SyncTypeOK
<1>3. Grows
  BY <1>1, SyncNumbers DEF SyncInv, Grows
<1>4. handler'[h] = next /\ \A g \in Handler \ {h} : handler'[g] = handler[g]
  BY DEF SyncInv, SyncTypeOK
<1>5. RescanBooked(h)' /\ WriterHasRow(h)'
  BY <1>4 DEF RescanBooked, WriterHasRow
<1>6. ResolvedIsBooked' /\ SettledAfterOpening'
  BY <1>1 DEF SyncInv, ResolvedIsBooked, SettledAfterOpening, Booked, Effect
<1>. QED BY <1>2, <1>3, <1>4, <1>5, <1>6, HandlerFrame

\* The item a rescan resolves is one whose effect it has booked.
LEMMA ResolveStep ==
  ASSUME SyncInv, NEW h \in Handler, RescanResolve(h)
  PROVE  SyncInv'
<1>. DEFINE s == handler[h].sale
            kind == handler[h].kind
<1>1. /\ s \in Sale /\ kind \in Phase
      /\ kind \in Effect => Booked(s, kind)
      /\ handler' = [handler EXCEPT ![h] = Idle]
      /\ UNCHANGED <<clock, sale, entry, watermark, round>>
  BY HandlerShape DEF RescanResolve, Free, SyncInv, RescanBooked
<1>. DEFINE new == IF pending[s][kind] = "open" THEN "resolved" ELSE pending[s][kind]
<1>2. pending' = [pending EXCEPT ![s] = [pending[s] EXCEPT ![kind] = new]]
  BY DEF RescanResolve, Resolved
<1>3. new \in {"none", "open", "resolved"} /\ (new = "resolved" => pending[s][kind] \in {"open", "resolved"})
  BY <1>1 DEF SyncInv, SyncTypeOK
<1>. HIDE DEF new
<1>4. /\ pending'[s][kind] = new
      /\ \A t \in Sale, m \in Phase : t # s \/ m # kind => pending'[t][m] = pending[t][m]
      /\ pending' \in [Sale -> [Phase -> {"none", "open", "resolved"}]]
  BY <1>1, <1>2, <1>3 DEF SyncInv, SyncTypeOK
<1>5. Effect \subseteq Phase
  BY DEF Effect, Phase
<1>6. SyncTypeOK'
  BY <1>1, <1>4 DEF SyncInv, SyncTypeOK, HandlerState
<1>7. Grows
  BY <1>1, <1>4, <1>5, SyncNumbers DEF SyncInv, Grows, Booked
<1>8. handler'[h] = Idle /\ \A g \in Handler \ {h} : handler'[g] = handler[g]
  BY <1>1 DEF SyncInv, SyncTypeOK
<1>9. RescanBooked(h)' /\ WriterHasRow(h)'
  BY <1>8 DEF RescanBooked, WriterHasRow, Idle
<1>10. ResolvedIsBooked'
  BY <1>1, <1>4, <1>5 DEF SyncInv, ResolvedIsBooked, Booked
<1>11. SettledAfterOpening'
  BY <1>1 DEF SyncInv, SettledAfterOpening, Booked
<1>. QED BY <1>1, <1>6, <1>7, <1>8, <1>9, <1>10, <1>11, HandlerFrame

\* What registerPayment, cancel and return_ will write is a row of the table.
LEMMA MergedRow ==
  ASSUME NEW s \in Sale, sale[s] \in SaleRow, NEW do \in {"pay", "cancel", "return"}
  PROVE  Patched(RowOf(s), do) \in Row
<1>1. RowOf(s) \in Row
  BY DEF RowOf, Row, SaleRow
<1>. QED BY <1>1 DEF Patched, Row, Status

\* Every step of a handler keeps the invariant.
LEMMA HandlerStep ==
  ASSUME SyncInv, NEW h \in Handler, HandlerNext(h)
  PROVE  SyncInv'
<1>. DEFINE s == handler[h].sale
<1>. USE DEF Becomes, Free
<1>1. Idle \in HandlerState /\ Idle.at = "idle"
  BY DEF HandlerState, Idle
<1>2. SyncTypeOK
  BY DEF SyncInv
<1>3. ASSUME NEW t \in Sale, NEW paid \in BOOLEAN, NEW create \in BOOLEAN,
             FinalizeSale(h, t, paid, create)
      PROVE  SyncInv'
  <2>. DEFINE next == [at |-> "book.finalized", sale |-> t, settle |-> create /\ paid]
  <2>1. next \in HandlerState /\ next.at = "book.finalized"
    BY DEF HandlerState
  <2>2. [status |-> "Finalized", paid |-> paid] \in Row
    BY DEF Row, Status
  <2>. QED BY <1>3, <2>1, <2>2, WriteSteps DEF FinalizeSale
<1>4. CASE BookFinalized(h) \/ MissFinalized(h)
  <2>. DEFINE next == [at |-> "book.settled", sale |-> s]
  <2>1. s \in Sale
    BY <1>2, <1>4, HandlerShape DEF BookFinalized, MissFinalized
  <2>2. next \in HandlerState /\ next.at = "book.settled"
    BY <2>1 DEF HandlerState
  <2>3. "finalized" \in Effect
    BY DEF Effect
  <2>4. CASE BookFinalized(h)
    BY <1>1, <2>1, <2>2, <2>3, <2>4, BookSteps DEF BookFinalized
  <2>5. CASE MissFinalized(h)
    BY <2>2, <2>5, IdleSteps DEF MissFinalized
  <2>. QED BY <1>4, <2>4, <2>5
<1>5. CASE BookSettled(h)
  <2>1. s \in Sale /\ "settled" \in Effect
    BY <1>2, <1>5, HandlerShape DEF BookSettled, Effect
  <2>2. CASE Booked(s, "finalized")
    BY <1>1, <1>5, <2>1, <2>2, BookSteps DEF BookSettled
  <2>3. CASE ~Booked(s, "finalized")
    BY <1>1, <1>5, <2>3, IdleSteps DEF BookSettled
  <2>. QED BY <2>2, <2>3
<1>6. ASSUME NEW t \in Sale, NEW do \in {"pay", "cancel", "return"}, CheckFinalized(h, t, do)
      PROVE  SyncInv'
  <2>. DEFINE settle == [at |-> "book.settled", sale |-> t]
              write == [at |-> "write.read", do |-> do, sale |-> t]
  <2>1. settle \in HandlerState /\ settle.at = "book.settled"
    BY DEF HandlerState
  <2>2. write \in HandlerState /\ write.at = "write.read" /\ write.sale = t
    BY DEF HandlerState
  <2>3. sale[t] \in SaleRow
    BY <1>2, <1>6 DEF CheckFinalized, SyncTypeOK, SaleRow
  <2>. QED BY <1>6, <2>1, <2>2, <2>3, IdleSteps DEF CheckFinalized
<1>7. CASE ReadForWrite(h)
  <2>. DEFINE next == [at |-> "write.commit", do |-> handler[h].do, sale |-> s,
                       row |-> Patched(RowOf(s), handler[h].do)]
  <2>1. /\ s \in Sale
        /\ handler[h].do \in {"pay", "cancel", "return"}
        /\ sale[s] \in SaleRow
    BY <1>2, <1>7, HandlerShape DEF ReadForWrite, SyncInv, WriterHasRow
  <2>2. Patched(RowOf(s), handler[h].do) \in Row
    BY <2>1, MergedRow
  <2>3. next \in HandlerState /\ next.at = "write.commit"
    BY <2>1, <2>2 DEF HandlerState
  <2>. QED BY <1>7, <2>3, IdleSteps DEF ReadForWrite
<1>8. CASE WriteMerged(h)
  <2>. DEFINE row == handler[h].row
              bridge == BridgeOf(handler[h].do, row)
              next == [at |-> bridge, sale |-> s]
  <2>1. s \in Sale /\ row \in Row
    BY <1>2, <1>8, HandlerShape DEF WriteMerged
  <2>2. bridge \in {"reverse.finalized", "book.returned", "book.settled", "idle"}
    BY DEF BridgeOf
  <2>3. bridge # "idle" => next \in HandlerState /\ next.at \notin {"rescan.resolve", "write.read"}
    BY <2>1, <2>2 DEF HandlerState
  <2>. QED BY <1>1, <1>8, <2>1, <2>3, WriteSteps DEF WriteMerged
<1>9. CASE ReverseFinalized(h) \/ ReverseSettled(h)
  <2>. DEFINE next == [at |-> "reverse.settled", sale |-> s]
  <2>1. s \in Sale /\ {"finalized", "settled"} \subseteq Effect
    BY <1>2, <1>9, HandlerShape DEF ReverseFinalized, ReverseSettled, Effect
  <2>2. next \in HandlerState /\ next.at = "reverse.settled"
    BY <2>1 DEF HandlerState
  <2>. QED BY <1>1, <1>9, <2>1, <2>2, UnbookSteps DEF ReverseFinalized, ReverseSettled
<1>10. CASE BookReturned(h)
  <2>1. s \in Sale /\ "returned" \in Effect
    BY <1>2, <1>10, HandlerShape DEF BookReturned, Effect
  <2>. QED BY <1>1, <1>10, <2>1, BookSteps DEF BookReturned
<1>11. ASSUME NEW t \in Sale, NEW kind \in Effect, Rescan(h, t, kind)
       PROVE  SyncInv'
  <2>. DEFINE next == [at |-> "rescan.resolve", sale |-> t, kind |-> kind]
  <2>1. /\ next \in HandlerState
        /\ next.at = "rescan.resolve"
        /\ next.sale = t
        /\ next.kind = kind
    BY DEF HandlerState, Effect, Phase
  <2>. QED BY <1>11, <2>1, BookSteps DEF Rescan
<1>12. ASSUME NEW t \in Sale, RescanCancelled(h, t)
       PROVE  SyncInv'
  <2>. DEFINE next == [at |-> "rescan.reverse", sale |-> t]
  <2>1. next \in HandlerState /\ next.at = "rescan.reverse" /\ "finalized" \in Effect
    BY DEF HandlerState, Effect
  <2>. QED BY <1>12, <2>1, UnbookSteps DEF RescanCancelled
<1>13. CASE RescanReverse(h)
  <2>. DEFINE next == [at |-> "rescan.resolve", sale |-> s, kind |-> "cancelled"]
  <2>1. s \in Sale /\ "settled" \in Effect
    BY <1>2, <1>13, HandlerShape DEF RescanReverse, Effect
  <2>2. /\ next \in HandlerState
        /\ next.at = "rescan.resolve"
        /\ next.kind \notin Effect
    BY <2>1 DEF HandlerState, Phase, Effect
  <2>. QED BY <1>13, <2>1, <2>2, UnbookSteps DEF RescanReverse
<1>14. CASE HandlerStops(h)
  BY <1>1, <1>14, IdleSteps DEF HandlerStops
<1>. QED BY <1>3, <1>4, <1>5, <1>6, <1>7, <1>8, <1>9, <1>10, <1>11, <1>12, <1>13, <1>14,
         ResolveStep DEF HandlerNext

-----------------------------------------------------------------------------
(* Rounds *)

\* The handlers beside a step of a round.
LEMMA HandlersStay ==
  ASSUME SyncInv, Grows, handler' = handler
  PROVE  \A h \in Handler : RescanBooked(h)' /\ WriterHasRow(h)'
<1>1. ASSUME NEW h \in Handler, handler[h].at = "rescan.resolve", handler[h].kind \in Effect
      PROVE  entry'[handler[h].sale][handler[h].kind] # "none"
  BY <1>1, HandlerShape DEF SyncInv, RescanBooked, Grows
<1>2. ASSUME NEW h \in Handler, handler[h].at = "write.read"
      PROVE  sale'[handler[h].sale] \in SaleRow
  BY <1>2, HandlerShape DEF SyncInv, WriterHasRow, Grows
<1>. QED BY <1>1, <1>2 DEF RescanBooked, WriterHasRow, Booked

\* A step of round j, of which only its lists and its item are its own.
LEMMA RoundFrame ==
  ASSUME SyncInv, SyncTypeOK', Grows, UNCHANGED <<clock, sale, watermark, handler>>,
         NEW j \in Round, \A i \in Round \ {j} : round'[i] = round[i],
         round[j] # Idle, round'[j].since = round[j].since, round'[j].start = round[j].start,
         ListCovers(j)', ItemBooked(j)', ResolvedIsBooked', SettledAfterOpening'
  PROVE  SyncInv'
<1>1. TimesOrdered'
  BY DEF SyncInv, TimesOrdered
<1>2. RoundTimes(j) /\ WindowCovers(j)
  BY DEF SyncInv, RoundSound
<1>3. RoundTimes(j)'
  BY <1>2 DEF RoundTimes
<1>4. WindowCovers(j)'
  <2>1. ASSUME NEW s \in Sale, NEW k \in Effect, Owed(s, k)'
        PROVE  Owed(s, k) /\ (pending[s][k] = "open" => pending'[s][k] = "open")
    <3>1. entry'[s][k] = "none"
      BY <2>1 DEF Owed, Booked
    <3>. QED BY <2>1, <3>1 DEF Owed, Effect, Grows
  <2>. QED BY <1>2, <2>1 DEF WindowCovers
<1>5. \A i \in Round : RoundSound(i)'
  <2>1. clock' \in Nat
    BY SyncNumbers DEF SyncInv
  <2>2. RoundSound(j)'
    BY <1>3, <1>4 DEF RoundSound
  <2>. QED BY <2>1, <2>2, RoundStays
<1>. QED BY <1>1, <1>5, HandlersStay, WatermarkStays DEF SyncInv

\* What is owed after a step of a round was owed before.
LEMMA OwedStays ==
  ASSUME Grows, sale' = sale
  PROVE  \A s \in Sale, k \in Effect : Owed(s, k)' =>
           /\ Owed(s, k)
           /\ entry'[s][k] = "none"
           /\ pending[s][k] = "open" => pending'[s][k] = "open"
<1>1. ASSUME NEW s \in Sale, NEW k \in Effect, Owed(s, k)'
      PROVE  entry'[s][k] = "none"
  BY <1>1 DEF Owed, Booked
<1>. QED BY <1>1 DEF Owed, Effect, Grows

\* A try takes the sale off the list and makes it the item in hand.
LEMMA TriedEffect ==
  ASSUME SyncTypeOK, NEW j \in Round, round[j] \in RoundRecord, NEW s \in Sale,
         NEW outcome \in {"half", "ok", "failed"}, Tried(j, s, outcome)
  PROVE  /\ round' \in [Round -> RoundState]
         /\ \A i \in Round \ {j} : round'[i] = round[i]
         /\ round'[j].at = round[j].at
         /\ round'[j].since = round[j].since
         /\ round'[j].start = round[j].start
         /\ round'[j].paid = round[j].paid
         /\ round'[j].uncaptured = round[j].uncaptured
         /\ round'[j].todo = round[j].todo \ {s}
         /\ round'[j].item = s
         /\ round'[j].outcome = outcome
<1>. DEFINE next == [round[j] EXCEPT !.todo = round[j].todo \ {s}, !.item = s,
                                     !.outcome = outcome]
<1>1. round' = [round EXCEPT ![j] = next]
  BY DEF Tried, SyncTypeOK
<1>2. /\ next \in RoundRecord
      /\ next.at = round[j].at
      /\ next.since = round[j].since
      /\ next.start = round[j].start
      /\ next.paid = round[j].paid
      /\ next.uncaptured = round[j].uncaptured
      /\ next.todo = round[j].todo \ {s}
      /\ next.item = s
      /\ next.outcome = outcome
  BY DEF RoundRecord
<1>. HIDE DEF next
<1>3. RoundRecord \subseteq RoundState
  BY DEF RoundRecord, RoundState
<1>. QED BY <1>1, <1>2, <1>3 DEF SyncTypeOK

\* A report empties the round's hand.
LEMMA ReportedEffect ==
  ASSUME SyncTypeOK, NEW j \in Round, round[j] \in RoundRecord, Reported(j)
  PROVE  /\ round' \in [Round -> RoundState]
         /\ \A i \in Round \ {j} : round'[i] = round[i]
         /\ round'[j].at = round[j].at
         /\ round'[j].since = round[j].since
         /\ round'[j].start = round[j].start
         /\ round'[j].paid = round[j].paid
         /\ round'[j].uncaptured = round[j].uncaptured
         /\ round'[j].todo = round[j].todo
         /\ round'[j].item = NULL
<1>. DEFINE next == [round[j] EXCEPT !.item = NULL, !.outcome = "ok"]
<1>1. round' = [round EXCEPT ![j] = next]
  BY DEF Reported, SyncTypeOK
<1>2. /\ next \in RoundRecord
      /\ next.at = round[j].at
      /\ next.since = round[j].since
      /\ next.start = round[j].start
      /\ next.paid = round[j].paid
      /\ next.uncaptured = round[j].uncaptured
      /\ next.todo = round[j].todo
      /\ next.item = NULL
  BY DEF RoundRecord
<1>. HIDE DEF next
<1>3. RoundRecord \subseteq RoundState
  BY DEF RoundRecord, RoundState
<1>. QED BY <1>1, <1>2, <1>3 DEF SyncTypeOK

\* Round j tries sale s, with this outcome, and what the try books is allowed.
SoundTry(j, s, outcome) ==
  /\ round[j].at \in Phase
  /\ Tried(j, s, outcome)
  /\ round[j].item = NULL \/ (round[j].outcome = "half" /\ round[j].item = s)
  /\ entry' \in [Sale -> [Effect -> {"none", "Posted", "Reversed"}]]
  /\ Grows
  /\ round[j].at \in Effect =>
       outcome = "failed" \/ (outcome = "ok" /\ entry'[s][round[j].at] # "none")
  /\ SettledAfterOpening'
  /\ UNCHANGED <<clock, sale, pending, watermark, handler>>

\* A try, whatever comes of it, loses no sale that is owed an effect.
LEMMA TrySteps ==
  ASSUME SyncInv, NEW j \in Round, NEW s \in Sale,
         NEW outcome \in {"half", "ok", "failed"}, SoundTry(j, s, outcome)
  PROVE  SyncInv'
<1>. USE DEF SoundTry
<1>1. round[j] # Idle /\ round[j] \in RoundRecord
  BY RoundShape DEF SyncInv, Phase, Idle
<1>2. /\ round' \in [Round -> RoundState]
      /\ \A i \in Round \ {j} : round'[i] = round[i]
      /\ round'[j].at = round[j].at
      /\ round'[j].since = round[j].since
      /\ round'[j].start = round[j].start
      /\ round'[j].paid = round[j].paid
      /\ round'[j].uncaptured = round[j].uncaptured
      /\ round'[j].todo = round[j].todo \ {s}
      /\ round'[j].item = s
      /\ round'[j].outcome = outcome
  BY <1>1, TriedEffect DEF SyncInv
<1>3. SyncTypeOK'
  BY <1>2 DEF SyncInv, SyncTypeOK
<1>4. ItemBooked(j)'
  BY <1>2 DEF ItemBooked, Booked, Phase
<1>5. ListCovers(j) /\ ItemBooked(j)
  BY <1>1 DEF SyncInv, RoundSound
<1>6. ListCovers(j)'
  <2>1. ASSUME NEW t \in Sale, NEW k \in Effect, Listed(j, k), Owed(t, k)'
        PROVE  \/ sale[t].updatedAt + Overlap >= round[j].start
               \/ pending[t][k] = "open"
               \/ round[j].uncaptured
               \/ InHand(j, t, k)'
    <3>1. Owed(t, k) /\ entry'[t][k] = "none"
      BY <2>1, OwedStays
    <3>2. t # NULL
      BY SyncAssumption
    <3>3. InHand(j, t, k) => InHand(j, t, k)'
      BY <1>2, <1>5, <3>1, <3>2 DEF InHand, ItemBooked
    <3>. QED BY <1>5, <2>1, <3>1, <3>3 DEF ListCovers
  <2>. QED BY <1>2, <2>1 DEF ListCovers, Listed
<1>7. ResolvedIsBooked'
  BY DEF SyncInv, ResolvedIsBooked, Grows, Booked
<1>. QED BY <1>1, <1>2, <1>3, <1>4, <1>6, <1>7, RoundFrame

\* Every try, and every failure of one.
LEMMA TriesStep ==
  ASSUME SyncInv, NEW j \in Round,
         \/ \E s \in Sale :
              \/ \E phase \in Phase : TryToBook(j, s, phase)
              \/ TryToSettle(j, s) \/ TryToReverse(j, s) \/ ItemFails(j, s)
         \/ ReverseOther(j)
  PROVE  SyncInv'
<1>1. SyncTypeOK /\ clock <= clock
  BY SyncNumbers DEF SyncInv
<1>2. ASSUME NEW s \in Sale, NEW phase \in Phase, TryToBook(j, s, phase)
      PROVE  SyncInv'
  <2>1. phase \in Effect /\ phase # "settled" /\ round[j].at = phase
    BY <1>2 DEF TryToBook, Effect
  <2>2. /\ entry' \in [Sale -> [Effect -> {"none", "Posted", "Reversed"}]]
        /\ entry'[s][phase] # "none"
        /\ \A t \in Sale, m \in Effect :
             (entry'[t][m] # "none") <=> (Booked(t, m) \/ (t = s /\ m = phase))
    BY <1>1, <1>2, <2>1, BookEffect DEF TryToBook
  <2>3. Grows
    BY <1>1, <1>2, <2>2 DEF TryToBook, Grows
  <2>4. SettledAfterOpening'
    BY <2>1, <2>2 DEF SyncInv, SettledAfterOpening, Booked, Effect
  <2>5. SoundTry(j, s, "ok")
    BY <1>2, <2>1, <2>2, <2>3, <2>4 DEF TryToBook, SoundTry
  <2>. QED BY <2>5, TrySteps
<1>3. ASSUME NEW s \in Sale, TryToSettle(j, s),
             Booked(s, "settled") \/ Booked(s, "finalized")
      PROVE  SyncInv'
  <2>1. Book(s, "settled") /\ Tried(j, s, "ok") /\ "settled" \in Effect
    BY <1>3 DEF TryToSettle, Effect
  <2>2. /\ entry' \in [Sale -> [Effect -> {"none", "Posted", "Reversed"}]]
        /\ entry'[s]["settled"] # "none"
        /\ \A t \in Sale, m \in Effect :
             (entry'[t][m] # "none") <=> (Booked(t, m) \/ (t = s /\ m = "settled"))
    BY <1>1, <2>1, BookEffect
  <2>3. Grows
    BY <1>1, <1>3, <2>2 DEF TryToSettle, Grows
  <2>4. SettledAfterOpening'
    BY <1>3, <2>2 DEF SyncInv, SettledAfterOpening, Booked, Effect
  <2>5. round[j].at = "settled" /\ round[j].at \in Phase
    BY <1>3 DEF TryToSettle, Phase
  <2>6. SoundTry(j, s, "ok")
    BY <1>3, <2>1, <2>2, <2>3, <2>4, <2>5 DEF TryToSettle, SoundTry
  <2>. QED BY <2>6, TrySteps
<1>4. ASSUME UNCHANGED <<clock, sale, entry, pending>>
      PROVE  /\ entry' \in [Sale -> [Effect -> {"none", "Posted", "Reversed"}]]
             /\ Grows
             /\ SettledAfterOpening'
  BY <1>1, <1>4 DEF SyncInv, SyncTypeOK, Grows, SettledAfterOpening, Booked
<1>5. ASSUME NEW s \in Sale, TryToSettle(j, s),
             ~(Booked(s, "settled") \/ Booked(s, "finalized"))
      PROVE  SyncInv'
  <2>1. /\ round[j].at \in Phase
        /\ Tried(j, s, "failed")
        /\ round[j].item = NULL
        /\ UNCHANGED <<clock, sale, entry, pending, watermark, handler>>
    BY <1>5 DEF TryToSettle, Phase
  <2>2. SoundTry(j, s, "failed")
    BY <1>4, <2>1 DEF SoundTry
  <2>. QED BY <2>2, TrySteps
<1>6. ASSUME NEW s \in Sale, ItemFails(j, s)
      PROVE  SyncInv'
  <2>1. /\ round[j].at \in Phase
        /\ round[j].item = NULL \/ (round[j].outcome = "half" /\ round[j].item = s)
        /\ Tried(j, s, "failed")
        /\ UNCHANGED <<clock, sale, entry, pending, watermark, handler>>
    <3>1. CASE round[j].item = NULL
      BY <1>6, <3>1 DEF ItemFails
    <3>2. CASE round[j].item # NULL
      BY <1>6, <3>2 DEF ItemFails
    <3>. QED BY <3>1, <3>2
  <2>2. SoundTry(j, s, "failed")
    BY <1>4, <2>1 DEF SoundTry
  <2>. QED BY <2>2, TrySteps
<1>7. ASSUME NEW s \in Sale, NEW k \in Effect, Unbook(s, k),
             UNCHANGED <<clock, sale, pending>>
      PROVE  /\ entry' \in [Sale -> [Effect -> {"none", "Posted", "Reversed"}]]
             /\ Grows
             /\ SettledAfterOpening'
             /\ ResolvedIsBooked'
  <2>1. /\ entry' \in [Sale -> [Effect -> {"none", "Posted", "Reversed"}]]
        /\ \A t \in Sale, m \in Effect : (entry'[t][m] # "none") <=> Booked(t, m)
    BY <1>1, <1>7, UnbookEffect
  <2>2. Grows
    BY <1>1, <1>7, <2>1 DEF Grows
  <2>3. SettledAfterOpening' /\ ResolvedIsBooked'
    BY <1>7, <2>1 DEF SyncInv, SettledAfterOpening, ResolvedIsBooked, Booked, Effect
  <2>. QED BY <2>1, <2>2, <2>3
<1>8. ASSUME NEW s \in Sale, TryToReverse(j, s)
      PROVE  SyncInv'
  <2>1. /\ round[j].at \in Phase
        /\ round[j].at \notin Effect
        /\ "finalized" \in Effect
        /\ Unbook(s, "finalized")
        /\ Tried(j, s, "half")
        /\ round[j].item = NULL
        /\ UNCHANGED <<clock, sale, pending, watermark, handler>>
    BY <1>8 DEF TryToReverse, Phase, Effect
  <2>2. /\ entry' \in [Sale -> [Effect -> {"none", "Posted", "Reversed"}]]
        /\ Grows
        /\ SettledAfterOpening'
    BY <1>7, <2>1
  <2>3. SoundTry(j, s, "half")
    BY <2>1, <2>2 DEF SoundTry
  <2>. QED BY <2>3, TrySteps
<1>9. CASE ReverseOther(j)
  <2>1. /\ round[j] # Idle
        /\ round[j] \in RoundRecord
        /\ round[j].at = "cancelled"
        /\ round[j].item \in Sale
        /\ "settled" \in Effect
    BY <1>1, <1>9, RoundShape DEF ReverseOther, RoundRecord, Effect, Idle
  <2>. DEFINE next == [round[j] EXCEPT !.outcome = "ok"]
  <2>2. round' = [round EXCEPT ![j] = next]
    BY <1>1, <1>9 DEF ReverseOther, SyncTypeOK
  <2>3. /\ next \in RoundRecord
        /\ next.at = "cancelled"
        /\ next.since = round[j].since
        /\ next.start = round[j].start
        /\ next.paid = round[j].paid
        /\ next.uncaptured = round[j].uncaptured
    BY <2>1 DEF RoundRecord
  <2>. HIDE DEF next
  <2>4. round'[j] = next /\ \A i \in Round \ {j} : round'[i] = round[i]
    BY <1>1, <2>2 DEF SyncTypeOK
  <2>5. /\ entry' \in [Sale -> [Effect -> {"none", "Posted", "Reversed"}]]
        /\ Grows
        /\ SettledAfterOpening'
        /\ ResolvedIsBooked'
    BY <1>7, <1>9, <2>1 DEF ReverseOther
  <2>6. round' \in [Round -> RoundState]
    BY <1>1, <2>2, <2>3 DEF SyncTypeOK, RoundRecord, RoundState
  <2>7. SyncTypeOK'
    BY <1>9, <2>5, <2>6 DEF ReverseOther, SyncInv, SyncTypeOK
  <2>8. ItemBooked(j)'
    BY <2>3, <2>4 DEF ItemBooked, Effect
  <2>9. ListCovers(j)'
    <3>1. ListCovers(j)
      BY <2>1 DEF SyncInv, RoundSound
    <3>2. sale' = sale
      BY <1>9 DEF ReverseOther
    <3>3. \A k \in Effect : k # "cancelled"
      BY DEF Effect
    <3>. QED BY <2>1, <2>3, <2>4, <2>5, <3>1, <3>2, <3>3, OwedStays
           DEF ListCovers, Listed, InHand
  <2>. QED BY <1>9, <2>1, <2>3, <2>4, <2>5, <2>7, <2>8, <2>9, RoundFrame DEF ReverseOther
<1>. QED BY <1>2, <1>3, <1>5, <1>6, <1>8, <1>9

\* A pass that begins, or an item that leaves the hand: nothing outside moves.
LEMMA PhaseSteps ==
  ASSUME SyncInv, NEW j \in Round, round[j] # Idle, NEW next \in RoundRecord,
         next.since = round[j].since, next.start = round[j].start, next.item = NULL,
         \A s \in Sale, k \in Effect :
           /\ next.at \in (IF k = "returned" THEN {"returned", "settled"} ELSE Phase)
           /\ Owed(s, k)
           => \/ sale[s].updatedAt + Overlap >= round[j].start
              \/ pending[s][k] = "open"
              \/ next.uncaptured
              \/ next.at = k /\ s \in next.todo
              \/ k = "settled" /\ next.at # "settled" /\ s \in next.paid,
         round' = [round EXCEPT ![j] = next],
         UNCHANGED <<clock, sale, entry, pending, watermark, handler>>
  PROVE  SyncInv'
<1>1. round'[j] = next /\ \A i \in Round \ {j} : round'[i] = round[i]
  BY DEF SyncInv, SyncTypeOK
<1>2. SyncTypeOK'
  <2>1. RoundRecord \subseteq RoundState
    BY DEF RoundRecord, RoundState
  <2>2. round' \in [Round -> RoundState]
    BY <2>1 DEF SyncInv, SyncTypeOK
  <2>. QED BY <2>2 DEF SyncInv, SyncTypeOK
<1>3. Grows
  BY SyncNumbers DEF SyncInv, Grows, Booked
<1>4. ItemBooked(j)'
  BY <1>1 DEF ItemBooked
<1>5. \A s \in Sale, k \in Effect : Owed(s, k)' => Owed(s, k)
  BY <1>3, OwedStays
<1>6. ListCovers(j)'
  BY <1>1, <1>5 DEF ListCovers, Listed, InHand
<1>. QED BY <1>1, <1>2, <1>3, <1>4, <1>6, StillBooked, RoundFrame

\* The list of the start holds every sale the window covers.
LEMMA ListStep ==
  ASSUME SyncInv, NEW j \in Round, ListFinalized(j)
  PROVE  SyncInv'
<1>. DEFINE listed == ListedBy("Finalized", round[j].since)
            next == [round[j] EXCEPT !.at = "finalized", !.todo = listed,
                                     !.paid = {s \in listed : sale[s].paid}]
<1>1. round[j] # Idle /\ round[j] \in RoundRecord /\ round[j].at = "list"
  BY RoundShape DEF SyncInv, ListFinalized
<1>2. WindowCovers(j) /\ ItemBooked(j)
  BY <1>1 DEF SyncInv, RoundSound
<1>3. round' = [round EXCEPT ![j] = next]
  BY DEF ListFinalized, SyncInv, SyncTypeOK
<1>4. listed \subseteq Sale /\ {s \in listed : sale[s].paid} \subseteq Sale
  BY DEF ListedBy
<1>5. /\ next \in RoundRecord
      /\ next.at = "finalized"
      /\ next.since = round[j].since
      /\ next.start = round[j].start
      /\ next.item = round[j].item
      /\ next.todo = listed
      /\ next.paid = {s \in listed : sale[s].paid}
  BY <1>1, <1>4 DEF RoundRecord, Phase
<1>6. \A s \in Sale, k \in Effect : k # "returned" /\ Owed(s, k) =>
        \/ pending[s][k] = "open"
        \/ k = "finalized" /\ s \in next.todo
        \/ k = "settled" /\ s \in next.paid
  BY <1>2, <1>5 DEF WindowCovers, Owed, Effect, ListedBy
<1>7. next.item = NULL
  BY <1>1, <1>2, <1>5 DEF ItemBooked
<1>. HIDE DEF next
<1>. QED BY <1>1, <1>3, <1>5, <1>6, <1>7, PhaseSteps DEF ListFinalized

\* A pass ends with nothing in hand, and the next one takes up its list.
LEMMA PhaseStep ==
  ASSUME SyncInv, NEW j \in Round, NEW from, NEW to, NextPhase(j, from, to),
         \/ from = "finalized" /\ to = "cancelled"
         \/ from = "cancelled" /\ to = "returned"
         \/ from = "returned" /\ to = "settled"
  PROVE  SyncInv'
<1>. DEFINE next == [round[j] EXCEPT !.at = to, !.todo = ListFor(j, to),
                       !.paid = IF to = "settled" THEN {} ELSE round[j].paid]
<1>1. /\ round[j] # Idle
      /\ round[j] \in RoundRecord
      /\ round[j].at = from
      /\ round[j].todo = {}
      /\ round[j].item = NULL
  BY RoundShape DEF SyncInv, NextPhase, Idle
<1>2. WindowCovers(j) /\ ListCovers(j)
  BY <1>1 DEF SyncInv, RoundSound
<1>3. round' = [round EXCEPT ![j] = next]
  BY DEF NextPhase, SyncInv, SyncTypeOK
<1>4. /\ ListFor(j, to) \subseteq Sale
      /\ to = "returned" => ListFor(j, to) = ListedBy("Returned", round[j].since)
      /\ to = "settled" => ListFor(j, to) = round[j].paid
  BY <1>1 DEF ListFor, ListedBy, RoundRecord
<1>5. /\ next \in RoundRecord
      /\ next.at = to
      /\ next.since = round[j].since
      /\ next.start = round[j].start
      /\ next.item = NULL
      /\ next.todo = ListFor(j, to)
      /\ to # "settled" => next.paid = round[j].paid
      /\ next.uncaptured = round[j].uncaptured
  BY <1>1, <1>4 DEF RoundRecord, Phase
<1>. HIDE DEF next
<1>6. ASSUME NEW s \in Sale, NEW k \in Effect, Owed(s, k),
             next.at \in (IF k = "returned" THEN {"returned", "settled"} ELSE Phase)
      PROVE  \/ sale[s].updatedAt + Overlap >= round[j].start
             \/ pending[s][k] = "open"
             \/ next.uncaptured
             \/ next.at = k /\ s \in next.todo
             \/ k = "settled" /\ next.at # "settled" /\ s \in next.paid
  <2>1. CASE k = "returned" /\ to = "returned"
    BY <1>2, <1>4, <1>5, <1>6, <2>1 DEF WindowCovers, Owed, ListedBy
  <2>2. CASE k # "returned" \/ to # "returned"
    <3>1. Listed(j, k)
      BY <1>1, <1>5, <1>6, <2>2 DEF Listed, Phase
    <3>2. s # NULL
      BY SyncAssumption
    <3>3. InHand(j, s, k) => k = "settled" /\ s \in round[j].paid
      BY <1>1, <3>2 DEF InHand
    <3>. QED BY <1>2, <1>4, <1>5, <1>6, <3>1, <3>3 DEF ListCovers
  <2>. QED BY <2>1, <2>2
<1>. QED BY <1>1, <1>3, <1>5, <1>6, PhaseSteps DEF NextPhase

\* A success that is reported was booked, so its item may be resolved.
LEMMA ReportStep ==
  ASSUME SyncInv, NEW j \in Round, ReportResolved(j)
  PROVE  SyncInv'
<1>. DEFINE it == round[j].item
            at == round[j].at
<1>1. /\ round[j] # Idle
      /\ round[j] \in RoundRecord
      /\ at \in Phase
      /\ it \in Sale
      /\ round[j].outcome = "ok"
  BY RoundShape DEF SyncInv, ReportResolved, RoundRecord, Phase, Idle
<1>2. ListCovers(j) /\ ItemBooked(j)
  BY <1>1 DEF SyncInv, RoundSound
<1>3. at \in Effect => Booked(it, at)
  BY <1>1, <1>2, SyncAssumption DEF ItemBooked
<1>4. /\ round' \in [Round -> RoundState]
      /\ \A i \in Round \ {j} : round'[i] = round[i]
      /\ round'[j].at = round[j].at
      /\ round'[j].since = round[j].since
      /\ round'[j].start = round[j].start
      /\ round'[j].paid = round[j].paid
      /\ round'[j].uncaptured = round[j].uncaptured
      /\ round'[j].todo = round[j].todo
      /\ round'[j].item = NULL
  BY <1>1, ReportedEffect DEF SyncInv, ReportResolved
<1>5. /\ pending' \in [Sale -> [Phase -> {"none", "open", "resolved"}]]
      /\ \A s \in Sale, k \in Phase : s # it \/ k # at => pending'[s][k] = pending[s][k]
  <2>1. CASE UNCHANGED pending
    BY <2>1 DEF SyncInv, SyncTypeOK
  <2>2. CASE Resolved(it, at)
    <3>. DEFINE new == IF pending[it][at] = "open" THEN "resolved" ELSE pending[it][at]
    <3>1. pending' = [pending EXCEPT ![it] = [pending[it] EXCEPT ![at] = new]]
      BY <2>2 DEF Resolved
    <3>2. new \in {"none", "open", "resolved"}
      BY <1>1 DEF SyncInv, SyncTypeOK
    <3>. HIDE DEF new, it, at
    <3>. QED BY <1>1, <3>1, <3>2 DEF SyncInv, SyncTypeOK
  <2>. QED BY <2>1, <2>2 DEF ReportResolved
<1>6. SyncTypeOK'
  BY <1>4, <1>5 DEF SyncInv, SyncTypeOK, ReportResolved
<1>7. Effect \subseteq Phase
  BY DEF Effect, Phase
<1>8. Grows
  <2>1. \A s \in Sale, k \in Effect :
          pending[s][k] = "open" => pending'[s][k] = "open" \/ Booked(s, k)
    BY <1>3, <1>5, <1>7
  <2>. QED BY <2>1, SyncNumbers DEF SyncInv, Grows, Booked, ReportResolved
<1>9. ItemBooked(j)'
  BY <1>4 DEF ItemBooked
<1>10. ListCovers(j)'
  <2>1. \A s \in Sale, k \in Effect : InHand(j, s, k) => InHand(j, s, k)'
    BY <1>1, <1>4 DEF InHand
  <2>2. \A s \in Sale, k \in Effect : Owed(s, k)' =>
          Owed(s, k) /\ (pending[s][k] = "open" => pending'[s][k] = "open")
    BY <1>8, OwedStays DEF ReportResolved
  <2>. QED BY <1>2, <1>4, <2>1, <2>2 DEF ListCovers, Listed, ReportResolved
<1>11. ResolvedIsBooked'
  BY <1>3, <1>5, <1>7 DEF SyncInv, ResolvedIsBooked, Booked, ReportResolved
<1>12. SettledAfterOpening'
  BY DEF SyncInv, SettledAfterOpening, Booked, ReportResolved
<1>. QED BY <1>1, <1>4, <1>6, <1>8, <1>9, <1>10, <1>11, <1>12, RoundFrame DEF ReportResolved

\* A failure that leaves the hand is an open item.
LEMMA CaptureStep ==
  ASSUME SyncInv, NEW j \in Round, Capture(j)
  PROVE  SyncInv'
<1>. DEFINE it == round[j].item
            at == round[j].at
<1>1. /\ round[j] # Idle
      /\ round[j] \in RoundRecord
      /\ at \in Phase
      /\ it \in Sale
  BY RoundShape DEF SyncInv, Capture, RoundRecord, Phase, Idle
<1>2. ListCovers(j)
  BY <1>1 DEF SyncInv, RoundSound
<1>3. /\ round' \in [Round -> RoundState]
      /\ \A i \in Round \ {j} : round'[i] = round[i]
      /\ round'[j].at = round[j].at
      /\ round'[j].since = round[j].since
      /\ round'[j].start = round[j].start
      /\ round'[j].paid = round[j].paid
      /\ round'[j].uncaptured = round[j].uncaptured
      /\ round'[j].todo = round[j].todo
      /\ round'[j].item = NULL
  BY <1>1, ReportedEffect DEF SyncInv, Capture
<1>4. pending' = [pending EXCEPT ![it] = [pending[it] EXCEPT ![at] = "open"]]
  BY DEF Capture
<1>5. /\ pending' \in [Sale -> [Phase -> {"none", "open", "resolved"}]]
      /\ \A s \in Sale, k \in Phase : s # it \/ k # at => pending'[s][k] = pending[s][k]
      /\ pending'[it][at] = "open"
  <2>. HIDE DEF it, at
  <2>. QED BY <1>1, <1>4 DEF SyncInv, SyncTypeOK
<1>6. SyncTypeOK'
  BY <1>3, <1>5 DEF SyncInv, SyncTypeOK, Capture
<1>7. Effect \subseteq Phase
  BY DEF Effect, Phase
<1>8. Grows
  <2>1. \A s \in Sale, k \in Effect : pending[s][k] = "open" => pending'[s][k] = "open"
    BY <1>5, <1>7
  <2>. QED BY <2>1, SyncNumbers DEF SyncInv, Grows, Booked, Capture
<1>9. ItemBooked(j)'
  BY <1>3 DEF ItemBooked
<1>10. ListCovers(j)'
  <2>1. \A s \in Sale, k \in Effect :
          InHand(j, s, k) => InHand(j, s, k)' \/ pending'[s][k] = "open"
    BY <1>3, <1>5 DEF InHand
  <2>2. \A s \in Sale, k \in Effect : Owed(s, k)' =>
          Owed(s, k) /\ (pending[s][k] = "open" => pending'[s][k] = "open")
    BY <1>8, OwedStays DEF Capture
  <2>. QED BY <1>2, <1>3, <2>1, <2>2 DEF ListCovers, Listed, Capture
<1>11. ResolvedIsBooked'
  BY <1>5, <1>7 DEF SyncInv, ResolvedIsBooked, Booked, Capture
<1>12. SettledAfterOpening'
  BY DEF SyncInv, SettledAfterOpening, Booked, Capture
<1>. QED BY <1>1, <1>3, <1>6, <1>8, <1>9, <1>10, <1>11, <1>12, RoundFrame DEF Capture

\* A capture that fails keeps the round from moving the watermark.
LEMMA CaptureFailsStep ==
  ASSUME SyncInv, NEW j \in Round, CaptureFails(j)
  PROVE  SyncInv'
<1>. DEFINE next == [round[j] EXCEPT !.item = NULL, !.outcome = "ok", !.uncaptured = TRUE]
<1>1. round[j] # Idle /\ round[j] \in RoundRecord
  BY RoundShape DEF SyncInv, CaptureFails, Phase, Idle
<1>2. round' = [round EXCEPT ![j] = next]
  BY DEF CaptureFails, SyncInv, SyncTypeOK
<1>3. /\ next \in RoundRecord
      /\ next.since = round[j].since
      /\ next.start = round[j].start
      /\ next.item = NULL
      /\ next.uncaptured
  BY <1>1 DEF RoundRecord
<1>. HIDE DEF next
<1>. QED BY <1>1, <1>2, <1>3, PhaseSteps DEF CaptureFails

\* A round that begins or ends, beside which everything else stays.
LEMMA RoundEnds ==
  ASSUME SyncInv, NEW j \in Round, NEW next \in RoundState,
         round' = [round EXCEPT ![j] = next],
         UNCHANGED <<clock, sale, entry, pending, handler>>, watermark' \in Nat,
         RoundSound(j)', TimesOrdered', NothingForgotten'
  PROVE  SyncInv'
<1>1. \A i \in Round \ {j} : round'[i] = round[i]
  BY DEF SyncInv, SyncTypeOK
<1>2. SyncTypeOK'
  BY DEF SyncInv, SyncTypeOK
<1>3. Grows
  BY SyncNumbers DEF SyncInv, Grows, Booked
<1>4. clock' \in Nat
  BY SyncNumbers DEF SyncInv
<1>5. \A i \in Round : RoundSound(i)'
  BY <1>1, <1>2, <1>3, <1>4, RoundStays
<1>. QED BY <1>2, <1>3, <1>5, HandlersStay, StillBooked DEF SyncInv

\* A round opens with the window the watermark gives.
LEMMA OpenStep ==
  ASSUME SyncInv, NEW j \in Round, OpenRound(j)
  PROVE  SyncInv'
<1>. DEFINE next == [at |-> "list", since |-> watermark, start |-> clock, paid |-> {},
                     todo |-> {}, item |-> NULL, outcome |-> "ok", uncaptured |-> FALSE]
<1>1. clock \in Nat /\ watermark \in Nat
  BY SyncNumbers DEF SyncInv
<1>2. /\ next \in RoundState
      /\ next.at = "list"
      /\ next.since = watermark
      /\ next.start = clock
      /\ next.item = NULL
  BY <1>1 DEF RoundState
<1>3. round' = [round EXCEPT ![j] = next] /\ round'[j] = next
  BY DEF OpenRound, SyncInv, SyncTypeOK
<1>. HIDE DEF next
<1>4. UNCHANGED <<clock, sale, entry, pending, watermark, handler>>
  BY DEF OpenRound
<1>5. TimesOrdered' /\ NothingForgotten'
  BY <1>4 DEF SyncInv, TimesOrdered, NothingForgotten, Owed, Booked
<1>6. RoundTimes(j)'
  BY <1>1, <1>2, <1>3, <1>4 DEF SyncInv, TimesOrdered, RoundTimes
<1>7. WindowCovers(j)'
  BY <1>2, <1>3, <1>4, <1>5 DEF WindowCovers, NothingForgotten
<1>8. ListCovers(j)'
  BY <1>2, <1>3 DEF ListCovers, Listed, Phase
<1>9. ItemBooked(j)'
  BY <1>2, <1>3 DEF ItemBooked
<1>. QED BY <1>1, <1>2, <1>3, <1>4, <1>5, <1>6, <1>7, <1>8, <1>9, RoundEnds DEF RoundSound

\* A round closes with nothing in hand: its new window covers what is owed.
LEMMA CloseStep ==
  ASSUME SyncInv, NEW j \in Round, CloseRound(j)
  PROVE  SyncInv'
<1>1. /\ round[j] # Idle
      /\ round[j] \in RoundRecord
      /\ round[j].at = "settled"
      /\ round[j].todo = {}
      /\ round[j].item = NULL
  BY RoundShape DEF SyncInv, CloseRound, Idle
<1>2. RoundTimes(j) /\ WindowCovers(j) /\ ListCovers(j)
  BY <1>1 DEF SyncInv, RoundSound
<1>3. /\ round[j].since \in Nat /\ round[j].start \in Nat
      /\ clock \in Nat /\ Overlap \in Nat
      /\ \A s \in Sale : sale[s] # NULL => sale[s].updatedAt \in Nat
  BY <1>1, SyncNumbers DEF SyncInv
<1>4. /\ round' = [round EXCEPT ![j] = Idle]
      /\ round'[j] = Idle
      /\ UNCHANGED <<clock, sale, entry, pending, handler>>
      /\ watermark' = NextWatermark(j)
  BY DEF CloseRound, SyncInv, SyncTypeOK
<1>5. watermark' \in Nat /\ watermark' + Overlap <= clock
  BY <1>2, <1>3, <1>4 DEF NextWatermark, RoundTimes
<1>6. TimesOrdered'
  BY <1>4, <1>5 DEF SyncInv, TimesOrdered
<1>7. NothingForgotten'
  <2>1. ASSUME NEW s \in Sale, NEW k \in Effect, Owed(s, k)
        PROVE  sale[s].updatedAt >= watermark' \/ pending[s][k] = "open"
    <3>1. CASE round[j].uncaptured
      BY <1>2, <1>4, <2>1, <3>1 DEF NextWatermark, WindowCovers
    <3>2. CASE ~round[j].uncaptured
      <4>1. Listed(j, k)
        BY <1>1 DEF Listed, Phase
      <4>2. s # NULL
        BY SyncAssumption
      <4>3. ~InHand(j, s, k)
        BY <1>1, <4>2 DEF InHand
      <4>4. sale[s].updatedAt + Overlap >= round[j].start \/ pending[s][k] = "open"
        BY <1>2, <2>1, <3>2, <4>1, <4>3 DEF ListCovers
      <4>5. sale[s].updatedAt \in Nat
        BY <1>3, <2>1 DEF Owed
      <4>. QED BY <1>3, <1>4, <3>2, <4>4, <4>5 DEF NextWatermark
    <3>. QED BY <3>1, <3>2
  <2>. QED BY <1>4, <2>1 DEF NothingForgotten, Owed, Booked
<1>8. RoundSound(j)'
  BY <1>4 DEF RoundSound
<1>9. Idle \in RoundState
  BY DEF RoundState
<1>. QED BY <1>4, <1>5, <1>6, <1>7, <1>8, <1>9, RoundEnds

\* A round that dies leaves the watermark where it was.
LEMMA DieStep ==
  ASSUME SyncInv, NEW j \in Round, RoundDies(j)
  PROVE  SyncInv'
<1>1. /\ round' = [round EXCEPT ![j] = Idle]
      /\ round'[j] = Idle
      /\ UNCHANGED <<clock, sale, entry, pending, watermark, handler>>
  BY DEF RoundDies, SyncInv, SyncTypeOK
<1>2. Idle \in RoundState
  BY DEF RoundState
<1>3. RoundSound(j)' /\ TimesOrdered' /\ NothingForgotten' /\ watermark' \in Nat
  BY <1>1 DEF SyncInv, SyncTypeOK, RoundSound, TimesOrdered, NothingForgotten, Owed, Booked
<1>. QED BY <1>1, <1>2, <1>3, RoundEnds

-----------------------------------------------------------------------------
(* The whole system *)

\* Time passes, or nothing does.
LEMMA QuietStep ==
  ASSUME SyncInv, Tick \/ UNCHANGED vars
  PROVE  SyncInv'
<1>1. /\ clock' \in Nat
      /\ clock <= clock'
      /\ UNCHANGED <<sale, entry, pending, watermark, handler, round>>
  BY SyncNumbers DEF SyncInv, Tick, vars
<1>2. SyncTypeOK' /\ Grows
  BY <1>1 DEF SyncInv, SyncTypeOK, Grows, Booked
<1>3. TimesOrdered'
  BY <1>1, SyncNumbers DEF SyncInv, TimesOrdered
<1>4. \A j \in Round : RoundSound(j)'
  BY <1>1, <1>2, RoundStays
<1>. QED BY <1>1, <1>2, <1>3, <1>4, HandlersStay, StillBooked, WatermarkStays DEF SyncInv

\* Nothing is booked, owed or in flight at the start.
LEMMA SyncStarts == SyncInit => SyncInv
<1>. SUFFICES ASSUME SyncInit PROVE SyncInv
  OBVIOUS
<1>1. SyncTypeOK
  BY SyncAssumption DEF SyncInit, SyncTypeOK, HandlerState, RoundState
<1>2. TimesOrdered
  BY SyncAssumption DEF SyncInit, TimesOrdered
<1>3. NothingForgotten
  BY DEF SyncInit, NothingForgotten, Owed
<1>4. (\A j \in Round : RoundSound(j)) /\ \A h \in Handler : RescanBooked(h) /\ WriterHasRow(h)
  BY DEF SyncInit, RoundSound, RescanBooked, WriterHasRow, Idle
<1>5. ResolvedIsBooked /\ SettledAfterOpening
  BY DEF SyncInit, ResolvedIsBooked, SettledAfterOpening, Booked, Effect, Phase
<1>. QED BY <1>1, <1>2, <1>3, <1>4, <1>5 DEF SyncInv

\* Every step of every handler and round preserves the invariant.
LEMMA SyncSteps == SyncInv /\ [SyncNext]_vars => SyncInv'
<1>. SUFFICES ASSUME SyncInv, [SyncNext]_vars
              PROVE  SyncInv'
  OBVIOUS
<1>1. CASE Tick \/ UNCHANGED vars
  BY <1>1, QuietStep
<1>2. ASSUME NEW h \in Handler, HandlerNext(h)
      PROVE  SyncInv'
  BY <1>2, HandlerStep
<1>3. ASSUME NEW j \in Round, RoundStep(j)
      PROVE  SyncInv'
  <2>1. CASE \/ NextPhase(j, "finalized", "cancelled")
             \/ NextPhase(j, "cancelled", "returned")
             \/ NextPhase(j, "returned", "settled")
    BY <2>1, PhaseStep
  <2>2. CASE \/ \E s \in Sale :
                  \/ \E phase \in Phase : TryToBook(j, s, phase)
                  \/ TryToSettle(j, s) \/ TryToReverse(j, s) \/ ItemFails(j, s)
             \/ ReverseOther(j)
    BY <2>2, TriesStep
  <2>3. CASE OpenRound(j) \/ ListFinalized(j) \/ CloseRound(j)
    BY <2>3, OpenStep, ListStep, CloseStep
  <2>4. CASE ReportResolved(j) \/ Capture(j) \/ CaptureFails(j)
    BY <2>4, ReportStep, CaptureStep, CaptureFailsStep
  <2>. QED BY <1>3, <2>1, <2>2, <2>3, <2>4 DEF RoundStep
<1>. QED BY <1>1, <1>2, <1>3, DieStep DEF SyncNext

\* The inductive invariant holds of every behaviour.
THEOREM SyncCorrect == SyncSpec => []SyncInv
<1>. QED BY SyncStarts, SyncSteps, PTL DEF SyncSpec

\* Every value a sale, an item, a handler or a round ever holds has its type.
THEOREM SyncTypeCorrect == SyncSpec => []SyncTypeOK
<1>1. SyncInv => SyncTypeOK
  BY DEF SyncInv
<1>. QED BY <1>1, SyncCorrect, PTL

\* "Never skip an eligible row": what a sale owes the journal is in the window of
\* the rounds to come or captured, for any overlap that covers the skew of the
\* stamps, any number of concurrent rounds, and rounds that die or fail to capture.
THEOREM NothingIsForgotten == SyncSpec => []NothingForgotten
<1>1. SyncInv => NothingForgotten
  BY DEF SyncInv
<1>. QED BY <1>1, SyncCorrect, PTL

\* Whoever resolves an item, a round or a rescan, its entry has been booked.
THEOREM ResolvedMeansBooked == SyncSpec => []ResolvedIsBooked
<1>1. SyncInv => ResolvedIsBooked
  BY DEF SyncInv
<1>. QED BY <1>1, SyncCorrect, PTL

\* No settlement is booked before the receivable it clears.
THEOREM SettlementsFollowOpenings == SyncSpec => []SettledAfterOpening
<1>1. SyncInv => SettledAfterOpening
  BY DEF SyncInv
<1>. QED BY <1>1, SyncCorrect, PTL
=============================================================================

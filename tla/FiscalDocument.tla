--------------------------- MODULE FiscalDocument ---------------------------
(***************************************************************************)
(* The life of a sales invoice (NFC-e) between this program and the tax    *)
(* office (SEFAZ).  Every call to the office happens outside a database    *)
(* transaction: a task reads the document, calls, and writes what it was   *)
(* told under a guard on the status.  When the office cannot be reached    *)
(* the sale leaves off-line under a new number and the note that may or    *)
(* may not have arrived becomes an orphan, which the job cancels by        *)
(* substitution or whose number it has voided.                             *)
(*                                                                         *)
(* A note is <<d, n>>, attempt n of document d: a new access key is drawn  *)
(* for every attempt.  One series, in production.                          *)
(***************************************************************************)
EXTENDS Naturals, Sequences, FiniteSets

CONSTANTS
  Doc,        \* one per sale: @@unique by saleKey
  Request,    \* requests of the operators, in flight at the same time
  Job,        \* processes that run dfe_poll_pending
  MissLimit,  \* NAO_CONSTA_MAX_CONSULTAS
  MaxTry,     \* bound: attempts per document
  MayCrash    \* whether tasks may die between two steps

ASSUME FiscalAssumption ==
  /\ IsFiniteSet(Doc)
  /\ MissLimit \in Nat \ {0} /\ MaxTry \in Nat \ {0}
  /\ MayCrash \in BOOLEAN
  /\ Request \cap Job = {}

VARIABLES
  document,     \* the fiscal_documents row of each sale, Unissued before it
  notes,        \* fiscal_document_attempts of each document, in order
  orphan,       \* nfce_contingencia_orfas by note
  attachment,   \* fiscal_document_pending_attachments (one per document)
  provenance,   \* the SourceDocument attached to the sale's journal entry
  sequence,     \* last number drawn
  void,         \* fiscal_number_voids: the last request on each number
  contingency,  \* nfce_contingencias
  office,       \* what the tax office holds: [note, voided, late]
  task          \* what each request or job does next

vars == <<document, notes, orphan, attachment, provenance, sequence, void,
          contingency, office, task>>

Worker == Request \cup Job
Note == Doc \X (1 .. MaxTry)
MaxNumber == MaxTry * Cardinality(Doc)
Number == 1 .. MaxNumber

Status == {"SENT", "PROCESSING", "AUTHORIZED", "REJECTED", "CANCELLED",
           "PENDING_SIGNATURE", "CONTINGENCY"}
PENDING_STATUSES == {"SENT", "PROCESSING"}

\* numero 0: none yet; key: the attempt whose key the office authorized, 0
\* before; source: sourceDocumentId is set.
Unissued == [status |-> "none", numero |-> 0, try |-> 0, key |-> 0, source |-> FALSE]
Document == [status : Status, numero : 0 .. MaxNumber, try : 1 .. MaxTry,
             key : 0 .. MaxTry, source : BOOLEAN]

\* misses: naoConsta, the consultations counted that did not find the note.
Attempt == [numero : 0 .. MaxNumber, offline : BOOLEAN, misses : 0 .. MissLimit]

Idle == [at |-> "idle"]
Task ==
  {Idle}
    \cup [at : {"send"}, doc : Doc, try : 1 .. MaxTry, tick : BOOLEAN]
    \cup [at : {"resend"}, doc : Doc, from : Status, numero : 0 .. MaxNumber, try : 1 .. MaxTry]
    \cup [at : {"poll"}, doc : Doc, try : 1 .. MaxTry, ref : 0 .. MaxTry]
    \cup [at : {"ask"}, doc : Doc, try : 1 .. MaxTry, key : 1 .. MaxTry,
          misses : 0 .. MissLimit]
    \cup [at : {"answer"}, doc : Doc, try : 1 .. MaxTry, key : 1 .. MaxTry,
          result : {"AUTHORIZED", "REJECTED", "217"}, by : {"send", "tick", "ask"},
          misses : 0 .. MissLimit]
    \cup [at : {"keep", "retire"}, doc : Doc]
    \cup [at : {"cancelled"}, doc : Doc, source : BOOLEAN]
    \cup [at : {"cancel"}, doc : Doc, key : 1 .. MaxTry, source : BOOLEAN]
    \cup [at : {"drain"}, doc : Doc, tick : BOOLEAN]
    \cup [at : {"link"}, doc : Doc, tick : BOOLEAN, authorized : BOOLEAN]
    \cup [at : {"leave"}]
    \cup [at : {"orphan"}, note : Note, ref : 0 .. MaxTry]
    \cup [at : {"substitute"}, note : Note, ref : 1 .. MaxTry]
    \cup [at : {"void"}, note : Note]
    \cup [at : {"void.send"}, numero : Number, note : Note \cup {<<>>}]
    \cup [at : {"void.apply"}, numero : Number, note : Note \cup {<<>>},
          result : {"HOMOLOGATED", "REJECTED"}]
    \cup [at : {"close"}, note : Note, as : {"CANCELLED_SUBST", "VOID_REQUESTED", "FAILED"}]

FiscalTypeOK ==
  /\ document \in [Doc -> Document \cup {Unissued}]
  /\ notes \in [Doc -> Seq(Attempt)]
  /\ \A d \in Doc : Len(notes[d]) = document[d].try
  /\ orphan \in [Note -> {"none", "PENDING", "CANCELLED_SUBST", "VOID_REQUESTED", "FAILED"}]
  /\ attachment \in [Doc -> {"none", "PENDING", "ATTACHED", "DONE"}]
  /\ provenance \in [Doc -> {"none", "live", "retired"}]
  /\ sequence \in 0 .. MaxNumber
  /\ void \in [Number -> {"none", "REQUESTED", "HOMOLOGATED", "REJECTED"}]
  /\ contingency \in {"off", "AUTO", "MANUAL"}
  /\ office \in [note : [Note -> {"none", "authorized", "cancelled"}],
                 voided : SUBSET Number, late : SUBSET Note]
  /\ task \in [Worker -> Task]

FiscalInit ==
  /\ document = [d \in Doc |-> Unissued]
  /\ notes = [d \in Doc |-> <<>>]
  /\ orphan = [k \in Note |-> "none"]
  /\ attachment = [d \in Doc |-> "none"]
  /\ provenance = [d \in Doc |-> "none"]
  /\ sequence = 0
  /\ void = [n \in Number |-> "none"]
  /\ contingency = "off"
  /\ office = [note |-> [k \in Note |-> "none"], voided |-> {}, late |-> {}]
  /\ task = [w \in Worker |-> Idle]

Goes(w, to) == task' = [task EXCEPT ![w] = to]
Leaves(w) == Goes(w, Idle)
At(w, at) == task[w].at = at

FirstTry(n, offline) == [numero |-> n, offline |-> offline, misses |-> 0]

-----------------------------------------------------------------------------
(* The tax office *)

\* A number is authorized once, and never after it was voided.
Numero(k) == notes[k[1]][k[2]].numero
NumberTaken(n) ==
  \E k \in Note : /\ office.note[k] # "none"
                  /\ Numero(k) = n
CanAuthorize(k) == Numero(k) \notin office.voided /\ ~NumberTaken(Numero(k))

Authorize(k) == [office EXCEPT !.note[k] = "authorized", !.late = @ \ {k}]

\* What consultar of a key answers: 100 with the protocol, or 217.
Found(k) == IF office.note[k] # "none" THEN "AUTHORIZED" ELSE "217"

\* The office gets the note and answers: a duplicate (204, or 539 when another
\* key has the number) makes the adapter consult the key it sent.
ReceiveNote(w) ==
  LET k == <<task[w].doc, task[w].try>>
      Answers(r) ==
        Goes(w, [at |-> "answer", doc |-> task[w].doc, try |-> task[w].try,
                 key |-> task[w].try, result |-> r,
                 by |-> IF task[w].tick THEN "tick" ELSE "send", misses |-> 0])
  IN /\ At(w, "send")
     /\ \/ CanAuthorize(k) /\ office' = Authorize(k) /\ Answers("AUTHORIZED")
        \/ /\ NumberTaken(Numero(k))
           /\ office' = [office EXCEPT !.late = @ \ {k}]
           /\ Answers(Found(k))
        \/ /\ ~NumberTaken(Numero(k))
           /\ office' = [office EXCEPT !.late = @ \ {k}]
           /\ Answers("REJECTED")
     /\ UNCHANGED <<document, notes, orphan, attachment, provenance, sequence, void, contingency>>

\* A request whose caller gave up reaches the office after all, or never does.
LateNote(k) ==
  /\ k \in office.late
  /\ \/ CanAuthorize(k) /\ office' = Authorize(k)
     \/ office' = [office EXCEPT !.late = @ \ {k}]
  /\ UNCHANGED <<document, notes, orphan, attachment, provenance, sequence, void, contingency, task>>

-----------------------------------------------------------------------------
(* Emission *)

EmitIn(w, d, status, n, offline, next) ==
  /\ w \in Request /\ At(w, "idle")
  /\ document[d].status = "none"
  /\ document' = [document EXCEPT ![d] = [status |-> status, numero |-> n, try |-> 1,
                                          key |-> 0, source |-> FALSE]]
  /\ notes' = [notes EXCEPT ![d] = <<FirstTry(n, offline)>>]
  /\ sequence' = sequence + (IF n = 0 THEN 0 ELSE 1)
  /\ Goes(w, next)
  /\ UNCHANGED <<orphan, attachment, provenance, void, contingency, office>>

\* The signing session expired: the note waits, and takes no number.
EmitUnsigned(w, d) == EmitIn(w, d, "PENDING_SIGNATURE", 0, FALSE, Idle)

\* The unit is in contingency: the note leaves off-line, for the job to send.
EmitOffline(w, d) ==
  /\ contingency # "off"
  /\ EmitIn(w, d, "CONTINGENCY", sequence + 1, TRUE, Idle)

Emit(w, d) ==
  /\ contingency = "off"
  /\ EmitIn(w, d, "SENT", sequence + 1, FALSE,
            [at |-> "send", doc |-> d, try |-> 1, tick |-> FALSE])

-----------------------------------------------------------------------------
(* enviarTentativa: the call of a request did not succeed *)

IsSending(w) ==
  \/ At(w, "send") /\ ~task[w].tick
  \/ At(w, "answer") /\ task[w].by = "send"

\* What becomes of a request whose caller gives up: answered already, still on
\* its way, or lost.
Abandon(w) ==
  \/ UNCHANGED office
  \/ /\ At(w, "send")
     /\ office' = [office EXCEPT !.late = @ \cup {<<task[w].doc, task[w].try>>}]

\* The signing session ends before the note is sent.
SessionExpired(w) ==
  LET d == task[w].doc
  IN /\ At(w, "send") /\ ~task[w].tick
     /\ document' = [document EXCEPT ![d].status = IF @ = "SENT" THEN "PENDING_SIGNATURE" ELSE @]
     /\ Leaves(w)
     /\ UNCHANGED <<notes, orphan, attachment, provenance, sequence, void, contingency, office>>

\* An off-line note, resent: back to the job.
OfflineFails(w) ==
  LET d == task[w].doc
  IN /\ IsSending(w)
     /\ notes[d][task[w].try].offline
     /\ Abandon(w)
     /\ document' = [document EXCEPT ![d].status = IF @ = "SENT" THEN "CONTINGENCY" ELSE @]
     /\ Leaves(w)
     /\ UNCHANGED <<notes, orphan, attachment, provenance, sequence, void, contingency>>

\* aoFalharComunicacao, one transaction: the unit enters contingency, the sale
\* leaves off-line under a new number, and the note that was sent is an orphan.
\* The attempt appended is the next of the one sent, and numbered once.
EnterContingency(w) ==
  LET d == task[w].doc
      n == sequence + 1
  IN /\ IsSending(w)
     /\ ~notes[d][task[w].try].offline
     /\ Len(notes[d]) = task[w].try /\ task[w].try < MaxTry
     /\ document[d].status = "SENT"
     /\ Abandon(w)
     /\ contingency' = IF contingency = "off" THEN "AUTO" ELSE contingency
     /\ sequence' = n
     /\ notes' = [notes EXCEPT ![d] = Append(@, FirstTry(n, TRUE))]
     /\ document' = [document EXCEPT ![d].status = "CONTINGENCY", ![d].numero = n,
                                     ![d].try = task[w].try + 1]
     /\ orphan' = [orphan EXCEPT ![<<d, task[w].try>>] = "PENDING"]
     /\ Leaves(w)
     /\ UNCHANGED <<attachment, provenance, void>>

\* Any other failure, and a contingency transaction that rolled back (because
\* the document left SENT, or on its own account).
SendFails(w) ==
  /\ IsSending(w)
  /\ Abandon(w)
  /\ Goes(w, [at |-> "keep", doc |-> task[w].doc])
  /\ UNCHANGED <<document, notes, orphan, attachment, provenance, sequence, void, contingency>>

\* The document "stays SENT": written without whenStatusIn.
KeepSent(w) ==
  /\ At(w, "keep")
  /\ document' = [document EXCEPT ![task[w].doc].status = "SENT"]
  /\ Leaves(w)
  /\ UNCHANGED <<notes, orphan, attachment, provenance, sequence, void, contingency, office>>

-----------------------------------------------------------------------------
(* applyResult: what the office answered, under the guard of its caller *)

Guard(w) == IF task[w].by = "tick" THEN {"CONTINGENCY"} ELSE PENDING_STATUSES
Accepts(w) == At(w, "answer") /\ document[task[w].doc].status \in Guard(w)

\* The tick leaves contingency once an answer was applied.
Then(w) == IF task[w].by = "tick" THEN [at |-> "leave"] ELSE Idle

\* The pending attachment is created in the same transaction, and a document has
\* one at most.
ApplyAuthorized(w) ==
  LET d == task[w].doc
      key == task[w].key
  IN /\ Accepts(w) /\ task[w].result = "AUTHORIZED"
     /\ attachment[d] = "none"
     /\ document' = [document EXCEPT ![d].status = "AUTHORIZED", ![d].key = key,
                                     ![d].numero = notes[d][key].numero, ![d].source = FALSE]
     /\ attachment' = [attachment EXCEPT ![d] = "PENDING"]
     /\ Goes(w, [at |-> "drain", doc |-> d, tick |-> task[w].by = "tick"])
     /\ UNCHANGED <<notes, orphan, provenance, sequence, void, contingency, office>>

ApplyRejected(w) ==
  /\ Accepts(w) /\ task[w].result = "REJECTED"
  /\ document' = [document EXCEPT ![task[w].doc].status = "REJECTED"]
  /\ Goes(w, Then(w))
  /\ UNCHANGED <<notes, orphan, attachment, provenance, sequence, void, contingency, office>>

\* naoRecebida: the consultation that fills the count rejects the note, which
\* may then be resent.  The answer to an emission starts the count again.
ApplyNotFound(w) ==
  LET d == task[w].doc
      misses == task[w].misses
  IN /\ Accepts(w) /\ task[w].result = "217"
     /\ notes' = [notes EXCEPT ![d][task[w].try].misses = misses]
     /\ document' = [document EXCEPT ![d].status =
                       IF misses = MissLimit THEN "REJECTED" ELSE "PROCESSING"]
     /\ Goes(w, Then(w))
     /\ UNCHANGED <<orphan, attachment, provenance, sequence, void, contingency, office>>

\* The status changed in the meantime, or the document has its attachment: the
\* transaction rolls back and the answer is dropped.
DropAnswer(w) ==
  /\ At(w, "answer")
  /\ ~Accepts(w) \/ (task[w].result = "AUTHORIZED" /\ attachment[task[w].doc] # "none")
  /\ Leaves(w)
  /\ UNCHANGED <<document, notes, orphan, attachment, provenance, sequence, void, contingency, office>>

\* sairAutomatico
LeaveContingency(w) ==
  /\ At(w, "leave")
  /\ contingency' = IF contingency = "AUTO" THEN "off" ELSE contingency
  /\ Leaves(w)
  /\ UNCHANGED <<document, notes, orphan, attachment, provenance, sequence, void, office>>

-----------------------------------------------------------------------------
(* drainOne: the provenance of an authorized note, inline or from the job *)

StartDrain(w, d) ==
  /\ w \in Job /\ At(w, "idle")
  /\ attachment[d] \in {"PENDING", "ATTACHED"}
  /\ Goes(w, [at |-> "drain", doc |-> d, tick |-> FALSE])
  /\ UNCHANGED <<document, notes, orphan, attachment, provenance, sequence, void, contingency, office>>

\* attachSourceDocument, unless an earlier pass did, then markPendingStep.
AttachSource(w) ==
  LET d == task[w].doc
  IN /\ At(w, "drain")
     /\ attachment' = [attachment EXCEPT ![d] = IF @ = "PENDING" THEN "ATTACHED" ELSE @]
     /\ provenance' = [provenance EXCEPT ![d] = IF attachment[d] = "PENDING" THEN "live" ELSE @]
     /\ Goes(w, [at |-> "link", doc |-> d, tick |-> task[w].tick,
                 authorized |-> document[d].status = "AUTHORIZED"])
     /\ UNCHANGED <<document, notes, orphan, sequence, void, contingency, office>>

\* A failed upload leaves the row for the next sweep.
DrainFails(w) ==
  /\ At(w, "drain")
  /\ Goes(w, IF task[w].tick THEN [at |-> "leave"] ELSE Idle)
  /\ UNCHANGED <<document, notes, orphan, attachment, provenance, sequence, void, contingency, office>>

\* The second write is guarded by the status: a document cancelled in between
\* gets its provenance retired instead.
LinkSource(w) ==
  LET d == task[w].doc
      linked == task[w].authorized /\ document[d].status = "AUTHORIZED"
  IN /\ At(w, "link")
     /\ document' = [document EXCEPT ![d].source = @ \/ linked]
     /\ provenance' = [provenance EXCEPT ![d] = IF linked THEN @ ELSE "retired"]
     /\ attachment' = [attachment EXCEPT ![d] = "DONE"]
     /\ Goes(w, IF task[w].tick THEN [at |-> "leave"] ELSE Idle)
     /\ UNCHANGED <<notes, orphan, sequence, void, contingency, office>>

-----------------------------------------------------------------------------
(* consultarUm and pollPendingOnce *)

\* try: the attempt of the document as it was read, on which the result will be
\* recorded.  The key is partnerRef (ref) if a note was authorized, else that of
\* the current attempt, with its count.
Consultation(d, try, ref) ==
  [at |-> "ask", doc |-> d, try |-> try, key |-> IF ref # 0 THEN ref ELSE document[d].try,
   misses |-> notes[d][document[d].try].misses]

StartAsk(w, d) ==
  /\ w \in Request /\ At(w, "idle")
  /\ document[d].status \in PENDING_STATUSES
  /\ Goes(w, Consultation(d, document[d].try, document[d].key))
  /\ UNCHANGED <<document, notes, orphan, attachment, provenance, sequence, void,
                 contingency, office>>

\* The poll lists the pending documents, and reads their attempts one by one
\* before it consults them: a document may have been resent in between.
ListPending(w, d) ==
  /\ w \in Job /\ At(w, "idle")
  /\ document[d].status \in PENDING_STATUSES
  /\ Goes(w, [at |-> "poll", doc |-> d, try |-> document[d].try, ref |-> document[d].key])
  /\ UNCHANGED <<document, notes, orphan, attachment, provenance, sequence, void,
                 contingency, office>>

PollNote(w) ==
  /\ At(w, "poll")
  /\ Goes(w, Consultation(task[w].doc, task[w].try, task[w].ref))
  /\ UNCHANGED <<document, notes, orphan, attachment, provenance, sequence, void,
                 contingency, office>>

\* A miss counts if it is the first, or spaced from the last one recorded when
\* the attempt was read.
Counted(misses) == {n \in {misses, misses + 1} : n \in 1 .. MissLimit}

AskNote(w) ==
  LET result == Found(<<task[w].doc, task[w].key>>)
  IN /\ At(w, "ask")
     /\ \E misses \in IF result = "217" THEN Counted(task[w].misses) ELSE {0} :
          Goes(w, [at |-> "answer", doc |-> task[w].doc, try |-> task[w].try,
                   key |-> task[w].key, result |-> result, by |-> "ask", misses |-> misses])
     /\ UNCHANGED <<document, notes, orphan, attachment, provenance, sequence, void,
                    contingency, office>>

-----------------------------------------------------------------------------
(* reenviar *)

\* reenvioNfe refuses a number with a void request, read before the transaction.
CheckResend(w, d) ==
  LET r == document[d]
  IN /\ w \in Request /\ At(w, "idle")
     /\ r.status \in {"REJECTED", "PENDING_SIGNATURE"}
     /\ r.try < MaxTry
     /\ r.numero # 0 => void[r.numero] \notin {"REQUESTED", "HOMOLOGATED"}
     /\ Goes(w, [at |-> "resend", doc |-> d, from |-> r.status, numero |-> r.numero,
                 try |-> r.try + 1])
     /\ UNCHANGED <<document, notes, orphan, attachment, provenance, sequence, void,
                    contingency, office>>

\* Mutant: the document points to an attempt that was never recorded.
ResendUnrecorded(w) ==
  LET d == task[w].doc
      try == task[w].try
      n == IF task[w].numero = 0 THEN sequence + 1 ELSE task[w].numero
  IN /\ At(w, "resend")
     /\ document[d].status = task[w].from /\ Len(notes[d]) < try
     /\ sequence' = IF task[w].numero = 0 THEN n ELSE sequence
     /\ document' = [document EXCEPT ![d].status = "SENT", ![d].try = try, ![d].numero = n]
     /\ Goes(w, [at |-> "send", doc |-> d, try |-> try, tick |-> FALSE])
     /\ UNCHANGED <<notes, orphan, attachment, provenance, void, contingency, office>>

\* Mutant: the number is drawn anew.
ResendRenumbered(w) ==
  LET d == task[w].doc
      try == task[w].try
      n == sequence + 1
  IN /\ At(w, "resend")
     /\ document[d].status = task[w].from /\ Len(notes[d]) < try
     /\ sequence' = n
     /\ notes' = [notes EXCEPT ![d] = Append(@, FirstTry(n, @[try - 1].offline))]
     /\ document' = [document EXCEPT ![d].status = "SENT", ![d].try = try, ![d].numero = n]
     /\ Goes(w, [at |-> "send", doc |-> d, try |-> try, tick |-> FALSE])
     /\ UNCHANGED <<orphan, attachment, provenance, void, contingency, office>>

\* The same number under a new key, or the number a note that waited for its
\* signature never took; an off-line note stays off-line.  Answers about the
\* attempts before may still be awaited.
Resend(w) ==
  LET d == task[w].doc
      try == task[w].try
      n == IF task[w].numero = 0 THEN sequence + 1 ELSE task[w].numero
  IN /\ At(w, "resend")
     /\ document[d].status = task[w].from /\ Len(notes[d]) < try
     /\ sequence' = IF task[w].numero = 0 THEN n ELSE sequence
     /\ notes' = [notes EXCEPT ![d] = Append(@, FirstTry(n, @[try - 1].offline))]
     /\ document' = [document EXCEPT ![d].status = "SENT", ![d].try = try, ![d].numero = n]
     /\ Goes(w, [at |-> "send", doc |-> d, try |-> try, tick |-> FALSE])
     /\ UNCHANGED <<orphan, attachment, provenance, void, contingency, office>>

\* raceToConflict: another resend was faster.
ResendConflict(w) ==
  LET d == task[w].doc
  IN /\ At(w, "resend")
     /\ document[d].status # task[w].from \/ Len(notes[d]) >= task[w].try
     /\ Leaves(w)
     /\ UNCHANGED <<document, notes, orphan, attachment, provenance, sequence, void,
                    contingency, office>>

-----------------------------------------------------------------------------
(* cancelar *)

\* Mutant: the document is marked before the office registers the event.
StartCancelMarks(w, d) ==
  /\ w \in Request /\ At(w, "idle")
  /\ document[d].status = "AUTHORIZED"
  /\ Goes(w, [at |-> "cancelled", doc |-> d, source |-> document[d].source])
  /\ UNCHANGED <<document, notes, orphan, attachment, provenance, sequence, void, contingency, office>>

StartCancel(w, d) ==
  /\ w \in Request /\ At(w, "idle")
  /\ document[d].status = "AUTHORIZED"
  /\ Goes(w, [at |-> "cancel", doc |-> d, key |-> document[d].key, source |-> document[d].source])
  /\ UNCHANGED <<document, notes, orphan, attachment, provenance, sequence, void, contingency, office>>

\* The office registers the event, or refuses it (out of time, registered
\* already).
CancelNote(w) ==
  LET k == <<task[w].doc, task[w].key>>
  IN /\ At(w, "cancel")
     /\ \/ /\ office.note[k] = "authorized"
           /\ office' = [office EXCEPT !.note[k] = "cancelled"]
           /\ Goes(w, [at |-> "cancelled", doc |-> task[w].doc, source |-> task[w].source])
        \/ UNCHANGED office /\ Leaves(w)
     /\ UNCHANGED <<document, notes, orphan, attachment, provenance, sequence, void, contingency>>

\* markCancelled; the provenance retired is the one read before the call.
MarkCancelled(w) ==
  LET d == task[w].doc
      ok == document[d].status = "AUTHORIZED"
  IN /\ At(w, "cancelled")
     /\ document' = [document EXCEPT ![d].status = IF ok THEN "CANCELLED" ELSE @]
     /\ Goes(w, IF ok /\ task[w].source THEN [at |-> "retire", doc |-> d] ELSE Idle)
     /\ UNCHANGED <<notes, orphan, attachment, provenance, sequence, void, contingency, office>>

RetireSource(w) ==
  /\ At(w, "retire")
  /\ provenance' = [provenance EXCEPT ![task[w].doc] = "retired"]
  /\ Leaves(w)
  /\ UNCHANGED <<document, notes, orphan, attachment, sequence, void, contingency, office>>

-----------------------------------------------------------------------------
(* The tick of NfceContingenciaService *)

\* Mutant: a unit that is not in contingency is skipped.
TransmitInContingency(w, d) ==
  /\ w \in Job /\ At(w, "idle")
  /\ document[d].status = "CONTINGENCY" /\ contingency # "off"
  /\ Goes(w, [at |-> "send", doc |-> d, try |-> document[d].try, tick |-> TRUE])
  /\ UNCHANGED <<document, notes, orphan, attachment, provenance, sequence, void, contingency, office>>

\* transmitirUma: the note of a CONTINGENCY document, under its key.
Transmit(w, d) ==
  /\ w \in Job /\ At(w, "idle")
  /\ document[d].status = "CONTINGENCY"
  /\ Goes(w, [at |-> "send", doc |-> d, try |-> document[d].try, tick |-> TRUE])
  /\ UNCHANGED <<document, notes, orphan, attachment, provenance, sequence, void, contingency, office>>

\* No communication, or no signing session: the document stays CONTINGENCY.
TransmitFails(w) ==
  /\ \/ At(w, "send") /\ task[w].tick
     \/ At(w, "answer") /\ task[w].by = "tick"
  /\ Abandon(w)
  /\ Leaves(w)
  /\ UNCHANGED <<document, notes, orphan, attachment, provenance, sequence, void, contingency>>

\* resolverOrfa: the document is read, then the orphan's key consulted.
\* ASSUMED of the timeouts: a request whose caller gave up (30 s) reaches the
\* office within the two minutes that an orphan waits, or never (DFE_POLL_AFTER_MS).
StartOrphan(w, k) ==
  LET r == document[k[1]]
  IN /\ w \in Job /\ At(w, "idle")
     /\ orphan[k] = "PENDING"
     /\ k \notin office.late
     /\ Goes(w, [at |-> "orphan", note |-> k, ref |-> IF r.status = "AUTHORIZED" THEN r.key ELSE 0])
     /\ UNCHANGED <<document, notes, orphan, attachment, provenance, sequence, void,
                    contingency, office>>

\* The office answered: sairAutomatico.  An authorized orphan waits for the note
\* that replaces it; one the office does not have gets its number voided.
AskOrphan(w) ==
  LET k == task[w].note
  IN /\ At(w, "orphan")
     /\ contingency' = IF contingency = "AUTO" THEN "off" ELSE contingency
     /\ Goes(w, IF office.note[k] = "none" THEN [at |-> "void", note |-> k]
                ELSE IF task[w].ref # 0
                THEN [at |-> "substitute", note |-> k, ref |-> task[w].ref]
                ELSE Idle)
     /\ UNCHANGED <<document, notes, orphan, attachment, provenance, sequence, void, office>>

\* cancelarPorSubstituicao: the office wants the replacing note in its books
\* (rej. 912) and issued off-line (rej. 921).
Substitute(w) ==
  LET k == task[w].note
      Close(s) == Goes(w, [at |-> "close", note |-> k, as |-> s])
  IN /\ At(w, "substitute")
     /\ \/ /\ office.note[k] = "authorized"
           /\ office.note[<<k[1], task[w].ref>>] = "authorized"
           /\ notes[k[1]][task[w].ref].offline
           /\ office' = [office EXCEPT !.note[k] = "cancelled"]
           /\ Close("CANCELLED_SUBST")
        \/ UNCHANGED office /\ Close("FAILED")
     /\ UNCHANGED <<document, notes, orphan, attachment, provenance, sequence, void, contingency>>

CloseOrphan(w) ==
  /\ At(w, "close")
  /\ orphan' = [orphan EXCEPT ![task[w].note] = task[w].as]
  /\ Leaves(w)
  /\ UNCHANGED <<document, notes, attachment, provenance, sequence, void, contingency, office>>

-----------------------------------------------------------------------------
(* FiscalNumberVoidService.pedir, for an operator (note <<>>) or an orphan *)

STATUS_QUE_OCUPAM_NUMERO == Status \ {"REJECTED"}

\* Mutant: a number with a request is asked for again.
MayVoidAgain(n) ==
  /\ n <= sequence
  /\ ~\E d \in Doc : /\ document[d].numero = n
                     /\ document[d].status \in STATUS_QUE_OCUPAM_NUMERO

MayVoid(n) ==
  /\ n <= sequence
  /\ ~\E d \in Doc : /\ document[d].numero = n
                     /\ document[d].status \in STATUS_QUE_OCUPAM_NUMERO
  /\ void[n] \notin {"REQUESTED", "HOMOLOGATED"}

RequestVoidOf(w, n, k) ==
  /\ MayVoid(n)
  /\ void' = [void EXCEPT ![n] = "REQUESTED"]
  /\ Goes(w, [at |-> "void.send", numero |-> n, note |-> k])

VoidNumber(w, n) ==
  /\ w \in Request /\ At(w, "idle")
  /\ RequestVoidOf(w, n, <<>>)
  /\ UNCHANGED <<document, notes, orphan, attachment, provenance, sequence, contingency, office>>

\* An orphan whose number may not be voided fails, for a person to look at.
After(w, s) ==
  IF task[w].note = <<>> THEN Idle ELSE [at |-> "close", note |-> task[w].note, as |-> s]

VoidOrphan(w) ==
  LET n == Numero(task[w].note)
  IN /\ At(w, "void")
     /\ \/ RequestVoidOf(w, n, task[w].note)
        \/ ~MayVoid(n) /\ UNCHANGED void /\ Goes(w, After(w, "FAILED"))
     /\ UNCHANGED <<document, notes, orphan, attachment, provenance, sequence, contingency, office>>

\* The office never voids a number it authorized.
OfficeVoids(n) ==
  /\ ~NumberTaken(n)
  /\ office' = [office EXCEPT !.voided = @ \cup {n}]

SendVoid(w) ==
  LET Answers(r) == Goes(w, [at |-> "void.apply", numero |-> task[w].numero,
                             note |-> task[w].note, result |-> r])
  IN /\ At(w, "void.send")
     /\ \/ OfficeVoids(task[w].numero) /\ Answers("HOMOLOGATED")
        \/ UNCHANGED office /\ Answers("REJECTED")
     /\ UNCHANGED <<document, notes, orphan, attachment, provenance, sequence, void, contingency>>

\* The answer is lost, the request too or not: the row stays REQUESTED.
VoidUnanswered(w) ==
  /\ At(w, "void.send")
  /\ OfficeVoids(task[w].numero) \/ UNCHANGED office
  /\ Goes(w, After(w, "VOID_REQUESTED"))
  /\ UNCHANGED <<document, notes, orphan, attachment, provenance, sequence, void, contingency>>

ApplyVoid(w) ==
  /\ At(w, "void.apply")
  /\ void' = [void EXCEPT ![task[w].numero] = task[w].result]
  /\ Goes(w, After(w, IF task[w].result = "REJECTED" THEN "FAILED" ELSE "VOID_REQUESTED"))
  /\ UNCHANGED <<document, notes, orphan, attachment, provenance, sequence, contingency, office>>

-----------------------------------------------------------------------------
\* definir: the operator switches contingency on, over an AUTO one too, or off.
SetContingency(s) ==
  /\ s \in {"off", "MANUAL"} \ {contingency}
  /\ contingency' = s
  /\ UNCHANGED <<document, notes, orphan, attachment, provenance, sequence, void, office, task>>

\* The process dies, or a call that reads the office or the database fails
\* before its task has changed anything more.
Dies(w) ==
  /\ task[w] # Idle
  /\ \/ MayCrash
     \/ task[w].at \in {"ask", "cancel", "orphan", "substitute"}
     \/ At(w, "answer") /\ task[w].by = "ask"
  /\ Leaves(w)
  /\ UNCHANGED <<document, notes, orphan, attachment, provenance, sequence, void, contingency, office>>

-----------------------------------------------------------------------------
RequestStarts(w) ==
  \/ \E d \in Doc :
       \/ Emit(w, d) \/ EmitOffline(w, d) \/ EmitUnsigned(w, d)
       \/ CheckResend(w, d) \/ StartCancel(w, d) \/ StartAsk(w, d)
  \/ \E n \in Number : VoidNumber(w, n)

Continues(w) ==
  \/ ReceiveNote(w) \/ SessionExpired(w) \/ OfflineFails(w) \/ EnterContingency(w)
  \/ SendFails(w) \/ KeepSent(w) \/ TransmitFails(w)
  \/ ApplyAuthorized(w) \/ ApplyRejected(w) \/ ApplyNotFound(w) \/ DropAnswer(w)
  \/ LeaveContingency(w) \/ AttachSource(w) \/ DrainFails(w) \/ LinkSource(w)
  \/ PollNote(w) \/ AskNote(w) \/ Resend(w) \/ ResendConflict(w)
  \/ CancelNote(w) \/ MarkCancelled(w) \/ RetireSource(w)
  \/ AskOrphan(w) \/ Substitute(w) \/ CloseOrphan(w)
  \/ VoidOrphan(w) \/ SendVoid(w) \/ VoidUnanswered(w) \/ ApplyVoid(w)
  \/ Dies(w)

FiscalNext ==
  \/ \E w \in Request : RequestStarts(w)
  \/ \E w \in Job :
       \/ \E d \in Doc : Transmit(w, d) \/ StartDrain(w, d) \/ ListPending(w, d)
       \/ \E k \in Note : StartOrphan(w, k)
  \/ \E w \in Worker : Continues(w)
  \/ \E k \in Note : LateNote(k)
  \/ \E s \in {"off", "MANUAL"} : SetContingency(s)

FiscalSpec == FiscalInit /\ [][FiscalNext]_vars

\* The job visits every off-line note and every pending orphan at each tick
\* (nothing says when), and no call lasts for ever.
FiscalFairSpec ==
  /\ FiscalSpec
  /\ \A w \in Worker : WF_vars(Continues(w))
  /\ \A k \in Note : WF_vars(LateNote(k))
  /\ \A w \in Job :
       /\ \A d \in Doc : SF_vars(Transmit(w, d))
       /\ \A k \in Note : SF_vars(StartOrphan(w, k))

-----------------------------------------------------------------------------
(* Properties *)

\* The program never takes a note for more than the office made it: authorized
\* means authorized under that very key, cancelled means the event was
\* registered, whatever answers arrive late or over another attempt.
BelievesTheOffice ==
  \A d \in Doc :
    LET r == document[d]
    IN /\ r.status = "AUTHORIZED" =>
            /\ office.note[<<d, r.key>>] # "none"
            /\ r.numero = Numero(<<d, r.key>>)
       /\ r.status = "CANCELLED" => office.note[<<d, r.key>>] = "cancelled"

\* Two notes of one sale may both be alive at the office, when the first arrives
\* after the sale left off-line.  Then an orphan with the number of one of them is
\* still open: left to the job, to a person, or with its voiding unanswered.
Open(k) ==
  \/ orphan[k] \in {"PENDING", "FAILED"}
  \/ orphan[k] = "VOID_REQUESTED" /\ void[Numero(k)] = "REQUESTED"
DuplicateIsTracked ==
  \A j, k \in Note :
    (/\ j[1] = k[1] /\ j # k
     /\ office.note[j] = "authorized" /\ office.note[k] = "authorized") =>
      \E n \in 1 .. document[k[1]].try :
        /\ Open(<<k[1], n>>)
        /\ Numero(<<k[1], n>>) \in {Numero(j), Numero(k)}

\* An orphan is closed for what happened to it: cancelled when another note of
\* the sale took its place, its number asked to be voided when the office never
\* had it.
OrphanClosedRightly ==
  \A k \in Note :
    /\ orphan[k] = "CANCELLED_SUBST" =>
         /\ office.note[k] = "cancelled"
         /\ \E n \in 1 .. MaxTry : n # k[2] /\ office.note[<<k[1], n>>] # "none"
    /\ orphan[k] = "VOID_REQUESTED" =>
         /\ office.note[k] = "none"
         /\ void[Numero(k)] \in {"REQUESTED", "HOMOLOGATED"}

\* The office answers from now on, nothing dies, and the operator leaves
\* contingency alone.
Recovers ==
  <>[][/\ \A w \in Worker :
            /\ Dies(w) => DropAnswer(w) \/ AskOrphan(w) \/ CancelNote(w)
            /\ TransmitFails(w) => DropAnswer(w)
            /\ ~SendFails(w) /\ ~EnterContingency(w)
            /\ OfflineFails(w) => DropAnswer(w)
       /\ ~SetContingency("MANUAL")]_vars

\* Once the office answers, the job gets every off-line note out of contingency,
\* and an automatic contingency ends by itself.
ContingencyEnds ==
  Recovers =>
    /\ \A d \in Doc : document[d].status = "CONTINGENCY" ~> document[d].status # "CONTINGENCY"
    /\ contingency = "AUTO" ~> contingency # "AUTO"

\* "AUTHORIZED -> CANCELLED" (schema.prisma:2352): an authorized document only
\* leaves by being cancelled, and a cancelled one stays cancelled.
AuthorizedIsKept ==
  [][\A d \in Doc :
       /\ document[d].status = "AUTHORIZED" => document'[d].status \in {"AUTHORIZED", "CANCELLED"}
       /\ document[d].status = "CANCELLED" => document'[d].status = "CANCELLED"]_vars
=============================================================================

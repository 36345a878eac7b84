------------------------ MODULE FiscalTrackingProofs ------------------------
(***************************************************************************)
(* Two notes of a sale are never both alive at the office behind the       *)
(* program's back, and an orphan is closed for what happened to it: proofs *)
(* about FiscalDocument in layers, each one resting on the invariants      *)
(* before it.                                                              *)
(*   Numbers : what numbers the attempts carry                             *)
(*   Lines   : the attempts of a document, in order, who may be sending    *)
(*             each of them, and which one became an orphan                *)
(*   Orphans : the notes that went out of sight, and their numbers         *)
(*   Books   : what the office makes of a number                           *)
(*   Types   : the bounds on everything else                               *)
(***************************************************************************)
EXTENDS FiscalProofs, FiniteSetTheorems

-----------------------------------------------------------------------------
(* The layers of the invariant *)

NumbersOf(d) == {notes[d][i].numero : i \in 1 .. Len(notes[d])}

\* Numbers are drawn in order, and no two documents share one.
Numbers ==
  /\ \A d \in Doc : \A n \in NumbersOf(d) : n <= sequence
  /\ \A d, e \in Doc : \A n \in NumbersOf(d) \cap NumbersOf(e) : n = 0 \/ d = e
  /\ \A n \in 1 .. sequence : \E d \in Doc : n \in NumbersOf(d)
  /\ \A d \in Doc : document[d].status # "none" => document[d].numero \in NumbersOf(d)
  /\ \A w \in Worker : task[w].at = "resend" => task[w].numero \in NumbersOf(task[w].doc)

\* A worker that has attempt n of the document in a call: the request that emits
\* it, or the tick.
Emits(w, d, n) ==
  /\ \/ task[w].at = "send" /\ ~task[w].tick
     \/ task[w].at = "answer" /\ task[w].by = "send"
  /\ task[w].doc = d
  /\ task[w].try = n
Ticks(w, d, n) ==
  /\ \/ task[w].at = "send" /\ task[w].tick
     \/ task[w].at = "answer" /\ task[w].by = "tick"
  /\ task[w].doc = d
  /\ task[w].try = n
Resends(w, d) == task[w].at = "resend" /\ task[w].doc = d

AtOffice(d, n) == office.note[<<d, n>>] # "none"
Late(d, n) == <<d, n>> \in office.late
Lost(d, n) == orphan[<<d, n>>] # "none"

\* The row of a document against its attempts.
RowSound(d) ==
  LET r == document[d]
  IN /\ Len(notes[d]) = r.try
     /\ r.status = "CONTINGENCY" => notes[d][r.try].offline
     /\ r.numero = 0 => \A n \in NumbersOf(d) : n = 0

\* Once off-line, off-line for good; what was sent has a number; and an orphan is
\* the last attempt that was not off-line.
AttemptsSound(d) ==
  LET try == Len(notes[d])
  IN /\ \A i, j \in 1 .. try : i <= j /\ notes[d][i].offline => notes[d][j].offline
     /\ \A i \in 1 .. try : notes[d][i].offline => notes[d][i].numero # 0
     /\ \A n \in 1 .. MaxTry :
          /\ AtOffice(d, n) \/ Late(d, n) => n <= try /\ notes[d][n].numero # 0
          /\ Lost(d, n) => /\ n + 1 <= try
                           /\ notes[d][n].numero # 0
                           /\ ~notes[d][n].offline
                           /\ notes[d][n + 1].offline

\* Two numbers of a sale: one of them is an orphan's.
Numbered(d) ==
  \A i, j \in 1 .. Len(notes[d]) :
    (/\ notes[d][i].numero # 0 /\ notes[d][j].numero # 0
     /\ notes[d][i].numero # notes[d][j].numero) =>
      \E n \in 1 .. MaxTry :
        /\ Lost(d, n)
        /\ notes[d][n].numero \in {notes[d][i].numero, notes[d][j].numero}

\* What is sent has a number and is no orphan; the tick sends what is off-line.
SendSound(w, d) ==
  \A n \in 1 .. MaxTry :
    /\ Emits(w, d, n) => notes[d][n].numero # 0 /\ ~Lost(d, n)
    /\ Ticks(w, d, n) => notes[d][n].offline

\* A resend that will draw a number is of a document that never had one.
ResendSound(w, d) ==
  Resends(w, d) /\ Len(notes[d]) < task[w].try /\ task[w].numero = 0 =>
    \A n \in NumbersOf(d) : n = 0

\* An attempt is emitted by one request.
Together(v, w, d) ==
  \A n \in 1 .. MaxTry : Emits(v, d, n) /\ Emits(w, d, n) => v = w

Line(d) ==
  /\ RowSound(d)
  /\ AttemptsSound(d)
  /\ Numbered(d)
  /\ \A w \in Worker : SendSound(w, d) /\ ResendSound(w, d)
  /\ \A v, w \in Worker : Together(v, w, d)

OrphanStatus == {"none", "PENDING", "CANCELLED_SUBST", "VOID_REQUESTED", "FAILED"}

\* What a task holds beside documents: an answer the office can give, and an orphan
\* that is one.
Carried(w) ==
  LET t == task[w]
  IN /\ t.at = "answer" => /\ t.by \in {"send", "tick", "ask"}
                           /\ t.result \in {"AUTHORIZED", "REJECTED", "217"}
     /\ t.at \in {"orphan", "substitute", "void", "close"} =>
          t.note \in Note /\ orphan[t.note] # "none"
     /\ t.at \in {"void.send", "void.apply"} /\ t.note # <<>> =>
          t.note \in Note /\ orphan[t.note] # "none"
     /\ t.at = "close" => t.as \in {"CANCELLED_SUBST", "VOID_REQUESTED", "FAILED"}

Lines ==
  /\ orphan \in [Note -> OrphanStatus]
  /\ \A w \in Worker : Carried(w)
  /\ \A d \in Doc : Line(d)

-----------------------------------------------------------------------------
\* What a task that resolves an orphan knows of it.
Resolves(w, k) ==
  /\ task[w].at \in {"orphan", "substitute", "void", "void.send", "void.apply", "close"}
  /\ task[w].note = k

Voiding(w, n) == task[w].at \in {"void.send", "void.apply"} /\ task[w].numero = n

\* A request to void the number is on record, and nobody will take it back.
Voided(n) ==
  /\ void[n] \in {"REQUESTED", "HOMOLOGATED"}
  /\ \A w \in Worker : ~Voiding(w, n)

Replaced(k) ==
  /\ office.note[k] = "cancelled"
  /\ \E n \in 1 .. MaxTry : n # k[2] /\ AtOffice(k[1], n)
Unused(k) == office.note[k] = "none" /\ Voided(Numero(k))

ResolveSound(w, k) ==
  LET t == task[w]
  IN Resolves(w, k) =>
       /\ k \notin office.late
       /\ t.at = "orphan" => t.ref \in 0 .. MaxTry
       /\ t.at = "substitute" => t.ref \in 1 .. MaxTry
       /\ t.at \in {"void", "void.send", "void.apply"} => office.note[k] = "none"
       /\ t.at \in {"void.send", "void.apply"} => t.numero = Numero(k)
       /\ t.at = "close" => /\ t.as = "CANCELLED_SUBST" => Replaced(k)
                            /\ t.as = "VOID_REQUESTED" => Unused(k)

OrphanSound(k) ==
  /\ orphan[k] = "CANCELLED_SUBST" => Replaced(k)
  /\ orphan[k] = "VOID_REQUESTED" => Unused(k) /\ k \notin office.late

\* Who asks for a number to be voided is alone with it.
VoidSound(w) ==
  LET t == task[w]
  IN t.at \in {"void.send", "void.apply"} =>
       /\ t.numero \in Number
       /\ void[t.numero] = "REQUESTED"
       /\ \A v \in Worker : Voiding(v, t.numero) => v = w
       /\ t.at = "void.apply" => t.result \in {"HOMOLOGATED", "REJECTED"}

VoidStatus == {"none", "REQUESTED", "HOMOLOGATED", "REJECTED"}

Orphans ==
  /\ void \in [Number -> VoidStatus]
  /\ \A k \in Note : OrphanSound(k)
  /\ \A w \in Worker : VoidSound(w) /\ \A k \in Note : ResolveSound(w, k)

-----------------------------------------------------------------------------
\* The office's books: a number is authorized once and never after it was voided,
\* and what was homologated is void there.
Books ==
  /\ \A j, k \in Note :
       office.note[j] # "none" /\ office.note[k] # "none" /\ Numero(j) = Numero(k) => j = k
  /\ \A k \in Note : office.note[k] # "none" => Numero(k) \notin office.voided
  /\ \A n \in Number : void[n] = "HOMOLOGATED" => n \in office.voided
  /\ \A w \in Worker :
       task[w].at = "void.apply" /\ task[w].result = "HOMOLOGATED" => task[w].numero \in office.voided

-----------------------------------------------------------------------------
(* Facts that every layer uses *)

\* What the other workers hold while one goes on.
LEMMA OthersStay ==
  ASSUME FiscalInv, NEW w \in Worker, NEW next, Goes(w, next)
  PROVE  /\ task'[w] = next
         /\ \A v \in Worker : v # w => task'[v] = task[v]
  BY DEF FiscalInv, RowsTyped, Goes

\* A write of the status leaves the rest of the row.
LEMMA StatusWritten ==
  ASSUME FiscalInv, NEW d \in Doc, NEW s, document' = [document EXCEPT ![d].status = s]
  PROVE  /\ document'[d].status = s
         /\ document'[d].numero = document[d].numero
         /\ document'[d].try = document[d].try
         /\ document'[d].key = document[d].key
         /\ \A e \in Doc : e # d => document'[e] = document[e]
<1>1. document \in [Doc -> Row] /\ document[d] \in Row
  BY DEF FiscalInv, RowsTyped
<1>. QED BY <1>1 DEF Row

\* The ranges of a row's fields, and of a document's attempts.
LEMMA Ranges ==
  ASSUME FiscalInv, NEW d \in Doc
  PROVE  /\ document[d].try \in 0 .. MaxTry
         /\ document[d].key \in 0 .. MaxTry
         /\ document[d].numero \in Nat
         /\ document[d].status \in Status \cup {"none"}
         /\ notes[d] \in Seq(Entry)
         /\ Len(notes[d]) \in Nat
         /\ \A i \in 1 .. Len(notes[d]) : notes[d][i] \in Entry /\ notes[d][i].numero \in Nat
         /\ document[d].status # "none" => document[d].try \in 1 .. MaxTry
         /\ document[d].status # "none" => document[d].try \in 1 .. Len(notes[d])
<1>1. document[d] \in Row /\ notes[d] \in Seq(Entry) /\ DocSound(d)
  BY DEF FiscalInv, RowsTyped
<1>2. /\ Len(notes[d]) \in Nat
      /\ \A i \in 1 .. Len(notes[d]) : notes[d][i] \in Entry /\ notes[d][i].numero \in Nat
  <2>1. Len(notes[d]) \in Nat /\ \A i \in 1 .. Len(notes[d]) : notes[d][i] \in Entry
    BY <1>1
  <2>. QED BY <2>1 DEF Entry
<1>3. /\ document[d].try \in 0 .. MaxTry
      /\ document[d].key \in 0 .. MaxTry
      /\ document[d].numero \in Nat
      /\ document[d].status \in Status \cup {"none"}
  BY <1>1 DEF Row
<1>4. document[d].status # "none" => document[d].try \in 1 .. Len(notes[d])
  BY <1>1 DEF DocSound
<1>5. document[d].status # "none" => document[d].try \in 1 .. MaxTry
  BY <1>2, <1>3, <1>4, FiscalAssumption
<1>. QED BY <1>1, <1>2, <1>3, <1>4, <1>5

-----------------------------------------------------------------------------
(* Numbers *)

\* Steps that record no attempt: whatever else they do, the numbers that rows and
\* resends hold were there.
LEMMA NumbersKept ==
  ASSUME Numbers, sequence' = sequence,
         \A d \in Doc : NumbersOf(d)' = NumbersOf(d),
         \A d \in Doc : document'[d].status # "none" =>
           \/ document[d].status # "none" /\ document'[d].numero = document[d].numero
           \/ document'[d].numero \in NumbersOf(d),
         \A w \in Worker : task'[w].at = "resend" =>
           \/ task'[w] = task[w] /\ task[w].doc \in Doc
           \/ task'[w].doc \in Doc /\ task'[w].numero \in NumbersOf(task'[w].doc)
  PROVE  Numbers'
<1>1. /\ \A d \in Doc : \A n \in NumbersOf(d)' : n <= sequence'
      /\ \A d, e \in Doc : \A n \in NumbersOf(d)' \cap NumbersOf(e)' : n = 0 \/ d = e
      /\ \A n \in 1 .. sequence' : \E d \in Doc : n \in NumbersOf(d)'
  <2>. HIDE DEF NumbersOf
  <2>. QED BY DEF Numbers
<1>2. \A d \in Doc : document'[d].status # "none" => document'[d].numero \in NumbersOf(d)'
  <2>. HIDE DEF NumbersOf
  <2>. QED BY DEF Numbers
<1>3. (\A w \in Worker : task[w].at = "resend" => task[w].numero \in NumbersOf(task[w].doc))'
  <2>. SUFFICES ASSUME NEW w \in Worker, task'[w].at = "resend"
                PROVE  (task[w].numero \in NumbersOf(task[w].doc))'
    OBVIOUS
  <2>1. /\ task'[w].doc \in Doc
        /\ task'[w].numero \in NumbersOf(task'[w].doc)
    BY DEF Numbers
  <2>2. NumbersOf(task'[w].doc) = NumbersOf(task[w].doc)'
    BY <2>1 DEF NumbersOf
  <2>. QED BY <2>1, <2>2
<1>. QED BY <1>1, <1>2, <1>3 DEF Numbers

\* Steps that record an attempt of one document: under the next number, or one
\* that the document has, or none.
LEMMA NumberGiven ==
  ASSUME FiscalInv, Numbers, NEW d \in Doc, NEW n \in Nat,
         \/ n = sequence + 1 /\ sequence' = sequence + 1
         \/ n \in NumbersOf(d) \cup {0} /\ sequence' = sequence,
         NumbersOf(d)' = NumbersOf(d) \cup {n},
         \A e \in Doc : e # d => NumbersOf(e)' = NumbersOf(e),
         document'[d].numero = n,
         \A e \in Doc : e # d => document'[e] = document[e],
         \A w \in Worker : task'[w].at = "resend" => task'[w] = task[w] /\ task[w].doc \in Doc
  PROVE  Numbers'
<1>1. sequence \in Nat /\ sequence' \in Nat /\ sequence <= sequence'
  BY DEF FiscalInv, RowsTyped
<1>2. \A e \in Doc : \A m \in NumbersOf(e) : m \in Nat /\ m <= sequence
  <2>1. \A e \in Doc : \A m \in NumbersOf(e) : m <= sequence
    BY DEF Numbers
  <2>2. ASSUME NEW e \in Doc, NEW m \in NumbersOf(e)
        PROVE  m \in Nat
    BY Ranges DEF NumbersOf
  <2>. QED BY <2>1, <2>2
<1>3. \A e \in Doc : \A m \in NumbersOf(e)' : m <= sequence'
  BY <1>1, <1>2
<1>4. \A e, f \in Doc : \A m \in NumbersOf(e)' \cap NumbersOf(f)' : m = 0 \/ e = f
  <2>. SUFFICES ASSUME NEW e \in Doc, NEW f \in Doc, e # f,
                       NEW m \in NumbersOf(e)' \cap NumbersOf(f)'
                PROVE  m = 0
    OBVIOUS
  <2>1. \A x, y \in Doc : \A i \in NumbersOf(x) \cap NumbersOf(y) : i = 0 \/ x = y
    BY DEF Numbers
  <2>2. ASSUME NEW x \in Doc, x # d
        PROVE  sequence + 1 \notin NumbersOf(x) /\ (n \in NumbersOf(d) \cap NumbersOf(x) => n = 0)
    BY <1>1, <1>2, <2>1, <2>2
  <2>3. ASSUME NEW x \in Doc, x # d, NEW i \in NumbersOf(d)', i \in NumbersOf(x)
        PROVE  i = 0
    BY <1>1, <1>2, <2>1, <2>2, <2>3
  <2>. QED BY <2>1, <2>3
<1>5. \A m \in 1 .. sequence' : \E e \in Doc : m \in NumbersOf(e)'
  <2>. SUFFICES ASSUME NEW m \in 1 .. sequence'
                PROVE  \E e \in Doc : m \in NumbersOf(e)'
    OBVIOUS
  <2>1. CASE m = n
    BY <2>1
  <2>2. CASE m # n
    <3>1. m \in 1 .. sequence
      BY <1>1, <2>2
    <3>2. PICK e \in Doc : m \in NumbersOf(e)
      BY <3>1 DEF Numbers
    <3>. QED BY <3>2
  <2>. QED BY <2>1, <2>2
<1>6. \A e \in Doc : document'[e].status # "none" => document'[e].numero \in NumbersOf(e)'
  <2>1. \A e \in Doc : document[e].status # "none" => document[e].numero \in NumbersOf(e)
    BY DEF Numbers
  <2>. QED BY <2>1
<1>7. (\A w \in Worker : task[w].at = "resend" => task[w].numero \in NumbersOf(task[w].doc))'
  <2>. SUFFICES ASSUME NEW w \in Worker, task'[w].at = "resend"
                PROVE  (task[w].numero \in NumbersOf(task[w].doc))'
    OBVIOUS
  <2>1. task'[w] = task[w] /\ task[w].at = "resend" /\ task[w].doc \in Doc
    OBVIOUS
  <2>2. task[w].numero \in NumbersOf(task[w].doc)
    BY <2>1 DEF Numbers
  <2>3. PICK x \in Doc : x = task[w].doc
    BY <2>1
  <2>4. task[w].numero \in NumbersOf(x)'
    BY <2>2, <2>3
  <2>. QED BY <2>1, <2>3, <2>4 DEF NumbersOf
<1>. QED BY <1>3, <1>4, <1>5, <1>6, <1>7 DEF Numbers

\* What a worker may begin, beside an emission.
Begins(w) ==
  \/ \E d \in Doc : \/ CheckResend(w, d) \/ StartCancel(w, d) \/ Transmit(w, d)
                    \/ StartDrain(w, d) \/ StartAsk(w, d) \/ ListPending(w, d)
  \/ \E n \in Number : VoidNumber(w, n)
  \/ \E k \in Note : StartOrphan(w, k)

Issues(w) ==
  \E d \in Doc : Emit(w, d) \/ EmitOffline(w, d) \/ EmitUnsigned(w, d)

\* What happens without a worker.
Happens ==
  \/ \E k \in Note : LateNote(k)
  \/ \E s \in {"off", "MANUAL"} : SetContingency(s)
  \/ UNCHANGED vars

\* Every step is of one of these kinds.
LEMMA StepKinds ==
  ASSUME [FiscalNext]_vars
  PROVE  \/ \E w \in Request : Issues(w)
         \/ \E w \in Worker : Begins(w)
         \/ \E w \in Worker : Continues(w)
         \/ Happens
<1>1. ASSUME NEW w \in Request, RequestStarts(w)
      PROVE  Issues(w) \/ Begins(w)
  BY <1>1 DEF RequestStarts, Issues, Begins
<1>2. ASSUME NEW w \in Job,
             \/ \E d \in Doc : Transmit(w, d) \/ StartDrain(w, d) \/ ListPending(w, d)
             \/ \E k \in Note : StartOrphan(w, k)
      PROVE  Begins(w)
  BY <1>2 DEF Begins
<1>3. Request \subseteq Worker /\ Job \subseteq Worker
  BY DEF Worker
<1>. QED BY <1>1, <1>2, <1>3 DEF FiscalNext, Happens

\* One worker goes on, and only CheckResend leaves it at a resend.
LEMMA OneMoves ==
  ASSUME FiscalInv, NEW w \in Worker,
         Continues(w) \/ (Begins(w) /\ ~\E d \in Doc : CheckResend(w, d))
  PROVE  /\ \A v \in Worker : v # w => task'[v] = task[v]
         /\ task'[w].at # "resend"
<1>1. CASE \/ SessionExpired(w) \/ OfflineFails(w) \/ EnterContingency(w)
           \/ KeepSent(w) \/ TransmitFails(w) \/ DropAnswer(w)
           \/ LeaveContingency(w) \/ ResendConflict(w)
           \/ RetireSource(w) \/ CloseOrphan(w) \/ Dies(w)
  <2>1. Goes(w, Idle) /\ Idle.at # "resend"
    BY <1>1 DEF SessionExpired, OfflineFails, EnterContingency, KeepSent, TransmitFails, DropAnswer,
                LeaveContingency, ResendConflict, RetireSource, CloseOrphan, Dies, Leaves, Idle
  <2>. QED BY <2>1, OthersStay
<1>2. CASE ReceiveNote(w) \/ CancelNote(w) \/ Substitute(w) \/ SendVoid(w)
  <2>1. \E next : Goes(w, next) /\ next.at # "resend"
    <3>1. CASE ReceiveNote(w)
      <4>1. PICK next : Goes(w, next) /\ next.at = "answer"
        BY <3>1 DEF ReceiveNote
      <4>. QED BY <4>1
    <3>2. CASE CancelNote(w)
      <4>1. PICK next : Goes(w, next) /\ next.at \in {"cancelled", "idle"}
        BY <3>2 DEF CancelNote, Leaves, Idle
      <4>. QED BY <4>1
    <3>3. CASE Substitute(w)
      <4>1. PICK next : Goes(w, next) /\ next.at \in {"close", "idle"}
        BY <3>3 DEF Substitute, Leaves, Idle
      <4>. QED BY <4>1
    <3>4. CASE SendVoid(w)
      <4>1. PICK next : Goes(w, next) /\ next.at = "void.apply"
        BY <3>4 DEF SendVoid
      <4>. QED BY <4>1
    <3>. QED BY <1>2, <3>1, <3>2, <3>3, <3>4
  <2>. QED BY <2>1, OthersStay
<1>3. CASE \/ SendFails(w) \/ ApplyAuthorized(w) \/ AttachSource(w) \/ PollNote(w) \/ AskNote(w)
           \/ Resend(w)
  <2>1. \E next : Goes(w, next) /\ next.at # "resend"
    <3>1. CASE SendFails(w)
      <4>1. PICK next : Goes(w, next) /\ next.at = "keep"
        BY <3>1 DEF SendFails
      <4>. QED BY <4>1
    <3>2. CASE ApplyAuthorized(w)
      <4>1. Goes(w, [at |-> "drain", doc |-> task[w].doc, tick |-> task[w].by = "tick"])
        BY <3>2 DEF ApplyAuthorized
      <4>. QED BY <4>1
    <3>3. CASE AttachSource(w)
      <4>1. Goes(w, [at |-> "link", doc |-> task[w].doc, tick |-> task[w].tick,
                  authorized |-> document[task[w].doc].status = "AUTHORIZED"])
        BY <3>3 DEF AttachSource
      <4>. QED BY <4>1
    <3>4. CASE AskNote(w)
      <4>1. PICK next : Goes(w, next) /\ next.at = "answer"
        BY <3>4 DEF AskNote
      <4>. QED BY <4>1
    <3>5. CASE Resend(w)
      <4>1. PICK next : Goes(w, next) /\ next.at = "send"
        BY <3>5 DEF Resend
      <4>. QED BY <4>1
    <3>6. CASE PollNote(w)
      BY <3>6 DEF PollNote, Consultation
    <3>. QED BY <1>3, <3>1, <3>2, <3>3, <3>4, <3>5, <3>6
  <2>. QED BY <2>1, OthersStay
<1>5. CASE \/ ApplyRejected(w) \/ ApplyNotFound(w) \/ DrainFails(w) \/ LinkSource(w)
           \/ MarkCancelled(w)
  <2>1. \E next : Goes(w, next) /\ next.at # "resend"
    <3>1. CASE ApplyRejected(w) \/ ApplyNotFound(w)
      <4>1. Goes(w, Then(w))
        BY <3>1 DEF ApplyRejected, ApplyNotFound
      <4>. QED BY <4>1 DEF Then, Idle
    <3>2. CASE DrainFails(w) \/ LinkSource(w)
      <4>1. Goes(w, IF task[w].tick THEN [at |-> "leave"] ELSE Idle)
        BY <3>2 DEF DrainFails, LinkSource
      <4>. QED BY <4>1 DEF Idle
    <3>3. CASE MarkCancelled(w)
      <4>1. PICK next : Goes(w, next) /\ next.at \in {"retire", "idle"}
        BY <3>3 DEF MarkCancelled, Idle
      <4>. QED BY <4>1
    <3>. QED BY <1>5, <3>1, <3>2, <3>3
  <2>. QED BY <2>1, OthersStay
<1>6. CASE AskOrphan(w) \/ VoidOrphan(w) \/ VoidUnanswered(w) \/ ApplyVoid(w)
  <2>1. \E next : Goes(w, next) /\ next.at # "resend"
    <3>1. CASE AskOrphan(w)
      BY <3>1 DEF AskOrphan, Idle
    <3>2. CASE VoidOrphan(w)
      BY <3>2 DEF VoidOrphan, RequestVoidOf, After, Idle
    <3>3. CASE VoidUnanswered(w)
      BY <3>3 DEF VoidUnanswered, After, Idle
    <3>4. CASE ApplyVoid(w)
      BY <3>4 DEF ApplyVoid, After, Idle
    <3>. QED BY <1>6, <3>1, <3>2, <3>3, <3>4
  <2>. QED BY <2>1, OthersStay
<1>4. CASE Begins(w) /\ ~\E d \in Doc : CheckResend(w, d)
  <2>1. \E next : Goes(w, next) /\ next.at # "resend"
    <3>1. ASSUME NEW d \in Doc, StartCancel(w, d) \/ Transmit(w, d) \/ StartDrain(w, d)
          PROVE  \E next : Goes(w, next) /\ next.at # "resend"
      BY <3>1 DEF StartCancel, Transmit, StartDrain
    <3>2. ASSUME NEW d \in Doc, StartAsk(w, d) \/ ListPending(w, d)
          PROVE  \E next : Goes(w, next) /\ next.at # "resend"
      BY <3>2 DEF StartAsk, ListPending, Consultation
    <3>3. ASSUME NEW n \in Number, VoidNumber(w, n)
          PROVE  \E next : Goes(w, next) /\ next.at # "resend"
      BY <3>3 DEF VoidNumber, RequestVoidOf
    <3>4. ASSUME NEW k \in Note, StartOrphan(w, k)
          PROVE  \E next : Goes(w, next) /\ next.at # "resend"
      BY <3>4 DEF StartOrphan
    <3>. QED BY <1>4, <3>1, <3>2, <3>3, <3>4 DEF Begins
  <2>. QED BY <2>1, OthersStay
<1>. QED BY <1>1, <1>2, <1>3, <1>4, <1>5, <1>6 DEF Continues

\* The document of every resend is a document.
LEMMA ResendHeld ==
  ASSUME FiscalInv, NEW w \in Worker, task[w].at = "resend"
  PROVE  task[w].doc \in Doc
  BY Held DEF InCall

\* A step of a worker that records no attempt.
LEMMA NumbersMove ==
  ASSUME FiscalInv, Numbers, NEW w \in Worker, sequence' = sequence,
         \A v \in Worker : v # w => task'[v] = task[v],
         \/ task'[w].at # "resend"
         \/ task'[w].doc \in Doc /\ task'[w].numero \in NumbersOf(task'[w].doc),
         \A d \in Doc : NumbersOf(d)' = NumbersOf(d),
         \A d \in Doc : document'[d].status # "none" =>
           \/ document[d].status # "none" /\ document'[d].numero = document[d].numero
           \/ document'[d].numero \in NumbersOf(d)
  PROVE  Numbers'
<1>1. \A v \in Worker : task'[v].at = "resend" =>
        \/ task'[v] = task[v] /\ task[v].doc \in Doc
        \/ task'[v].doc \in Doc /\ task'[v].numero \in NumbersOf(task'[v].doc)
  BY ResendHeld
<1>. QED BY <1>1, NumbersKept

\* A count of misses is written into an attempt.
CountsMisses(d, try, misses) == notes' = [notes EXCEPT ![d][try].misses = misses]

\* Nothing else is written with it.
LEMMA MissesWritten ==
  ASSUME FiscalInv, NEW d \in Doc, NEW try \in 1 .. Len(notes[d]), NEW misses,
         CountsMisses(d, try, misses)
  PROVE  /\ \A e \in Doc : e # d => notes'[e] = notes[e]
         /\ \A e \in Doc : Len(notes'[e]) = Len(notes[e])
         /\ \A e \in Doc : \A i \in 1 .. Len(notes[e]) :
              /\ notes'[e][i].numero = notes[e][i].numero
              /\ notes'[e][i].offline = notes[e][i].offline
         /\ notes'[d][try].misses = misses
         /\ \A i \in 1 .. Len(notes[d]) : i # try => notes'[d][i] = notes[d][i]
<1>1. notes \in [Doc -> Seq(Entry)] /\ notes[d] \in Seq(Entry) /\ Len(notes[d]) \in Nat
  BY Ranges DEF FiscalInv, RowsTyped
<1>2. /\ \A e \in Doc : e # d => notes'[e] = notes[e]
      /\ notes'[d] = [notes[d] EXCEPT ![try].misses = misses]
  BY <1>1 DEF CountsMisses
<1>3. notes[d][try] \in Entry
  BY <1>1
<1>4. /\ Len(notes'[d]) = Len(notes[d])
      /\ notes'[d][try] = [notes[d][try] EXCEPT !.misses = misses]
      /\ \A i \in 1 .. Len(notes[d]) : i # try => notes'[d][i] = notes[d][i]
  BY <1>1, <1>2
<1>5. /\ notes'[d][try].misses = misses
      /\ notes'[d][try].numero = notes[d][try].numero
      /\ notes'[d][try].offline = notes[d][try].offline
  BY <1>3, <1>4 DEF Entry
<1>. QED BY <1>2, <1>4, <1>5

\* Steps of a worker that record no attempt.
LEMMA NumbersQuiet ==
  ASSUME FiscalInv, Numbers, NEW w \in Worker,
         \/ Begins(w)
         \/ Continues(w) /\ ~EnterContingency(w) /\ ~Resend(w)
  PROVE  Numbers'
<1>. DEFINE Rows == \A d \in Doc : document'[d].status # "none" =>
                      \/ document[d].status # "none" /\ document'[d].numero = document[d].numero
                      \/ document'[d].numero \in NumbersOf(d)
<1>1. ASSUME UNCHANGED <<document, notes, sequence>>
      PROVE  Rows /\ (\A d \in Doc : NumbersOf(d)' = NumbersOf(d)) /\ sequence' = sequence
  BY <1>1 DEF NumbersOf
<1>2. ASSUME NEW d \in Doc, NEW s, document' = [document EXCEPT ![d].status = s],
             document[d].status # "none", UNCHANGED <<notes, sequence>>
      PROVE  Rows /\ (\A e \in Doc : NumbersOf(e)' = NumbersOf(e)) /\ sequence' = sequence
  <2>1. \A e \in Doc : document'[e].numero = document[e].numero
                       /\ (document'[e].status # "none" => document[e].status # "none")
    BY <1>2, StatusWritten
  <2>. QED BY <1>2, <2>1 DEF NumbersOf
<1>3. CASE \E d \in Doc : CheckResend(w, d)
  <2>1. PICK d \in Doc : CheckResend(w, d)
    BY <1>3
  <2>2. /\ task' = [task EXCEPT ![w] = [at |-> "resend", doc |-> d, from |-> document[d].status,
                                        numero |-> document[d].numero,
                                        try |-> document[d].try + 1]]
        /\ document[d].status # "none"
        /\ UNCHANGED <<document, notes, sequence>>
    BY <2>1 DEF CheckResend, Goes
  <2>3. /\ task'[w].doc = d
        /\ task'[w].numero = document[d].numero
        /\ \A v \in Worker : v # w => task'[v] = task[v]
    BY <2>2 DEF FiscalInv, RowsTyped
  <2>4. document[d].numero \in NumbersOf(d)
    BY <2>2 DEF Numbers
  <2>5. task'[w].doc \in Doc /\ task'[w].numero \in NumbersOf(task'[w].doc)
    BY <2>3, <2>4
  <2>. QED BY <1>1, <2>2, <2>3, <2>5, NumbersMove
<1>4. CASE ~\E d \in Doc : CheckResend(w, d)
  <2>1. /\ \A v \in Worker : v # w => task'[v] = task[v]
        /\ task'[w].at # "resend"
    BY <1>4, OneMoves
  <2>. SUFFICES Rows /\ (\A e \in Doc : NumbersOf(e)' = NumbersOf(e)) /\ sequence' = sequence
    BY <2>1, NumbersMove
  <2>2. CASE Begins(w)
    <3>1. UNCHANGED <<document, notes, sequence>>
      BY <1>4, <2>2 DEF Begins, StartCancel, Transmit, StartDrain, StartAsk, ListPending,
                        VoidNumber, RequestVoidOf, StartOrphan
    <3>. QED BY <1>1, <3>1
  <2>3. CASE \/ ReceiveNote(w) \/ SendFails(w) \/ TransmitFails(w) \/ DropAnswer(w)
             \/ LeaveContingency(w) \/ AttachSource(w) \/ DrainFails(w) \/ PollNote(w)
             \/ AskNote(w) \/ ResendConflict(w) \/ CancelNote(w) \/ RetireSource(w) \/ AskOrphan(w)
             \/ Substitute(w) \/ CloseOrphan(w) \/ VoidOrphan(w) \/ SendVoid(w)
             \/ VoidUnanswered(w) \/ ApplyVoid(w) \/ Dies(w)
    <3>1. UNCHANGED <<document, notes, sequence>>
      BY <2>3 DEF ReceiveNote, SendFails, TransmitFails, DropAnswer, LeaveContingency, AttachSource,
                  DrainFails, PollNote, AskNote, ResendConflict, CancelNote, RetireSource,
                  AskOrphan, Substitute, CloseOrphan, VoidOrphan, SendVoid, VoidUnanswered, ApplyVoid, Dies
    <3>. QED BY <1>1, <3>1
  <2>4. CASE \/ SessionExpired(w) \/ OfflineFails(w) \/ KeepSent(w) \/ ApplyRejected(w)
             \/ MarkCancelled(w)
    <3>1. task[w].at \in InCall
      BY <2>4 DEF SessionExpired, OfflineFails, KeepSent, ApplyRejected, MarkCancelled, IsSending,
                  Accepts, At, InCall
    <3>2. PICK d \in Doc : d = task[w].doc /\ document[d].status # "none"
      BY <3>1, Held
    <3>3. /\ \E s : document' = [document EXCEPT ![d].status = s]
          /\ UNCHANGED <<notes, sequence>>
      BY <2>4, <3>2 DEF SessionExpired, OfflineFails, KeepSent, ApplyRejected, MarkCancelled
    <3>. QED BY <1>2, <3>2, <3>3
  <2>5. CASE LinkSource(w)
    <3>1. task[w].at \in InCall
      BY <2>5 DEF LinkSource, At, InCall
    <3>2. PICK d \in Doc : d = task[w].doc
      BY <3>1, Held
    <3>3. /\ \E b : document' = [document EXCEPT ![d].source = b]
          /\ UNCHANGED <<notes, sequence>>
      BY <2>5, <3>2 DEF LinkSource
    <3>4. \A e \in Doc : /\ document'[e].numero = document[e].numero
                         /\ document'[e].status = document[e].status
      BY <3>3 DEF FiscalInv, RowsTyped, Row
    <3>. QED BY <3>3, <3>4 DEF NumbersOf
  <2>6. CASE ApplyAuthorized(w)
    <3>1. task[w].at = "answer"
      BY <2>6 DEF ApplyAuthorized, Accepts, At
    <3>2. PICK d \in Doc : d = task[w].doc
      BY <3>1, Held DEF InCall
    <3>3. task[w].key \in 1 .. Len(notes[d])
      BY <3>1, <3>2, Held DEF InCall, SoundTask
    <3>4. /\ document' = [document EXCEPT ![d].status = "AUTHORIZED", ![d].key = task[w].key,
                             ![d].numero = notes[d][task[w].key].numero, ![d].source = FALSE]
          /\ UNCHANGED <<notes, sequence>>
      BY <2>6, <3>2 DEF ApplyAuthorized
    <3>5. /\ document'[d].numero = notes[d][task[w].key].numero
          /\ \A e \in Doc : e # d => document'[e] = document[e]
      <4>1. document \in [Doc -> Row] /\ document[d] \in Row
        BY DEF FiscalInv, RowsTyped
      <4>. QED BY <3>4, <4>1 DEF Row
    <3>6. document'[d].numero \in NumbersOf(d)
      BY <3>3, <3>5 DEF NumbersOf
    <3>7. Rows
      <4>. SUFFICES ASSUME NEW e \in Doc, document'[e].status # "none"
                    PROVE  \/ document[e].status # "none" /\ document'[e].numero = document[e].numero
                           \/ document'[e].numero \in NumbersOf(e)
        OBVIOUS
      <4>. QED BY <3>5, <3>6
    <3>8. \A e \in Doc : NumbersOf(e)' = NumbersOf(e)
      BY <3>4 DEF NumbersOf
    <3>. QED BY <3>4, <3>7, <3>8
  <2>7. CASE ApplyNotFound(w)
    <3>1. task[w].at = "answer"
      BY <2>7 DEF ApplyNotFound, Accepts, At
    <3>2. PICK d \in Doc : d = task[w].doc /\ document[d].status # "none"
      BY <3>1, Held DEF InCall
    <3>3. task[w].try \in 1 .. Len(notes[d]) /\ notes[d] \in Seq(Entry)
      BY <3>1, <3>2, Held, Ranges DEF InCall, SoundTask
    <3>4. /\ \E s : document' = [document EXCEPT ![d].status = s]
          /\ CountsMisses(d, task[w].try, task[w].misses)
          /\ sequence' = sequence
      BY <2>7, <3>2 DEF ApplyNotFound, CountsMisses
    <3>5. Rows
      BY <3>2, <3>4, StatusWritten
    <3>6. \A e \in Doc : /\ Len(notes'[e]) = Len(notes[e])
                         /\ \A i \in 1 .. Len(notes[e]) : notes'[e][i].numero = notes[e][i].numero
      BY <3>2, <3>3, <3>4, MissesWritten
    <3>7. \A e \in Doc : NumbersOf(e)' = NumbersOf(e)
      <4>. SUFFICES ASSUME NEW e \in Doc
                    PROVE  NumbersOf(e)' = NumbersOf(e)
        OBVIOUS
      <4>. QED BY <3>6 DEF NumbersOf
    <3>. QED BY <3>4, <3>5, <3>7
  <2>. QED BY <1>4, <2>2, <2>3, <2>4, <2>5, <2>6, <2>7 DEF Continues
<1>. QED BY <1>3, <1>4

\* What a document that records an attempt becomes.
LEMMA AttemptRecorded ==
  ASSUME FiscalInv, NEW d \in Doc, NEW a \in Entry, notes'[d] = Append(notes[d], a),
         \A e \in Doc : e # d => notes'[e] = notes[e]
  PROVE  /\ Len(notes'[d]) = Len(notes[d]) + 1
         /\ \A i \in 1 .. Len(notes[d]) : notes'[d][i] = notes[d][i]
         /\ notes'[d][Len(notes[d]) + 1] = a
         /\ NumbersOf(d)' = NumbersOf(d) \cup {a.numero}
         /\ \A e \in Doc : e # d => NumbersOf(e)' = NumbersOf(e)
<1>1. notes[d] \in Seq(Entry) /\ Len(notes[d]) \in Nat
  BY Ranges
<1>3. /\ Len(notes'[d]) = Len(notes[d]) + 1
      /\ \A i \in 1 .. Len(notes[d]) : notes'[d][i] = notes[d][i]
      /\ notes'[d][Len(notes[d]) + 1] = a
  BY <1>1
<1>4. 1 .. Len(notes'[d]) = (1 .. Len(notes[d])) \cup {Len(notes[d]) + 1}
  BY <1>1, <1>3
<1>5. NumbersOf(d)' = NumbersOf(d) \cup {a.numero}
  BY <1>3, <1>4 DEF NumbersOf
<1>6. \A e \in Doc : e # d => NumbersOf(e)' = NumbersOf(e)
  BY DEF NumbersOf
<1>. QED BY <1>3, <1>5, <1>6

\* What a document that is issued becomes.
LEMMA Issued ==
  ASSUME FiscalInv, NEW w \in Request, NEW d \in Doc, NEW status \in Status, NEW n \in Nat,
         NEW offline \in BOOLEAN, NEW next, EmitIn(w, d, status, n, offline, next)
  PROVE  /\ document[d].status = "none" /\ Len(notes[d]) = 0
         /\ document'[d] = [status |-> status, numero |-> n, try |-> 1, key |-> 0, source |-> FALSE]
         /\ notes'[d] = <<FirstTry(n, offline)>>
         /\ Len(notes'[d]) = 1
         /\ notes'[d][1] = FirstTry(n, offline)
         /\ \A e \in Doc : e # d => document'[e] = document[e] /\ notes'[e] = notes[e]
         /\ NumbersOf(d)' = {n}
         /\ w \in Worker
         /\ task[w].at = "idle"
         /\ task'[w] = next
         /\ \A v \in Worker : v # w => task'[v] = task[v]
         /\ sequence' = sequence + (IF n = 0 THEN 0 ELSE 1)
         /\ UNCHANGED <<orphan, attachment, provenance, void, contingency, office>>
<1>1. /\ document[d].status = "none"
      /\ document' = [document EXCEPT ![d] = [status |-> status, numero |-> n, try |-> 1,
                                              key |-> 0, source |-> FALSE]]
      /\ notes' = [notes EXCEPT ![d] = <<FirstTry(n, offline)>>]
      /\ Goes(w, next)
      /\ w \in Worker
      /\ task[w].at = "idle"
      /\ sequence' = sequence + (IF n = 0 THEN 0 ELSE 1)
      /\ UNCHANGED <<orphan, attachment, provenance, void, contingency, office>>
  BY DEF EmitIn, Worker, At
<1>2. Len(notes[d]) = 0
  BY <1>1 DEF FiscalInv, DocSound
<1>3. /\ document'[d] = [status |-> status, numero |-> n, try |-> 1, key |-> 0, source |-> FALSE]
      /\ notes'[d] = <<FirstTry(n, offline)>>
      /\ \A e \in Doc : e # d => document'[e] = document[e] /\ notes'[e] = notes[e]
  BY <1>1 DEF FiscalInv, RowsTyped
<1>4. Len(notes'[d]) = 1 /\ notes'[d][1] = FirstTry(n, offline) /\ FirstTry(n, offline).numero = n
  BY <1>3 DEF FirstTry
<1>5. NumbersOf(d)' = {n}
  <2>1. NumbersOf(d)' = {notes'[d][i].numero : i \in 1 .. 1}
    BY <1>4 DEF NumbersOf
  <2>2. 1 .. 1 = {1}
    OBVIOUS
  <2>. QED BY <1>4, <2>1, <2>2
<1>. QED BY <1>1, <1>2, <1>3, <1>4, <1>5, OthersStay

\* A sale issued on line is sent at once.
NextOf(d, status) ==
  IF status = "SENT" THEN [at |-> "send", doc |-> d, try |-> 1, tick |-> FALSE] ELSE Idle

\* The three ways to issue a sale, and what each one makes of it.
LEMMA Issuing ==
  ASSUME FiscalInv, NEW w \in Request, Issues(w)
  PROVE  \E d \in Doc, status \in {"SENT", "CONTINGENCY", "PENDING_SIGNATURE"}, n \in Nat,
            offline \in BOOLEAN :
           /\ EmitIn(w, d, status, n, offline, NextOf(d, status))
           /\ n = (IF status = "PENDING_SIGNATURE" THEN 0 ELSE sequence + 1)
<1>1. sequence + 1 \in Nat
  BY DEF FiscalInv, RowsTyped
<1>2. PICK d \in Doc : Emit(w, d) \/ EmitOffline(w, d) \/ EmitUnsigned(w, d)
  BY DEF Issues
<1>3. CASE Emit(w, d)
  BY <1>1, <1>3 DEF Emit, NextOf
<1>4. CASE EmitOffline(w, d)
  BY <1>1, <1>4 DEF EmitOffline, NextOf
<1>5. CASE EmitUnsigned(w, d)
  BY <1>1, <1>5 DEF EmitUnsigned, NextOf
<1>. QED BY <1>2, <1>3, <1>4, <1>5

\* Numbers are drawn in order and shared by no two sales, always.
LEMMA NumbersStep ==
  ASSUME FiscalInv, Numbers, [FiscalNext]_vars
  PROVE  Numbers'
<1>1. ASSUME NEW w \in Request, Issues(w)
      PROVE  Numbers'
  <2>1. PICK d \in Doc, status \in {"SENT", "CONTINGENCY", "PENDING_SIGNATURE"}, n \in Nat,
            offline \in BOOLEAN :
           /\ EmitIn(w, d, status, n, offline, NextOf(d, status))
           /\ n = (IF status = "PENDING_SIGNATURE" THEN 0 ELSE sequence + 1)
    BY <1>1, Issuing
  <2>2. status \in Status
    BY DEF Status
  <2>3. /\ Len(notes[d]) = 0
        /\ document'[d] = [status |-> status, numero |-> n, try |-> 1, key |-> 0, source |-> FALSE]
        /\ \A e \in Doc : e # d => document'[e] = document[e] /\ notes'[e] = notes[e]
        /\ NumbersOf(d)' = {n}
        /\ w \in Worker
        /\ task'[w] = NextOf(d, status)
        /\ \A v \in Worker : v # w => task'[v] = task[v]
        /\ sequence' = sequence + (IF n = 0 THEN 0 ELSE 1)
    BY <2>1, <2>2, Issued
  <2>4. NumbersOf(d) = {}
    BY <2>3 DEF NumbersOf
  <2>5. NextOf(d, status).at # "resend"
    BY DEF NextOf, Idle
  <2>6. \A v \in Worker : task'[v].at = "resend" => task'[v] = task[v] /\ task[v].doc \in Doc
    BY <2>3, <2>5, ResendHeld
  <2>7. \A e \in Doc : e # d => NumbersOf(e)' = NumbersOf(e)
    BY <2>3 DEF NumbersOf
  <2>8. \/ n = sequence + 1 /\ sequence' = sequence + 1
        \/ n \in NumbersOf(d) \cup {0} /\ sequence' = sequence
    BY <2>1, <2>3 DEF FiscalInv, RowsTyped
  <2>9. document'[d].numero = n
    BY <2>3
  <2>. QED BY <2>3, <2>4, <2>6, <2>7, <2>8, <2>9, NumberGiven
<1>2. ASSUME NEW w \in Worker, Begins(w)
      PROVE  Numbers'
  BY <1>2, NumbersQuiet
<1>3. ASSUME NEW w \in Worker, EnterContingency(w)
      PROVE  Numbers'
  <2>1. /\ task[w].at \in InCall
        /\ \A v \in Worker : v # w => task'[v] = task[v]
        /\ task'[w].at # "resend"
    BY <1>3, OneMoves DEF EnterContingency, IsSending, At, InCall, Continues
  <2>2. PICK d \in Doc : d = task[w].doc
    BY <2>1, Held
  <2>3. sequence + 1 \in Nat /\ FirstTry(sequence + 1, TRUE) \in Entry
        /\ FirstTry(sequence + 1, TRUE).numero = sequence + 1
    BY DEF FiscalInv, RowsTyped, FirstTry, Entry
  <2>4. /\ notes' = [notes EXCEPT ![d] = Append(notes[d], FirstTry(sequence + 1, TRUE))]
        /\ document' = [document EXCEPT ![d].status = "CONTINGENCY", ![d].numero = sequence + 1,
                                        ![d].try = task[w].try + 1]
        /\ sequence' = sequence + 1
    BY <1>3, <2>2 DEF EnterContingency, FiscalInv, RowsTyped
  <2>5. document'[d].numero = sequence + 1 /\ \A e \in Doc : e # d => document'[e] = document[e]
    <3>1. document \in [Doc -> Row] /\ document[d] \in Row
      BY DEF FiscalInv, RowsTyped
    <3>. QED BY <2>4, <3>1 DEF Row
  <2>6. /\ NumbersOf(d)' = NumbersOf(d) \cup {sequence + 1}
        /\ \A e \in Doc : e # d => NumbersOf(e)' = NumbersOf(e)
    <3>. DEFINE a == FirstTry(sequence + 1, TRUE)
    <3>1. /\ a \in Entry /\ a.numero = sequence + 1
          /\ notes'[d] = Append(notes[d], a)
          /\ \A e \in Doc : e # d => notes'[e] = notes[e]
      BY <2>3, <2>4 DEF FiscalInv, RowsTyped
    <3>. HIDE DEF a
    <3>. QED BY <3>1, AttemptRecorded
  <2>7. \A v \in Worker : task'[v].at = "resend" => task'[v] = task[v] /\ task[v].doc \in Doc
    BY <2>1, ResendHeld
  <2>. QED BY <2>3, <2>4, <2>5, <2>6, <2>7, NumberGiven
<1>4. ASSUME NEW w \in Worker, Resend(w)
      PROVE  Numbers'
  <2>1. /\ task[w].at = "resend"
        /\ \A v \in Worker : v # w => task'[v] = task[v]
        /\ task'[w].at # "resend"
    BY <1>4, OneMoves DEF Resend, At, Continues
  <2>2. PICK d \in Doc : d = task[w].doc
    BY <2>1, ResendHeld
  <2>. DEFINE n == IF task[w].numero = 0 THEN sequence + 1 ELSE task[w].numero
              offline == notes[d][task[w].try - 1].offline
  <2>3. /\ notes' = [notes EXCEPT ![d] = Append(notes[d], FirstTry(n, offline))]
        /\ document' = [document EXCEPT ![d].status = "SENT", ![d].try = task[w].try,
                                        ![d].numero = n]
        /\ sequence' = IF task[w].numero = 0 THEN n ELSE sequence
    BY <1>4, <2>2 DEF Resend, FiscalInv, RowsTyped
  <2>4. /\ n \in Nat
        /\ \/ n = sequence + 1 /\ sequence' = sequence + 1
           \/ n \in NumbersOf(d) \cup {0} /\ sequence' = sequence
    <3>1. task[w].numero \in NumbersOf(task[w].doc)
      BY <2>1 DEF Numbers
    <3>2. task[w].numero \in Nat /\ sequence + 1 \in Nat
      <4>1. SoundTask(task[w])
        BY DEF FiscalInv
      <4>2. sequence \in Nat
        BY DEF FiscalInv, RowsTyped
      <4>. QED BY <2>1, <4>1, <4>2 DEF SoundTask
    <3>3. task[w].numero \in NumbersOf(d)
      BY <2>2, <3>1
    <3>4. CASE task[w].numero = 0
      BY <2>3, <3>2, <3>4
    <3>5. CASE task[w].numero # 0
      BY <2>3, <3>2, <3>3, <3>5
    <3>. QED BY <3>4, <3>5
  <2>5. FirstTry(n, offline) \in Entry /\ FirstTry(n, offline).numero = n
    <3>1. offline \in BOOLEAN
      <4>1. task[w].try - 1 \in 1 .. Len(notes[d])
        <5>1. task[w].try \in 2 .. MaxTry /\ task[w].try <= Len(notes[d]) + 1
          BY <2>1, <2>2 DEF FiscalInv, SoundTask
        <5>2. Len(notes[d]) \in Nat
          BY Ranges
        <5>. QED BY <5>1, <5>2, FiscalAssumption
      <4>2. notes[d][task[w].try - 1] \in Entry
        BY <4>1, Ranges
      <4>. QED BY <4>2 DEF Entry
    <3>. QED BY <2>4, <3>1 DEF FirstTry, Entry
  <2>. HIDE DEF n, offline
  <2>6. document'[d].numero = n /\ \A e \in Doc : e # d => document'[e] = document[e]
    <3>1. document \in [Doc -> Row] /\ document[d] \in Row
      BY DEF FiscalInv, RowsTyped
    <3>. QED BY <2>3, <3>1 DEF Row
  <2>7. /\ NumbersOf(d)' = NumbersOf(d) \cup {n}
        /\ \A e \in Doc : e # d => NumbersOf(e)' = NumbersOf(e)
    <3>. DEFINE a == FirstTry(n, offline)
    <3>1. /\ a \in Entry /\ a.numero = n
          /\ notes'[d] = Append(notes[d], a)
          /\ \A e \in Doc : e # d => notes'[e] = notes[e]
      BY <2>3, <2>5 DEF FiscalInv, RowsTyped
    <3>. HIDE DEF a
    <3>. QED BY <3>1, AttemptRecorded
  <2>8. \A v \in Worker : task'[v].at = "resend" => task'[v] = task[v] /\ task[v].doc \in Doc
    BY <2>1, ResendHeld
  <2>. QED BY <2>4, <2>6, <2>7, <2>8, NumberGiven
<1>5. ASSUME NEW w \in Worker, Continues(w)
      PROVE  Numbers'
  BY <1>3, <1>4, <1>5, NumbersQuiet
<1>6. CASE Happens
  <2>1. UNCHANGED <<document, notes, sequence, task>>
    BY <1>6 DEF Happens, LateNote, SetContingency, vars
  <2>. QED BY <2>1, ResendHeld, NumbersKept DEF NumbersOf
<1>. QED BY <1>1, <1>2, <1>5, <1>6, StepKinds

-----------------------------------------------------------------------------
(* Lines: what every step has in common *)

Sent(k) == \E w \in Worker : Emits(w, k[1], k[2]) \/ Ticks(w, k[1], k[2])

\* What is being sent is an attempt that has its number.
LEMMA Sender ==
  ASSUME FiscalInv, Lines, NEW w \in Worker, NEW d, NEW n, Emits(w, d, n) \/ Ticks(w, d, n)
  PROVE  /\ d \in Doc /\ n \in 1 .. MaxTry /\ n \in 1 .. Len(notes[d])
         /\ <<d, n>> \in Note
         /\ document[d].status # "none"
         /\ notes[d][n].numero # 0
         /\ Sent(<<d, n>>)
<1>1. task[w].at \in {"send", "answer"} /\ task[w].doc = d /\ task[w].try = n
  BY DEF Emits, Ticks
<1>2. d \in Doc /\ document[d].status # "none" /\ SoundTask(task[w])
  BY <1>1, Held DEF InCall
<1>3. n \in 1 .. Len(notes[d]) /\ n <= MaxTry /\ Len(notes[d]) \in Nat
  BY <1>1, <1>2, Ranges DEF SoundTask
<1>4. n \in 1 .. MaxTry
  BY <1>3, FiscalAssumption
<1>5. Line(d)
  BY <1>2 DEF Lines
<1>6. notes[d][n].numero # 0
  <2>1. CASE Emits(w, d, n)
    BY <1>4, <1>5, <2>1 DEF Line, SendSound
  <2>2. CASE Ticks(w, d, n)
    <3>1. notes[d][n].offline
      BY <1>4, <1>5, <2>2 DEF Line, SendSound
    <3>. QED BY <1>3, <1>5, <3>1 DEF Line, AttemptsSound
  <2>. QED BY <2>1, <2>2
<1>7. <<d, n>> \in Note
  BY <1>2, <1>4 DEF Note
<1>8. Sent(<<d, n>>)
  BY DEF Sent
<1>. QED BY <1>2, <1>3, <1>4, <1>6, <1>7, <1>8

LEMMA SentNumbered ==
  ASSUME FiscalInv, Lines, NEW d, NEW n, Sent(<<d, n>>)
  PROVE  n \in 1 .. Len(notes[d]) /\ notes[d][n].numero # 0
<1>1. PICK w \in Worker : Emits(w, d, n) \/ Ticks(w, d, n)
  BY DEF Sent
<1>. QED BY <1>1, Sender

\* A request whose call may fail emits an attempt.
LEMMA SendingEmits ==
  ASSUME NEW w \in Worker, IsSending(w)
  PROVE  Emits(w, task[w].doc, task[w].try)
  BY DEF IsSending, Emits, At

\* What the office may do in a step: nothing that matters here, void a number,
\* cancel a note, receive or be sent a note that a worker sends, or one on its way.
OfficeTurns ==
  \/ UNCHANGED <<office>>
  \/ \E n : OfficeVoids(n)
  \/ \E k : office.note[k] = "authorized" /\ office' = [office EXCEPT !.note[k] = "cancelled"]
  \/ \E k \in Note :
       /\ k \in office.late \/ Sent(k)
       /\ \/ office' = Authorize(k) /\ CanAuthorize(k)
          \/ office' = [office EXCEPT !.late = @ \ {k}]
          \/ office' = [office EXCEPT !.late = @ \cup {k}]

\* Every step of a worker or of the network moves the office in one of these ways.
LEMMA Turns ==
  ASSUME FiscalInv, Lines, [FiscalNext]_vars
  PROVE  OfficeTurns
<1>1. ASSUME NEW w \in Request, Issues(w)
      PROVE  UNCHANGED <<office>>
  BY <1>1, Issuing DEF EmitIn
<1>2. ASSUME NEW w \in Worker, Begins(w)
      PROVE  UNCHANGED <<office>>
  BY <1>2 DEF Begins, CheckResend, StartCancel, Transmit, StartDrain, StartAsk, ListPending,
              VoidNumber, StartOrphan
<1>5. ASSUME NEW w \in Worker, NEW d, NEW n, Emits(w, d, n) \/ Ticks(w, d, n), Abandon(w)
      PROVE  OfficeTurns
  <2>1. CASE UNCHANGED office
    BY <2>1 DEF OfficeTurns
  <2>2. CASE office' = [office EXCEPT !.late = @ \cup {<<task[w].doc, task[w].try>>}]
    <3>1. PICK k : k = <<d, n>>
      OBVIOUS
    <3>2. k \in Note /\ Sent(k)
      BY <1>5, <3>1, Sender
    <3>3. task[w].doc = d /\ task[w].try = n
      BY <1>5 DEF Emits, Ticks
    <3>. QED BY <2>2, <3>1, <3>2, <3>3 DEF OfficeTurns
  <2>. QED BY <1>5, <2>1, <2>2 DEF Abandon
<1>6. ASSUME NEW w \in Worker, Continues(w)
      PROVE  OfficeTurns
  <2>1. CASE \/ SessionExpired(w) \/ KeepSent(w) \/ ApplyAuthorized(w) \/ ApplyRejected(w)
             \/ ApplyNotFound(w) \/ DropAnswer(w) \/ LeaveContingency(w) \/ AttachSource(w)
             \/ DrainFails(w) \/ LinkSource(w) \/ PollNote(w) \/ AskNote(w) \/ Resend(w)
             \/ ResendConflict(w) \/ MarkCancelled(w) \/ RetireSource(w) \/ AskOrphan(w)
             \/ CloseOrphan(w) \/ VoidOrphan(w) \/ ApplyVoid(w) \/ Dies(w)
    <3>1. UNCHANGED <<office>>
      BY <2>1 DEF SessionExpired, KeepSent, ApplyAuthorized, ApplyRejected, ApplyNotFound, DropAnswer,
                  LeaveContingency, AttachSource, DrainFails, LinkSource, PollNote, AskNote, Resend,
                  ResendConflict, MarkCancelled, RetireSource, AskOrphan, CloseOrphan, VoidOrphan,
                  ApplyVoid, Dies
    <3>. QED BY <3>1 DEF OfficeTurns
  <2>2. CASE OfflineFails(w) \/ EnterContingency(w) \/ SendFails(w)
    <3>1. IsSending(w) /\ Abandon(w)
      BY <2>2 DEF OfflineFails, EnterContingency, SendFails
    <3>. QED BY <1>5, <3>1, SendingEmits
  <2>3. CASE TransmitFails(w)
    <3>1. Abandon(w) /\ Ticks(w, task[w].doc, task[w].try)
      BY <2>3 DEF TransmitFails, At, Ticks
    <3>. QED BY <1>5, <3>1
  <2>4. CASE ReceiveNote(w)
    <3>1. PICK d, n : d = task[w].doc /\ n = task[w].try
      OBVIOUS
    <3>2. Emits(w, d, n) \/ Ticks(w, d, n)
      BY <2>4, <3>1 DEF ReceiveNote, At, Emits, Ticks
    <3>3. PICK k \in Note : k = <<d, n>> /\ Sent(k)
      BY <3>2, Sender
    <3>4. \/ CanAuthorize(k) /\ office' = Authorize(k)
          \/ office' = [office EXCEPT !.late = @ \ {k}]
      BY <2>4, <3>1, <3>3 DEF ReceiveNote
    <3>. QED BY <3>3, <3>4 DEF OfficeTurns
  <2>5. CASE SendVoid(w) \/ VoidUnanswered(w)
    BY <2>5 DEF SendVoid, VoidUnanswered, OfficeTurns
  <2>6. CASE CancelNote(w) \/ Substitute(w)
    BY <2>6 DEF CancelNote, Substitute, OfficeTurns
  <2>. QED BY <1>6, <2>1, <2>2, <2>3, <2>4, <2>5, <2>6 DEF Continues
<1>7. CASE Happens
  <2>1. ASSUME NEW k \in Note, LateNote(k)
        PROVE  OfficeTurns
    BY <2>1 DEF LateNote, OfficeTurns
  <2>. QED BY <1>7, <2>1 DEF Happens, SetContingency, vars, OfficeTurns
<1>8. UNCHANGED <<office>> => OfficeTurns
  BY DEF OfficeTurns
<1>. QED BY <1>1, <1>2, <1>6, <1>7, <1>8, StepKinds

\* What a turn of the office does to a note: it comes from a sender or from the
\* network, and is neither forgotten nor revived.
LEMMA NoteTurns ==
  ASSUME FiscalInv, OfficeTurns, NEW k \in Note
  PROVE  /\ office.note[k] = "cancelled" => office'.note[k] = "cancelled"
         /\ office.note[k] # "none" => office'.note[k] # "none"
         /\ k \notin office.late /\ ~Sent(k) =>
              /\ k \notin office'.late
              /\ office.note[k] = "none" => office'.note[k] = "none"
<1>1. /\ office = [note |-> office.note, voided |-> office.voided, late |-> office.late]
      /\ office.note \in [Note -> {"none", "authorized", "cancelled"}]
  BY DEF FiscalInv, RowsTyped
<1>2. CASE UNCHANGED <<office>> \/ \E n : OfficeVoids(n)
  <2>1. office'.note = office.note /\ office'.late = office.late
    BY <1>1, <1>2 DEF OfficeVoids
  <2>. QED BY <2>1
<1>3. CASE \E m : office.note[m] = "authorized" /\ office' = [office EXCEPT !.note[m] = "cancelled"]
  <2>1. PICK m : /\ office.note[m] = "authorized"
                 /\ office' = [office EXCEPT !.note[m] = "cancelled"]
    BY <1>3
  <2>2. office'.note = [office.note EXCEPT ![m] = "cancelled"] /\ office'.late = office.late
    BY <1>1, <2>1
  <2>. QED BY <1>1, <2>1, <2>2
<1>4. ASSUME NEW m \in Note, m \in office.late \/ Sent(m),
             \/ office' = Authorize(m) /\ CanAuthorize(m)
             \/ office' = [office EXCEPT !.late = @ \ {m}]
             \/ office' = [office EXCEPT !.late = @ \cup {m}]
      PROVE  /\ office.note[k] = "cancelled" => office'.note[k] = "cancelled"
             /\ office.note[k] # "none" => office'.note[k] # "none"
             /\ k \notin office.late /\ ~Sent(k) =>
                  /\ k \notin office'.late
                  /\ office.note[k] = "none" => office'.note[k] = "none"
  <2>1. CanAuthorize(m) => office.note[m] = "none"
    BY DEF CanAuthorize, NumberTaken
  <2>2. /\ \/ office'.note = office.note
           \/ office'.note = [office.note EXCEPT ![m] = "authorized"] /\ office.note[m] = "none"
        /\ office'.late \subseteq office.late \cup {m}
    BY <1>1, <1>4, <2>1 DEF Authorize
  <2>3. k \notin office.late /\ ~Sent(k) => k # m
    BY <1>4
  <2>. QED BY <1>1, <2>2, <2>3
<1>. QED BY <1>2, <1>3, <1>4 DEF OfficeTurns

\* A note the office gets to know was being sent.
OfficeGoes(d) ==
  \A n \in 1 .. MaxTry :
    AtOffice(d, n)' \/ Late(d, n)' => AtOffice(d, n) \/ Late(d, n) \/ Sent(<<d, n>>)

LEMMA OfficeReaches ==
  ASSUME FiscalInv, OfficeTurns, NEW d \in Doc
  PROVE  OfficeGoes(d)
<1>. SUFFICES ASSUME NEW n \in 1 .. MaxTry, ~AtOffice(d, n), ~Late(d, n), ~Sent(<<d, n>>)
              PROVE  ~AtOffice(d, n)' /\ ~Late(d, n)'
  BY DEF OfficeGoes
<1>1. PICK k \in Note : k = <<d, n>>
  BY DEF Note
<1>2. k \notin office'.late /\ office'.note[k] = "none"
  BY <1>1, NoteTurns DEF AtOffice, Late
<1>. QED BY <1>1, <1>2 DEF AtOffice, Late

\* A step that records no attempt of a document, as far as its line goes.
RowGoes(d) ==
  /\ document'[d].status # "none" => document[d].status # "none"
  /\ document'[d].try = document[d].try
  /\ document'[d].status = "CONTINGENCY" =>
       document[d].status = "CONTINGENCY" \/ notes[d][document[d].try].offline
  /\ document'[d].numero = document[d].numero \/ document'[d].numero # 0
NotesGo(d) ==
  /\ Len(notes'[d]) = Len(notes[d])
  /\ \A i \in 1 .. Len(notes[d]) : /\ notes'[d][i].numero = notes[d][i].numero
                                   /\ notes'[d][i].offline = notes[d][i].offline
SameLost(d) == \A n \in 1 .. MaxTry : Lost(d, n)' <=> Lost(d, n)
TaskGoes(v, d) ==
  /\ \A n \in 1 .. MaxTry : Emits(v, d, n)' => Emits(v, d, n)
  /\ \A n \in 1 .. MaxTry :
       Ticks(v, d, n)' =>
         Ticks(v, d, n) \/ (document[d].status = "CONTINGENCY" /\ n = document[d].try)
  /\ Resends(v, d)' => task'[v] = task[v] \/ task'[v].numero = document[d].numero

\* Such a step keeps the line.
LEMMA LineKept ==
  ASSUME FiscalInv, Lines, NEW d \in Doc, RowGoes(d), NotesGo(d), OfficeGoes(d), SameLost(d),
         \A v \in Worker : TaskGoes(v, d)
  PROVE  Line(d)'
<1>1. /\ Line(d) /\ Len(notes[d]) \in Nat
      /\ document[d].status # "none" => document[d].try \in 1 .. Len(notes[d])
  BY Ranges DEF Lines
<1>2. NumbersOf(d)' = NumbersOf(d)
  BY DEF NotesGo, NumbersOf
<1>3. RowSound(d)'
  <2>1. Len(notes'[d]) = document'[d].try
    BY <1>1 DEF Line, RowSound, RowGoes, NotesGo
  <2>2. document'[d].status = "CONTINGENCY" => notes'[d][document'[d].try].offline
    <3>. SUFFICES ASSUME document'[d].status = "CONTINGENCY"
                  PROVE  notes'[d][document'[d].try].offline
      OBVIOUS
    <3>1. notes[d][document[d].try].offline
      BY <1>1 DEF Line, RowSound, RowGoes
    <3>2. document[d].try \in 1 .. Len(notes[d])
      BY <1>1 DEF RowGoes
    <3>. QED BY <3>1, <3>2 DEF RowGoes, NotesGo
  <2>3. document'[d].numero = 0 => \A n \in NumbersOf(d)' : n = 0
    BY <1>1, <1>2 DEF Line, RowSound, RowGoes
  <2>. QED BY <2>1, <2>2, <2>3 DEF RowSound
<1>4. AttemptsSound(d)'
  <2>1. /\ \A i, j \in 1 .. Len(notes'[d]) : i <= j /\ notes'[d][i].offline => notes'[d][j].offline
        /\ \A i \in 1 .. Len(notes'[d]) : notes'[d][i].offline => notes'[d][i].numero # 0
    BY <1>1 DEF Line, AttemptsSound, NotesGo
  <2>2. ASSUME NEW n \in 1 .. MaxTry, AtOffice(d, n)' \/ Late(d, n)'
        PROVE  n <= Len(notes'[d]) /\ notes'[d][n].numero # 0
    <3>1. n \in 1 .. Len(notes[d]) /\ notes[d][n].numero # 0
      <4>1. CASE AtOffice(d, n) \/ Late(d, n)
        BY <1>1, <4>1, FiscalAssumption DEF Line, AttemptsSound
      <4>2. CASE Sent(<<d, n>>)
        <5>1. PICK w \in Worker : Emits(w, d, n) \/ Ticks(w, d, n)
          BY <4>2 DEF Sent
        <5>. QED BY <5>1, Sender
      <4>. QED BY <2>2, <4>1, <4>2 DEF OfficeGoes
    <3>. QED BY <1>1, <3>1 DEF NotesGo
  <2>3. ASSUME NEW n \in 1 .. MaxTry, Lost(d, n)'
        PROVE  /\ n + 1 <= Len(notes'[d])
               /\ notes'[d][n].numero # 0
               /\ ~notes'[d][n].offline
               /\ notes'[d][n + 1].offline
    <3>1. /\ n + 1 <= Len(notes[d])
          /\ notes[d][n].numero # 0
          /\ ~notes[d][n].offline
          /\ notes[d][n + 1].offline
      BY <1>1, <2>3 DEF Line, AttemptsSound, SameLost
    <3>2. n \in 1 .. Len(notes[d]) /\ n + 1 \in 1 .. Len(notes[d])
      BY <1>1, <3>1, FiscalAssumption
    <3>. QED BY <3>1, <3>2 DEF NotesGo
  <2>. QED BY <2>1, <2>2, <2>3 DEF AttemptsSound
<1>5. Numbered(d)'
  <2>. SUFFICES ASSUME NEW i \in 1 .. Len(notes[d]), NEW j \in 1 .. Len(notes[d]),
                       notes[d][i].numero # 0, notes[d][j].numero # 0,
                       notes[d][i].numero # notes[d][j].numero
                PROVE  \E n \in 1 .. MaxTry :
                         /\ Lost(d, n)'
                         /\ notes'[d][n].numero \in {notes[d][i].numero, notes[d][j].numero}
    BY DEF Numbered, NotesGo
  <2>1. PICK n \in 1 .. MaxTry :
          Lost(d, n) /\ notes[d][n].numero \in {notes[d][i].numero, notes[d][j].numero}
    BY <1>1 DEF Line, Numbered
  <2>2. n \in 1 .. Len(notes[d])
    BY <1>1, <2>1, FiscalAssumption DEF Line, AttemptsSound
  <2>. QED BY <2>1, <2>2 DEF NotesGo, SameLost
<1>6. ASSUME NEW v \in Worker
      PROVE  SendSound(v, d)' /\ ResendSound(v, d)'
  <2>1. ASSUME NEW n \in 1 .. MaxTry, Emits(v, d, n)'
        PROVE  notes'[d][n].numero # 0 /\ ~Lost(d, n)'
    <3>1. Emits(v, d, n)
      BY <2>1 DEF TaskGoes
    <3>. QED BY <1>1, <3>1, Sender DEF Line, SendSound, NotesGo, SameLost
  <2>2. ASSUME NEW n \in 1 .. MaxTry, Ticks(v, d, n)'
        PROVE  notes'[d][n].offline
    <3>1. n \in 1 .. Len(notes[d]) /\ notes[d][n].offline
      <4>1. CASE Ticks(v, d, n)
        BY <1>1, <4>1, Sender DEF Line, SendSound
      <4>2. CASE document[d].status = "CONTINGENCY" /\ n = document[d].try
        BY <1>1, <4>2 DEF Line, RowSound
      <4>. QED BY <2>2, <4>1, <4>2 DEF TaskGoes
    <3>. QED BY <3>1 DEF NotesGo
  <2>3. ResendSound(v, d)'
    <3>. SUFFICES ASSUME Resends(v, d)', Len(notes[d]) < task'[v].try, task'[v].numero = 0
                  PROVE  \A n \in NumbersOf(d) : n = 0
      BY <1>2 DEF ResendSound, NotesGo
    <3>1. CASE task'[v] = task[v]
      BY <1>1, <3>1 DEF Line, ResendSound, Resends
    <3>2. CASE document[d].numero = 0
      BY <1>1, <3>2 DEF Line, RowSound
    <3>. QED BY <3>1, <3>2 DEF TaskGoes
  <2>. QED BY <2>1, <2>2, <2>3 DEF SendSound
<1>7. ASSUME NEW v \in Worker, NEW u \in Worker
      PROVE  Together(v, u, d)'
  BY <1>1 DEF Line, Together, TaskGoes
<1>. QED BY <1>3, <1>4, <1>5, <1>6, <1>7 DEF Line

-----------------------------------------------------------------------------
(* Lines: steps that record no attempt *)

\* Rows and attempts in such a step.
LEMMA RowsGo ==
  ASSUME FiscalInv, Lines, NEW w \in Worker, NEW d \in Doc,
         Begins(w) \/ Continues(w), ~EnterContingency(w), ~Resend(w)
  PROVE  RowGoes(d) /\ NotesGo(d)
<1>1. notes' = notes => NotesGo(d)
  BY DEF NotesGo
<1>2. document' = document => RowGoes(d)
  BY DEF RowGoes
<1>3. ASSUME NEW x \in Doc, document[x].status # "none", NEW s,
             document' = [document EXCEPT ![x].status = s],
             s = "CONTINGENCY" => \/ document[x].status = "CONTINGENCY"
                                  \/ notes[x][document[x].try].offline
      PROVE  RowGoes(d)
  BY <1>3, StatusWritten DEF RowGoes
<1>4. ASSUME NEW x \in Doc, x = task[w].doc, IsSending(w), notes[x][task[w].try].offline
      PROVE  notes[x][document[x].try].offline
  <2>1. PICK n : n = task[w].try
    OBVIOUS
  <2>2. Emits(w, x, n)
    BY <1>4, <2>1, SendingEmits
  <2>3. n \in 1 .. Len(notes[x]) /\ Line(x) /\ Len(notes[x]) \in Nat
    BY <2>2, Sender, Ranges DEF Lines
  <2>4. document[x].try = Len(notes[x])
    BY <2>3 DEF Line, RowSound
  <2>. QED BY <1>4, <2>1, <2>3, <2>4 DEF Line, AttemptsSound
<1>5. CASE Begins(w)
  <2>1. UNCHANGED <<document, notes>>
    BY <1>5 DEF Begins, CheckResend, StartCancel, Transmit, StartDrain, StartAsk, ListPending,
                VoidNumber, RequestVoidOf, StartOrphan
  <2>. QED BY <1>1, <1>2, <2>1
<1>6. CASE \/ ReceiveNote(w) \/ SendFails(w) \/ TransmitFails(w) \/ DropAnswer(w)
           \/ LeaveContingency(w) \/ AttachSource(w) \/ DrainFails(w) \/ PollNote(w)
           \/ AskNote(w) \/ ResendConflict(w) \/ CancelNote(w) \/ RetireSource(w) \/ AskOrphan(w)
           \/ Substitute(w) \/ CloseOrphan(w) \/ VoidOrphan(w) \/ SendVoid(w)
           \/ VoidUnanswered(w) \/ ApplyVoid(w) \/ Dies(w)
  <2>1. UNCHANGED <<document, notes>>
    BY <1>6 DEF ReceiveNote, SendFails, TransmitFails, DropAnswer, LeaveContingency, AttachSource,
                DrainFails, PollNote, AskNote, ResendConflict, CancelNote, RetireSource,
                AskOrphan, Substitute, CloseOrphan, VoidOrphan, SendVoid, VoidUnanswered,
                ApplyVoid, Dies
  <2>. QED BY <1>1, <1>2, <2>1
<1>7. CASE \/ SessionExpired(w) \/ OfflineFails(w) \/ KeepSent(w) \/ ApplyRejected(w)
           \/ MarkCancelled(w)
  <2>1. task[w].at \in InCall
    BY <1>7 DEF SessionExpired, OfflineFails, KeepSent, ApplyRejected, MarkCancelled, IsSending,
                Accepts, At, InCall
  <2>2. PICK x \in Doc : x = task[w].doc /\ document[x].status # "none"
    BY <2>1, Held
  <2>3. \E s : /\ document' = [document EXCEPT ![x].status = s]
               /\ s = "CONTINGENCY" => \/ document[x].status = "CONTINGENCY"
                                       \/ notes[x][document[x].try].offline
    <3>1. CASE OfflineFails(w)
      <4>1. notes[x][document[x].try].offline
        BY <1>4, <2>2, <3>1 DEF OfflineFails
      <4>. QED BY <2>2, <3>1, <4>1 DEF OfflineFails
    <3>2. CASE SessionExpired(w)
      <4>1. PICK s : s = IF document[x].status = "SENT" THEN "PENDING_SIGNATURE" ELSE document[x].status
        OBVIOUS
      <4>2. document' = [document EXCEPT ![x].status = s]
        BY <2>2, <3>2, <4>1 DEF SessionExpired
      <4>3. s = "CONTINGENCY" => document[x].status = "CONTINGENCY"
        BY <4>1
      <4>. QED BY <4>2, <4>3
    <3>3. CASE KeepSent(w) \/ ApplyRejected(w)
      <4>1. PICK s \in {"SENT", "REJECTED"} : document' = [document EXCEPT ![x].status = s]
        BY <2>2, <3>3 DEF KeepSent, ApplyRejected
      <4>. QED BY <4>1
    <3>4. CASE MarkCancelled(w)
      <4>1. PICK s : s = IF document[x].status = "AUTHORIZED" THEN "CANCELLED" ELSE document[x].status
        OBVIOUS
      <4>2. document' = [document EXCEPT ![x].status = s]
        BY <2>2, <3>4, <4>1 DEF MarkCancelled
      <4>3. s = "CONTINGENCY" => document[x].status = "CONTINGENCY"
        BY <4>1
      <4>. QED BY <4>2, <4>3
    <3>. QED BY <1>7, <3>1, <3>2, <3>3, <3>4
  <2>4. notes' = notes
    BY <1>7 DEF SessionExpired, OfflineFails, KeepSent, ApplyRejected, MarkCancelled
  <2>. QED BY <1>1, <1>3, <2>2, <2>3, <2>4
<1>8. CASE LinkSource(w)
  <2>1. PICK x, b : document' = [document EXCEPT ![x].source = b] /\ notes' = notes
    BY <1>8 DEF LinkSource
  <2>2. document \in [Doc -> Row]
    BY DEF FiscalInv, RowsTyped
  <2>3. RowGoes(d)
    BY <2>1, <2>2 DEF RowGoes, Row
  <2>. QED BY <1>1, <2>1, <2>3
<1>9. CASE ApplyAuthorized(w)
  <2>1. task[w].at = "answer" /\ task[w].result = "AUTHORIZED"
    BY <1>9 DEF ApplyAuthorized, Accepts, At
  <2>2. PICK x \in Doc : x = task[w].doc /\ document[x].status # "none"
    BY <2>1, Held DEF InCall
  <2>3. PICK key \in 1 .. Len(notes[x]) : key = task[w].key /\ key <= MaxTry /\ AtOffice(x, key)
    BY <2>1, <2>2 DEF FiscalInv, SoundTask, AtOffice
  <2>4. notes[x][key].numero # 0
    <3>1. key \in 1 .. MaxTry
      BY <2>3, Ranges, FiscalAssumption
    <3>. QED BY <2>3, <3>1 DEF Lines, Line, AttemptsSound
  <2>5. /\ document' = [document EXCEPT ![x].status = "AUTHORIZED", ![x].key = key,
                                        ![x].numero = notes[x][key].numero, ![x].source = FALSE]
        /\ notes' = notes
    BY <1>9, <2>2, <2>3 DEF ApplyAuthorized
  <2>6. document \in [Doc -> Row] /\ document[x] \in Row
    BY DEF FiscalInv, RowsTyped
  <2>7. RowGoes(d)
    <3>1. CASE d = x
      BY <2>2, <2>4, <2>5, <2>6, <3>1 DEF RowGoes, Row
    <3>2. CASE d # x
      BY <2>5, <2>6, <3>2 DEF RowGoes
    <3>. QED BY <3>1, <3>2
  <2>. QED BY <1>1, <2>5, <2>7
<1>10. CASE ApplyNotFound(w)
  <2>1. task[w].at = "answer"
    BY <1>10 DEF ApplyNotFound, Accepts, At
  <2>2. PICK x \in Doc : x = task[w].doc /\ document[x].status # "none"
    BY <2>1, Held DEF InCall
  <2>3. PICK try \in 1 .. Len(notes[x]) : try = task[w].try
    BY <2>1, <2>2 DEF FiscalInv, SoundTask
  <2>4. PICK s : s = IF task[w].misses = MissLimit THEN "REJECTED" ELSE "PROCESSING"
    OBVIOUS
  <2>6. /\ document' = [document EXCEPT ![x].status = s]
        /\ CountsMisses(x, try, task[w].misses)
        /\ s # "CONTINGENCY"
    BY <1>10, <2>2, <2>3, <2>4 DEF ApplyNotFound, CountsMisses
  <2>5. NotesGo(d)
    BY <2>6, MissesWritten DEF NotesGo
  <2>. QED BY <1>3, <2>2, <2>5, <2>6
<1>. QED BY <1>5, <1>6, <1>7, <1>8, <1>9, <1>10 DEF Continues

\* Nobody begins to send or resend in a step that goes on with a task, but the
\* request that resends; the tick takes what is off-line, and a resend the number
\* it reads.
LEMMA TasksGo ==
  ASSUME FiscalInv, NEW w \in Worker, NEW d \in Doc, NEW v \in Worker,
         Begins(w) \/ Continues(w), ~Resend(w)
  PROVE  TaskGoes(v, d)
<1>1. ASSUME NEW next, Goes(w, next), next.at \notin {"send", "answer", "resend"}
      PROVE  TaskGoes(v, d)
  BY <1>1, OthersStay DEF TaskGoes, Emits, Ticks, Resends
<1>2. ASSUME NEW next, Goes(w, next), next.at = "answer", next.by \notin {"send", "tick"}
      PROVE  TaskGoes(v, d)
  BY <1>2, OthersStay DEF TaskGoes, Emits, Ticks, Resends
<1>3. CASE ReceiveNote(w)
  <2>1. PICK t : t = task[w]
    OBVIOUS
  <2>2. PICK next : /\ Goes(w, next) /\ next.at = "answer" /\ next.doc = t.doc /\ next.try = t.try
                    /\ next.by = (IF t.tick THEN "tick" ELSE "send")
    BY <1>3, <2>1 DEF ReceiveNote
  <2>3. t.at = "send"
    BY <1>3, <2>1 DEF ReceiveNote, At
  <2>4. task'[w] = next /\ (v # w => task'[v] = task[v])
    BY <2>2, OthersStay
  <2>5. CASE v # w
    BY <2>4, <2>5 DEF TaskGoes, Emits, Ticks, Resends
  <2>6. CASE v = w
    <3>1. \A n : Emits(w, d, n)' => Emits(w, d, n)
      BY <2>1, <2>2, <2>3, <2>4 DEF Emits
    <3>2. \A n : Ticks(w, d, n)' => Ticks(w, d, n)
      BY <2>1, <2>2, <2>3, <2>4 DEF Ticks
    <3>3. ~Resends(w, d)'
      BY <2>2, <2>4 DEF Resends
    <3>. QED BY <2>6, <3>1, <3>2, <3>3 DEF TaskGoes
  <2>. QED BY <2>5, <2>6
<1>4. CASE AskNote(w)
  <2>1. PICK next : Goes(w, next) /\ next.at = "answer" /\ next.by = "ask"
    BY <1>4 DEF AskNote
  <2>. QED BY <1>2, <2>1
<1>5. CASE \/ SessionExpired(w) \/ OfflineFails(w) \/ EnterContingency(w) \/ KeepSent(w)
           \/ TransmitFails(w) \/ DropAnswer(w) \/ LeaveContingency(w) \/ ResendConflict(w)
           \/ RetireSource(w) \/ CloseOrphan(w) \/ Dies(w)
  <2>1. Goes(w, Idle) /\ Idle.at = "idle"
    BY <1>5 DEF SessionExpired, OfflineFails, EnterContingency, KeepSent, TransmitFails, DropAnswer,
                LeaveContingency, ResendConflict, RetireSource, CloseOrphan, Dies, Leaves, Idle
  <2>. QED BY <1>1, <2>1
<1>6. CASE CancelNote(w) \/ Substitute(w) \/ SendVoid(w)
  <2>1. \E next : Goes(w, next) /\ next.at \in {"cancelled", "idle", "close", "void.apply"}
    <3>1. CASE CancelNote(w)
      BY <3>1 DEF CancelNote, Leaves, Idle
    <3>2. CASE Substitute(w)
      BY <3>2 DEF Substitute
    <3>3. CASE SendVoid(w)
      BY <3>3 DEF SendVoid
    <3>. QED BY <1>6, <3>1, <3>2, <3>3
  <2>. QED BY <1>1, <2>1
<1>7. CASE SendFails(w) \/ ApplyAuthorized(w) \/ AttachSource(w) \/ PollNote(w)
  <2>1. \E next : Goes(w, next) /\ next.at \in {"keep", "drain", "link", "ask"}
    <3>1. CASE SendFails(w)
      BY <3>1 DEF SendFails
    <3>2. CASE ApplyAuthorized(w)
      <4>1. PICK b : Goes(w, [at |-> "drain", doc |-> task[w].doc, tick |-> b])
        BY <3>2 DEF ApplyAuthorized
      <4>. QED BY <4>1
    <3>3. CASE AttachSource(w)
      <4>1. PICK a, b : Goes(w, [at |-> "link", doc |-> task[w].doc, tick |-> a, authorized |-> b])
        BY <3>3 DEF AttachSource
      <4>. QED BY <4>1
    <3>4. CASE PollNote(w)
      BY <3>4 DEF PollNote, Consultation
    <3>. QED BY <1>7, <3>1, <3>2, <3>3, <3>4
  <2>. QED BY <1>1, <2>1
<1>8. CASE \/ ApplyRejected(w) \/ ApplyNotFound(w) \/ DrainFails(w) \/ LinkSource(w)
           \/ MarkCancelled(w)
  <2>1. \E next : Goes(w, next) /\ next.at \in {"idle", "leave", "retire"}
    <3>1. CASE ApplyRejected(w) \/ ApplyNotFound(w)
      BY <3>1 DEF ApplyRejected, ApplyNotFound, Then, Idle
    <3>2. CASE DrainFails(w) \/ LinkSource(w)
      <4>1. Goes(w, IF task[w].tick THEN [at |-> "leave"] ELSE Idle)
        BY <3>2 DEF DrainFails, LinkSource
      <4>. QED BY <4>1 DEF Idle
    <3>3. CASE MarkCancelled(w)
      BY <3>3 DEF MarkCancelled, Idle
    <3>. QED BY <1>8, <3>1, <3>2, <3>3
  <2>. QED BY <1>1, <2>1
<1>9. CASE AskOrphan(w) \/ VoidOrphan(w) \/ VoidUnanswered(w) \/ ApplyVoid(w)
  <2>1. \E next : Goes(w, next) /\ next.at \in {"idle", "void", "substitute", "close", "void.send"}
    <3>1. CASE AskOrphan(w)
      BY <3>1 DEF AskOrphan, Idle
    <3>2. CASE VoidOrphan(w)
      BY <3>2 DEF VoidOrphan, RequestVoidOf, After, Idle
    <3>3. CASE VoidUnanswered(w)
      BY <3>3 DEF VoidUnanswered, After, Idle
    <3>4. CASE ApplyVoid(w)
      BY <3>4 DEF ApplyVoid, After, Idle
    <3>. QED BY <1>9, <3>1, <3>2, <3>3, <3>4
  <2>. QED BY <1>1, <2>1
<1>10. CASE \E x \in Doc : CheckResend(w, x)
  <2>1. PICK x \in Doc : CheckResend(w, x)
    BY <1>10
  <2>2. PICK next : /\ Goes(w, next) /\ next.at = "resend" /\ next.doc = x
                    /\ next.numero = document[x].numero
    BY <2>1 DEF CheckResend
  <2>. QED BY <2>2, OthersStay DEF TaskGoes, Emits, Ticks, Resends
<1>11. CASE \E x \in Doc : Transmit(w, x)
  <2>1. PICK x \in Doc : Transmit(w, x)
    BY <1>11
  <2>2. PICK next : /\ Goes(w, next) /\ next.at = "send" /\ next.doc = x
                    /\ next.try = document[x].try /\ next.tick = TRUE
                    /\ document[x].status = "CONTINGENCY"
    BY <2>1 DEF Transmit
  <2>. QED BY <2>2, OthersStay DEF TaskGoes, Emits, Ticks, Resends
<1>12. ASSUME NEW x \in Doc, StartCancel(w, x) \/ StartDrain(w, x)
       PROVE  TaskGoes(v, d)
  <2>1. \E next : Goes(w, next) /\ next.at \in {"cancel", "drain"}
    BY <1>12 DEF StartCancel, StartDrain
  <2>. QED BY <1>1, <2>1
<1>13. ASSUME NEW x \in Doc, StartAsk(w, x) \/ ListPending(w, x)
       PROVE  TaskGoes(v, d)
  <2>1. \E next : Goes(w, next) /\ next.at \in {"ask", "poll"}
    BY <1>13 DEF StartAsk, ListPending, Consultation
  <2>. QED BY <1>1, <2>1
<1>14. ASSUME NEW n \in Number, VoidNumber(w, n)
       PROVE  TaskGoes(v, d)
  BY <1>1, <1>14 DEF VoidNumber, RequestVoidOf
<1>15. ASSUME NEW k \in Note, StartOrphan(w, k)
       PROVE  TaskGoes(v, d)
  BY <1>1, <1>15 DEF StartOrphan
<1>16. Begins(w) => TaskGoes(v, d)
  <2>. HIDE DEF TaskGoes
  <2>. QED BY <1>10, <1>11, <1>12, <1>13, <1>14, <1>15 DEF Begins
<1>. QED BY <1>3, <1>4, <1>5, <1>6, <1>7, <1>8, <1>9, <1>16 DEF Continues

\* Orphans are not forgotten.
OrphansGoOn ==
  /\ orphan' \in [Note -> OrphanStatus]
  /\ \A k \in Note : orphan[k] # "none" => orphan'[k] # "none"

\* Only a contingency makes an orphan.
LEMMA OrphansGo ==
  ASSUME Lines, [FiscalNext]_vars
  PROVE  /\ OrphansGoOn
         /\ (\A w \in Worker : ~EnterContingency(w)) => \A d \in Doc : SameLost(d)
<1>1. orphan \in [Note -> OrphanStatus]
  BY DEF Lines
<1>2. CASE UNCHANGED <<orphan>>
  BY <1>1, <1>2 DEF OrphansGoOn, SameLost, Lost
<1>3. ASSUME NEW w \in Worker, EnterContingency(w)
      PROVE  OrphansGoOn
  <2>1. PICK k : orphan' = [orphan EXCEPT ![k] = "PENDING"]
    BY <1>3 DEF EnterContingency
  <2>. QED BY <1>1, <2>1 DEF OrphansGoOn, OrphanStatus
<1>4. ASSUME NEW w \in Worker, CloseOrphan(w)
      PROVE  OrphansGoOn /\ \A d \in Doc : SameLost(d)
  <2>1. PICK k, s : /\ orphan' = [orphan EXCEPT ![k] = s]
                    /\ k = task[w].note /\ s = task[w].as /\ task[w].at = "close"
    BY <1>4 DEF CloseOrphan, At
  <2>2. k \in Note /\ orphan[k] # "none" /\ s \in OrphanStatus \ {"none"}
    BY <2>1 DEF Lines, Carried, OrphanStatus
  <2>3. \A m \in Note : orphan'[m] # "none" <=> orphan[m] # "none"
    BY <1>1, <2>1, <2>2
  <2>4. orphan' \in [Note -> OrphanStatus]
    BY <1>1, <2>1, <2>2
  <2>. QED BY <2>3, <2>4, KnownNote DEF OrphansGoOn, SameLost, Lost
<1>5. ASSUME NEW w \in Worker, Continues(w), ~EnterContingency(w), ~CloseOrphan(w)
      PROVE  UNCHANGED <<orphan>>
  BY <1>5 DEF Continues, ReceiveNote, SessionExpired, OfflineFails, SendFails, KeepSent,
              TransmitFails, ApplyAuthorized, ApplyRejected, ApplyNotFound, DropAnswer,
              LeaveContingency, AttachSource, DrainFails, LinkSource, PollNote, AskNote, Resend,
              ResendConflict, CancelNote, MarkCancelled, RetireSource, AskOrphan, Substitute,
              VoidOrphan, SendVoid, VoidUnanswered, ApplyVoid, Dies
<1>6. ASSUME NEW w \in Worker, Begins(w)
      PROVE  UNCHANGED <<orphan>>
  BY <1>6 DEF Begins, CheckResend, StartCancel, Transmit, StartDrain, StartAsk, ListPending,
              VoidNumber, StartOrphan
<1>7. ASSUME NEW w \in Request, Issues(w)
      PROVE  UNCHANGED <<orphan>>
  BY <1>7 DEF Issues, Emit, EmitOffline, EmitUnsigned, EmitIn
<1>8. Happens => UNCHANGED <<orphan>>
  BY DEF Happens, LateNote, SetContingency, vars
<1>. QED BY <1>2, <1>3, <1>4, <1>5, <1>6, <1>7, <1>8, StepKinds

\* What is carried stays an orphan that is one, and an answer the office can give.
LEMMA CarriedStep ==
  ASSUME FiscalInv, Lines, [FiscalNext]_vars, NEW v \in Worker
  PROVE  Carried(v)'
<1>1. OrphansGoOn
  BY OrphansGo
<1>2. ASSUME task'[v] = task[v]
      PROVE  Carried(v)'
  <2>1. Carried(v)
    BY DEF Lines
  <2>. QED BY <1>1, <1>2, <2>1 DEF Carried, OrphansGoOn
<1>. DEFINE Holds(next) ==
              /\ next.at = "answer" => /\ next.by \in {"send", "tick", "ask"}
                                       /\ next.result \in {"AUTHORIZED", "REJECTED", "217"}
              /\ next.at \in {"orphan", "substitute", "void", "close"} =>
                   next.note \in Note /\ orphan[next.note] # "none"
              /\ next.at \in {"void.send", "void.apply"} /\ next.note # <<>> =>
                   next.note \in Note /\ orphan[next.note] # "none"
              /\ next.at = "close" => next.as \in {"CANCELLED_SUBST", "VOID_REQUESTED", "FAILED"}
<1>3. ASSUME NEW w \in Worker, NEW next, Goes(w, next), Holds(next)
      PROVE  Carried(v)'
  <2>1. task'[w] = next /\ (v # w => task'[v] = task[v])
    BY <1>3, OthersStay
  <2>2. CASE v = w
    BY <1>1, <1>3, <2>1, <2>2 DEF Carried, OrphansGoOn
  <2>. QED BY <1>2, <2>1, <2>2
<1>4. ASSUME NEW next, next.at \notin {"answer", "orphan", "substitute", "void", "void.send",
                                       "void.apply", "close"}
      PROVE  Holds(next)
  BY <1>4
<1>5. ASSUME NEW w \in Request, Issues(w)
      PROVE  Carried(v)'
  <2>1. w \in Worker
    BY DEF Worker
  <2>2. \E next : Goes(w, next) /\ next.at \in {"send", "idle"}
    <3>1. PICK d : Emit(w, d) \/ EmitOffline(w, d) \/ EmitUnsigned(w, d)
      BY <1>5 DEF Issues
    <3>2. CASE Emit(w, d)
      <4>1. Goes(w, [at |-> "send", doc |-> d, try |-> 1, tick |-> FALSE])
        BY <3>2 DEF Emit, EmitIn
      <4>. QED BY <4>1
    <3>3. CASE EmitOffline(w, d) \/ EmitUnsigned(w, d)
      <4>1. Goes(w, Idle)
        BY <3>3 DEF EmitOffline, EmitUnsigned, EmitIn
      <4>. QED BY <4>1 DEF Idle
    <3>. QED BY <3>1, <3>2, <3>3
  <2>. HIDE DEF Holds
  <2>. QED BY <1>3, <1>4, <2>1, <2>2
<1>6. ASSUME NEW w \in Worker, Begins(w)
      PROVE  Carried(v)'
  <2>1. CASE \E d \in Doc : \/ CheckResend(w, d) \/ StartCancel(w, d) \/ Transmit(w, d)
                            \/ StartDrain(w, d) \/ StartAsk(w, d) \/ ListPending(w, d)
    <3>1. \E next : Goes(w, next) /\ next.at \in {"resend", "cancel", "send", "drain", "ask", "poll"}
      BY <2>1 DEF CheckResend, StartCancel, Transmit, StartDrain, StartAsk, ListPending, Consultation
    <3>. HIDE DEF Holds
    <3>. QED BY <1>3, <1>4, <3>1
  <2>2. CASE \E n \in Number : VoidNumber(w, n)
    BY <1>3, <2>2 DEF VoidNumber, RequestVoidOf
  <2>3. CASE \E k \in Note : StartOrphan(w, k)
    BY <1>3, <2>3 DEF StartOrphan
  <2>. QED BY <1>6, <2>1, <2>2, <2>3 DEF Begins
<1>7. ASSUME NEW w \in Worker, Continues(w)
      PROVE  Carried(v)'
  <2>1. Carried(w)
    BY DEF Lines
  <2>2. CASE ReceiveNote(w) \/ AskNote(w)
    <3>1. CASE ReceiveNote(w)
      <4>1. PICK next : /\ Goes(w, next) /\ next.at = "answer" /\ next.by \in {"send", "tick"}
                        /\ next.result \in {"AUTHORIZED", "REJECTED", "217"}
        BY <3>1 DEF ReceiveNote, Found
      <4>. QED BY <1>3, <4>1
    <3>2. CASE AskNote(w)
      <4>1. PICK next : /\ Goes(w, next) /\ next.at = "answer" /\ next.by = "ask"
                        /\ next.result = Found(<<task[w].doc, task[w].key>>)
        BY <3>2 DEF AskNote
      <4>. QED BY <1>3, <4>1 DEF Found
    <3>. QED BY <2>2, <3>1, <3>2
  <2>3. CASE AskOrphan(w)
    BY <1>3, <2>1, <2>3 DEF AskOrphan, At, Carried, Idle
  <2>4. CASE Substitute(w)
    BY <1>3, <2>1, <2>4 DEF Substitute, At, Carried
  <2>5. CASE VoidOrphan(w)
    <3>1. task[w].note \in Note /\ orphan[task[w].note] # "none"
      BY <2>1, <2>5 DEF VoidOrphan, At, Carried
    <3>. QED BY <1>3, <2>5, <3>1 DEF VoidOrphan, RequestVoidOf, After, Idle
  <2>6. CASE SendVoid(w)
    BY <1>3, <2>1, <2>6 DEF SendVoid, At, Carried
  <2>7. CASE VoidUnanswered(w)
    BY <1>3, <2>1, <2>7 DEF VoidUnanswered, At, Carried, After, Idle
  <2>8. CASE ApplyVoid(w)
    BY <1>3, <2>1, <2>8 DEF ApplyVoid, At, Carried, After, Idle
  <2>9. CASE \/ SessionExpired(w) \/ OfflineFails(w) \/ EnterContingency(w)
             \/ KeepSent(w) \/ TransmitFails(w) \/ DropAnswer(w)
             \/ LeaveContingency(w) \/ ResendConflict(w)
             \/ RetireSource(w) \/ CloseOrphan(w) \/ Dies(w)
    <3>1. Goes(w, Idle) /\ Idle.at = "idle"
      BY <2>9 DEF SessionExpired, OfflineFails, EnterContingency, KeepSent, TransmitFails, DropAnswer,
                  LeaveContingency, ResendConflict, RetireSource, CloseOrphan, Dies, Leaves, Idle
    <3>. QED BY <1>3, <3>1
  <2>10. CASE \/ SendFails(w) \/ ApplyAuthorized(w) \/ AttachSource(w) \/ PollNote(w)
              \/ Resend(w) \/ CancelNote(w)
    <3>1. \E next : Goes(w, next) /\ next.at \in {"keep", "drain", "link", "ask", "send", "cancelled", "idle"}
      <4>1. CASE SendFails(w)
        BY <4>1 DEF SendFails
      <4>2. CASE ApplyAuthorized(w)
        <5>1. PICK b : Goes(w, [at |-> "drain", doc |-> task[w].doc, tick |-> b])
          BY <4>2 DEF ApplyAuthorized
        <5>. QED BY <5>1
      <4>3. CASE AttachSource(w)
        <5>1. PICK a, b : Goes(w, [at |-> "link", doc |-> task[w].doc, tick |-> a, authorized |-> b])
          BY <4>3 DEF AttachSource
        <5>. QED BY <5>1
      <4>4. CASE PollNote(w)
        BY <4>4 DEF PollNote, Consultation
      <4>5. CASE Resend(w)
        <5>1. PICK d, n : Goes(w, [at |-> "send", doc |-> d, try |-> n, tick |-> FALSE])
          BY <4>5 DEF Resend
        <5>. QED BY <5>1
      <4>6. CASE CancelNote(w)
        BY <4>6 DEF CancelNote, Leaves, Idle
      <4>. QED BY <2>10, <4>1, <4>2, <4>3, <4>4, <4>5, <4>6
    <3>. QED BY <1>3, <3>1
  <2>11. CASE \/ ApplyRejected(w) \/ ApplyNotFound(w) \/ DrainFails(w) \/ LinkSource(w)
              \/ MarkCancelled(w)
    <3>1. \E next : Goes(w, next) /\ next.at \in {"idle", "leave", "retire"}
      <4>1. CASE ApplyRejected(w) \/ ApplyNotFound(w)
        BY <4>1 DEF ApplyRejected, ApplyNotFound, Then, Idle
      <4>2. CASE DrainFails(w) \/ LinkSource(w)
        <5>1. Goes(w, IF task[w].tick THEN [at |-> "leave"] ELSE Idle)
          BY <4>2 DEF DrainFails, LinkSource
        <5>. QED BY <5>1 DEF Idle
      <4>3. CASE MarkCancelled(w)
        BY <4>3 DEF MarkCancelled, Idle
      <4>. QED BY <2>11, <4>1, <4>2, <4>3
    <3>. QED BY <1>3, <3>1
  <2>. QED BY <1>7, <2>2, <2>3, <2>4, <2>5, <2>6, <2>7, <2>8, <2>9, <2>10, <2>11 DEF Continues
<1>8. CASE Happens
  <2>1. UNCHANGED <<task>>
    BY <1>8 DEF Happens, LateNote, SetContingency, vars
  <2>. QED BY <1>2, <2>1
<1>. QED BY <1>5, <1>6, <1>7, <1>8, StepKinds

-----------------------------------------------------------------------------
(* Lines: steps that record an attempt *)

\* A sale is issued: nothing was known of it.
LEMMA IssueLine ==
  ASSUME FiscalInv, Lines, NEW w \in Request, Issues(w), \A d \in Doc : SameLost(d)
  PROVE  \A d \in Doc : Line(d)'
<1>1. PICK d \in Doc, status \in {"SENT", "CONTINGENCY", "PENDING_SIGNATURE"}, n \in Nat,
           offline \in BOOLEAN :
          EmitIn(w, d, status, n, offline, NextOf(d, status)) /\
          (n = (IF status = "PENDING_SIGNATURE" THEN 0 ELSE sequence + 1)) /\
          (status = "CONTINGENCY" <=> offline)
  <2>1. sequence + 1 \in Nat
    BY DEF FiscalInv, RowsTyped
  <2>2. PICK d \in Doc : Emit(w, d) \/ EmitOffline(w, d) \/ EmitUnsigned(w, d)
    BY DEF Issues
  <2>3. CASE Emit(w, d)
    BY <2>1, <2>3 DEF Emit, NextOf
  <2>4. CASE EmitOffline(w, d)
    BY <2>1, <2>4 DEF EmitOffline, NextOf
  <2>5. CASE EmitUnsigned(w, d)
    BY <2>1, <2>5 DEF EmitUnsigned, NextOf
  <2>. QED BY <2>2, <2>3, <2>4, <2>5
<1>2. status \in Status
  BY DEF Status
<1>3. /\ document[d].status = "none" /\ Len(notes[d]) = 0
      /\ document'[d] = [status |-> status, numero |-> n, try |-> 1, key |-> 0, source |-> FALSE]
      /\ Len(notes'[d]) = 1
      /\ notes'[d][1] = FirstTry(n, offline)
      /\ \A e \in Doc : e # d => document'[e] = document[e] /\ notes'[e] = notes[e]
      /\ NumbersOf(d)' = {n}
      /\ w \in Worker
      /\ task'[w] = NextOf(d, status)
      /\ \A v \in Worker : v # w => task'[v] = task[v]
      /\ UNCHANGED office
  BY <1>1, <1>2, Issued
<1>4. FirstTry(n, offline).numero = n /\ FirstTry(n, offline).offline = offline
  BY DEF FirstTry
<1>5. n # 0 \/ status = "PENDING_SIGNATURE"
  BY <1>1 DEF FiscalInv, RowsTyped
<1>6. \A e \in Doc : OfficeGoes(e)
  BY <1>3 DEF OfficeGoes, AtOffice, Late
<1>7. NextOf(d, status) = IF status = "SENT" THEN [at |-> "send", doc |-> d, try |-> 1, tick |-> FALSE]
                          ELSE Idle
  BY DEF NextOf
<1>8. \A m : ~Ticks(w, d, m)'
  BY <1>3, <1>7 DEF Ticks, Idle
<1>9. \A e, m : Emits(w, e, m)' => e = d /\ m = 1 /\ status = "SENT"
  BY <1>3, <1>7 DEF Emits, Idle
<1>10. \A e, m : ~Ticks(w, e, m)' /\ ~Resends(w, e)'
  BY <1>3, <1>7 DEF Ticks, Resends, Idle
<1>11. ASSUME NEW e \in Doc, e # d
       PROVE  Line(e)'
  <2>1. RowGoes(e) /\ NotesGo(e)
    BY <1>3, <1>11 DEF RowGoes, NotesGo
  <2>2. \A v \in Worker : TaskGoes(v, e)
    BY <1>3, <1>9, <1>10, <1>11 DEF TaskGoes, Emits, Ticks, Resends
  <2>. QED BY <1>6, <2>1, <2>2, LineKept
<1>12. \A v \in Worker : (\E m : Emits(v, d, m)' \/ Ticks(v, d, m)') \/ Resends(v, d)' => v = w
  <2>. SUFFICES ASSUME NEW v \in Worker, v # w, task[v].at \in {"send", "answer", "resend"},
                       task[v].doc = d
                PROVE  FALSE
    BY <1>3 DEF Emits, Ticks, Resends
  <2>. QED BY <1>3, Held DEF InCall
<1>13. \A m \in 1 .. MaxTry : ~AtOffice(d, m) /\ ~Late(d, m) /\ ~Lost(d, m)
  BY <1>3 DEF Lines, Line, AttemptsSound
<1>14. \A m \in 1 .. MaxTry : ~AtOffice(d, m)' /\ ~Late(d, m)' /\ ~Lost(d, m)'
  BY <1>3, <1>13 DEF AtOffice, Late, SameLost
<1>15. RowSound(d)'
  BY <1>1, <1>3, <1>4 DEF RowSound
<1>16. AttemptsSound(d)'
  BY <1>1, <1>3, <1>4, <1>5, <1>14 DEF AttemptsSound
<1>17. Numbered(d)'
  BY <1>3 DEF Numbered
<1>18. ASSUME NEW v \in Worker
       PROVE  SendSound(v, d)' /\ ResendSound(v, d)'
  <2>1. SendSound(v, d)'
    BY <1>3, <1>4, <1>5, <1>9, <1>10, <1>12, <1>14 DEF SendSound
  <2>2. ~Resends(v, d)'
    BY <1>10, <1>12
  <2>. QED BY <2>1, <2>2 DEF ResendSound
<1>19. \A v, u \in Worker : Together(v, u, d)'
  BY <1>12 DEF Together
<1>20. Line(d)'
  BY <1>15, <1>16, <1>17, <1>18, <1>19 DEF Line
<1>. QED BY <1>11, <1>20

\* An attempt is added to a document: off-line if the last one was, under a number,
\* and nobody but the worker that adds it sends it.
LEMMA LineRecorded ==
  ASSUME FiscalInv, Lines, NEW w \in Worker, NEW d \in Doc, NEW a \in Entry,
         document[d].status # "none",
         notes'[d] = Append(notes[d], a), \A e \in Doc : e # d => notes'[e] = notes[e],
         document'[d].try = Len(notes[d]) + 1, document'[d].numero = a.numero, a.numero # 0,
         document'[d].status = "CONTINGENCY" => a.offline,
         notes[d][Len(notes[d])].offline => a.offline,
         OfficeGoes(d), Numbered(d)',
         \A n \in 1 .. MaxTry : Lost(d, n)' =>
           \/ Lost(d, n)
           \/ /\ n = Len(notes[d])
              /\ notes[d][n].numero # 0 /\ ~notes[d][n].offline
              /\ a.offline
              /\ \A v \in Worker : ~Emits(v, d, n)',
         \A v \in Worker : v # w => task'[v] = task[v],
         \A n : ~Ticks(w, d, n)', ~Resends(w, d)',
         \A n : Emits(w, d, n)' => n = Len(notes[d]) + 1
  PROVE  Line(d)'
<1>1. /\ Line(d) /\ Len(notes[d]) \in Nat /\ Len(notes[d]) # 0
  BY Ranges DEF Lines
<1>2. /\ Len(notes'[d]) = Len(notes[d]) + 1
      /\ \A i \in 1 .. Len(notes[d]) : notes'[d][i] = notes[d][i]
      /\ notes'[d][Len(notes[d]) + 1] = a
      /\ NumbersOf(d)' = NumbersOf(d) \cup {a.numero}
  BY AttemptRecorded
<1>. DEFINE try == Len(notes[d])
<1>3. \A i \in 1 .. Len(notes'[d]) : i \in 1 .. try \/ i = try + 1
  BY <1>1, <1>2
<1>4. RowSound(d)'
  BY <1>2 DEF RowSound
<1>5. AttemptsSound(d)'
  <2>1. ASSUME NEW i \in 1 .. try, notes[d][i].offline
        PROVE  a.offline
    <3>1. notes[d][try].offline
      <4>1. try \in 1 .. try /\ i <= try
        BY <1>1
      <4>. QED BY <1>1, <2>1, <4>1 DEF Line, AttemptsSound
    <3>. QED BY <3>1
  <2>2. ASSUME NEW i \in 1 .. Len(notes'[d]), NEW j \in 1 .. Len(notes'[d]), i <= j,
               notes'[d][i].offline
        PROVE  notes'[d][j].offline
    <3>1. CASE i \in 1 .. try /\ j \in 1 .. try
      BY <1>1, <1>2, <2>2, <3>1 DEF Line, AttemptsSound
    <3>2. CASE i \in 1 .. try /\ j = try + 1
      BY <1>2, <2>1, <2>2, <3>2
    <3>3. CASE i = try + 1
      <4>1. j = i
        BY <1>1, <1>2, <2>2, <3>3
      <4>. QED BY <2>2, <4>1
    <3>. QED BY <1>3, <3>1, <3>2, <3>3
  <2>3. ASSUME NEW i \in 1 .. Len(notes'[d]), notes'[d][i].offline
        PROVE  notes'[d][i].numero # 0
    <3>1. CASE i \in 1 .. try
      BY <1>1, <1>2, <2>3, <3>1 DEF Line, AttemptsSound
    <3>2. CASE i = try + 1
      BY <1>2, <3>2
    <3>. QED BY <1>3, <3>1, <3>2
  <2>4. ASSUME NEW n \in 1 .. MaxTry, AtOffice(d, n)' \/ Late(d, n)'
        PROVE  n <= Len(notes'[d]) /\ notes'[d][n].numero # 0
    <3>1. n \in 1 .. try /\ notes[d][n].numero # 0
      <4>1. CASE AtOffice(d, n) \/ Late(d, n)
        BY <1>1, <4>1, FiscalAssumption DEF Line, AttemptsSound
      <4>2. CASE Sent(<<d, n>>)
        BY <4>2, SentNumbered
      <4>. QED BY <2>4, <4>1, <4>2 DEF OfficeGoes
    <3>. QED BY <1>1, <1>2, <3>1
  <2>5. ASSUME NEW n \in 1 .. MaxTry, Lost(d, n)'
        PROVE  /\ n + 1 <= Len(notes'[d])
               /\ notes'[d][n].numero # 0
               /\ ~notes'[d][n].offline
               /\ notes'[d][n + 1].offline
    <3>1. CASE Lost(d, n)
      <4>1. /\ n + 1 <= try
            /\ notes[d][n].numero # 0
            /\ ~notes[d][n].offline
            /\ notes[d][n + 1].offline
        BY <1>1, <3>1 DEF Line, AttemptsSound
      <4>2. n \in 1 .. try /\ n + 1 \in 1 .. try
        BY <1>1, <4>1, FiscalAssumption
      <4>. QED BY <1>1, <1>2, <4>1, <4>2
    <3>2. CASE ~Lost(d, n)
      <4>1. /\ n = try
            /\ notes[d][n].numero # 0 /\ ~notes[d][n].offline
            /\ a.offline
        BY <2>5, <3>2
      <4>2. n \in 1 .. try
        BY <1>1, <4>1
      <4>. QED BY <1>1, <1>2, <4>1, <4>2
    <3>. QED BY <3>1, <3>2
  <2>. QED BY <2>2, <2>3, <2>4, <2>5 DEF AttemptsSound
<1>6. ASSUME NEW v \in Worker, v # w
      PROVE  /\ \A n : Emits(v, d, n)' => Emits(v, d, n) /\ n \in 1 .. try
             /\ \A n : Ticks(v, d, n)' => Ticks(v, d, n) /\ n \in 1 .. try
             /\ Resends(v, d)' => Resends(v, d) /\ task'[v].try <= try + 1
  <2>1. task'[v] = task[v]
    BY <1>6
  <2>2. /\ \A n : Emits(v, d, n)' => Emits(v, d, n)
        /\ \A n : Ticks(v, d, n)' => Ticks(v, d, n)
        /\ Resends(v, d)' => Resends(v, d)
    BY <2>1 DEF Emits, Ticks, Resends
  <2>3. Resends(v, d) => task[v].try <= try + 1
    BY DEF FiscalInv, SoundTask, Resends
  <2>. QED BY <2>1, <2>2, <2>3, Sender
<1>7. ASSUME NEW v \in Worker
      PROVE  SendSound(v, d)'
  <2>1. ASSUME NEW n \in 1 .. MaxTry, Emits(v, d, n)'
        PROVE  notes'[d][n].numero # 0 /\ ~Lost(d, n)'
    <3>1. CASE v # w
      <4>1. Emits(v, d, n) /\ n \in 1 .. try
        BY <1>6, <2>1, <3>1
      <4>2. notes[d][n].numero # 0 /\ ~Lost(d, n)
        BY <1>1, <4>1 DEF Line, SendSound
      <4>. QED BY <1>2, <2>1, <4>1, <4>2
    <3>2. CASE v = w
      <4>1. n = try + 1
        BY <2>1, <3>2
      <4>2. ~Lost(d, n)
        BY <1>1, <4>1 DEF Line, AttemptsSound
      <4>3. n # try
        BY <1>1, <4>1
      <4>. QED BY <1>2, <4>1, <4>2, <4>3
    <3>. QED BY <3>1, <3>2
  <2>2. ASSUME NEW n \in 1 .. MaxTry, Ticks(v, d, n)'
        PROVE  notes'[d][n].offline
    <3>1. Ticks(v, d, n) /\ n \in 1 .. try
      BY <1>6, <2>2
    <3>. QED BY <1>1, <1>2, <3>1 DEF Line, SendSound
  <2>. QED BY <2>1, <2>2 DEF SendSound
<1>8. ASSUME NEW v \in Worker
      PROVE  ResendSound(v, d)'
  <2>. SUFFICES ASSUME Resends(v, d)', try + 1 < task'[v].try
                PROVE  FALSE
    BY <1>2 DEF ResendSound
  <2>1. v # w
    OBVIOUS
  <2>2. task'[v].try <= try + 1 /\ task'[v].try \in Nat
    <3>1. task'[v] = task[v] /\ Resends(v, d) /\ task'[v].try <= try + 1
      BY <1>6, <2>1
    <3>2. task[v].try \in 2 .. MaxTry
      BY <3>1 DEF FiscalInv, SoundTask, Resends
    <3>. QED BY <3>1, <3>2, FiscalAssumption
  <2>. QED BY <1>1, <2>2
<1>9. ASSUME NEW v \in Worker, NEW u \in Worker
      PROVE  Together(v, u, d)'
  <2>. SUFFICES ASSUME NEW n \in 1 .. MaxTry, Emits(v, d, n)', Emits(u, d, n)', v # u
                PROVE  FALSE
    BY DEF Together
  <2>1. CASE v # w /\ u # w
    BY <1>1, <1>6, <2>1 DEF Line, Together
  <2>2. CASE v = w \/ u = w
    BY <1>1, <1>6, <2>2
  <2>. QED BY <2>1, <2>2
<1>. QED BY <1>4, <1>5, <1>7, <1>8, <1>9 DEF Line

\* The sale leaves off-line under a new number: until then its attempts had one
\* number at most, and the orphan has it.
LEMMA ContingencyLine ==
  ASSUME FiscalInv, Numbers, Lines, NEW w \in Worker, EnterContingency(w), OfficeTurns
  PROVE  \A d \in Doc : Line(d)'
<1>1. PICK d, m : d = task[w].doc /\ m = task[w].try
  OBVIOUS
<1>2. Emits(w, d, m) /\ IsSending(w)
  BY <1>1, SendingEmits DEF EnterContingency
<1>3. /\ d \in Doc /\ m \in 1 .. MaxTry /\ m \in 1 .. Len(notes[d])
      /\ document[d].status # "none"
      /\ notes[d][m].numero # 0
  BY <1>2, Sender
<1>4. PICK a \in Entry : a = FirstTry(sequence + 1, TRUE)
  <2>1. sequence + 1 \in Nat /\ TRUE \in BOOLEAN
    BY DEF FiscalInv, RowsTyped
  <2>2. FirstTry(sequence + 1, TRUE) \in Entry
    BY <2>1 DEF FirstTry, Entry
  <2>. QED BY <2>2
<1>5. a.numero = sequence + 1 /\ a.offline = TRUE /\ a.numero # 0
  BY <1>4 DEF FirstTry, FiscalInv, RowsTyped
<1>6. /\ ~notes[d][m].offline
      /\ m = Len(notes[d])
      /\ notes' = [notes EXCEPT ![d] = Append(@, a)]
      /\ document' = [document EXCEPT ![d].status = "CONTINGENCY", ![d].numero = sequence + 1,
                                      ![d].try = m + 1]
      /\ orphan' = [orphan EXCEPT ![<<d, m>>] = "PENDING"]
      /\ Goes(w, Idle)
  BY <1>1, <1>4 DEF EnterContingency, Leaves
<1>7. /\ notes'[d] = Append(notes[d], a)
      /\ \A e \in Doc : e # d => notes'[e] = notes[e]
  BY <1>3, <1>6 DEF FiscalInv, RowsTyped
<1>8. /\ document'[d].try = Len(notes[d]) + 1
      /\ document'[d].numero = a.numero
      /\ \A e \in Doc : e # d => document'[e] = document[e]
  <2>1. document \in [Doc -> Row] /\ document[d] \in Row
    BY <1>3 DEF FiscalInv, RowsTyped
  <2>. QED BY <1>3, <1>5, <1>6, <2>1 DEF Row
<1>9. task'[w] = Idle /\ Idle.at = "idle" /\ \A v \in Worker : v # w => task'[v] = task[v]
  BY <1>6, OthersStay DEF Idle
<1>10. \A e, n : ~Ticks(w, e, n)' /\ ~Resends(w, e)' /\ ~Emits(w, e, n)'
  BY <1>9 DEF Ticks, Resends, Emits
<1>11. \A e \in Doc : OfficeGoes(e)
  BY OfficeReaches
<1>12. /\ Lost(d, m)'
       /\ \A e \in Doc : \A n \in 1 .. MaxTry : <<e, n>> # <<d, m>> => (Lost(e, n)' <=> Lost(e, n))
  <2>1. orphan \in [Note -> OrphanStatus] /\ <<d, m>> \in Note
    BY <1>3 DEF Lines, Note
  <2>2. orphan'[<<d, m>>] = "PENDING" /\ \A k \in Note : k # <<d, m>> => orphan'[k] = orphan[k]
    BY <1>6, <2>1
  <2>. QED BY <2>2, KnownNote DEF Lost
<1>13. ASSUME NEW e \in Doc, e # d
       PROVE  Line(e)'
  <2>1. RowGoes(e) /\ NotesGo(e)
    BY <1>7, <1>8, <1>13 DEF RowGoes, NotesGo
  <2>2. \A v \in Worker : TaskGoes(v, e)
    BY <1>9, <1>10 DEF TaskGoes, Emits, Ticks, Resends
  <2>3. SameLost(e)
    BY <1>12, <1>13 DEF SameLost
  <2>. QED BY <1>11, <2>1, <2>2, <2>3, LineKept
<1>14. Line(d) /\ Len(notes[d]) \in Nat
  BY <1>3, Ranges DEF Lines
<1>15. \A n \in 1 .. MaxTry : ~Lost(d, n)
  <2>. SUFFICES ASSUME NEW n \in 1 .. MaxTry, Lost(d, n)
                PROVE  FALSE
    OBVIOUS
  <2>1. n + 1 <= Len(notes[d]) /\ notes[d][n + 1].offline
    BY <1>14 DEF Line, AttemptsSound
  <2>2. n + 1 \in 1 .. Len(notes[d])
    BY <1>14, <2>1, FiscalAssumption
  <2>. QED BY <1>3, <1>6, <1>14, <2>1, <2>2 DEF Line, AttemptsSound
<1>16. /\ Len(notes'[d]) = Len(notes[d]) + 1
       /\ \A i \in 1 .. Len(notes[d]) : notes'[d][i] = notes[d][i]
       /\ notes'[d][Len(notes[d]) + 1] = a
  BY <1>3, <1>7, AttemptRecorded
<1>17. \A i \in 1 .. Len(notes[d]) : notes[d][i].numero \in {0, notes[d][m].numero}
  BY <1>3, <1>14, <1>15 DEF Line, Numbered
<1>18. Numbered(d)'
  <2>1. notes'[d][m].numero = notes[d][m].numero
    BY <1>3, <1>16
  <2>2. \A i \in 1 .. Len(notes'[d]) : i \in 1 .. Len(notes[d]) \/ i = Len(notes[d]) + 1
    BY <1>14, <1>16
  <2>3. \A i \in 1 .. Len(notes'[d]) :
          notes'[d][i].numero \in {0, notes'[d][m].numero} \/ notes'[d][i].numero = a.numero
    BY <1>16, <1>17, <2>1, <2>2
  <2>4. ASSUME NEW i \in 1 .. Len(notes'[d]), NEW j \in 1 .. Len(notes'[d]),
               notes'[d][i].numero # 0, notes'[d][j].numero # 0,
               notes'[d][i].numero # notes'[d][j].numero
        PROVE  notes'[d][m].numero \in {notes'[d][i].numero, notes'[d][j].numero}
    BY <2>3, <2>4
  <2>. QED BY <1>3, <1>12, <2>4 DEF Numbered
<1>19. \A v \in Worker : ~Emits(v, d, m)'
  <2>. SUFFICES ASSUME NEW v \in Worker, Emits(v, d, m)'
                PROVE  FALSE
    OBVIOUS
  <2>1. v # w
    BY <1>10
  <2>2. Emits(v, d, m)
    BY <1>9, <2>1 DEF Emits
  <2>. QED BY <1>2, <1>3, <1>14, <2>1, <2>2 DEF Line, Together
<1>20. Line(d)'
  <2>1. \A n \in 1 .. MaxTry : Lost(d, n)' =>
           /\ n = Len(notes[d])
           /\ notes[d][n].numero # 0 /\ ~notes[d][n].offline
           /\ a.offline
           /\ \A v \in Worker : ~Emits(v, d, n)'
    BY <1>3, <1>5, <1>6, <1>12, <1>15, <1>19
  <2>. QED BY <1>3, <1>5, <1>7, <1>8, <1>9, <1>10, <1>11, <1>18, <2>1, LineRecorded
<1>. QED BY <1>13, <1>20

\* A resend repeats a number of the document, or draws its first.
LEMMA ResendLine ==
  ASSUME FiscalInv, Numbers, Lines, NEW w \in Worker, Resend(w), \A d \in Doc : SameLost(d)
  PROVE  \A d \in Doc : Line(d)'
<1>1. PICK d, try, old : d = task[w].doc /\ try = task[w].try /\ old = task[w].numero
  OBVIOUS
<1>2. task[w].at = "resend" /\ Resends(w, d)
  BY <1>1 DEF Resend, At, Resends
<1>3. d \in Doc /\ document[d].status # "none"
  BY <1>1, <1>2, Held DEF InCall
<1>4. /\ try \in 2 .. MaxTry /\ try <= Len(notes[d]) + 1
      /\ old \in Nat
      /\ Len(notes[d]) < try
      /\ Len(notes[d]) \in Nat
      /\ old \in NumbersOf(d)
  BY <1>1, <1>2, <1>3, Ranges DEF Resend, FiscalInv, SoundTask, Numbers
<1>5. try = Len(notes[d]) + 1 /\ Len(notes[d]) \in 1 .. Len(notes[d]) /\ try - 1 = Len(notes[d])
  BY <1>4, FiscalAssumption
<1>6. notes[d][Len(notes[d])] \in Entry
  BY <1>3, <1>5, Ranges
<1>7. PICK n \in Nat : n = IF old = 0 THEN sequence + 1 ELSE old
  BY <1>4 DEF FiscalInv, RowsTyped
<1>8. n # 0
  BY <1>4, <1>7 DEF FiscalInv, RowsTyped
<1>9. PICK a \in Entry : a = FirstTry(n, notes[d][Len(notes[d])].offline)
  BY <1>6 DEF FirstTry, Entry
<1>10. a.numero = n /\ a.offline = notes[d][Len(notes[d])].offline
  BY <1>9 DEF FirstTry
<1>11. /\ notes' = [notes EXCEPT ![d] = Append(@, FirstTry(n, @[try - 1].offline))]
       /\ document' = [document EXCEPT ![d].status = "SENT", ![d].try = try, ![d].numero = n]
       /\ Goes(w, [at |-> "send", doc |-> d, try |-> try, tick |-> FALSE])
       /\ UNCHANGED office
  BY <1>1, <1>7 DEF Resend
<1>12. /\ notes'[d] = Append(notes[d], a)
       /\ \A e \in Doc : e # d => notes'[e] = notes[e]
  BY <1>3, <1>5, <1>9, <1>11 DEF FiscalInv, RowsTyped
<1>13. /\ document'[d].try = Len(notes[d]) + 1
       /\ document'[d].numero = a.numero
       /\ document'[d].status = "SENT"
       /\ \A e \in Doc : e # d => document'[e] = document[e]
  <2>1. document \in [Doc -> Row] /\ document[d] \in Row
    BY <1>3 DEF FiscalInv, RowsTyped
  <2>. QED BY <1>3, <1>5, <1>10, <1>11, <2>1 DEF Row
<1>14. PICK next : next = [at |-> "send", doc |-> d, try |-> try, tick |-> FALSE]
  OBVIOUS
<1>15. task'[w] = next /\ \A v \in Worker : v # w => task'[v] = task[v]
  BY <1>11, <1>14, OthersStay
<1>16. \A e, i : ~Ticks(w, e, i)' /\ ~Resends(w, e)' /\ (Emits(w, e, i)' => e = d /\ i = try)
  BY <1>14, <1>15 DEF Ticks, Resends, Emits
<1>17. \A e \in Doc : OfficeGoes(e)
  BY <1>11 DEF OfficeGoes, AtOffice, Late
<1>18. ASSUME NEW e \in Doc, e # d
       PROVE  Line(e)'
  <2>1. RowGoes(e) /\ NotesGo(e)
    BY <1>12, <1>13, <1>18 DEF RowGoes, NotesGo
  <2>2. \A v \in Worker : TaskGoes(v, e)
    BY <1>15, <1>16, <1>18 DEF TaskGoes, Emits, Ticks, Resends
  <2>. QED BY <1>17, <2>1, <2>2, LineKept
<1>19. Line(d)
  BY <1>3 DEF Lines
<1>20. /\ Len(notes'[d]) = Len(notes[d]) + 1
       /\ \A i \in 1 .. Len(notes[d]) : notes'[d][i] = notes[d][i]
       /\ notes'[d][Len(notes[d]) + 1] = a
  BY <1>3, <1>12, AttemptRecorded
<1>21. \/ \A i \in 1 .. Len(notes[d]) : notes[d][i].numero = 0
       \/ \E i \in 1 .. Len(notes[d]) : notes[d][i].numero = n
  <2>1. CASE old = 0
    <3>1. \A m \in NumbersOf(d) : m = 0
      BY <1>1, <1>2, <1>4, <1>19, <2>1 DEF Line, ResendSound
    <3>. QED BY <3>1 DEF NumbersOf
  <2>2. CASE old # 0
    BY <1>4, <1>7, <2>2 DEF NumbersOf
  <2>. QED BY <2>1, <2>2
<1>22. Numbered(d)'
  <2>1. \A i \in 1 .. Len(notes'[d]) : i \in 1 .. Len(notes[d]) \/ i = Len(notes[d]) + 1
    BY <1>4, <1>20
  <2>2. CASE \A i \in 1 .. Len(notes[d]) : notes[d][i].numero = 0
    <3>1. \A i \in 1 .. Len(notes'[d]) : notes'[d][i].numero \in {0, n}
      BY <1>10, <1>20, <2>1, <2>2
    <3>. QED BY <3>1 DEF Numbered
  <2>3. CASE \E i \in 1 .. Len(notes[d]) : notes[d][i].numero = n
    <3>1. \A i \in 1 .. Len(notes'[d]) : \E j \in 1 .. Len(notes[d]) :
            notes'[d][i].numero = notes[d][j].numero
      BY <1>10, <1>20, <2>1, <2>3
    <3>. SUFFICES ASSUME NEW i \in 1 .. Len(notes'[d]), NEW j \in 1 .. Len(notes'[d]),
                         notes'[d][i].numero # 0, notes'[d][j].numero # 0,
                         notes'[d][i].numero # notes'[d][j].numero
                  PROVE  \E k \in 1 .. MaxTry :
                           /\ Lost(d, k)'
                           /\ notes'[d][k].numero \in {notes'[d][i].numero, notes'[d][j].numero}
      BY DEF Numbered
    <3>2. PICK x \in 1 .. Len(notes[d]) : notes'[d][i].numero = notes[d][x].numero
      BY <3>1
    <3>3. PICK y \in 1 .. Len(notes[d]) : notes'[d][j].numero = notes[d][y].numero
      BY <3>1
    <3>4. PICK k \in 1 .. MaxTry :
            Lost(d, k) /\ notes[d][k].numero \in {notes[d][x].numero, notes[d][y].numero}
      BY <1>19, <3>2, <3>3 DEF Line, Numbered
    <3>5. k \in 1 .. Len(notes[d])
      BY <1>4, <1>19, <3>4, FiscalAssumption DEF Line, AttemptsSound
    <3>6. Lost(d, k)'
      BY <1>3, <3>4 DEF SameLost
    <3>. QED BY <1>20, <3>2, <3>3, <3>4, <3>5, <3>6
  <2>. QED BY <1>21, <2>2, <2>3
<1>23. Line(d)'
  <2>1. \A i \in 1 .. MaxTry : Lost(d, i)' => Lost(d, i)
    BY <1>3 DEF SameLost
  <2>2. \A i : Emits(w, d, i)' => i = Len(notes[d]) + 1
    BY <1>5, <1>16
  <2>. QED BY <1>3, <1>8, <1>10, <1>12, <1>13, <1>15, <1>16, <1>17, <1>22, <2>1, <2>2, LineRecorded
<1>. QED BY <1>18, <1>23

\* Nothing is sent at first.
LEMMA LinesInit == FiscalInit => Lines
<1>. SUFFICES ASSUME FiscalInit
              PROVE  Lines
  OBVIOUS
<1>1. orphan \in [Note -> OrphanStatus]
  BY DEF FiscalInit, OrphanStatus
<1>2. \A w \in Worker : task[w].at = "idle"
  BY DEF FiscalInit, Idle
<1>3. \A w \in Worker : Carried(w)
  BY <1>2 DEF Carried
<1>4. ASSUME NEW d \in Doc
      PROVE  Line(d)
  <2>1. /\ document[d].try = 0 /\ document[d].status = "none" /\ Len(notes[d]) = 0
        /\ \A n \in 1 .. MaxTry : ~AtOffice(d, n) /\ ~Late(d, n) /\ ~Lost(d, n)
    BY KnownNote DEF FiscalInit, Unissued, AtOffice, Late, Lost
  <2>2. NumbersOf(d) = {}
    BY <2>1 DEF NumbersOf
  <2>3. RowSound(d) /\ AttemptsSound(d) /\ Numbered(d)
    BY <2>1, <2>2 DEF RowSound, AttemptsSound, Numbered
  <2>4. \A w \in Worker : ~Resends(w, d) /\ \A n : ~Emits(w, d, n) /\ ~Ticks(w, d, n)
    BY <1>2 DEF Resends, Emits, Ticks
  <2>. QED BY <2>3, <2>4 DEF Line, SendSound, ResendSound, Together
<1>. QED BY <1>1, <1>3, <1>4 DEF Lines

\* Every step keeps every line.
LEMMA LinesStep ==
  ASSUME FiscalInv, Numbers, Lines, [FiscalNext]_vars
  PROVE  Lines'
<1>1. OfficeTurns
  BY Turns
<1>2. OrphansGoOn /\ ((\A w \in Worker : ~EnterContingency(w)) => \A d \in Doc : SameLost(d))
  BY OrphansGo
<1>3. \A v \in Worker : Carried(v)'
  BY CarriedStep
<1>. SUFFICES \A d \in Doc : Line(d)'
  BY <1>2, <1>3 DEF Lines, OrphansGoOn
<1>4. ASSUME NEW w \in Worker, EnterContingency(w)
      PROVE  \A d \in Doc : Line(d)'
  BY <1>1, <1>4, ContingencyLine
<1>5. CASE \A w \in Worker : ~EnterContingency(w)
  <2>1. \A d \in Doc : SameLost(d) /\ OfficeGoes(d)
    BY <1>1, <1>2, <1>5, OfficeReaches
  <2>2. ASSUME NEW w \in Request, Issues(w)
        PROVE  \A d \in Doc : Line(d)'
    BY <2>1, <2>2, IssueLine
  <2>3. ASSUME NEW w \in Worker, Resend(w)
        PROVE  \A d \in Doc : Line(d)'
    BY <2>1, <2>3, ResendLine
  <2>4. ASSUME NEW w \in Worker, Begins(w) \/ Continues(w), ~Resend(w), NEW d \in Doc
        PROVE  Line(d)'
    <3>1. RowGoes(d) /\ NotesGo(d)
      BY <1>5, <2>4, RowsGo
    <3>2. \A v \in Worker : TaskGoes(v, d)
      BY <2>4, TasksGo
    <3>. QED BY <2>1, <3>1, <3>2, LineKept
  <2>5. ASSUME Happens, NEW d \in Doc
        PROVE  Line(d)'
    <3>1. UNCHANGED <<document, notes, task>>
      BY <2>5 DEF Happens, LateNote, SetContingency, vars
    <3>2. RowGoes(d) /\ NotesGo(d) /\ \A v \in Worker : TaskGoes(v, d)
      BY <3>1 DEF RowGoes, NotesGo, TaskGoes, Emits, Ticks, Resends
    <3>. QED BY <2>1, <3>2, LineKept
  <2>. QED BY <2>2, <2>3, <2>4, <2>5, StepKinds
<1>. QED BY <1>4, <1>5
-----------------------------------------------------------------------------
(* The numbers stay within their bound *)

\* No number is drawn before the first document.
LEMMA NumbersInit == FiscalInit => Numbers
<1>. SUFFICES ASSUME FiscalInit
              PROVE  Numbers
  OBVIOUS
<1>1. /\ sequence = 0
      /\ \A d \in Doc : document[d].status = "none" /\ Len(notes[d]) = 0
      /\ \A w \in Worker : task[w].at = "idle"
  BY DEF FiscalInit, Unissued, Idle
<1>2. ASSUME NEW d \in Doc
      PROVE  NumbersOf(d) = {}
  BY <1>1 DEF NumbersOf
<1>. QED BY <1>1, <1>2 DEF Numbers

\* No more numbers are drawn than there are attempts.
LEMMA NumbersBounded ==
  ASSUME FiscalInv, Numbers, Lines
  PROVE  /\ sequence \in 0 .. MaxNumber
         /\ MaxNumber \in Nat
         /\ \A d \in Doc : \A n \in NumbersOf(d) : n \in 0 .. MaxNumber
<1>. DEFINE f == [k \in Note |-> Numero(k)]
            T == {f[k] : k \in Note}
<1>1. sequence \in Nat
  BY DEF FiscalInv, RowsTyped
<1>2. /\ IsFiniteSet(Note)
      /\ Cardinality(Note) = MaxNumber
      /\ MaxNumber \in Nat
  <2>1. /\ IsFiniteSet(1 .. MaxTry)
        /\ Cardinality(1 .. MaxTry) = MaxTry
    BY FS_Interval, FiscalAssumption
  <2>2. IsFiniteSet(Doc)
    BY FiscalAssumption
  <2>3. /\ IsFiniteSet(Note)
        /\ Cardinality(Note) = Cardinality(Doc) * MaxTry
    BY <2>1, <2>2, FS_Product DEF Note
  <2>4. Cardinality(Doc) \in Nat
    BY <2>2, FS_CardinalityType
  <2>. QED BY <2>3, <2>4, FiscalAssumption DEF MaxNumber
<1>3. IsFiniteSet(T) /\ Cardinality(T) <= MaxNumber
  <2>1. f \in Surjection(Note, T)
    BY DEF Surjection
  <2>. QED BY <1>2, <2>1, FS_Surjection
<1>4. 1 .. sequence \subseteq T
  <2>. SUFFICES ASSUME NEW n \in 1 .. sequence
                PROVE  n \in T
    OBVIOUS
  <2>1. PICK d \in Doc : n \in NumbersOf(d)
    BY DEF Numbers
  <2>2. PICK i \in 1 .. Len(notes[d]) : n = notes[d][i].numero
    BY <2>1 DEF NumbersOf
  <2>3. Len(notes[d]) = document[d].try /\ document[d].try \in 0 .. MaxTry
    BY Ranges DEF Lines, Line, RowSound
  <2>4. i \in 1 .. MaxTry
    BY <2>3, FiscalAssumption
  <2>5. <<d, i>> \in Note /\ f[<<d, i>>] = n
    BY <2>2, <2>4, KnownNote DEF Numero
  <2>. QED BY <2>5
<1>5. sequence <= MaxNumber
  <2>1. IsFiniteSet(1 .. sequence) /\ Cardinality(1 .. sequence) = sequence
    BY <1>1, FS_Interval
  <2>2. Cardinality(1 .. sequence) <= Cardinality(T)
    BY <1>3, <1>4, FS_Subset
  <2>3. Cardinality(T) \in Nat
    BY <1>3, FS_CardinalityType
  <2>. QED BY <1>1, <1>2, <1>3, <2>1, <2>2, <2>3
<1>6. ASSUME NEW d \in Doc, NEW n \in NumbersOf(d)
      PROVE  n \in 0 .. MaxNumber
  <2>1. n \in Nat
    BY Ranges DEF NumbersOf
  <2>2. n <= sequence
    BY DEF Numbers
  <2>. QED BY <1>1, <1>2, <1>5, <2>1, <2>2
<1>. QED BY <1>1, <1>2, <1>5, <1>6

\* An orphan is an attempt that was given up, and its number is one of the series.
LEMMA OrphanNumber ==
  ASSUME FiscalInv, Numbers, Lines, NEW k \in Note, orphan[k] # "none"
  PROVE  /\ k = <<k[1], k[2]>> /\ k[1] \in Doc /\ k[2] \in 1 .. MaxTry
         /\ k[2] < document[k[1]].try
         /\ k[2] \in 1 .. Len(notes[k[1]])
         /\ Numero(k) \in Number
<1>1. PICK d \in Doc, n \in 1 .. MaxTry : k = <<d, n>>
  BY DEF Note
<1>2. k[1] = d /\ k[2] = n
  BY <1>1
<1>3. Lost(d, n)
  BY <1>1 DEF Lost
<1>4. Line(d) /\ document[d].try \in 0 .. MaxTry
  BY Ranges DEF Lines
<1>5. /\ n < document[d].try
      /\ notes[d][n].numero # 0
      /\ Len(notes[d]) = document[d].try
  BY <1>3, <1>4 DEF Line, AttemptsSound, RowSound
<1>6. n \in 1 .. Len(notes[d])
  BY <1>4, <1>5
<1>7. notes[d][n].numero \in 0 .. MaxNumber
  BY <1>6, NumbersBounded DEF NumbersOf
<1>8. Numero(k) \in Number
  BY <1>2, <1>5, <1>7, NumbersBounded DEF Number, Numero
<1>. QED BY <1>1, <1>2, <1>5, <1>6, <1>8

-----------------------------------------------------------------------------
(* Orphans: what no step does to them *)

\* The attempts of a document keep their numbers.
LEMMA NumbersStay ==
  ASSUME FiscalInv, [FiscalNext]_vars, NEW d \in Doc, NEW i \in 1 .. Len(notes[d])
  PROVE  notes'[d][i].numero = notes[d][i].numero
<1>1. ASSUME NEW x \in Doc, NEW a, notes' = [notes EXCEPT ![x] = Append(@, a)]
      PROVE  notes'[d][i] = notes[d][i]
  <2>1. notes[d] \in Seq(Entry) /\ Len(notes[d]) \in Nat
    BY Ranges
  <2>2. CASE x = d
    <3>1. notes'[d] = Append(notes[d], a)
      BY <1>1, <2>2 DEF FiscalInv, RowsTyped
    <3>. QED BY <2>1, <3>1
  <2>3. CASE x # d
    BY <1>1, <2>3 DEF FiscalInv, RowsTyped
  <2>. QED BY <2>2, <2>3
<1>2. ASSUME NEW w \in Request, Issues(w)
      PROVE  notes'[d] = notes[d]
  <2>1. PICK x \in Doc, status \in {"SENT", "CONTINGENCY", "PENDING_SIGNATURE"}, n \in Nat,
             offline \in BOOLEAN :
            EmitIn(w, x, status, n, offline, NextOf(x, status))
    BY <1>2, Issuing
  <2>2. /\ Len(notes[x]) = 0
        /\ \A e \in Doc : e # x => notes'[e] = notes[e]
    BY <2>1 DEF EmitIn, FiscalInv, RowsTyped, DocSound
  <2>3. x # d
    BY <2>2
  <2>. QED BY <2>2, <2>3
<1>3. ASSUME NEW w \in Worker, Begins(w)
      PROVE  notes' = notes
  BY <1>3 DEF Begins, CheckResend, StartCancel, Transmit, StartDrain, StartAsk, ListPending,
              VoidNumber, StartOrphan
<1>4. ASSUME NEW w \in Worker, Continues(w)
      PROVE  notes'[d][i].numero = notes[d][i].numero
  <2>1. CASE ApplyNotFound(w)
    <3>1. task[w].at = "answer"
      BY <2>1 DEF ApplyNotFound, Accepts, At
    <3>2. PICK x \in Doc : x = task[w].doc
      BY <3>1, Held DEF InCall
    <3>3. PICK try \in 1 .. Len(notes[x]) : try = task[w].try
      BY <3>1, <3>2 DEF FiscalInv, SoundTask
    <3>4. CountsMisses(x, try, task[w].misses)
      BY <2>1, <3>2, <3>3 DEF ApplyNotFound, CountsMisses
    <3>. QED BY <3>4, MissesWritten
  <2>2. CASE EnterContingency(w)
    <3>1. task[w].at \in {"send", "answer"}
      BY <2>2 DEF EnterContingency, IsSending, At
    <3>2. PICK x \in Doc : x = task[w].doc
      BY <3>1, Held DEF InCall
    <3>3. \E a : notes' = [notes EXCEPT ![x] = Append(@, a)]
      BY <2>2, <3>2 DEF EnterContingency
    <3>. QED BY <1>1, <3>3
  <2>3. CASE Resend(w)
    <3>1. task[w].at = "resend"
      BY <2>3 DEF Resend, At
    <3>2. PICK x \in Doc : x = task[w].doc
      BY <3>1, Held DEF InCall
    <3>3. PICK n, try : notes' = [notes EXCEPT ![x] = Append(@, FirstTry(n, @[try - 1].offline))]
      BY <2>3, <3>2 DEF Resend
    <3>4. notes' = [notes EXCEPT ![x] = Append(@, FirstTry(n, notes[x][try - 1].offline))]
      BY <3>3 DEF FiscalInv, RowsTyped
    <3>. QED BY <1>1, <3>4
  <2>4. CASE /\ ~ApplyNotFound(w) /\ ~EnterContingency(w) /\ ~Resend(w)
    <3>1. notes' = notes
      BY <1>4, <2>4 DEF Continues, ReceiveNote, SessionExpired, OfflineFails, SendFails, KeepSent,
             TransmitFails, ApplyAuthorized, ApplyRejected, DropAnswer, LeaveContingency,
             AttachSource, DrainFails, LinkSource, PollNote, AskNote, ResendConflict, CancelNote,
             MarkCancelled, RetireSource, AskOrphan, Substitute, CloseOrphan, VoidOrphan,
             SendVoid, VoidUnanswered, ApplyVoid, Dies
    <3>. QED BY <3>1
  <2>. QED BY <2>1, <2>2, <2>3, <2>4
<1>5. CASE Happens
  BY <1>5 DEF Happens, LateNote, SetContingency, vars
<1>. QED BY <1>2, <1>3, <1>4, <1>5, StepKinds

\* The office revives no note and forgets none; an orphan keeps its number, and
\* one that the office does not have and that is not on its way stays away.
Rests ==
  \A k \in Note :
    /\ office.note[k] = "cancelled" => office'.note[k] = "cancelled"
    /\ office.note[k] # "none" => office'.note[k] # "none"
    /\ orphan[k] # "none" =>
         /\ Numero(k)' = Numero(k)
         /\ k \notin office.late =>
              /\ k \notin office'.late
              /\ office.note[k] = "none" => office'.note[k] = "none"

\* No step renumbers an orphan or brings a note of it back to life.
LEMMA OrphansRest ==
  ASSUME FiscalInv, Numbers, Lines, [FiscalNext]_vars
  PROVE  Rests
<1>1. OfficeTurns
  BY Turns
<1>2. ASSUME NEW k \in Note, orphan[k] # "none"
      PROVE  ~Sent(k) /\ Numero(k)' = Numero(k)
  <2>1. /\ k[1] \in Doc
        /\ k[2] \in 1 .. Len(notes[k[1]])
        /\ k[2] \in 1 .. MaxTry
        /\ Lost(k[1], k[2])
    BY <1>2, OrphanNumber DEF Lost
  <2>2. Line(k[1])
    BY <2>1 DEF Lines
  <2>3. ~notes[k[1]][k[2]].offline
    BY <2>1, <2>2 DEF Line, AttemptsSound
  <2>4. \A w \in Worker : ~Emits(w, k[1], k[2]) /\ ~Ticks(w, k[1], k[2])
    BY <2>1, <2>2, <2>3 DEF Line, SendSound
  <2>. QED BY <2>1, <2>4, NumbersStay DEF Numero, Sent
<1>3. ASSUME NEW k \in Note
      PROVE  /\ office.note[k] = "cancelled" => office'.note[k] = "cancelled"
             /\ office.note[k] # "none" => office'.note[k] # "none"
             /\ orphan[k] # "none" => /\ Numero(k)' = Numero(k)
                                      /\ k \notin office.late =>
                                           /\ k \notin office'.late
                                           /\ office.note[k] = "none" => office'.note[k] = "none"
  BY <1>1, <1>2, NoteTurns
<1>. QED BY <1>3 DEF Rests
-----------------------------------------------------------------------------
(* Orphans: what every step has in common *)

\* A note is not the empty sequence that a plain voiding carries.
LEMMA NotEmpty ==
  ASSUME NEW k \in Note
  PROVE  k # <<>>
<1>1. PICK d \in Doc, n \in 1 .. MaxTry : k = <<d, n>>
  BY DEF Note
<1>. QED BY <1>1

\* What is resolved is an orphan.
LEMMA Resolved ==
  ASSUME Lines, NEW w \in Worker, NEW k \in Note, Resolves(w, k)
  PROVE  orphan[k] # "none"
<1>1. Carried(w)
  BY DEF Lines
<1>. QED BY <1>1, NotEmpty DEF Resolves, Carried

\* Some workers go on, and take no number back that was asked for.
LEMMA OrphansFrame ==
  ASSUME FiscalInv, Numbers, Lines, Orphans, Rests, NEW M \in SUBSET Worker,
         \A v \in Worker \ M : task'[v] = task[v],
         void' \in [Number -> VoidStatus],
         \A k \in Note : \/ orphan'[k] = orphan[k]
                         \/ orphan'[k] \in {"PENDING", "FAILED"}
                         \/ OrphanSound(k)',
         \A n \in Number : Voided(n) => Voided(n)',
         \A v \in M : VoidSound(v)' /\ \A k \in Note : ResolveSound(v, k)',
         \A n \in Number : \A v \in Worker \ M : Voiding(v, n) =>
           void'[n] = void[n] /\ \A u \in M : ~Voiding(u, n)'
  PROVE  Orphans'
<1>1. ASSUME NEW k \in Note, orphan[k] # "none", Unused(k), k \notin office.late
      PROVE  Unused(k)' /\ k \notin office'.late
  <2>1. PICK n \in Number : n = Numero(k)
    BY <1>1, OrphanNumber
  <2>2. Numero(k)' = n /\ office'.note[k] = "none" /\ k \notin office'.late
    BY <1>1, <2>1 DEF Rests, Unused
  <2>3. Voided(n)'
    BY <1>1, <2>1 DEF Unused
  <2>. QED BY <2>2, <2>3 DEF Unused, Voided, Voiding
<1>2. ASSUME NEW k \in Note, Replaced(k)
      PROVE  Replaced(k)'
  <2>1. PICK n \in 1 .. MaxTry : n # k[2] /\ AtOffice(k[1], n)
    BY <1>2 DEF Replaced
  <2>2. <<k[1], n>> \in Note
    BY DEF Note
  <2>3. AtOffice(k[1], n)'
    BY <2>1, <2>2 DEF Rests, AtOffice
  <2>. QED BY <1>2, <2>1, <2>3 DEF Rests, Replaced
<1>3. ASSUME NEW k \in Note
      PROVE  OrphanSound(k)'
  <2>1. OrphanSound(k)
    BY DEF Orphans
  <2>2. CASE orphan'[k] = orphan[k]
    <3>1. CASE orphan[k] \notin {"VOID_REQUESTED", "CANCELLED_SUBST"}
      BY <2>2, <3>1 DEF OrphanSound
    <3>2. CASE orphan[k] = "VOID_REQUESTED"
      BY <1>1, <2>1, <2>2, <3>2 DEF OrphanSound
    <3>3. CASE orphan[k] = "CANCELLED_SUBST"
      BY <1>2, <2>1, <2>2, <3>3 DEF OrphanSound
    <3>. QED BY <3>1, <3>2, <3>3
  <2>3. CASE orphan'[k] \in {"PENDING", "FAILED"}
    BY <2>3 DEF OrphanSound
  <2>. QED BY <2>2, <2>3
<1>4. ASSUME NEW v \in Worker \ M, NEW k \in Note
      PROVE  ResolveSound(v, k)'
  <2>1. task'[v] = task[v] /\ (Resolves(v, k)' <=> Resolves(v, k))
    BY DEF Resolves
  <2>. SUFFICES ASSUME Resolves(v, k)
                PROVE  ResolveSound(v, k)'
    BY <2>1 DEF ResolveSound
  <2>2. ResolveSound(v, k) /\ orphan[k] # "none"
    BY Resolved DEF Orphans
  <2>3. /\ k \notin office.late
        /\ k \notin office'.late
        /\ office.note[k] = "none" => office'.note[k] = "none"
        /\ Numero(k)' = Numero(k)
    BY <2>2 DEF ResolveSound, Rests
  <2>4. Unused(k) => Unused(k)'
    BY <1>1, <2>2, <2>3
  <2>. QED BY <1>2, <2>1, <2>2, <2>3, <2>4 DEF ResolveSound
<1>5. ASSUME NEW v \in Worker \ M
      PROVE  VoidSound(v)'
  <2>1. task'[v] = task[v] /\ VoidSound(v)
    BY DEF Orphans
  <2>. SUFFICES ASSUME task[v].at \in {"void.send", "void.apply"}
                PROVE  VoidSound(v)'
    BY <2>1 DEF VoidSound
  <2>2. PICK n \in Number : n = task[v].numero
    BY <2>1 DEF VoidSound
  <2>3. /\ void[n] = "REQUESTED"
        /\ \A u \in Worker : Voiding(u, n) => u = v
        /\ Voiding(v, n)
    BY <2>1, <2>2 DEF VoidSound, Voiding
  <2>4. void'[n] = "REQUESTED" /\ \A u \in M : ~Voiding(u, n)'
    BY <2>3
  <2>5. \A u \in Worker : Voiding(u, n)' => u = v
    BY <2>3, <2>4 DEF Voiding
  <2>6. task'[v].numero = n
    BY <2>1, <2>2
  <2>. QED BY <2>1, <2>2, <2>4, <2>5, <2>6 DEF VoidSound, Voiding
<1>. QED BY <1>3, <1>4, <1>5 DEF Orphans

Resolving == {"orphan", "substitute", "void", "void.send", "void.apply", "close"}

\* Steps of one worker that leave it with no orphan and no number.
LEMMA OrphansLeft ==
  ASSUME FiscalInv, Numbers, Lines, Orphans, Rests, NEW w \in Worker,
         \A v \in Worker : v # w => task'[v] = task[v],
         task'[w].at \notin Resolving, void' = void,
         \A k \in Note : orphan'[k] = orphan[k] \/ orphan'[k] = "PENDING"
  PROVE  Orphans'
<1>1. ~\E k : Resolves(w, k)'
  BY DEF Resolves, Resolving
<1>2. \A n : ~Voiding(w, n)'
  BY DEF Voiding, Resolving
<1>3. VoidSound(w)' /\ \A k \in Note : ResolveSound(w, k)'
  BY <1>1 DEF VoidSound, ResolveSound, Resolving
<1>4. \A n \in Number : Voided(n) => Voided(n)'
  BY <1>2 DEF Voided, Voiding
<1>5. void' \in [Number -> VoidStatus]
  BY DEF Orphans
<1>6. PICK M \in SUBSET Worker : M = {w}
  OBVIOUS
<1>7. /\ \A v \in Worker \ M : task'[v] = task[v]
      /\ \A v \in M : VoidSound(v)' /\ \A k \in Note : ResolveSound(v, k)'
      /\ \A n : \A u \in M : ~Voiding(u, n)'
  BY <1>2, <1>3, <1>6
<1>. QED BY <1>4, <1>5, <1>7, OrphansFrame

\* A worker that goes on with an orphan, and asks for no number.
LEMMA OrphanKept ==
  ASSUME FiscalInv, Numbers, Lines, Orphans, Rests, NEW w \in Worker, NEW next, Goes(w, next),
         next.at \in Resolving \cup {"idle"}, next.at \in {"void.send", "void.apply"} =>
                                                /\ task[w].at \in {"void.send", "void.apply"}
                                                /\ next.numero = task[w].numero
                                                /\ next.at = "void.apply" =>
                                                     next.result \in {"HOMOLOGATED", "REJECTED"},
         void' = void, orphan' = orphan,
         \A k \in Note : ResolveSound(w, k)'
  PROVE  Orphans'
<1>1. task'[w] = next /\ \A v \in Worker : v # w => task'[v] = task[v]
  BY OthersStay
<1>2. \A n : Voiding(w, n)' => Voiding(w, n)
  BY <1>1 DEF Voiding
<1>3. \A v \in Worker : \A n : Voiding(v, n)' => Voiding(v, n)
  BY <1>1, <1>2 DEF Voiding
<1>4. VoidSound(w)'
  <2>. SUFFICES ASSUME next.at \in {"void.send", "void.apply"}
                PROVE  VoidSound(w)'
    BY <1>1 DEF VoidSound
  <2>1. VoidSound(w)
    BY DEF Orphans
  <2>2. PICK n \in Number : n = task[w].numero
    BY <2>1 DEF VoidSound
  <2>3. void[n] = "REQUESTED" /\ \A v \in Worker : Voiding(v, n) => v = w
    BY <2>1, <2>2 DEF VoidSound
  <2>4. \A v \in Worker : Voiding(v, n)' => v = w
    BY <1>3, <2>3
  <2>5. task'[w].numero = n
    BY <1>1, <2>2
  <2>. QED BY <1>1, <2>2, <2>3, <2>4, <2>5 DEF VoidSound, Voiding
<1>5. \A n \in Number : Voided(n) => Voided(n)'
  BY <1>3 DEF Voided
<1>6. ASSUME NEW n \in Number, NEW v \in Worker, v # w, Voiding(v, n)
      PROVE  ~Voiding(w, n)'
  <2>1. ~Voiding(w, n)
    BY <1>6 DEF Orphans, VoidSound, Voiding
  <2>. QED BY <1>2, <2>1
<1>7. void' \in [Number -> VoidStatus]
  BY DEF Orphans
<1>8. PICK M \in SUBSET Worker : M = {w}
  OBVIOUS
<1>9. /\ \A v \in Worker \ M : task'[v] = task[v]
      /\ \A v \in M : VoidSound(v)' /\ \A k \in Note : ResolveSound(v, k)'
      /\ \A n \in Number : \A v \in Worker \ M : Voiding(v, n) => \A u \in M : ~Voiding(u, n)'
  BY <1>1, <1>4, <1>6, <1>8
<1>. QED BY <1>5, <1>7, <1>9, OrphansFrame

-----------------------------------------------------------------------------
(* Orphans: the steps *)

\* Steps that ask for no voiding and resolve no orphan.
Quiet(w) ==
  \/ w \in Request /\ Issues(w)
  \/ \E d \in Doc : \/ CheckResend(w, d) \/ StartCancel(w, d) \/ Transmit(w, d)
                    \/ StartDrain(w, d) \/ StartAsk(w, d) \/ ListPending(w, d)
  \/ ReceiveNote(w) \/ SessionExpired(w) \/ OfflineFails(w) \/ EnterContingency(w)
  \/ SendFails(w) \/ KeepSent(w) \/ TransmitFails(w)
  \/ ApplyAuthorized(w) \/ ApplyRejected(w) \/ ApplyNotFound(w) \/ DropAnswer(w)
  \/ LeaveContingency(w) \/ AttachSource(w) \/ DrainFails(w) \/ LinkSource(w)
  \/ PollNote(w) \/ AskNote(w) \/ Resend(w) \/ ResendConflict(w)
  \/ CancelNote(w) \/ MarkCancelled(w) \/ RetireSource(w) \/ Dies(w)

LEMMA QuietMoves ==
  ASSUME FiscalInv, Lines, NEW w \in Worker, Quiet(w)
  PROVE  /\ task'[w].at \notin Resolving
         /\ \A v \in Worker : v # w => task'[v] = task[v]
         /\ void' = void
         /\ \A k \in Note : orphan'[k] = orphan[k] \/ orphan'[k] = "PENDING"
<1>. DEFINE Free(next) == next.at \notin Resolving
<1>1. Free(Idle)
  BY DEF Idle, Resolving
<1>2. CASE w \in Request /\ Issues(w)
  <2>1. PICK d \in Doc, status \in {"SENT", "CONTINGENCY", "PENDING_SIGNATURE"}, n \in Nat,
             offline \in BOOLEAN :
            EmitIn(w, d, status, n, offline, NextOf(d, status))
    BY <1>2, Issuing
  <2>2. Goes(w, NextOf(d, status)) /\ UNCHANGED <<void, orphan>>
    BY <2>1 DEF EmitIn
  <2>3. Free(NextOf(d, status))
    <3>1. NextOf(d, status).at \in {"send", "idle"}
      BY DEF NextOf, Idle
    <3>. QED BY <3>1 DEF Resolving
  <2>4. task'[w].at \notin Resolving /\ \A v \in Worker : v # w => task'[v] = task[v]
    BY <2>2, <2>3, OthersStay
  <2>. QED BY <2>2, <2>4
<1>3. CASE \E d \in Doc : \/ CheckResend(w, d) \/ StartCancel(w, d) \/ Transmit(w, d)
                          \/ StartDrain(w, d) \/ StartAsk(w, d) \/ ListPending(w, d)
  <2>1. \E next : Goes(w, next) /\ Free(next)
    <3>1. PICK d \in Doc : \/ CheckResend(w, d) \/ StartCancel(w, d) \/ Transmit(w, d)
                           \/ StartDrain(w, d) \/ StartAsk(w, d) \/ ListPending(w, d)
      BY <1>3
    <3>2. CASE CheckResend(w, d)
      BY <3>2 DEF CheckResend, Resolving
    <3>3. CASE StartCancel(w, d)
      BY <3>3 DEF StartCancel, Resolving
    <3>4. CASE Transmit(w, d) \/ StartDrain(w, d)
      BY <3>4 DEF Transmit, StartDrain, Resolving
    <3>5. CASE StartAsk(w, d) \/ ListPending(w, d)
      BY <3>5 DEF StartAsk, Consultation, ListPending, Resolving
    <3>. QED BY <3>1, <3>2, <3>3, <3>4, <3>5
  <2>2. task'[w].at \notin Resolving /\ \A v \in Worker : v # w => task'[v] = task[v]
    BY <2>1, OthersStay
  <2>3. UNCHANGED <<void, orphan>>
    BY <1>3 DEF CheckResend, StartCancel, Transmit, StartDrain, StartAsk, ListPending
  <2>. QED BY <2>2, <2>3
<1>4. CASE \/ SessionExpired(w) \/ OfflineFails(w) \/ KeepSent(w) \/ TransmitFails(w) \/ DropAnswer(w)
           \/ LeaveContingency(w) \/ ResendConflict(w) \/ RetireSource(w) \/ Dies(w)
  <2>1. Goes(w, Idle) /\ UNCHANGED <<void, orphan>>
    BY <1>4 DEF SessionExpired, OfflineFails, KeepSent, TransmitFails, DropAnswer,
                LeaveContingency, ResendConflict, RetireSource, Dies, Leaves
  <2>2. task'[w].at \notin Resolving /\ \A v \in Worker : v # w => task'[v] = task[v]
    BY <1>1, <2>1, OthersStay
  <2>. QED BY <2>1, <2>2
<1>5. CASE EnterContingency(w)
  <2>1. Goes(w, Idle) /\ UNCHANGED void
    BY <1>5 DEF EnterContingency, Leaves
  <2>2. task'[w].at \notin Resolving /\ \A v \in Worker : v # w => task'[v] = task[v]
    BY <1>1, <2>1, OthersStay
  <2>3. \E m : orphan' = [orphan EXCEPT ![m] = "PENDING"]
    BY <1>5 DEF EnterContingency
  <2>4. \A k \in Note : orphan'[k] = orphan[k] \/ orphan'[k] = "PENDING"
    BY <2>3 DEF Lines
  <2>. QED BY <2>1, <2>2, <2>4
<1>6. CASE \/ ReceiveNote(w) \/ SendFails(w) \/ ApplyAuthorized(w) \/ ApplyRejected(w)
           \/ ApplyNotFound(w) \/ AttachSource(w) \/ DrainFails(w) \/ LinkSource(w)
           \/ PollNote(w) \/ AskNote(w) \/ Resend(w) \/ CancelNote(w) \/ MarkCancelled(w)
  <2>1. \E next : Goes(w, next) /\ Free(next)
    <3>1. CASE ReceiveNote(w) \/ SendFails(w) \/ ApplyAuthorized(w)
      <4>1. CASE ReceiveNote(w)
        <5>1. PICK next : Goes(w, next) /\ next.at = "answer"
          BY <4>1 DEF ReceiveNote
        <5>. QED BY <5>1 DEF Resolving
      <4>2. CASE SendFails(w)
        <5>1. PICK next : Goes(w, next) /\ next.at = "keep"
          BY <4>2 DEF SendFails
        <5>. QED BY <5>1 DEF Resolving
      <4>3. CASE ApplyAuthorized(w)
        <5>1. Goes(w, [at |-> "drain", doc |-> task[w].doc, tick |-> task[w].by = "tick"])
          BY <4>3 DEF ApplyAuthorized
        <5>. QED BY <5>1 DEF Resolving
      <4>. QED BY <3>1, <4>1, <4>2, <4>3
    <3>2. CASE ApplyRejected(w) \/ ApplyNotFound(w)
      BY <3>2 DEF ApplyRejected, ApplyNotFound, Then, Idle, Resolving
    <3>3. CASE AttachSource(w) \/ DrainFails(w) \/ LinkSource(w)
      BY <1>1, <3>3 DEF AttachSource, DrainFails, LinkSource, Resolving
    <3>4. CASE PollNote(w) \/ AskNote(w) \/ Resend(w)
      <4>1. CASE AskNote(w)
        <5>1. PICK next : Goes(w, next) /\ next.at = "answer"
          BY <4>1 DEF AskNote
        <5>. QED BY <5>1 DEF Resolving
      <4>2. CASE Resend(w)
        <5>1. PICK next : Goes(w, next) /\ next.at = "send"
          BY <4>2 DEF Resend
        <5>. QED BY <5>1 DEF Resolving
      <4>3. CASE PollNote(w)
        <5>1. PICK next : Goes(w, next) /\ next.at = "ask"
          BY <4>3 DEF PollNote, Consultation
        <5>. QED BY <5>1 DEF Resolving
      <4>. QED BY <3>4, <4>1, <4>2, <4>3
    <3>5. CASE CancelNote(w) \/ MarkCancelled(w)
      BY <3>5 DEF CancelNote, MarkCancelled, Leaves, Idle, Resolving
    <3>. QED BY <1>6, <3>1, <3>2, <3>3, <3>4, <3>5
  <2>2. task'[w].at \notin Resolving /\ \A v \in Worker : v # w => task'[v] = task[v]
    BY <2>1, OthersStay
  <2>3. UNCHANGED <<void, orphan>>
    BY <1>6 DEF ReceiveNote, SendFails, ApplyAuthorized, ApplyRejected, ApplyNotFound, AttachSource,
                DrainFails, LinkSource, PollNote, AskNote, Resend, CancelNote, MarkCancelled
  <2>. QED BY <2>2, <2>3
<1>. QED BY <1>2, <1>3, <1>4, <1>5, <1>6 DEF Quiet

\* The job takes an orphan that is not on its way.
LEMMA StartOrphanStep ==
  ASSUME FiscalInv, Numbers, Lines, Orphans, Rests, NEW w \in Worker, NEW k \in Note,
         StartOrphan(w, k)
  PROVE  Orphans'
<1>1. PICK ref : ref = IF document[k[1]].status = "AUTHORIZED" THEN document[k[1]].key ELSE 0
  OBVIOUS
<1>2. /\ orphan[k] = "PENDING"
      /\ k \notin office.late
      /\ Goes(w, [at |-> "orphan", note |-> k, ref |-> ref])
      /\ UNCHANGED <<orphan, void, office>>
  BY <1>1 DEF StartOrphan
<1>3. k[1] \in Doc
  BY <1>2, OrphanNumber
<1>4. ref \in 0 .. MaxTry
  <2>1. document[k[1]].key \in 0 .. MaxTry
    BY <1>3, Ranges
  <2>. QED BY <1>1, <2>1, FiscalAssumption
<1>6. PICK next : next = [at |-> "orphan", note |-> k, ref |-> ref]
  OBVIOUS
<1>7. /\ Goes(w, next) /\ next.at = "orphan" /\ next.note = k /\ next.ref = ref /\ task'[w] = next
  BY <1>2, <1>6, OthersStay
<1>8. ASSUME NEW m \in Note
      PROVE  ResolveSound(w, m)'
  BY <1>2, <1>4, <1>7 DEF ResolveSound, Resolves
<1>. QED BY <1>2, <1>7, <1>8, OrphanKept DEF Resolving

\* The consultation of an orphan, and its substitution.
LEMMA ResolveSteps ==
  ASSUME FiscalInv, Numbers, Lines, Orphans, Rests, NEW w \in Worker,
         AskOrphan(w) \/ Substitute(w)
  PROVE  Orphans'
<1>1. PICK k : k = task[w].note
  OBVIOUS
<1>2. task[w].at \in {"orphan", "substitute"} /\ UNCHANGED <<orphan, void>>
  BY DEF AskOrphan, Substitute, At
<1>3. k \in Note /\ orphan[k] # "none"
  BY <1>1, <1>2 DEF Lines, Carried
<1>4. Resolves(w, k) /\ ResolveSound(w, k)
  BY <1>1, <1>2, <1>3 DEF Resolves, Orphans
<1>5. k \notin office'.late
  BY <1>3, <1>4 DEF ResolveSound, Rests
<1>6. CASE AskOrphan(w)
  <2>1. PICK next : /\ Goes(w, next)
                    /\ next = IF office.note[k] = "none" THEN [at |-> "void", note |-> k]
                              ELSE IF task[w].ref # 0
                              THEN [at |-> "substitute", note |-> k, ref |-> task[w].ref]
                              ELSE Idle
    BY <1>1, <1>6 DEF AskOrphan
  <2>2. /\ task[w].ref \in 0 .. MaxTry
        /\ UNCHANGED office
    BY <1>4, <1>6 DEF AskOrphan, At, ResolveSound
  <2>3. task'[w] = next
    BY <2>1, OthersStay
  <2>4. /\ next.at \in {"void", "substitute", "idle"}
        /\ next.at # "idle" => next.note = k
        /\ next.at = "void" => office.note[k] = "none"
        /\ next.at = "substitute" => next.ref \in 1 .. MaxTry
    BY <2>1, <2>2, FiscalAssumption DEF Idle
  <2>5. ASSUME NEW m \in Note
        PROVE  ResolveSound(w, m)'
    BY <1>5, <2>2, <2>3, <2>4 DEF ResolveSound, Resolves
  <2>. QED BY <1>2, <2>1, <2>4, <2>5, OrphanKept DEF Resolving
<1>7. CASE Substitute(w)
  <2>1. PICK ref \in 1 .. MaxTry : ref = task[w].ref
    BY <1>4, <1>7 DEF Substitute, At, ResolveSound
  <2>2. PICK s \in {"CANCELLED_SUBST", "FAILED"} :
          /\ Goes(w, [at |-> "close", note |-> k, as |-> s])
          /\ s = "CANCELLED_SUBST" => /\ office.note[<<k[1], ref>>] = "authorized"
                                      /\ notes[k[1]][ref].offline
                                      /\ office.note[k] = "authorized"
                                      /\ office' = [office EXCEPT !.note[k] = "cancelled"]
    BY <1>1, <1>7, <2>1 DEF Substitute
  <2>3. s = "CANCELLED_SUBST" => Replaced(k)'
    <3>. SUFFICES ASSUME s = "CANCELLED_SUBST"
                  PROVE  Replaced(k)'
      OBVIOUS
    <3>1. office'.note[k] = "cancelled"
      BY <1>3, <2>2, OfficeCancels DEF FiscalInv
    <3>2. office'.note[<<k[1], ref>>] # "none"
      BY <1>3, <2>2, KnownNote DEF Rests, Note
    <3>3. AtOffice(k[1], ref)'
      BY <3>2 DEF AtOffice
    <3>4. ref # k[2]
      <4>1. Lost(k[1], k[2]) /\ k[1] \in Doc /\ k[2] \in 1 .. MaxTry
        BY <1>3, OrphanNumber DEF Lost
      <4>2. ~notes[k[1]][k[2]].offline
        BY <4>1 DEF Lines, Line, AttemptsSound
      <4>. QED BY <2>2, <4>2
    <3>. QED BY <2>1, <3>1, <3>3, <3>4 DEF Replaced
  <2>4. PICK next : next = [at |-> "close", note |-> k, as |-> s]
    OBVIOUS
  <2>5. /\ Goes(w, next) /\ next.at = "close" /\ next.note = k /\ next.as = s /\ task'[w] = next
    BY <2>2, <2>4, OthersStay
  <2>6. ASSUME NEW m \in Note
        PROVE  ResolveSound(w, m)'
    BY <1>5, <2>3, <2>5 DEF ResolveSound, Resolves
  <2>. QED BY <1>2, <2>5, <2>6, OrphanKept DEF Resolving
<1>. QED BY <1>6, <1>7

\* An orphan is closed for what its task knows of it.
LEMMA CloseOrphanStep ==
  ASSUME FiscalInv, Numbers, Lines, Orphans, Rests, NEW w \in Worker, CloseOrphan(w)
  PROVE  Orphans'
<1>1. PICK k : k = task[w].note
  OBVIOUS
<1>2. /\ task[w].at = "close"
      /\ orphan' = [orphan EXCEPT ![k] = task[w].as]
      /\ Goes(w, Idle)
      /\ UNCHANGED <<void, notes, office>>
  BY <1>1 DEF CloseOrphan, At, Leaves
<1>3. k \in Note /\ orphan[k] # "none" /\ task[w].as \in {"CANCELLED_SUBST", "VOID_REQUESTED", "FAILED"}
  BY <1>1, <1>2 DEF Lines, Carried
<1>4. Resolves(w, k) /\ ResolveSound(w, k)
  BY <1>1, <1>2, <1>3 DEF Resolves, Orphans
<1>5. task'[w].at = "idle" /\ \A v \in Worker : v # w => task'[v] = task[v]
  BY <1>2, OthersStay DEF Idle
<1>6. /\ \A m \in Note : m # k => orphan'[m] = orphan[m]
      /\ orphan'[k] = task[w].as
  BY <1>2, <1>3 DEF Lines
<1>7. \A n : Voided(n) => Voided(n)'
  BY <1>2, <1>5 DEF Voided, Voiding
<1>8. OrphanSound(k)'
  <2>1. Numero(k)' = Numero(k)
    BY <1>2 DEF Numero
  <2>2. /\ k \notin office.late
        /\ task[w].as = "CANCELLED_SUBST" => Replaced(k)
        /\ task[w].as = "VOID_REQUESTED" => Unused(k)
    BY <1>2, <1>4 DEF ResolveSound
  <2>3. Replaced(k) => Replaced(k)'
    BY <1>2 DEF Replaced, AtOffice
  <2>4. Unused(k) => Unused(k)'
    <3>1. PICK n : n = Numero(k)
      OBVIOUS
    <3>2. Numero(k)' = n
      BY <2>1, <3>1
    <3>3. Voided(n) => Voided(n)'
      BY <1>7
    <3>. QED BY <1>2, <3>1, <3>2, <3>3 DEF Unused, Voided, Voiding
  <2>. QED BY <1>2, <1>6, <2>2, <2>3, <2>4 DEF OrphanSound
<1>9. VoidSound(w)' /\ (\A m \in Note : ResolveSound(w, m)') /\ \A n : ~Voiding(w, n)'
  BY <1>5 DEF VoidSound, ResolveSound, Resolves, Voiding
<1>10. void' \in [Number -> VoidStatus] /\ void' = void
  BY <1>2 DEF Orphans
<1>11. PICK M \in SUBSET Worker : M = {w}
  OBVIOUS
<1>12. /\ \A v \in Worker \ M : task'[v] = task[v]
       /\ \A v \in M : VoidSound(v)' /\ \A m \in Note : ResolveSound(v, m)'
       /\ \A n : \A u \in M : ~Voiding(u, n)'
  BY <1>5, <1>9, <1>11
<1>. QED BY <1>6, <1>7, <1>8, <1>10, <1>12, OrphansFrame

\* A number is asked to be voided: nobody had asked, or the office refused.
LEMMA RequestStep ==
  ASSUME FiscalInv, Numbers, Lines, Orphans, Rests, NEW w \in Worker, NEW n \in Number, NEW note,
         RequestVoidOf(w, n, note), UNCHANGED orphan,
         task[w].at \notin {"void.send", "void.apply"},
         \A k \in Note : note = k => /\ Numero(k) = n
                                     /\ orphan[k] # "none"
                                     /\ k \notin office.late
                                     /\ office.note[k] = "none"
  PROVE  Orphans'
<1>1. /\ void[n] \notin {"REQUESTED", "HOMOLOGATED"}
      /\ void' = [void EXCEPT ![n] = "REQUESTED"]
      /\ Goes(w, [at |-> "void.send", numero |-> n, note |-> note])
  BY DEF RequestVoidOf, MayVoid
<1>2. PICK next : next = [at |-> "void.send", numero |-> n, note |-> note]
  OBVIOUS
<1>3. /\ task'[w] = next /\ next.at = "void.send" /\ next.numero = n /\ next.note = note
      /\ \A v \in Worker : v # w => task'[v] = task[v]
  BY <1>1, <1>2, OthersStay
<1>4. /\ void \in [Number -> VoidStatus]
      /\ void' \in [Number -> VoidStatus]
      /\ void'[n] = "REQUESTED"
      /\ \A m \in Number : m # n => void'[m] = void[m]
  BY <1>1 DEF Orphans, VoidStatus
<1>5. \A v \in Worker : ~Voiding(v, n)
  BY <1>1 DEF Orphans, VoidSound, Voiding
<1>6. /\ \A v \in Worker : v # w => ~Voiding(v, n)'
      /\ \A m : m # n => ~Voiding(w, m)'
  BY <1>3, <1>5 DEF Voiding
<1>7. VoidSound(w)'
  BY <1>3, <1>4, <1>6 DEF VoidSound, Voiding
<1>8. ASSUME NEW k \in Note
      PROVE  ResolveSound(w, k)'
  <2>. SUFFICES ASSUME Resolves(w, k)'
                PROVE  ResolveSound(w, k)'
    BY DEF ResolveSound
  <2>1. note = k
    BY <1>3 DEF Resolves
  <2>2. /\ Numero(k)' = n
        /\ k \notin office'.late
        /\ office'.note[k] = "none"
    BY <2>1 DEF Rests
  <2>. QED BY <1>3, <2>2 DEF ResolveSound
<1>9. ASSUME NEW m \in Number, Voided(m)
      PROVE  Voided(m)'
  <2>1. m # n
    BY <1>1, <1>9 DEF Voided
  <2>. QED BY <1>3, <1>4, <1>6, <1>9, <2>1 DEF Voided, Voiding
<1>10. PICK M \in SUBSET Worker : M = {w}
  OBVIOUS
<1>11. /\ \A v \in Worker \ M : task'[v] = task[v]
       /\ \A v \in M : VoidSound(v)' /\ \A k \in Note : ResolveSound(v, k)'
       /\ \A m \in Number : \A v \in Worker \ M : Voiding(v, m) =>
            void'[m] = void[m] /\ \A u \in M : ~Voiding(u, m)'
  BY <1>3, <1>4, <1>5, <1>6, <1>7, <1>8, <1>10
<1>. QED BY <1>4, <1>9, <1>11, OrphansFrame

\* The ways to ask for a number.
LEMMA VoidSteps ==
  ASSUME FiscalInv, Numbers, Lines, Orphans, Rests, NEW w \in Worker,
         VoidOrphan(w) \/ \E n \in Number : VoidNumber(w, n)
  PROVE  Orphans'
<1>1. CASE \E n \in Number : VoidNumber(w, n)
  <2>1. PICK n \in Number : VoidNumber(w, n)
    BY <1>1
  <2>2. RequestVoidOf(w, n, <<>>) /\ UNCHANGED orphan /\ task[w].at = "idle"
    BY <2>1 DEF VoidNumber, At
  <2>3. \A k \in Note : <<>> # k
    BY NotEmpty
  <2>. QED BY <2>2, <2>3, RequestStep
<1>2. CASE VoidOrphan(w)
  <2>1. PICK k : k = task[w].note
    OBVIOUS
  <2>2. task[w].at = "void" /\ UNCHANGED <<orphan, office>>
    BY <1>2 DEF VoidOrphan, At
  <2>3. k \in Note /\ orphan[k] # "none"
    BY <2>1, <2>2 DEF Lines, Carried
  <2>4. Resolves(w, k) /\ ResolveSound(w, k)
    BY <2>1, <2>2, <2>3 DEF Resolves, Orphans
  <2>5. k \notin office.late /\ office.note[k] = "none"
    BY <2>2, <2>4 DEF ResolveSound
  <2>6. PICK n \in Number : n = Numero(k)
    BY <2>3, OrphanNumber
  <2>7. CASE RequestVoidOf(w, n, k)
    <3>1. \A m \in Note : k = m => /\ Numero(m) = n
                                   /\ orphan[m] # "none"
                                   /\ m \notin office.late
                                   /\ office.note[m] = "none"
      BY <2>3, <2>5, <2>6
    <3>2. task[w].at \notin {"void.send", "void.apply"}
      BY <2>2
    <3>. QED BY <2>2, <2>7, <3>1, <3>2, RequestStep
  <2>8. CASE ~RequestVoidOf(w, n, k)
    <3>1. UNCHANGED void /\ Goes(w, After(w, "FAILED"))
      BY <1>2, <2>1, <2>6, <2>8 DEF VoidOrphan
    <3>2. PICK next : next = [at |-> "close", note |-> k, as |-> "FAILED"]
      OBVIOUS
    <3>3. Goes(w, next) /\ next.at = "close" /\ next.note = k /\ next.as = "FAILED" /\ task'[w] = next
      BY <2>1, <2>3, <3>1, <3>2, NotEmpty, OthersStay DEF After
    <3>4. ASSUME NEW m \in Note
          PROVE  ResolveSound(w, m)'
      BY <2>2, <2>5, <3>3 DEF ResolveSound, Resolves
    <3>. QED BY <2>2, <3>1, <3>3, <3>4, OrphanKept DEF Resolving
  <2>. QED BY <2>7, <2>8
<1>. QED BY <1>1, <1>2

\* What becomes of a request to void a number: sent, unanswered, or answered.
LEMMA VoidAnswered ==
  ASSUME FiscalInv, Numbers, Lines, Orphans, Rests, NEW w \in Worker,
         SendVoid(w) \/ VoidUnanswered(w) \/ ApplyVoid(w)
  PROVE  Orphans'
<1>1. PICK note : note = task[w].note
  OBVIOUS
<1>2. task[w].at \in {"void.send", "void.apply"} /\ UNCHANGED orphan
  BY DEF SendVoid, VoidUnanswered, ApplyVoid, At
<1>3. PICK n \in Number :
        /\ n = task[w].numero
        /\ void[n] = "REQUESTED"
        /\ \A v \in Worker : Voiding(v, n) => v = w
  BY <1>2 DEF Orphans, VoidSound
<1>4. ASSUME NEW k \in Note, note = k
      PROVE  /\ orphan[k] # "none"
             /\ Numero(k) = n
             /\ Numero(k)' = n
             /\ k \notin office'.late
             /\ office'.note[k] = "none"
  <2>1. Resolves(w, k) /\ ResolveSound(w, k)
    BY <1>1, <1>2, <1>4 DEF Resolves, Orphans
  <2>2. orphan[k] # "none"
    BY <2>1, Resolved
  <2>3. /\ k \notin office.late
        /\ office.note[k] = "none"
        /\ Numero(k) = n
    BY <1>2, <1>3, <2>1 DEF ResolveSound
  <2>. QED BY <2>2, <2>3 DEF Rests
<1>5. CASE SendVoid(w)
  <2>1. PICK r \in {"HOMOLOGATED", "REJECTED"} :
          Goes(w, [at |-> "void.apply", numero |-> n, note |-> note, result |-> r])
    BY <1>1, <1>3, <1>5 DEF SendVoid
  <2>2. PICK next : next = [at |-> "void.apply", numero |-> n, note |-> note, result |-> r]
    OBVIOUS
  <2>3. /\ Goes(w, next) /\ next.at = "void.apply" /\ next.numero = n /\ next.note = note
        /\ next.result = r /\ task'[w] = next
    BY <2>1, <2>2, OthersStay
  <2>4. ASSUME NEW m \in Note
        PROVE  ResolveSound(w, m)'
    <3>. SUFFICES ASSUME note = m
                  PROVE  ResolveSound(w, m)'
      BY <2>3 DEF ResolveSound, Resolves
    <3>. QED BY <1>4, <2>3 DEF ResolveSound, Resolves
  <2>5. void' = void
    BY <1>5 DEF SendVoid
  <2>. QED BY <1>2, <1>3, <2>3, <2>4, <2>5, OrphanKept DEF Resolving
<1>6. CASE VoidUnanswered(w) \/ ApplyVoid(w)
  <2>1. PICK s \in {"FAILED", "VOID_REQUESTED"} :
          /\ Goes(w, IF note = <<>> THEN Idle ELSE [at |-> "close", note |-> note, as |-> s])
          /\ \/ void' = void
             \/ \E r \in {"HOMOLOGATED", "REJECTED"} :
                  void' = [void EXCEPT ![n] = r] /\ (s = "VOID_REQUESTED" => r = "HOMOLOGATED")
    <3>1. CASE VoidUnanswered(w)
      BY <1>1, <3>1 DEF VoidUnanswered, After
    <3>2. CASE ApplyVoid(w)
      <4>1. task[w].result \in {"HOMOLOGATED", "REJECTED"}
        BY <3>2 DEF ApplyVoid, At, Orphans, VoidSound
      <4>. QED BY <1>1, <1>3, <3>2, <4>1 DEF ApplyVoid, After
    <3>. QED BY <1>6, <3>1, <3>2
  <2>2. PICK next : next = IF note = <<>> THEN Idle ELSE [at |-> "close", note |-> note, as |-> s]
    OBVIOUS
  <2>3. /\ task'[w] = next
        /\ next.at \in {"idle", "close"}
        /\ next.at = "close" => next.note = note /\ next.as = s
        /\ \A v \in Worker : v # w => task'[v] = task[v]
    BY <2>1, <2>2, OthersStay DEF Idle
  <2>4. /\ void' \in [Number -> VoidStatus]
        /\ \A m \in Number : m # n => void'[m] = void[m]
        /\ s = "VOID_REQUESTED" => void'[n] \in {"REQUESTED", "HOMOLOGATED"}
    <3>1. void \in [Number -> VoidStatus]
      BY DEF Orphans
    <3>. QED BY <1>3, <2>1, <3>1 DEF VoidStatus
  <2>5. \A m : ~Voiding(w, m)'
    BY <2>3 DEF Voiding
  <2>6. \A v \in Worker : ~Voiding(v, n)'
    BY <1>3, <2>3, <2>5 DEF Voiding
  <2>7. ASSUME NEW m \in Number, Voided(m)
        PROVE  Voided(m)'
    <3>1. m # n
      BY <1>2, <1>3, <2>7 DEF Voided, Voiding
    <3>. QED BY <2>3, <2>4, <2>5, <2>7, <3>1 DEF Voided, Voiding
  <2>8. ASSUME NEW k \in Note
        PROVE  ResolveSound(w, k)'
    <3>. SUFFICES ASSUME Resolves(w, k)'
                  PROVE  ResolveSound(w, k)'
      BY DEF ResolveSound
    <3>1. task'[w].at = "close" /\ task'[w].as = s /\ note = k
      BY <2>3 DEF Resolves
    <3>2. Numero(k)' = n /\ k \notin office'.late /\ office'.note[k] = "none"
      BY <1>4, <3>1
    <3>3. s = "VOID_REQUESTED" => Unused(k)'
      BY <2>4, <2>6, <3>2 DEF Unused, Voided, Voiding
    <3>. QED BY <2>1, <3>1, <3>2, <3>3 DEF ResolveSound
  <2>9. VoidSound(w)'
    BY <2>3 DEF VoidSound
  <2>10. PICK M \in SUBSET Worker : M = {w}
    OBVIOUS
  <2>11. /\ \A v \in Worker \ M : task'[v] = task[v]
         /\ \A v \in M : VoidSound(v)' /\ \A k \in Note : ResolveSound(v, k)'
         /\ \A m \in Number : \A v \in Worker \ M : Voiding(v, m) =>
              void'[m] = void[m] /\ \A u \in M : ~Voiding(u, m)'
    BY <1>3, <2>3, <2>4, <2>5, <2>8, <2>9, <2>10
  <2>. QED BY <1>2, <2>4, <2>7, <2>11, OrphansFrame
<1>. QED BY <1>5, <1>6

\* There is no orphan and no voiding at first.
LEMMA OrphansInit == FiscalInit => Orphans
<1>. SUFFICES ASSUME FiscalInit
              PROVE  Orphans
  OBVIOUS
<1>1. void \in [Number -> VoidStatus]
  BY DEF FiscalInit, VoidStatus
<1>2. \A k \in Note : orphan[k] = "none"
  BY DEF FiscalInit
<1>3. \A w \in Worker : task[w].at = "idle"
  BY DEF FiscalInit, Idle
<1>. QED BY <1>1, <1>2, <1>3 DEF Orphans, OrphanSound, VoidSound, ResolveSound, Resolves

\* Every step keeps what is known of the orphans.
LEMMA OrphansStep ==
  ASSUME FiscalInv, Numbers, Lines, Orphans, [FiscalNext]_vars
  PROVE  Orphans'
<1>1. Rests
  BY OrphansRest
<1>2. ASSUME NEW w \in Request, Issues(w)
      PROVE  Orphans'
  <2>1. w \in Worker /\ Quiet(w)
    BY <1>2 DEF Worker, Quiet
  <2>. QED BY <1>1, <2>1, QuietMoves, OrphansLeft
<1>3. ASSUME NEW w \in Worker, Begins(w)
      PROVE  Orphans'
  <2>1. CASE \E d \in Doc : \/ CheckResend(w, d) \/ StartCancel(w, d) \/ Transmit(w, d)
                            \/ StartDrain(w, d) \/ StartAsk(w, d) \/ ListPending(w, d)
    <3>1. Quiet(w)
      BY <2>1 DEF Quiet
    <3>. QED BY <1>1, <3>1, QuietMoves, OrphansLeft
  <2>2. CASE \E k \in Note : StartOrphan(w, k)
    BY <1>1, <2>2, StartOrphanStep
  <2>3. CASE \E n \in Number : VoidNumber(w, n)
    BY <1>1, <2>3, VoidSteps
  <2>. QED BY <1>3, <2>1, <2>2, <2>3 DEF Begins
<1>4. ASSUME NEW w \in Worker, Continues(w)
      PROVE  Orphans'
  <2>1. CASE AskOrphan(w) \/ Substitute(w)
    BY <1>1, <2>1, ResolveSteps
  <2>2. CASE CloseOrphan(w)
    BY <1>1, <2>2, CloseOrphanStep
  <2>3. CASE VoidOrphan(w)
    BY <1>1, <2>3, VoidSteps
  <2>4. CASE SendVoid(w) \/ VoidUnanswered(w) \/ ApplyVoid(w)
    BY <1>1, <2>4, VoidAnswered
  <2>5. CASE Quiet(w)
    BY <1>1, <2>5, QuietMoves, OrphansLeft
  <2>. QED BY <1>4, <2>1, <2>2, <2>3, <2>4, <2>5 DEF Continues, Quiet
<1>5. CASE Happens
  <2>1. UNCHANGED <<orphan, void, task>>
    BY <1>5 DEF Happens, LateNote, SetContingency, vars
  <2>2. /\ void' \in [Number -> VoidStatus]
        /\ \A n \in Number : Voided(n) => Voided(n)'
    BY <2>1 DEF Orphans, Voided, Voiding
  <2>3. PICK M \in SUBSET Worker : M = {}
    OBVIOUS
  <2>. QED BY <1>1, <2>1, <2>2, <2>3, OrphansFrame
<1>. QED BY <1>2, <1>3, <1>4, <1>5, StepKinds

-----------------------------------------------------------------------------
(* Books *)

\* A note at the office, or that can get there, keeps the number it was sent with.
LEMMA KnownNumber ==
  ASSUME FiscalInv, Lines, [FiscalNext]_vars, NEW k \in Note,
         office.note[k] # "none" \/ k \in office.late \/ Sent(k)
  PROVE  Numero(k)' = Numero(k)
<1>1. PICK d \in Doc, n \in 1 .. MaxTry : k = <<d, n>>
  BY DEF Note
<1>2. Len(notes[d]) \in Nat
  BY Ranges
<1>3. n \in 1 .. Len(notes[d])
  <2>1. CASE office.note[k] # "none" \/ k \in office.late
    <3>1. n <= Len(notes[d])
      BY <1>1, <2>1 DEF Lines, Line, AttemptsSound, AtOffice, Late
    <3>. QED BY <1>2, <3>1
  <2>2. CASE Sent(k)
    BY <1>1, <2>2, SentNumbered
  <2>. QED BY <2>1, <2>2
<1>4. notes'[d][n].numero = notes[d][n].numero
  BY <1>3, NumbersStay
<1>. QED BY <1>1, <1>4 DEF Numero

\* The office authorizes no number twice, and none that is void.
NotesBooked ==
  /\ \A j, k \in Note :
       office.note[j] # "none" /\ office.note[k] # "none" /\ Numero(j) = Numero(k) => j = k
  /\ \A k \in Note : office.note[k] # "none" => Numero(k) \notin office.voided

LEMMA NotesBookedStep ==
  ASSUME FiscalInv, Lines, NotesBooked, [FiscalNext]_vars
  PROVE  NotesBooked' /\ office.voided \subseteq office'.voided
<1>1. OfficeTurns
  BY Turns
<1>2. /\ office = [note |-> office.note, voided |-> office.voided, late |-> office.late]
      /\ office.note \in [Note -> {"none", "authorized", "cancelled"}]
  BY DEF FiscalInv, RowsTyped
<1>3. ASSUME \A k \in Note : office'.note[k] # "none" => office.note[k] # "none",
             \A n \in office'.voided : n \in office.voided \/ ~NumberTaken(n)
      PROVE  NotesBooked'
  <2>1. \A k \in Note : office'.note[k] # "none" =>
          office.note[k] # "none" /\ Numero(k)' = Numero(k) /\ NumberTaken(Numero(k))
    BY <1>3, KnownNumber DEF NumberTaken
  <2>. QED BY <1>3, <2>1 DEF NotesBooked
<1>4. CASE UNCHANGED <<office>>
  BY <1>3, <1>4
<1>5. CASE \E n : OfficeVoids(n)
  <2>1. PICK n : ~NumberTaken(n) /\ office' = [office EXCEPT !.voided = @ \cup {n}]
    BY <1>5 DEF OfficeVoids
  <2>2. office'.note = office.note /\ office'.voided = office.voided \cup {n}
    BY <1>2, <2>1
  <2>. QED BY <1>3, <2>1, <2>2
<1>6. CASE \E k : office.note[k] = "authorized" /\ office' = [office EXCEPT !.note[k] = "cancelled"]
  <2>1. PICK k : office.note[k] = "authorized" /\ office' = [office EXCEPT !.note[k] = "cancelled"]
    BY <1>6
  <2>2. /\ office'.note = [office.note EXCEPT ![k] = "cancelled"]
        /\ office'.voided = office.voided
    BY <1>2, <2>1
  <2>3. \A j \in Note : office'.note[j] # "none" => office.note[j] # "none"
    BY <1>2, <2>1, <2>2
  <2>. QED BY <1>3, <2>2, <2>3
<1>7. ASSUME NEW k \in Note, k \in office.late \/ Sent(k),
             \/ office' = [office EXCEPT !.late = @ \ {k}]
             \/ office' = [office EXCEPT !.late = @ \cup {k}]
      PROVE  NotesBooked' /\ office.voided \subseteq office'.voided
  <2>1. office'.note = office.note /\ office'.voided = office.voided
    BY <1>2, <1>7
  <2>. QED BY <1>3, <2>1
<1>8. ASSUME NEW k \in Note, k \in office.late \/ Sent(k),
             office' = Authorize(k), CanAuthorize(k)
      PROVE  NotesBooked' /\ office.voided \subseteq office'.voided
  <2>1. /\ office'.note = [office.note EXCEPT ![k] = "authorized"]
        /\ office'.voided = office.voided
    BY <1>2, <1>8 DEF Authorize
  <2>2. /\ Numero(k)' = Numero(k)
        /\ Numero(k) \notin office.voided
        /\ ~NumberTaken(Numero(k))
    BY <1>8, KnownNumber DEF CanAuthorize
  <2>3. ASSUME NEW j \in Note, j # k, office'.note[j] # "none"
        PROVE  /\ office.note[j] # "none"
               /\ Numero(j)' = Numero(j)
               /\ Numero(j) # Numero(k)
    <3>1. office.note[j] # "none"
      BY <1>2, <2>1, <2>3
    <3>2. Numero(j)' = Numero(j)
      BY <3>1, KnownNumber
    <3>. QED BY <2>2, <3>1, <3>2 DEF NumberTaken
  <2>4. ASSUME NEW i \in Note, NEW j \in Note,
               office'.note[i] # "none", office'.note[j] # "none", Numero(i)' = Numero(j)'
        PROVE  i = j
    <3>1. CASE i # k /\ j # k
      <4>1. Numero(i) = Numero(j) /\ office.note[i] # "none" /\ office.note[j] # "none"
        BY <2>3, <2>4, <3>1
      <4>. QED BY <4>1 DEF NotesBooked
    <3>2. CASE i = k /\ j # k
      BY <2>2, <2>3, <2>4, <3>2
    <3>3. CASE i # k /\ j = k
      BY <2>2, <2>3, <2>4, <3>3
    <3>. QED BY <3>1, <3>2, <3>3
  <2>5. ASSUME NEW j \in Note, office'.note[j] # "none"
        PROVE  Numero(j)' \notin office'.voided
    <3>1. CASE j = k
      BY <2>1, <2>2, <3>1
    <3>2. CASE j # k
      BY <2>1, <2>3, <2>5, <3>2 DEF NotesBooked
    <3>. QED BY <3>1, <3>2
  <2>. QED BY <2>1, <2>4, <2>5 DEF NotesBooked
<1>. QED BY <1>1, <1>4, <1>5, <1>6, <1>7, <1>8 DEF OfficeTurns

\* Steps that write no answer about a number, and carry none.
LEMMA BooksKept ==
  ASSUME FiscalInv, Books, NEW w \in Worker, NotesBooked', office.voided \subseteq office'.voided,
         \A v \in Worker : v # w => task'[v] = task[v],
         task'[w].at = "void.apply" => task'[w] = task[w],
         \A n \in Number : void'[n] = void[n] \/ void'[n] = "REQUESTED"
  PROVE  Books'
<1>1. \A n \in Number : void'[n] = "HOMOLOGATED" => n \in office'.voided
  BY DEF Books
<1>2. \A v \in Worker : task'[v].at = "void.apply" => task'[v] = task[v]
  OBVIOUS
<1>3. \A v \in Worker : task'[v].at = "void.apply" /\ task'[v].result = "HOMOLOGATED" =>
        task'[v].numero \in office'.voided
  BY <1>2 DEF Books
<1>. QED BY <1>1, <1>3 DEF Books, NotesBooked

LEMMA BooksInit == FiscalInit => Books
<1>. SUFFICES ASSUME FiscalInit
              PROVE  Books
  OBVIOUS
<1>1. /\ \A k \in Note : office.note[k] = "none"
      /\ \A n \in Number : void[n] = "none"
      /\ \A w \in Worker : task[w].at = "idle"
  BY DEF FiscalInit, Idle
<1>. QED BY <1>1 DEF Books

\* What the program takes for void is void.
LEMMA BooksStep ==
  ASSUME FiscalInv, Numbers, Lines, Orphans, Books, [FiscalNext]_vars
  PROVE  Books'
<1>1. NotesBooked' /\ office.voided \subseteq office'.voided
  BY NotesBookedStep DEF Books, NotesBooked
<1>2. void \in [Number -> VoidStatus]
  BY DEF Orphans
<1>3. ASSUME NEW w \in Worker, Quiet(w)
      PROVE  Books'
  <2>1. task'[w].at # "void.apply"
    BY <1>3, QuietMoves DEF Resolving
  <2>. QED BY <1>1, <1>3, <2>1, QuietMoves, BooksKept
<1>4. ASSUME NEW w \in Worker, NEW next, Goes(w, next), next.at # "void.apply",
             \A n \in Number : void'[n] = void[n] \/ void'[n] = "REQUESTED"
      PROVE  Books'
  <2>1. task'[w].at # "void.apply" /\ \A v \in Worker : v # w => task'[v] = task[v]
    BY <1>4, OthersStay
  <2>. QED BY <1>1, <1>4, <2>1, BooksKept
<1>5. ASSUME NEW w \in Worker, NEW n \in Number, NEW k, RequestVoidOf(w, n, k)
      PROVE  Books'
  <2>1. PICK next : next = [at |-> "void.send", numero |-> n, note |-> k]
    OBVIOUS
  <2>2. Goes(w, next) /\ next.at # "void.apply"
    BY <1>5, <2>1 DEF RequestVoidOf
  <2>3. \A m \in Number : void'[m] = void[m] \/ void'[m] = "REQUESTED"
    BY <1>2, <1>5 DEF RequestVoidOf
  <2>. QED BY <1>4, <2>2, <2>3
<1>6. ASSUME NEW w \in Worker, NEW s, Goes(w, After(w, s)),
             \A n \in Number : void'[n] = void[n] \/ void'[n] = "REQUESTED"
      PROVE  Books'
  <2>1. PICK next : next = After(w, s)
    OBVIOUS
  <2>2. next.at # "void.apply"
    BY <2>1 DEF After, Idle
  <2>. QED BY <1>4, <1>6, <2>1, <2>2
<1>7. ASSUME NEW w \in Worker, NEW k \in Note, StartOrphan(w, k)
      PROVE  Books'
  <2>1. PICK next : Goes(w, next) /\ next.at = "orphan"
    BY <1>7 DEF StartOrphan
  <2>2. void' = void
    BY <1>7 DEF StartOrphan
  <2>. QED BY <1>4, <2>1, <2>2
<1>8. ASSUME NEW w \in Worker, AskOrphan(w) \/ Substitute(w) \/ CloseOrphan(w)
      PROVE  Books'
  <2>1. void' = void
    BY <1>8 DEF AskOrphan, Substitute, CloseOrphan
  <2>2. \E next : Goes(w, next) /\ next.at # "void.apply"
    <3>1. CASE AskOrphan(w)
      BY <3>1 DEF AskOrphan, Idle
    <3>2. CASE Substitute(w)
      BY <3>2 DEF Substitute
    <3>3. CASE CloseOrphan(w)
      BY <3>3 DEF CloseOrphan, Leaves, Idle
    <3>. QED BY <1>8, <3>1, <3>2, <3>3
  <2>. QED BY <1>4, <2>1, <2>2
<1>9. ASSUME NEW w \in Worker, VoidOrphan(w)
      PROVE  Books'
  <2>1. task[w].at = "void"
    BY <1>9 DEF VoidOrphan, At
  <2>2. task[w].note \in Note /\ orphan[task[w].note] # "none"
    BY <2>1 DEF Lines, Carried
  <2>3. PICK n \in Number : n = Numero(task[w].note)
    BY <2>2, OrphanNumber
  <2>4. RequestVoidOf(w, n, task[w].note) \/ (void' = void /\ Goes(w, After(w, "FAILED")))
    BY <1>9, <2>3 DEF VoidOrphan
  <2>. QED BY <1>5, <1>6, <2>4
<1>10. ASSUME NEW w \in Worker, SendVoid(w)
       PROVE  Books'
  <2>1. void' = void
    BY <1>10 DEF SendVoid
  <2>2. PICK n : n = task[w].numero
    OBVIOUS
  <2>3. PICK r \in {"HOMOLOGATED", "REJECTED"} :
          /\ Goes(w, [at |-> "void.apply", numero |-> n, note |-> task[w].note, result |-> r])
          /\ r = "HOMOLOGATED" => OfficeVoids(n)
    BY <1>10, <2>2 DEF SendVoid
  <2>4. PICK next : next = [at |-> "void.apply", numero |-> n, note |-> task[w].note, result |-> r]
    OBVIOUS
  <2>5. /\ task'[w] = next /\ next.numero = n /\ next.result = r
        /\ \A v \in Worker : v # w => task'[v] = task[v]
    BY <2>3, <2>4, OthersStay
  <2>6. r = "HOMOLOGATED" => n \in office'.voided
    <3>1. office = [note |-> office.note, voided |-> office.voided, late |-> office.late]
      BY DEF FiscalInv, RowsTyped
    <3>. QED BY <2>3, <3>1 DEF OfficeVoids
  <2>7. \A v \in Worker : task'[v].at = "void.apply" /\ task'[v].result = "HOMOLOGATED" =>
          task'[v].numero \in office'.voided
    BY <1>1, <2>5, <2>6 DEF Books
  <2>8. \A m \in Number : void'[m] = "HOMOLOGATED" => m \in office'.voided
    BY <1>1, <2>1 DEF Books
  <2>. QED BY <1>1, <2>7, <2>8 DEF Books, NotesBooked
<1>11. ASSUME NEW w \in Worker, VoidUnanswered(w)
       PROVE  Books'
  BY <1>6, <1>11 DEF VoidUnanswered
<1>12. ASSUME NEW w \in Worker, ApplyVoid(w)
       PROVE  Books'
  <2>1. PICK s : Goes(w, After(w, s))
    BY <1>12 DEF ApplyVoid
  <2>2. PICK next : next = After(w, s)
    OBVIOUS
  <2>3. /\ task'[w] = next /\ next.at # "void.apply"
        /\ \A v \in Worker : v # w => task'[v] = task[v]
    BY <2>1, <2>2, OthersStay DEF After, Idle
  <2>4. /\ task[w].at = "void.apply"
        /\ void' = [void EXCEPT ![task[w].numero] = task[w].result]
    BY <1>12 DEF ApplyVoid, At
  <2>5. \A n \in Number : void'[n] = "HOMOLOGATED" => n \in office'.voided
    BY <1>1, <1>2, <2>4 DEF Books
  <2>6. \A v \in Worker : task'[v].at = "void.apply" => task'[v] = task[v]
    BY <2>3
  <2>7. \A v \in Worker : task'[v].at = "void.apply" /\ task'[v].result = "HOMOLOGATED" =>
          task'[v].numero \in office'.voided
    BY <1>1, <2>6 DEF Books
  <2>. QED BY <1>1, <2>5, <2>7 DEF Books, NotesBooked
<1>13. ASSUME NEW w \in Request, Issues(w)
       PROVE  Books'
  <2>1. w \in Worker /\ Quiet(w)
    BY <1>13 DEF Worker, Quiet
  <2>. QED BY <1>3, <2>1
<1>14. ASSUME NEW w \in Worker, Begins(w)
       PROVE  Books'
  <2>1. CASE \E d \in Doc : \/ CheckResend(w, d) \/ StartCancel(w, d) \/ Transmit(w, d)
                            \/ StartDrain(w, d) \/ StartAsk(w, d) \/ ListPending(w, d)
    <3>1. Quiet(w)
      BY <2>1 DEF Quiet
    <3>. QED BY <1>3, <3>1
  <2>2. CASE \E k \in Note : StartOrphan(w, k)
    BY <1>7, <2>2
  <2>3. CASE \E n \in Number : VoidNumber(w, n)
    BY <1>5, <2>3 DEF VoidNumber
  <2>. QED BY <1>14, <2>1, <2>2, <2>3 DEF Begins
<1>15. ASSUME NEW w \in Worker, Continues(w)
       PROVE  Books'
  <2>1. CASE Quiet(w)
    BY <1>3, <2>1
  <2>2. CASE \/ AskOrphan(w) \/ Substitute(w) \/ CloseOrphan(w)
             \/ VoidOrphan(w) \/ SendVoid(w) \/ VoidUnanswered(w) \/ ApplyVoid(w)
    BY <1>8, <1>9, <1>10, <1>11, <1>12, <2>2
  <2>. QED BY <1>15, <2>1, <2>2 DEF Continues, Quiet
<1>16. CASE Happens
  <2>1. UNCHANGED <<void, task>>
    BY <1>16 DEF Happens, LateNote, SetContingency, vars
  <2>. QED BY <1>1, <2>1 DEF Books, NotesBooked
<1>. QED BY <1>13, <1>14, <1>15, <1>16, StepKinds

-----------------------------------------------------------------------------
(* What the layers say together *)

FiscalTracked == FiscalInv /\ Numbers /\ Lines /\ Orphans /\ Books

\* The layers hold in every state: the invariant behind the theorems below.
THEOREM TrackingCorrect == FiscalSpec => []FiscalTracked
<1>1. FiscalInit => FiscalTracked
  BY FiscalStarts, NumbersInit, LinesInit, OrphansInit, BooksInit DEF FiscalTracked
<1>2. FiscalTracked /\ [FiscalNext]_vars => FiscalTracked'
  BY FiscalStep, NumbersStep, LinesStep, OrphansStep, BooksStep DEF FiscalTracked
<1>. QED BY <1>1, <1>2, PTL DEF FiscalSpec

\* Two notes of a sale are never alive at the office without an open orphan under
\* the number of one of them, whatever was resent, counted as lost, or answered out
\* of order: two notes have two numbers, one of which was given up, and an orphan
\* that is closed was cancelled or has a number that the office never authorizes.
THEOREM NoLostDuplicate == FiscalSpec => []DuplicateIsTracked
<1>1. ASSUME FiscalTracked
      PROVE  DuplicateIsTracked
  <2>. SUFFICES ASSUME NEW j \in Note, NEW k \in Note, j[1] = k[1], j # k,
                       office.note[j] = "authorized", office.note[k] = "authorized"
                PROVE  \E n \in 1 .. document[k[1]].try :
                         /\ Open(<<k[1], n>>)
                         /\ Numero(<<k[1], n>>) \in {Numero(j), Numero(k)}
    BY DEF DuplicateIsTracked
  <2>1. FiscalInv /\ Numbers /\ Lines /\ Orphans /\ Books
    BY <1>1 DEF FiscalTracked
  <2>2. PICK d \in Doc, a \in 1 .. MaxTry, b \in 1 .. MaxTry : j = <<d, a>> /\ k = <<d, b>>
    BY DEF Note
  <2>3. Line(d) /\ Len(notes[d]) \in Nat
    BY <2>1, Ranges DEF Lines
  <2>4. AtOffice(d, a) /\ AtOffice(d, b)
    BY <2>2 DEF AtOffice
  <2>5. /\ a \in 1 .. Len(notes[d]) /\ notes[d][a].numero # 0
        /\ b \in 1 .. Len(notes[d]) /\ notes[d][b].numero # 0
    <3>1. /\ a <= Len(notes[d]) /\ notes[d][a].numero # 0
          /\ b <= Len(notes[d]) /\ notes[d][b].numero # 0
      BY <2>3, <2>4 DEF Line, AttemptsSound
    <3>. QED BY <2>3, <3>1
  <2>6. Numero(j) = notes[d][a].numero /\ Numero(k) = notes[d][b].numero
    BY <2>2 DEF Numero
  <2>7. Numero(j) # Numero(k)
    BY <2>1 DEF Books
  <2>8. PICK n \in 1 .. MaxTry :
          Lost(d, n) /\ notes[d][n].numero \in {notes[d][a].numero, notes[d][b].numero}
    BY <2>3, <2>5, <2>6, <2>7 DEF Line, Numbered
  <2>9. PICK m \in Note : m = <<d, n>>
    BY DEF Note
  <2>10. /\ orphan[m] # "none"
         /\ Numero(m) \in {Numero(j), Numero(k)}
    BY <2>6, <2>8, <2>9 DEF Lost, Numero
  <2>11. n \in 1 .. document[d].try /\ Numero(m) \in Number
    <3>1. n < document[d].try /\ Numero(m) \in Number
      BY <2>1, <2>9, <2>10, OrphanNumber
    <3>2. document[d].try \in 0 .. MaxTry
      BY <2>1, Ranges
    <3>. QED BY <3>1, <3>2, FiscalAssumption
  <2>12. Open(m)
    <3>1. orphan[m] \in {"PENDING", "FAILED", "CANCELLED_SUBST", "VOID_REQUESTED"}
      BY <2>1, <2>10 DEF Lines, OrphanStatus
    <3>2. OrphanSound(m)
      BY <2>1 DEF Orphans
    <3>3. CASE orphan[m] = "CANCELLED_SUBST"
      <4>1. office.note[m] = "cancelled"
        BY <3>2, <3>3 DEF OrphanSound, Replaced
      <4>2. m = j \/ m = k
        BY <2>1, <2>10, <4>1 DEF Books
      <4>. QED BY <4>1, <4>2
    <3>4. CASE orphan[m] = "VOID_REQUESTED"
      <4>1. void[Numero(m)] \in {"REQUESTED", "HOMOLOGATED"}
        BY <3>2, <3>4 DEF OrphanSound, Unused, Voided
      <4>2. Numero(m) \notin office.voided
        BY <2>1, <2>10 DEF Books
      <4>3. void[Numero(m)] # "HOMOLOGATED"
        BY <2>1, <2>11, <4>2 DEF Books
      <4>. QED BY <3>4, <4>1, <4>3 DEF Open
    <3>. QED BY <3>1, <3>3, <3>4 DEF Open
  <2>. QED BY <2>2, <2>9, <2>10, <2>11, <2>12
<1>. QED BY <1>1, TrackingCorrect, PTL

\* An orphan is closed for what happened to it: cancelled once another note of the
\* sale is in the office's books, its number asked to be voided once the office is
\* known not to have the note, and neither is undone afterwards.
THEOREM OrphansClosedRightly == FiscalSpec => []OrphanClosedRightly
<1>1. ASSUME FiscalTracked
      PROVE  OrphanClosedRightly
  <2>1. \A k \in Note : OrphanSound(k)
    BY <1>1 DEF FiscalTracked, Orphans
  <2>. QED BY <2>1 DEF OrphanClosedRightly, OrphanSound, Replaced, Unused, Voided, AtOffice
<1>. QED BY <1>1, TrackingCorrect, PTL

-----------------------------------------------------------------------------
(* Types: the bounds on everything else *)

RowBounds(d) ==
  /\ document[d].status = "none" => document[d].numero = 0 /\ document[d].source = FALSE
  /\ \A i \in 1 .. Len(notes[d]) : notes[d][i].misses <= MissLimit

WorldBounds ==
  /\ provenance \in [Doc -> {"none", "live", "retired"}]
  /\ contingency \in {"off", "AUTO", "MANUAL"}
  /\ office.voided \subseteq Number
  /\ office.late \subseteq Note

Types ==
  /\ \A d \in Doc : RowBounds(d)
  /\ WorldBounds
  /\ \A w \in Worker : task[w] \in Task

\* A document that a step writes is one that was issued.
LEMMA Touched ==
  ASSUME FiscalInv, [FiscalNext]_vars, NEW d \in Doc
  PROVE  document'[d] = document[d] \/ document'[d].status # "none"
<1>1. ASSUME NEW w \in Request, Issues(w)
      PROVE  document'[d] = document[d] \/ document'[d].status # "none"
  <2>1. PICK x \in Doc, status \in {"SENT", "CONTINGENCY", "PENDING_SIGNATURE"}, n \in Nat,
             offline \in BOOLEAN :
            EmitIn(w, x, status, n, offline, NextOf(x, status))
    BY <1>1, Issuing
  <2>2. status \in Status
    BY DEF Status
  <2>3. /\ document'[x] = [status |-> status, numero |-> n, try |-> 1, key |-> 0, source |-> FALSE]
        /\ \A e \in Doc : e # x => document'[e] = document[e]
    BY <2>1, <2>2, Issued
  <2>. QED BY <2>3
<1>2. ASSUME NEW w \in Worker, Begins(w)
      PROVE  document'[d] = document[d]
  BY <1>2 DEF Begins, CheckResend, StartCancel, Transmit, StartDrain, StartAsk, ListPending,
              VoidNumber, StartOrphan
<1>3. ASSUME NEW x \in Doc, document[x].status # "none"
      PROVE  /\ \A s : s # "none" /\ document' = [document EXCEPT ![x].status = s] =>
                  document'[d] = document[d] \/ document'[d].status # "none"
             /\ \A n, t : document' = [document EXCEPT ![x].status = "CONTINGENCY", ![x].numero = n,
                                                       ![x].try = t] =>
                  document'[d] = document[d] \/ document'[d].status # "none"
             /\ \A n, t : document' = [document EXCEPT ![x].status = "SENT", ![x].try = t,
                                                       ![x].numero = n] =>
                  document'[d] = document[d] \/ document'[d].status # "none"
             /\ \A s : document' = [document EXCEPT ![x].source = s] =>
                  document'[d] = document[d] \/ document'[d].status # "none"
             /\ \A k, n : document' = [document EXCEPT ![x].status = "AUTHORIZED", ![x].key = k,
                                                       ![x].numero = n, ![x].source = FALSE] =>
                  document'[d] = document[d] \/ document'[d].status # "none"
  <2>1. document \in [Doc -> Row] /\ document[x] \in Row
    BY DEF FiscalInv, RowsTyped
  <2>2. ASSUME NEW s, s # "none", document' = [document EXCEPT ![x].status = s]
        PROVE  document'[d] = document[d] \/ document'[d].status # "none"
    BY <2>1, <2>2 DEF Row
  <2>3. ASSUME NEW n, NEW t, document' = [document EXCEPT ![x].status = "CONTINGENCY", ![x].numero = n,
                                                          ![x].try = t]
        PROVE  document'[d] = document[d] \/ document'[d].status # "none"
    BY <2>1, <2>3 DEF Row
  <2>4. ASSUME NEW n, NEW t, document' = [document EXCEPT ![x].status = "SENT", ![x].try = t,
                                                          ![x].numero = n]
        PROVE  document'[d] = document[d] \/ document'[d].status # "none"
    BY <2>1, <2>4 DEF Row
  <2>5. ASSUME NEW s, document' = [document EXCEPT ![x].source = s]
        PROVE  document'[d] = document[d] \/ document'[d].status # "none"
    BY <1>3, <2>1, <2>5 DEF Row
  <2>6. ASSUME NEW k, NEW n, document' = [document EXCEPT ![x].status = "AUTHORIZED", ![x].key = k,
                                                          ![x].numero = n, ![x].source = FALSE]
        PROVE  document'[d] = document[d] \/ document'[d].status # "none"
    BY <2>1, <2>6 DEF Row
  <2>. QED BY <2>2, <2>3, <2>4, <2>5, <2>6
<1>4. ASSUME NEW w \in Worker, Continues(w)
      PROVE  document'[d] = document[d] \/ document'[d].status # "none"
  <2>1. CASE \/ SessionExpired(w) \/ OfflineFails(w) \/ KeepSent(w) \/ MarkCancelled(w)
             \/ ApplyRejected(w) \/ ApplyNotFound(w)
    <3>1. PICK x : x = task[w].doc
      OBVIOUS
    <3>2. task[w].at \in InCall
      BY <2>1 DEF SessionExpired, OfflineFails, KeepSent, MarkCancelled, ApplyRejected,
                  ApplyNotFound, IsSending, Accepts, At, InCall
    <3>3. x \in Doc /\ document[x].status # "none"
      BY <3>1, <3>2, Held
    <3>4. \E s : s # "none" /\ document' = [document EXCEPT ![x].status = s]
      BY <2>1, <3>1, <3>3 DEF SessionExpired, OfflineFails, KeepSent, MarkCancelled, ApplyRejected,
                  ApplyNotFound
    <3>. QED BY <1>3, <3>3, <3>4
  <2>2. CASE EnterContingency(w) \/ Resend(w) \/ ApplyAuthorized(w) \/ LinkSource(w)
    <3>1. PICK x : x = task[w].doc
      OBVIOUS
    <3>2. task[w].at \in InCall
      BY <2>2 DEF EnterContingency, Resend, ApplyAuthorized, LinkSource, IsSending, Accepts, At, InCall
    <3>3. x \in Doc /\ document[x].status # "none"
      BY <3>1, <3>2, Held
    <3>4. CASE EnterContingency(w)
      <4>1. \E n, t : document' = [document EXCEPT ![x].status = "CONTINGENCY",
                                                   ![x].numero = n, ![x].try = t]
        BY <3>1, <3>4 DEF EnterContingency
      <4>. QED BY <1>3, <3>3, <4>1
    <3>5. CASE Resend(w)
      <4>1. \E n, t : document' = [document EXCEPT ![x].status = "SENT", ![x].try = t,
                                                   ![x].numero = n]
        BY <3>1, <3>5 DEF Resend
      <4>. QED BY <1>3, <3>3, <4>1
    <3>6. CASE ApplyAuthorized(w)
      <4>1. \E k, n : document' = [document EXCEPT ![x].status = "AUTHORIZED", ![x].key = k,
                                                 ![x].numero = n, ![x].source = FALSE]
        BY <3>1, <3>6 DEF ApplyAuthorized
      <4>. QED BY <1>3, <3>3, <4>1
    <3>7. CASE LinkSource(w)
      <4>1. \E s : document' = [document EXCEPT ![x].source = s]
        BY <3>1, <3>7 DEF LinkSource
      <4>. QED BY <1>3, <3>3, <4>1
    <3>. QED BY <2>2, <3>4, <3>5, <3>6, <3>7
  <2>3. CASE \/ ReceiveNote(w) \/ SendFails(w) \/ TransmitFails(w) \/ DropAnswer(w)
             \/ LeaveContingency(w) \/ AttachSource(w) \/ DrainFails(w) \/ PollNote(w)
             \/ AskNote(w) \/ ResendConflict(w) \/ CancelNote(w) \/ RetireSource(w)
             \/ AskOrphan(w) \/ Substitute(w) \/ CloseOrphan(w)
             \/ VoidOrphan(w) \/ SendVoid(w) \/ VoidUnanswered(w) \/ ApplyVoid(w) \/ Dies(w)
    BY <2>3 DEF ReceiveNote, SendFails, TransmitFails, DropAnswer, LeaveContingency, AttachSource,
                DrainFails, PollNote, AskNote, ResendConflict, CancelNote, RetireSource, AskOrphan,
                Substitute, CloseOrphan, VoidOrphan, SendVoid, VoidUnanswered, ApplyVoid, Dies
  <2>. QED BY <1>4, <2>1, <2>2, <2>3 DEF Continues
<1>5. CASE Happens
  BY <1>5 DEF Happens, LateNote, SetContingency, vars
<1>. QED BY <1>1, <1>2, <1>4, <1>5, StepKinds

\* What a task says of the attempt it consults.
LEMMA TaskMisses ==
  ASSUME NEW t \in Task
  PROVE  /\ t.at \in {"ask", "answer"} => t.misses \in 0 .. MissLimit
         /\ t.at = "drain" => t.tick \in BOOLEAN
         /\ t.at = "cancel" => t.source \in BOOLEAN
<1>. QED BY DEF Task, Idle

\* An attempt is recorded with no miss, and counts no more than the limit.
LEMMA RowBoundsStep ==
  ASSUME FiscalInv, Types, [FiscalNext]_vars, NEW d \in Doc
  PROVE  RowBounds(d)'
<1>1. RowBounds(d)
  BY DEF Types
<1>2. document'[d].status = "none" => document'[d].numero = 0 /\ document'[d].source = FALSE
  BY <1>1, Touched DEF RowBounds
<1>. DEFINE Within == \A i \in 1 .. Len(notes'[d]) : notes'[d][i].misses <= MissLimit
<1>3. ASSUME notes'[d] = notes[d]
      PROVE  Within
  BY <1>1, <1>3 DEF RowBounds
<1>4. ASSUME NEW x \in Doc, NEW n \in Nat, NEW offline \in BOOLEAN,
             notes' = [notes EXCEPT ![x] = Append(@, FirstTry(n, offline))]
      PROVE  Within
  <2>1. CASE x # d
    <3>1. notes'[d] = notes[d]
      BY <1>4, <2>1 DEF FiscalInv, RowsTyped
    <3>. QED BY <1>3, <3>1
  <2>2. CASE x = d
    <3>1. /\ notes'[d] = Append(notes[d], FirstTry(n, offline))
          /\ \A e \in Doc : e # d => notes'[e] = notes[e]
      BY <1>4, <2>2 DEF FiscalInv, RowsTyped
    <3>2. FirstTry(n, offline) \in Entry /\ FirstTry(n, offline).misses = 0
      BY DEF FirstTry, Entry
    <3>3. /\ Len(notes'[d]) = Len(notes[d]) + 1
          /\ \A i \in 1 .. Len(notes[d]) : notes'[d][i] = notes[d][i]
          /\ notes'[d][Len(notes[d]) + 1] = FirstTry(n, offline)
      BY <3>1, <3>2, AttemptRecorded
    <3>4. Len(notes[d]) \in Nat
      BY Ranges
    <3>5. 1 .. Len(notes'[d]) = (1 .. Len(notes[d])) \cup {Len(notes[d]) + 1}
      BY <3>3, <3>4
    <3>6. \A i \in 1 .. Len(notes[d]) : notes'[d][i].misses <= MissLimit
      BY <1>1, <3>3 DEF RowBounds
    <3>7. notes'[d][Len(notes[d]) + 1].misses <= MissLimit
      BY <3>2, <3>3, FiscalAssumption
    <3>. QED BY <3>5, <3>6, <3>7
  <2>. QED BY <2>1, <2>2
<1>5. ASSUME NEW w \in Request, Issues(w)
      PROVE  Within
  <2>. HIDE DEF Within
  <2>1. PICK x \in Doc, status \in {"SENT", "CONTINGENCY", "PENDING_SIGNATURE"}, n \in Nat,
             offline \in BOOLEAN :
            EmitIn(w, x, status, n, offline, NextOf(x, status))
    BY <1>5, Issuing
  <2>2. notes' = [notes EXCEPT ![x] = <<FirstTry(n, offline)>>]
    BY <2>1 DEF EmitIn
  <2>3. /\ Len(notes'[x]) = 1
        /\ notes'[x][1] = FirstTry(n, offline)
        /\ \A e \in Doc : e # x => notes'[e] = notes[e]
    BY <2>2 DEF FiscalInv, RowsTyped
  <2>4. FirstTry(n, offline).misses = 0
    BY DEF FirstTry
  <2>5. CASE x = d
    <3>1. \A i \in 1 .. 1 : i = 1
      OBVIOUS
    <3>2. \A i \in 1 .. Len(notes'[d]) : notes'[d][i].misses <= MissLimit
      BY <2>3, <2>4, <2>5, <3>1, FiscalAssumption
    <3>. QED BY <3>2 DEF Within
  <2>6. CASE x # d
    BY <1>3, <2>3, <2>6
  <2>. QED BY <2>5, <2>6
<1>6. ASSUME NEW w \in Worker, EnterContingency(w)
      PROVE  Within
  <2>1. task[w].at \in InCall
    BY <1>6 DEF EnterContingency, IsSending, At, InCall
  <2>2. task[w].doc \in Doc /\ sequence + 1 \in Nat
    BY <2>1, Held DEF FiscalInv, RowsTyped
  <2>3. notes' = [notes EXCEPT ![task[w].doc] = Append(@, FirstTry(sequence + 1, TRUE))]
    BY <1>6 DEF EnterContingency
  <2>. QED BY <1>4, <2>2, <2>3
<1>7. ASSUME NEW w \in Worker, Resend(w)
      PROVE  Within
  <2>1. task[w].at = "resend" /\ task[w].at \in InCall
    BY <1>7 DEF Resend, At, InCall
  <2>2. PICK x \in Doc : x = task[w].doc
    BY <2>1, Held
  <2>3. PICK try : try = task[w].try
    OBVIOUS
  <2>4. /\ try \in 2 .. MaxTry
        /\ try <= Len(notes[x]) + 1
        /\ task[w].numero \in Nat
    <3>1. SoundTask(task[w])
      BY <2>1, Held
    <3>. QED BY <2>1, <2>2, <2>3, <3>1 DEF SoundTask
  <2>5. PICK n : /\ n = IF task[w].numero = 0 THEN sequence + 1 ELSE task[w].numero
                 /\ notes' = [notes EXCEPT ![x] = Append(@, FirstTry(n, @[try - 1].offline))]
    BY <1>7, <2>2, <2>3 DEF Resend
  <2>6. n \in Nat
    BY <2>4, <2>5 DEF FiscalInv, RowsTyped
  <2>7. Len(notes[x]) \in Nat /\ \A i \in 1 .. Len(notes[x]) : notes[x][i] \in Entry
    BY Ranges
  <2>8. try - 1 \in 1 .. Len(notes[x])
    BY <2>4, <2>7, FiscalAssumption
  <2>9. PICK offline \in BOOLEAN : offline = notes[x][try - 1].offline
    BY <2>7, <2>8 DEF Entry
  <2>10. notes' = [notes EXCEPT ![x] = Append(@, FirstTry(n, offline))]
    BY <2>5, <2>9 DEF FiscalInv, RowsTyped
  <2>. QED BY <1>4, <2>6, <2>10
<1>8. ASSUME NEW w \in Worker, ApplyNotFound(w)
      PROVE  Within
  <2>. HIDE DEF Within
  <2>1. task[w].at = "answer" /\ task[w].at \in InCall
    BY <1>8 DEF ApplyNotFound, Accepts, At, InCall
  <2>2. PICK x \in Doc : x = task[w].doc
    BY <2>1, Held
  <2>3. PICK try, misses : try = task[w].try /\ misses = task[w].misses
    OBVIOUS
  <2>4. try \in 1 .. Len(notes[x])
    <3>1. SoundTask(task[w])
      BY <2>1, Held
    <3>. QED BY <2>1, <2>2, <2>3, <3>1 DEF SoundTask
  <2>5. misses \in 0 .. MissLimit
    BY <2>1, <2>3, TaskMisses DEF Types
  <2>6. CountsMisses(x, try, misses)
    BY <1>8, <2>2, <2>3 DEF ApplyNotFound, CountsMisses
  <2>7. /\ \A e \in Doc : e # x => notes'[e] = notes[e]
        /\ \A e \in Doc : Len(notes'[e]) = Len(notes[e])
        /\ \A e \in Doc : \A i \in 1 .. Len(notes[e]) : notes'[e][i].numero = notes[e][i].numero
        /\ notes'[x][try].misses = misses
        /\ \A i \in 1 .. Len(notes[x]) : i # try => notes'[x][i] = notes[x][i]
    BY <2>4, <2>6, MissesWritten
  <2>8. CASE x = d
    <3>1. \A i \in 1 .. Len(notes[d]) : notes'[d][i].misses <= MissLimit
      <4>. SUFFICES ASSUME NEW i \in 1 .. Len(notes[d])
                    PROVE  notes'[d][i].misses <= MissLimit
        OBVIOUS
      <4>1. CASE i = try
        BY <2>5, <2>7, <2>8, <4>1, FiscalAssumption
      <4>2. CASE i # try
        BY <1>1, <2>7, <2>8, <4>2 DEF RowBounds
      <4>. QED BY <4>1, <4>2
    <3>. QED BY <2>7, <2>8, <3>1 DEF Within
  <2>9. CASE x # d
    BY <1>3, <2>7, <2>9
  <2>. QED BY <2>8, <2>9
<1>9. ASSUME NEW w \in Worker, Begins(w)
      PROVE  Within
  <2>1. UNCHANGED notes
    BY <1>9 DEF Begins, CheckResend, StartCancel, Transmit, StartDrain, StartAsk, ListPending,
                VoidNumber, StartOrphan
  <2>. QED BY <1>3, <2>1
<1>10. ASSUME NEW w \in Worker, Continues(w)
       PROVE  Within
  <2>1. CASE \/ ReceiveNote(w) \/ SessionExpired(w) \/ OfflineFails(w) \/ SendFails(w) \/ KeepSent(w)
             \/ TransmitFails(w) \/ ApplyAuthorized(w) \/ ApplyRejected(w) \/ DropAnswer(w)
             \/ LeaveContingency(w) \/ AttachSource(w) \/ DrainFails(w) \/ LinkSource(w)
             \/ PollNote(w) \/ AskNote(w) \/ ResendConflict(w) \/ CancelNote(w)
             \/ MarkCancelled(w) \/ RetireSource(w) \/ AskOrphan(w) \/ Substitute(w) \/ CloseOrphan(w)
             \/ VoidOrphan(w) \/ SendVoid(w) \/ VoidUnanswered(w) \/ ApplyVoid(w) \/ Dies(w)
    <3>1. UNCHANGED notes
      BY <2>1 DEF ReceiveNote, SessionExpired, OfflineFails, SendFails, KeepSent, TransmitFails,
                  ApplyAuthorized, ApplyRejected, DropAnswer, LeaveContingency, AttachSource,
                  DrainFails, LinkSource, PollNote, AskNote, ResendConflict, CancelNote,
                  MarkCancelled, RetireSource, AskOrphan, Substitute, CloseOrphan, VoidOrphan, SendVoid,
                  VoidUnanswered, ApplyVoid, Dies
    <3>. QED BY <1>3, <3>1
  <2>. QED BY <1>6, <1>7, <1>8, <1>10, <2>1 DEF Continues
<1>11. ASSUME Happens
       PROVE  Within
  <2>1. UNCHANGED notes
    BY <1>11 DEF Happens, LateNote, SetContingency, vars
  <2>. QED BY <1>3, <2>1
<1>12. Within
  <2>. HIDE DEF Within
  <2>. QED BY <1>5, <1>9, <1>10, <1>11, StepKinds
<1>. QED BY <1>2, <1>12 DEF RowBounds

\* The provenance, the contingency and the office stay what they may be.
LEMMA WorldBoundsStep ==
  ASSUME FiscalInv, Lines, Orphans, Types, [FiscalNext]_vars
  PROVE  WorldBounds'
<1>. DEFINE Proved == provenance' \in [Doc -> {"none", "live", "retired"}]
            Unit == contingency' \in {"off", "AUTO", "MANUAL"}
            Office == office'.voided \subseteq Number
<1>1. WorldBounds
  BY DEF Types
<1>2. office'.late \subseteq Note
  <2>1. /\ office = [note |-> office.note, voided |-> office.voided, late |-> office.late]
        /\ office.late \subseteq Note
    BY <1>1 DEF FiscalInv, RowsTyped, WorldBounds
  <2>2. OfficeTurns
    BY Turns
  <2>3. CASE UNCHANGED <<office>> \/ \E n : OfficeVoids(n)
    BY <2>1, <2>3 DEF OfficeVoids
  <2>4. CASE \E k : office.note[k] = "authorized" /\ office' = [office EXCEPT !.note[k] = "cancelled"]
    BY <2>1, <2>4
  <2>5. CASE \E k \in Note : \/ office' = Authorize(k)
                             \/ office' = [office EXCEPT !.late = @ \ {k}]
                             \/ office' = [office EXCEPT !.late = @ \cup {k}]
    BY <2>1, <2>5 DEF Authorize
  <2>. QED BY <2>2, <2>3, <2>4, <2>5 DEF OfficeTurns
<1>3. /\ \A k : office' = Authorize(k) => Office
      /\ \A l : office' = [office EXCEPT !.late = l] => Office
      /\ \A k : office' = [office EXCEPT !.note[k] = "cancelled"] => Office
      /\ \A n \in Number : OfficeVoids(n) => Office
      /\ office' = office => Office
  <2>1. /\ office = [note |-> office.note, voided |-> office.voided, late |-> office.late]
        /\ office.voided \subseteq Number
    BY <1>1 DEF FiscalInv, RowsTyped, WorldBounds
  <2>2. ASSUME NEW k, office' = Authorize(k)
        PROVE  Office
    BY <2>1, <2>2 DEF Authorize
  <2>3. ASSUME NEW l, office' = [office EXCEPT !.late = l]
        PROVE  Office
    BY <2>1, <2>3
  <2>4. ASSUME NEW k, office' = [office EXCEPT !.note[k] = "cancelled"]
        PROVE  Office
    BY <2>1, <2>4
  <2>5. ASSUME NEW n \in Number, OfficeVoids(n)
        PROVE  Office
    BY <2>1, <2>5 DEF OfficeVoids
  <2>. QED BY <2>1, <2>2, <2>3, <2>4, <2>5
<1>4. ASSUME NEW w \in Worker, Abandon(w)
      PROVE  Office
  BY <1>3, <1>4 DEF Abandon
<1>5. /\ UNCHANGED <<provenance>> => Proved
      /\ UNCHANGED <<contingency>> => Unit
      /\ UNCHANGED <<office>> => Office
  BY <1>1, <1>3 DEF WorldBounds
<1>6. ASSUME NEW w \in Request, Issues(w)
      PROVE  Proved /\ Unit /\ Office
  <2>1. UNCHANGED <<provenance, contingency, office>>
    BY <1>6 DEF Issues, Emit, EmitOffline, EmitUnsigned, EmitIn
  <2>. QED BY <1>5, <2>1
<1>7. ASSUME NEW w \in Worker, Begins(w)
      PROVE  Proved /\ Unit /\ Office
  <2>1. UNCHANGED <<provenance, contingency, office>>
    BY <1>7 DEF Begins, CheckResend, StartCancel, Transmit, StartDrain, StartAsk, ListPending,
              VoidNumber, StartOrphan
  <2>. QED BY <1>5, <2>1
<1>8. ASSUME NEW w \in Worker, Continues(w)
      PROVE  Proved /\ Unit /\ Office
  <2>. HIDE DEF Proved, Unit, Office
  <2>1. CASE \/ SessionExpired(w) \/ KeepSent(w) \/ ApplyAuthorized(w) \/ ApplyRejected(w)
             \/ ApplyNotFound(w) \/ DropAnswer(w) \/ DrainFails(w) \/ PollNote(w)
             \/ AskNote(w) \/ Resend(w) \/ ResendConflict(w) \/ MarkCancelled(w) \/ CloseOrphan(w) \/ VoidOrphan(w)
             \/ ApplyVoid(w) \/ Dies(w)
    <3>1. UNCHANGED <<provenance, contingency, office>>
      BY <2>1 DEF SessionExpired, KeepSent, ApplyAuthorized, ApplyRejected, ApplyNotFound, DropAnswer,
                  DrainFails, PollNote, AskNote, Resend, ResendConflict, MarkCancelled, CloseOrphan,
                  VoidOrphan, ApplyVoid, Dies
    <3>. QED BY <1>5, <3>1
  <2>2. CASE OfflineFails(w) \/ SendFails(w) \/ TransmitFails(w)
    <3>1. Abandon(w) /\ UNCHANGED <<provenance, contingency>>
      BY <2>2 DEF OfflineFails, SendFails, TransmitFails
    <3>. QED BY <1>4, <1>5, <3>1
  <2>3. CASE EnterContingency(w)
    <3>1. /\ Abandon(w) /\ UNCHANGED <<provenance>>
          /\ contingency' = IF contingency = "off" THEN "AUTO" ELSE contingency
      BY <2>3 DEF EnterContingency
    <3>2. Unit
      BY <1>1, <3>1 DEF WorldBounds, Unit
    <3>. QED BY <1>4, <1>5, <3>1, <3>2
  <2>4. CASE LeaveContingency(w) \/ AskOrphan(w)
    <3>1. /\ UNCHANGED <<provenance, office>>
          /\ contingency' = IF contingency = "AUTO" THEN "off" ELSE contingency
      BY <2>4 DEF LeaveContingency, AskOrphan
    <3>2. Unit
      BY <1>1, <3>1 DEF WorldBounds, Unit
    <3>. QED BY <1>5, <3>1, <3>2
  <2>5. CASE AttachSource(w) \/ LinkSource(w) \/ RetireSource(w)
    <3>1. UNCHANGED <<contingency, office>>
      BY <2>5 DEF AttachSource, LinkSource, RetireSource
    <3>2. Proved
      BY <1>1, <2>5 DEF AttachSource, LinkSource, RetireSource, WorldBounds, Proved
    <3>. QED BY <1>5, <3>1, <3>2
  <2>6. CASE ReceiveNote(w)
    <3>1. /\ UNCHANGED <<provenance, contingency>>
          /\ \/ \E k : office' = Authorize(k)
             \/ \E k : office' = [office EXCEPT !.late = @ \ {k}]
      BY <2>6 DEF ReceiveNote
    <3>. QED BY <1>3, <1>5, <3>1
  <2>7. CASE CancelNote(w) \/ Substitute(w)
    <3>1. /\ UNCHANGED <<provenance, contingency>>
          /\ UNCHANGED office \/ \E k : office' = [office EXCEPT !.note[k] = "cancelled"]
      BY <2>7 DEF CancelNote, Substitute
    <3>. QED BY <1>3, <1>5, <3>1
  <2>8. CASE SendVoid(w) \/ VoidUnanswered(w)
    <3>1. /\ UNCHANGED <<provenance, contingency>>
          /\ task[w].at = "void.send"
          /\ OfficeVoids(task[w].numero) \/ UNCHANGED office
      BY <2>8 DEF SendVoid, VoidUnanswered, At
    <3>2. task[w].numero \in Number
      BY <3>1 DEF Orphans, VoidSound
    <3>. QED BY <1>3, <1>5, <3>1, <3>2
  <2>. QED BY <1>8, <2>1, <2>2, <2>3, <2>4, <2>5, <2>6, <2>7, <2>8 DEF Continues
<1>9. ASSUME Happens
      PROVE  Proved /\ Unit /\ Office
  <2>. HIDE DEF Proved, Unit, Office
  <2>1. ASSUME NEW k \in Note, LateNote(k)
        PROVE  Proved /\ Unit /\ Office
    <3>1. /\ UNCHANGED <<provenance, contingency>>
          /\ office' = Authorize(k) \/ office' = [office EXCEPT !.late = @ \ {k}]
      BY <2>1 DEF LateNote
    <3>. QED BY <1>3, <1>5, <3>1
  <2>2. ASSUME NEW s \in {"off", "MANUAL"}, SetContingency(s)
        PROVE  Proved /\ Unit /\ Office
    <3>1. UNCHANGED <<provenance, office>> /\ contingency' = s
      BY <2>2 DEF SetContingency
    <3>2. Unit
      BY <3>1 DEF Unit
    <3>. QED BY <1>5, <3>1, <3>2
  <2>3. CASE UNCHANGED vars
    BY <1>5, <2>3 DEF vars
  <2>. QED BY <1>9, <2>1, <2>2, <2>3 DEF Happens
<1>10. Proved /\ Unit /\ Office
  <2>. HIDE DEF Proved, Unit, Office
  <2>. QED BY <1>6, <1>7, <1>8, <1>9, StepKinds
<1>. QED BY <1>2, <1>10 DEF WorldBounds

\* The forms of a task.
LEMMA TaskForms ==
  ASSUME NEW d \in Doc, NEW n \in 1 .. MaxTry, NEW b \in BOOLEAN
  PROVE  /\ Idle \in Task
         /\ [at |-> "leave"] \in Task
         /\ [at |-> "send", doc |-> d, try |-> n, tick |-> b] \in Task
         /\ \A s \in Status : \A m \in 0 .. MaxNumber :
              [at |-> "resend", doc |-> d, from |-> s, numero |-> m, try |-> n] \in Task
         /\ \A r \in 0 .. MaxTry : [at |-> "poll", doc |-> d, try |-> n, ref |-> r] \in Task
         /\ \A k \in 1 .. MaxTry : \A m \in 0 .. MissLimit :
              /\ [at |-> "ask", doc |-> d, try |-> n, key |-> k, misses |-> m] \in Task
              /\ \A r \in {"AUTHORIZED", "REJECTED", "217"} : \A by \in {"send", "tick", "ask"} :
                   [at |-> "answer", doc |-> d, try |-> n, key |-> k, result |-> r, by |-> by,
                    misses |-> m] \in Task
         /\ [at |-> "keep", doc |-> d] \in Task
         /\ [at |-> "retire", doc |-> d] \in Task
         /\ [at |-> "cancelled", doc |-> d, source |-> b] \in Task
         /\ [at |-> "cancel", doc |-> d, key |-> n, source |-> b] \in Task
         /\ [at |-> "drain", doc |-> d, tick |-> b] \in Task
         /\ \A a \in BOOLEAN : [at |-> "link", doc |-> d, tick |-> b, authorized |-> a] \in Task
<1>. USE DEF Task
<1>1. Idle \in Task /\ [at |-> "leave"] \in Task
  OBVIOUS
<1>2. [at |-> "send", doc |-> d, try |-> n, tick |-> b] \in Task
  OBVIOUS
<1>3. ASSUME NEW s \in Status, NEW m \in 0 .. MaxNumber
      PROVE  [at |-> "resend", doc |-> d, from |-> s, numero |-> m, try |-> n] \in Task
  OBVIOUS
<1>4. ASSUME NEW k \in 1 .. MaxTry, NEW m \in 0 .. MissLimit
      PROVE  [at |-> "ask", doc |-> d, try |-> n, key |-> k, misses |-> m] \in Task
  OBVIOUS
<1>5. ASSUME NEW k \in 1 .. MaxTry, NEW m \in 0 .. MissLimit,
             NEW r \in {"AUTHORIZED", "REJECTED", "217"}, NEW by \in {"send", "tick", "ask"}
      PROVE  [at |-> "answer", doc |-> d, try |-> n, key |-> k, result |-> r, by |-> by,
              misses |-> m] \in Task
  OBVIOUS
<1>6. [at |-> "keep", doc |-> d] \in Task /\ [at |-> "retire", doc |-> d] \in Task
  OBVIOUS
<1>7. /\ [at |-> "cancelled", doc |-> d, source |-> b] \in Task
      /\ [at |-> "cancel", doc |-> d, key |-> n, source |-> b] \in Task
  OBVIOUS
<1>8. [at |-> "drain", doc |-> d, tick |-> b] \in Task
  OBVIOUS
<1>9. \A a \in BOOLEAN : [at |-> "link", doc |-> d, tick |-> b, authorized |-> a] \in Task
  OBVIOUS
<1>10. \A r \in 0 .. MaxTry : [at |-> "poll", doc |-> d, try |-> n, ref |-> r] \in Task
  OBVIOUS
<1>. HIDE DEF Task
<1>. QED BY <1>1, <1>2, <1>3, <1>4, <1>5, <1>6, <1>7, <1>8, <1>9, <1>10

\* A consultation is a task: of the key of the note, with the misses of its attempt.
LEMMA Consults ==
  ASSUME FiscalInv, Types, NEW d \in Doc, document[d].status # "none",
         NEW n \in 1 .. MaxTry, NEW ref \in 0 .. MaxTry
  PROVE  Consultation(d, n, ref) \in Task
<1>1. PICK try, m, k : /\ try = document[d].try
                       /\ m = notes[d][try].misses
                       /\ k = IF ref # 0 THEN ref ELSE try
  OBVIOUS
<1>2. try \in 1 .. MaxTry /\ try \in 1 .. Len(notes[d])
  BY <1>1, Ranges
<1>3. k \in 1 .. MaxTry
  BY <1>1, <1>2, FiscalAssumption
<1>4. m \in 0 .. MissLimit
  <2>1. notes[d][try] \in Entry /\ notes[d][try].misses <= MissLimit
    BY <1>2, Ranges DEF Types, RowBounds
  <2>. QED BY <1>1, <2>1, FiscalAssumption DEF Entry
<1>5. [at |-> "ask", doc |-> d, try |-> n, key |-> k, misses |-> m] \in Task
  BY <1>3, <1>4, TaskForms
<1>. QED BY <1>1, <1>5 DEF Consultation

\* The forms of a task that is about an orphan or a number.
LEMMA OrphanForms ==
  ASSUME NEW k \in Note
  PROVE  /\ \A r \in 0 .. MaxTry : [at |-> "orphan", note |-> k, ref |-> r] \in Task
         /\ \A r \in 1 .. MaxTry : [at |-> "substitute", note |-> k, ref |-> r] \in Task
         /\ [at |-> "void", note |-> k] \in Task
         /\ \A s \in {"CANCELLED_SUBST", "VOID_REQUESTED", "FAILED"} :
              [at |-> "close", note |-> k, as |-> s] \in Task
<1>. USE DEF Task
<1>1. \A r \in 0 .. MaxTry : [at |-> "orphan", note |-> k, ref |-> r] \in Task
  OBVIOUS
<1>2. \A r \in 1 .. MaxTry : [at |-> "substitute", note |-> k, ref |-> r] \in Task
  OBVIOUS
<1>3. [at |-> "void", note |-> k] \in Task
  OBVIOUS
<1>4. \A s \in {"CANCELLED_SUBST", "VOID_REQUESTED", "FAILED"} :
         [at |-> "close", note |-> k, as |-> s] \in Task
  OBVIOUS
<1>. HIDE DEF Task
<1>. QED BY <1>1, <1>2, <1>3, <1>4

\* The two tasks of a voiding, with or without an orphan, are tasks.
LEMMA VoidForms ==
  ASSUME NEW n \in Number, NEW note \in Note \cup {<<>>}
  PROVE  /\ [at |-> "void.send", numero |-> n, note |-> note] \in Task
         /\ \A r \in {"HOMOLOGATED", "REJECTED"} :
              [at |-> "void.apply", numero |-> n, note |-> note, result |-> r] \in Task
<1>. USE DEF Task
<1>1. [at |-> "void.send", numero |-> n, note |-> note] \in Task
  OBVIOUS
<1>2. \A r \in {"HOMOLOGATED", "REJECTED"} :
         [at |-> "void.apply", numero |-> n, note |-> note, result |-> r] \in Task
  OBVIOUS
<1>. HIDE DEF Task
<1>. QED BY <1>1, <1>2

\* What a worker begins, or is sent on to when a sale is issued, is a task.
LEMMA BeginsTask ==
  ASSUME FiscalInv, Numbers, Lines, Orphans, Types, NEW w \in Worker,
         Begins(w) \/ (w \in Request /\ Issues(w))
  PROVE  \E next \in Task : Goes(w, next)
<1>1. CASE w \in Request /\ Issues(w)
  <2>1. PICK d \in Doc, status \in {"SENT", "CONTINGENCY", "PENDING_SIGNATURE"}, n \in Nat,
             offline \in BOOLEAN :
            EmitIn(w, d, status, n, offline, NextOf(d, status))
    BY <1>1, Issuing
  <2>2. Goes(w, NextOf(d, status))
    BY <2>1 DEF EmitIn
  <2>3. 1 \in 1 .. MaxTry /\ FALSE \in BOOLEAN
    BY FiscalAssumption
  <2>4. NextOf(d, status) \in Task
    BY <2>3, TaskForms DEF NextOf
  <2>. QED BY <2>2, <2>4
<1>2. ASSUME NEW d \in Doc, CheckResend(w, d)
      PROVE  \E next \in Task : Goes(w, next)
  <2>1. PICK s, m, n : /\ s = document[d].status /\ m = document[d].numero /\ n = document[d].try + 1
                       /\ s \in {"REJECTED", "PENDING_SIGNATURE"}
                       /\ document[d].try < MaxTry
                       /\ Goes(w, [at |-> "resend", doc |-> d, from |-> s, numero |-> m, try |-> n])
    BY <1>2 DEF CheckResend
  <2>2. n \in 1 .. MaxTry
    BY <2>1, Ranges, FiscalAssumption
  <2>3. m \in 0 .. MaxNumber
    BY <2>1, NumbersBounded DEF Numbers
  <2>4. s \in Status
    BY <2>1 DEF Status
  <2>5. [at |-> "resend", doc |-> d, from |-> s, numero |-> m, try |-> n] \in Task
    BY <2>2, <2>3, <2>4, TaskForms
  <2>. QED BY <2>1, <2>5
<1>3. ASSUME NEW d \in Doc, StartCancel(w, d)
      PROVE  \E next \in Task : Goes(w, next)
  <2>1. PICK k, b : /\ k = document[d].key /\ b = document[d].source
                    /\ document[d].status = "AUTHORIZED"
                    /\ Goes(w, [at |-> "cancel", doc |-> d, key |-> k, source |-> b])
    BY <1>3 DEF StartCancel
  <2>2. document[d] \in Row /\ DocSound(d)
    BY DEF FiscalInv, RowsTyped
  <2>3. b \in BOOLEAN /\ k \in 0 .. MaxTry /\ k # 0
    BY <2>1, <2>2 DEF Row, DocSound
  <2>4. k \in 1 .. MaxTry
    BY <2>3, FiscalAssumption
  <2>5. [at |-> "cancel", doc |-> d, key |-> k, source |-> b] \in Task
    BY <2>3, <2>4, TaskForms
  <2>. QED BY <2>1, <2>5
<1>4. ASSUME NEW d \in Doc, Transmit(w, d)
      PROVE  \E next \in Task : Goes(w, next)
  <2>1. PICK n : /\ n = document[d].try
                 /\ document[d].status = "CONTINGENCY"
                 /\ Goes(w, [at |-> "send", doc |-> d, try |-> n, tick |-> TRUE])
    BY <1>4 DEF Transmit
  <2>2. n \in 1 .. MaxTry
    BY <2>1, Ranges
  <2>3. [at |-> "send", doc |-> d, try |-> n, tick |-> TRUE] \in Task
    BY <2>2, TaskForms
  <2>. QED BY <2>1, <2>3
<1>5. ASSUME NEW d \in Doc, StartDrain(w, d)
      PROVE  \E next \in Task : Goes(w, next)
  <2>1. Goes(w, [at |-> "drain", doc |-> d, tick |-> FALSE])
    BY <1>5 DEF StartDrain
  <2>2. 1 \in 1 .. MaxTry
    BY FiscalAssumption
  <2>3. [at |-> "drain", doc |-> d, tick |-> FALSE] \in Task
    BY <2>2, TaskForms
  <2>. QED BY <2>1, <2>3
<1>6. ASSUME NEW d \in Doc, StartAsk(w, d) \/ ListPending(w, d)
      PROVE  \E next \in Task : Goes(w, next)
  <2>1. PICK n, k : n = document[d].try /\ k = document[d].key
    OBVIOUS
  <2>2. document[d].status # "none"
    BY <1>6 DEF StartAsk, ListPending, PENDING_STATUSES
  <2>3. n \in 1 .. MaxTry /\ k \in 0 .. MaxTry
    BY <2>1, <2>2, Ranges
  <2>4. \/ Goes(w, Consultation(d, n, k))
        \/ Goes(w, [at |-> "poll", doc |-> d, try |-> n, ref |-> k])
    BY <1>6, <2>1 DEF StartAsk, ListPending
  <2>5. [at |-> "poll", doc |-> d, try |-> n, ref |-> k] \in Task
    BY <2>3, TaskForms
  <2>. QED BY <2>2, <2>3, <2>4, <2>5, Consults
<1>7. ASSUME NEW n \in Number, VoidNumber(w, n)
      PROVE  \E next \in Task : Goes(w, next)
  <2>1. PICK note \in Note \cup {<<>>} :
          Goes(w, [at |-> "void.send", numero |-> n, note |-> note])
    BY <1>7 DEF VoidNumber, RequestVoidOf
  <2>. QED BY <2>1, VoidForms
<1>8. ASSUME NEW k \in Note, StartOrphan(w, k)
      PROVE  \E next \in Task : Goes(w, next)
  <2>1. PICK r : /\ r = (IF document[k[1]].status = "AUTHORIZED" THEN document[k[1]].key ELSE 0)
                 /\ Goes(w, [at |-> "orphan", note |-> k, ref |-> r])
    BY <1>8 DEF StartOrphan
  <2>2. k[1] \in Doc
    BY DEF Note
  <2>3. r \in 0 .. MaxTry
    BY <2>1, <2>2, Ranges, FiscalAssumption
  <2>. QED BY <2>1, <2>3, OrphanForms
<1>. QED BY <1>1, <1>2, <1>3, <1>4, <1>5, <1>6, <1>7, <1>8 DEF Begins

\* What a worker goes on with about a document is a task.
LEMMA ContinuesTask ==
  ASSUME FiscalInv, Types, NEW w \in Worker,
         \/ ReceiveNote(w) \/ SendFails(w) \/ ApplyAuthorized(w) \/ ApplyRejected(w)
         \/ ApplyNotFound(w) \/ AttachSource(w) \/ DrainFails(w) \/ LinkSource(w)
         \/ PollNote(w) \/ AskNote(w) \/ Resend(w) \/ CancelNote(w) \/ MarkCancelled(w)
  PROVE  \E next \in Task : Goes(w, next)
<1>1. PICK d, t : t = task[w] /\ d = task[w].doc
  OBVIOUS
<1>2. t.at \in InCall
  BY <1>1 DEF ReceiveNote, SendFails, IsSending, ApplyAuthorized, ApplyRejected, ApplyNotFound,
              Accepts, AttachSource, DrainFails, LinkSource, PollNote, AskNote, Resend, CancelNote,
              MarkCancelled, At, InCall
<1>3. d \in Doc /\ document[d].status # "none" /\ SoundTask(t)
  BY <1>1, <1>2, Held
<1>4. /\ t.at \in {"send", "answer", "poll", "ask"} => t.try \in 1 .. MaxTry
      /\ t.at = "poll" => t.ref \in 0 .. MaxTry
      /\ t.at \in {"answer", "ask"} => t.key \in 1 .. MaxTry
      /\ t.at = "resend" => t.try \in 1 .. MaxTry
  <2>1. Len(notes[d]) \in Nat
    BY <1>3, Ranges
  <2>. QED BY <1>1, <1>3, <2>1, FiscalAssumption DEF SoundTask
<1>5. /\ t.at \in {"ask", "answer"} => t.misses \in 0 .. MissLimit
      /\ t.at = "drain" => t.tick \in BOOLEAN
      /\ t.at = "cancel" => t.source \in BOOLEAN
  BY <1>1, TaskMisses DEF Types
<1>6. 1 \in 1 .. MaxTry /\ 0 \in 0 .. MissLimit
  BY FiscalAssumption
<1>7. Idle \in Task /\ [at |-> "leave"] \in Task
  BY <1>3, <1>6, TaskForms
<1>8. CASE ReceiveNote(w)
  <2>1. PICK n, r, by : /\ n = t.try /\ r \in {"AUTHORIZED", "REJECTED", "217"}
                        /\ by \in {"send", "tick", "ask"}
                        /\ Goes(w, [at |-> "answer", doc |-> d, try |-> n, key |-> n, result |-> r,
                                    by |-> by, misses |-> 0])
    BY <1>1, <1>8 DEF ReceiveNote, Found
  <2>2. t.at = "send"
    BY <1>1, <1>8 DEF ReceiveNote, At
  <2>3. n \in 1 .. MaxTry
    BY <1>4, <2>1, <2>2
  <2>. QED BY <1>3, <1>6, <2>1, <2>3, TaskForms
<1>9. CASE SendFails(w)
  <2>1. Goes(w, [at |-> "keep", doc |-> d])
    BY <1>1, <1>9 DEF SendFails
  <2>2. [at |-> "keep", doc |-> d] \in Task
    BY <1>3, <1>6, TaskForms
  <2>. QED BY <2>1, <2>2
<1>10. CASE ApplyAuthorized(w)
  <2>1. PICK b \in BOOLEAN : Goes(w, [at |-> "drain", doc |-> d, tick |-> b])
    BY <1>1, <1>10 DEF ApplyAuthorized
  <2>2. [at |-> "drain", doc |-> d, tick |-> b] \in Task
    BY <1>3, <1>6, TaskForms
  <2>. QED BY <2>1, <2>2
<1>11. CASE ApplyRejected(w) \/ ApplyNotFound(w) \/ DrainFails(w) \/ LinkSource(w)
  <2>1. \E next \in {Idle, [at |-> "leave"]} : Goes(w, next)
    BY <1>11 DEF ApplyRejected, ApplyNotFound, Then, DrainFails, LinkSource
  <2>. QED BY <1>7, <2>1
<1>12. CASE AttachSource(w)
  <2>1. PICK b, a : /\ b = t.tick /\ t.at = "drain" /\ a = (document[d].status = "AUTHORIZED")
                    /\ Goes(w, [at |-> "link", doc |-> d, tick |-> b, authorized |-> a])
    BY <1>1, <1>12 DEF AttachSource, At
  <2>2. b \in BOOLEAN /\ a \in BOOLEAN
    BY <1>5, <2>1
  <2>3. [at |-> "link", doc |-> d, tick |-> b, authorized |-> a] \in Task
    BY <1>3, <1>6, <2>2, TaskForms
  <2>. QED BY <2>1, <2>3
<1>13. CASE AskNote(w)
  <2>1. PICK n, k, r, m : /\ n = t.try /\ k = t.key /\ t.at = "ask"
                          /\ r \in {"AUTHORIZED", "217"}
                          /\ m \in Counted(t.misses) \cup {0}
                          /\ Goes(w, [at |-> "answer", doc |-> d, try |-> n, key |-> k, result |-> r,
                                      by |-> "ask", misses |-> m])
    BY <1>1, <1>13 DEF AskNote, Found, At
  <2>2. n \in 1 .. MaxTry /\ k \in 1 .. MaxTry
    BY <1>4, <2>1
  <2>3. m \in 0 .. MissLimit
    BY <2>1, FiscalAssumption DEF Counted
  <2>4. [at |-> "answer", doc |-> d, try |-> n, key |-> k, result |-> r, by |-> "ask",
         misses |-> m] \in Task
    BY <1>3, <1>6, <2>1, <2>2, <2>3, TaskForms
  <2>. QED BY <2>1, <2>4
<1>17. CASE PollNote(w)
  <2>1. PICK n, r : /\ n = t.try /\ r = t.ref /\ t.at = "poll"
                    /\ Goes(w, Consultation(d, n, r))
    BY <1>1, <1>17 DEF PollNote, At
  <2>. QED BY <1>3, <1>4, <2>1, Consults
<1>14. CASE Resend(w)
  <2>1. PICK n : /\ n = t.try /\ t.at = "resend"
                 /\ Goes(w, [at |-> "send", doc |-> d, try |-> n, tick |-> FALSE])
    BY <1>1, <1>14 DEF Resend, At
  <2>2. [at |-> "send", doc |-> d, try |-> n, tick |-> FALSE] \in Task
    BY <1>3, <1>4, <2>1, TaskForms
  <2>. QED BY <2>1, <2>2
<1>15. CASE CancelNote(w)
  <2>1. PICK b : /\ b = t.source /\ t.at = "cancel"
                 /\ \/ Goes(w, [at |-> "cancelled", doc |-> d, source |-> b])
                    \/ Goes(w, Idle)
    BY <1>1, <1>15 DEF CancelNote, Leaves, At
  <2>2. [at |-> "cancelled", doc |-> d, source |-> b] \in Task
    BY <1>3, <1>5, <1>6, <2>1, TaskForms
  <2>. QED BY <1>7, <2>1, <2>2
<1>16. CASE MarkCancelled(w)
  <2>1. \E next \in {Idle, [at |-> "retire", doc |-> d]} : Goes(w, next)
    BY <1>1, <1>16 DEF MarkCancelled
  <2>2. [at |-> "retire", doc |-> d] \in Task
    BY <1>3, <1>6, TaskForms
  <2>. QED BY <1>7, <2>1, <2>2
<1>. QED BY <1>8, <1>9, <1>10, <1>11, <1>12, <1>13, <1>14, <1>15, <1>16, <1>17

\* What a worker goes on with about an orphan or a number is a task.
LEMMA ResolvesTask ==
  ASSUME FiscalInv, Numbers, Lines, Orphans, NEW w \in Worker, Idle \in Task,
         \/ AskOrphan(w) \/ Substitute(w) \/ VoidOrphan(w) \/ SendVoid(w) \/ VoidUnanswered(w)
         \/ ApplyVoid(w)
  PROVE  \E next \in Task : Goes(w, next)
<1>1. PICK t, k : t = task[w] /\ k = task[w].note
  OBVIOUS
<1>2. Carried(w) /\ VoidSound(w)
  BY DEF Lines, Orphans
<1>3. CASE AskOrphan(w) \/ Substitute(w)
  <2>1. t.at \in {"orphan", "substitute"}
    BY <1>1, <1>3 DEF AskOrphan, Substitute, At
  <2>2. k \in Note /\ orphan[k] # "none"
    BY <1>1, <1>2, <2>1 DEF Carried
  <2>3. ResolveSound(w, k) /\ Resolves(w, k)
    BY <1>1, <2>1, <2>2 DEF Orphans, Resolves
  <2>4. t.at = "orphan" => t.ref \in 0 .. MaxTry
    BY <1>1, <2>3 DEF ResolveSound
  <2>5. CASE AskOrphan(w)
    <3>1. PICK r : /\ r = t.ref /\ t.at = "orphan"
                   /\ \/ Goes(w, [at |-> "void", note |-> k])
                      \/ r # 0 /\ Goes(w, [at |-> "substitute", note |-> k, ref |-> r])
                      \/ Goes(w, Idle)
      BY <1>1, <2>5 DEF AskOrphan, At
    <3>2. r # 0 => r \in 1 .. MaxTry
      BY <2>4, <3>1, FiscalAssumption
    <3>. QED BY <2>2, <3>1, <3>2, OrphanForms
  <2>6. CASE Substitute(w)
    <3>1. PICK s \in {"CANCELLED_SUBST", "FAILED"} :
            Goes(w, [at |-> "close", note |-> k, as |-> s])
      BY <1>1, <2>6 DEF Substitute
    <3>. QED BY <2>2, <3>1, OrphanForms
  <2>. QED BY <1>3, <2>5, <2>6
<1>4. ASSUME NEW s \in {"VOID_REQUESTED", "FAILED"}, k \in Note \cup {<<>>}, Goes(w, After(w, s))
      PROVE  \E next \in Task : Goes(w, next)
  <2>1. After(w, s) = IF k = <<>> THEN Idle ELSE [at |-> "close", note |-> k, as |-> s]
    BY <1>1 DEF After
  <2>. QED BY <1>4, <2>1, OrphanForms
<1>5. CASE VoidOrphan(w)
  <2>1. t.at = "void"
    BY <1>1, <1>5 DEF VoidOrphan, At
  <2>2. k \in Note /\ orphan[k] # "none"
    BY <1>1, <1>2, <2>1 DEF Carried
  <2>3. PICK n : /\ n = Numero(k)
                 /\ \/ Goes(w, [at |-> "void.send", numero |-> n, note |-> k])
                    \/ Goes(w, After(w, "FAILED"))
    BY <1>1, <1>5 DEF VoidOrphan, RequestVoidOf
  <2>4. n \in Number
    BY <2>2, <2>3, OrphanNumber
  <2>. QED BY <1>4, <2>2, <2>3, <2>4, VoidForms
<1>6. CASE SendVoid(w) \/ VoidUnanswered(w) \/ ApplyVoid(w)
  <2>1. t.at \in {"void.send", "void.apply"}
    BY <1>1, <1>6 DEF SendVoid, VoidUnanswered, ApplyVoid, At
  <2>2. k \in Note \cup {<<>>}
    BY <1>1, <1>2, <2>1 DEF Carried
  <2>3. CASE SendVoid(w)
    <3>1. PICK n, r :
            /\ n = t.numero /\ r \in {"HOMOLOGATED", "REJECTED"}
            /\ Goes(w, [at |-> "void.apply", numero |-> n, note |-> k, result |-> r])
      BY <1>1, <2>3 DEF SendVoid
    <3>2. n \in Number
      BY <1>1, <1>2, <2>1, <3>1 DEF VoidSound
    <3>. QED BY <2>2, <3>1, <3>2, VoidForms
  <2>4. CASE VoidUnanswered(w) \/ ApplyVoid(w)
    <3>1. \E s \in {"VOID_REQUESTED", "FAILED"} : Goes(w, After(w, s))
      BY <2>4 DEF VoidUnanswered, ApplyVoid
    <3>. QED BY <1>4, <2>2, <3>1
  <2>. QED BY <1>6, <2>3, <2>4
<1>. QED BY <1>3, <1>5, <1>6

\* Every step keeps the bounds.
LEMMA TypesStep ==
  ASSUME FiscalInv, Numbers, Lines, Orphans, Types, [FiscalNext]_vars
  PROVE  Types'
<1>1. \A d \in Doc : RowBounds(d)'
  BY RowBoundsStep
<1>2. WorldBounds'
  BY WorldBoundsStep
<1>3. ASSUME NEW w \in Worker, \E next \in Task : Goes(w, next)
      PROVE  \A v \in Worker : task'[v] \in Task
  <2>1. PICK next \in Task : Goes(w, next)
    BY <1>3
  <2>2. task'[w] = next /\ \A v \in Worker : v # w => task'[v] = task[v]
    BY <2>1, OthersStay
  <2>. QED BY <2>1, <2>2 DEF Types
<1>4. Idle \in Task
  BY DEF Task
<1>5. ASSUME NEW w \in Request, Issues(w)
      PROVE  \A v \in Worker : task'[v] \in Task
  <2>1. w \in Worker
    BY DEF Worker
  <2>. QED BY <1>3, <1>5, <2>1, BeginsTask
<1>6. ASSUME NEW w \in Worker, Begins(w)
      PROVE  \A v \in Worker : task'[v] \in Task
  BY <1>3, <1>6, BeginsTask
<1>7. ASSUME NEW w \in Worker, Continues(w)
      PROVE  \A v \in Worker : task'[v] \in Task
  <2>1. CASE \/ SessionExpired(w) \/ OfflineFails(w) \/ EnterContingency(w) \/ KeepSent(w)
             \/ TransmitFails(w) \/ DropAnswer(w) \/ LeaveContingency(w) \/ ResendConflict(w)
             \/ RetireSource(w) \/ CloseOrphan(w) \/ Dies(w)
    <3>1. Goes(w, Idle)
      BY <2>1 DEF SessionExpired, OfflineFails, EnterContingency, KeepSent, TransmitFails, DropAnswer,
                  LeaveContingency, ResendConflict, RetireSource, CloseOrphan, Dies, Leaves
    <3>. QED BY <1>3, <1>4, <3>1
  <2>2. CASE \/ ReceiveNote(w) \/ SendFails(w) \/ ApplyAuthorized(w) \/ ApplyRejected(w)
             \/ ApplyNotFound(w) \/ AttachSource(w) \/ DrainFails(w) \/ LinkSource(w)
             \/ PollNote(w) \/ AskNote(w) \/ Resend(w) \/ CancelNote(w) \/ MarkCancelled(w)
    BY <1>3, <2>2, ContinuesTask
  <2>3. CASE \/ AskOrphan(w) \/ Substitute(w) \/ VoidOrphan(w) \/ SendVoid(w) \/ VoidUnanswered(w)
             \/ ApplyVoid(w)
    BY <1>3, <1>4, <2>3, ResolvesTask
  <2>. QED BY <1>7, <2>1, <2>2, <2>3 DEF Continues
<1>8. ASSUME Happens
      PROVE  \A v \in Worker : task'[v] \in Task
  <2>1. UNCHANGED task
    BY <1>8 DEF Happens, LateNote, SetContingency, vars
  <2>. QED BY <2>1 DEF Types
<1>9. \A v \in Worker : task'[v] \in Task
  BY <1>5, <1>6, <1>7, <1>8, StepKinds
<1>. QED BY <1>1, <1>2, <1>9 DEF Types

\* The bounds hold at first: no sale was issued, and nobody does anything.
LEMMA TypesInit == FiscalInit => Types
<1>. SUFFICES ASSUME FiscalInit
              PROVE  Types
  OBVIOUS
<1>1. ASSUME NEW d \in Doc
      PROVE  RowBounds(d)
  <2>1. document[d].numero = 0 /\ document[d].source = FALSE /\ notes[d] = <<>>
    BY DEF FiscalInit, Unissued
  <2>. QED BY <2>1 DEF RowBounds
<1>2. WorldBounds
  BY DEF FiscalInit, WorldBounds
<1>3. Idle \in Task
  BY DEF Task
<1>. QED BY <1>1, <1>2, <1>3 DEF Types, FiscalInit

\* What the layers make of the rows: numbers of the series, attempts within
\* their bound, and as many of them as the row says.
LEMMA RowsBounded ==
  ASSUME FiscalInv, Numbers, Lines, Types, NEW d \in Doc
  PROVE  /\ document[d] \in Document \cup {Unissued}
         /\ notes[d] \in Seq(Attempt)
         /\ Len(notes[d]) = document[d].try
<1>1. document[d] \in Row /\ notes[d] \in Seq(Entry) /\ DocSound(d)
  BY DEF FiscalInv, RowsTyped
<1>2. RowSound(d) /\ RowBounds(d)
  BY DEF Lines, Line, Types
<1>3. Len(notes[d]) = document[d].try
  BY <1>2 DEF RowSound
<1>4. NumbersOf(d) \subseteq 0 .. MaxNumber
  BY NumbersBounded
<1>5. ASSUME document[d].status = "none"
      PROVE  document[d] = Unissued
  <2>1. document[d].try = 0
    BY <1>1, <1>3, <1>5 DEF DocSound
  <2>2. document[d].key = 0
    <3>1. document[d].key \in Nat /\ document[d].key <= 0
      BY <1>1, <1>5, Ranges, FiscalAssumption DEF DocSound
    <3>. QED BY <3>1
  <2>3. document[d].numero = 0 /\ document[d].source = FALSE
    BY <1>2, <1>5 DEF RowBounds
  <2>4. document[d] = [status |-> document[d].status, numero |-> document[d].numero,
                       try |-> document[d].try, key |-> document[d].key,
                       source |-> document[d].source]
    BY <1>1 DEF Row
  <2>. QED BY <1>5, <2>1, <2>2, <2>3, <2>4 DEF Unissued
<1>6. ASSUME document[d].status # "none"
      PROVE  document[d] \in Document
  <2>1. document[d].numero \in 0 .. MaxNumber
    BY <1>4, <1>6 DEF Numbers
  <2>2. document[d].try \in 1 .. MaxTry
    BY <1>6, Ranges
  <2>3. document[d].status \in Status
    BY <1>6, Ranges
  <2>. QED BY <1>1, <2>1, <2>2, <2>3 DEF Row, Document
<1>7. ASSUME NEW i \in 1 .. Len(notes[d])
      PROVE  notes[d][i] \in Attempt
  <2>1. notes[d][i] \in Entry /\ notes[d][i].misses <= MissLimit
    BY <1>1, <1>2 DEF RowBounds
  <2>2. notes[d][i].numero \in 0 .. MaxNumber
    BY <1>4 DEF NumbersOf
  <2>3. notes[d][i].misses \in 0 .. MissLimit
    BY <2>1, FiscalAssumption DEF Entry
  <2>. QED BY <2>1, <2>2, <2>3 DEF Entry, Attempt
<1>8. notes[d] \in Seq(Attempt)
  BY <1>1, <1>7
<1>. QED BY <1>3, <1>5, <1>6, <1>8

\* Every variable keeps its type, the bounds included: no number beyond the
\* series, no more misses than the limit, no attempt that the row does not count,
\* no task of a shape that the program does not know.
THEOREM FiscalTypes == FiscalSpec => []FiscalTypeOK
<1>1. FiscalInit => Types
  BY TypesInit
<1>2. FiscalTracked /\ Types /\ [FiscalNext]_vars => Types'
  BY TypesStep DEF FiscalTracked
<1>3. ASSUME FiscalTracked, Types
      PROVE  FiscalTypeOK
  <2>1. FiscalInv /\ Numbers /\ Lines /\ Orphans
    BY <1>3 DEF FiscalTracked
  <2>2. \A d \in Doc : /\ document[d] \in Document \cup {Unissued}
                       /\ notes[d] \in Seq(Attempt)
                       /\ Len(notes[d]) = document[d].try
    BY <1>3, <2>1, RowsBounded
  <2>3. document \in [Doc -> Document \cup {Unissued}] /\ notes \in [Doc -> Seq(Attempt)]
    BY <2>1, <2>2 DEF FiscalInv, RowsTyped
  <2>4. orphan \in [Note -> {"none", "PENDING", "CANCELLED_SUBST", "VOID_REQUESTED", "FAILED"}]
    BY <2>1 DEF Lines, OrphanStatus
  <2>5. attachment \in [Doc -> {"none", "PENDING", "ATTACHED", "DONE"}]
    BY <2>1 DEF FiscalInv, RowsTyped
  <2>6. sequence \in 0 .. MaxNumber
    BY <2>1, NumbersBounded
  <2>7. void \in [Number -> {"none", "REQUESTED", "HOMOLOGATED", "REJECTED"}]
    BY <2>1 DEF Orphans, VoidStatus
  <2>8. /\ provenance \in [Doc -> {"none", "live", "retired"}]
        /\ contingency \in {"off", "AUTO", "MANUAL"}
    BY <1>3 DEF Types, WorldBounds
  <2>9. office \in [note : [Note -> {"none", "authorized", "cancelled"}],
                    voided : SUBSET Number, late : SUBSET Note]
    <3>1. /\ office.note \in [Note -> {"none", "authorized", "cancelled"}]
          /\ office = [note |-> office.note, voided |-> office.voided, late |-> office.late]
      BY <2>1 DEF FiscalInv, RowsTyped
    <3>2. office.voided \in SUBSET Number /\ office.late \in SUBSET Note
      BY <1>3 DEF Types, WorldBounds
    <3>. QED BY <3>1, <3>2
  <2>10. task \in [Worker -> Task]
    BY <1>3, <2>1 DEF Types, FiscalInv, RowsTyped
  <2>. QED BY <2>2, <2>3, <2>4, <2>5, <2>6, <2>7, <2>8, <2>9, <2>10 DEF FiscalTypeOK
<1>. QED BY <1>1, <1>2, <1>3, TrackingCorrect, PTL DEF FiscalSpec
=============================================================================

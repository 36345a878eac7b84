---------------------------- MODULE FiscalProofs ----------------------------
(***************************************************************************)
(* Proofs about FiscalDocument, for every set of sales, requests and jobs, *)
(* any number of attempts and misses, with or without crashes.             *)
(***************************************************************************)
EXTENDS FiscalDocument, TLAPS

-----------------------------------------------------------------------------
(* The inductive invariant *)

Row == [status : Status \cup {"none"}, numero : Nat, try : 0 .. MaxTry,
        key : 0 .. MaxTry, source : BOOLEAN]
Entry == [numero : Nat, offline : BOOLEAN, misses : Nat]

\* The types the argument needs: no bound on the numbers of the series.
RowsTyped ==
  /\ document \in [Doc -> Row]
  /\ notes \in [Doc -> Seq(Entry)]
  /\ attachment \in [Doc -> {"none", "PENDING", "ATTACHED", "DONE"}]
  /\ sequence \in Nat
  /\ office.note \in [Note -> {"none", "authorized", "cancelled"}]
  /\ office = [note |-> office.note, voided |-> office.voided, late |-> office.late]
  /\ task = [w \in Worker |-> task[w]]

\* A document has its key from the moment it has its attachment, and never
\* another one; authorized and cancelled are what the office made of that key.
DocSound(d) ==
  /\ document[d].status = "none" => Len(notes[d]) = 0
  /\ document[d].status # "none" => document[d].try \in 1 .. Len(notes[d])
  /\ document[d].key <= Len(notes[d])
  /\ document[d].key = 0 <=> attachment[d] = "none"
  /\ document[d].status = "AUTHORIZED" =>
       /\ document[d].key # 0
       /\ office.note[<<d, document[d].key>>] # "none"
       /\ document[d].numero = notes[d][document[d].key].numero
  /\ document[d].status = "CANCELLED" =>
       /\ document[d].key # 0
       /\ office.note[<<d, document[d].key>>] = "cancelled"

\* Where a task is about a document that exists.
InCall == {"send", "answer", "poll", "ask", "resend", "keep", "cancel", "cancelled", "drain",
           "link"}

\* What a task holds across its calls is about attempts that exist, and an
\* answer or an event it carries has happened at the office.
SoundTask(t) ==
  /\ t.at \in InCall => t.doc \in Doc /\ document[t.doc].status # "none"
  /\ t.at \in {"send", "answer", "poll", "ask"} =>
       t.try \in 1 .. Len(notes[t.doc]) /\ t.try <= MaxTry
  /\ t.at = "poll" => t.ref \in 0 .. Len(notes[t.doc]) /\ t.ref <= MaxTry
  /\ t.at \in {"answer", "ask"} =>
       /\ t.key \in 1 .. Len(notes[t.doc])
       /\ t.key <= MaxTry
       /\ t.misses \in Nat
  /\ t.at = "answer" /\ t.result = "AUTHORIZED" => office.note[<<t.doc, t.key>>] # "none"
  /\ t.at = "resend" =>
       /\ t.try \in 2 .. MaxTry
       /\ t.try <= Len(notes[t.doc]) + 1
       /\ t.numero \in Nat
  /\ t.at \in {"cancel", "cancelled", "drain", "link"} => document[t.doc].key # 0
  /\ t.at = "cancel" => t.key = document[t.doc].key
  /\ t.at = "cancelled" => office.note[<<t.doc, document[t.doc].key>>] = "cancelled"
  /\ t.at = "link" => t.authorized \in BOOLEAN

FiscalInv ==
  /\ RowsTyped
  /\ \A d \in Doc : DocSound(d)
  /\ \A w \in Worker : SoundTask(task[w])

-----------------------------------------------------------------------------
(* What every step has in common *)

\* Documents stay and keep their key, attempts their numbers, and the office
\* neither forgets a note nor revives one.
Keeps ==
  /\ \A d \in Doc :
       /\ document[d].status # "none" => document'[d].status # "none"
       /\ document[d].key # 0 => document'[d].key = document[d].key
       /\ Len(notes[d]) <= Len(notes'[d])
       /\ \A i \in 1 .. Len(notes[d]) : notes'[d][i].numero = notes[d][i].numero
  /\ \A k \in Note :
       /\ office.note[k] # "none" => office'.note[k] # "none"
       /\ office.note[k] = "cancelled" => office'.note[k] = "cancelled"

\* The shapes of one document and of its attempts.
LEMMA RowShape ==
  ASSUME RowsTyped, NEW d \in Doc
  PROVE  /\ document[d] \in Row
         /\ notes[d] \in Seq(Entry)
         /\ Len(notes[d]) \in Nat
         /\ \A i \in 1 .. Len(notes[d]) : notes[d][i] \in Entry
  BY DEF RowsTyped

\* A sound task stays sound while its worker does something else.
LEMMA TaskStays ==
  ASSUME RowsTyped, RowsTyped', Keeps, NEW v \in Worker, task'[v] = task[v],
         SoundTask(task[v])
  PROVE  SoundTask(task[v])'
<1>1. ASSUME NEW d \in Doc
      PROVE  /\ Len(notes[d]) \in Nat /\ Len(notes'[d]) \in Nat
             /\ Len(notes[d]) <= Len(notes'[d])
             /\ document[d].status # "none" => document'[d].status # "none"
             /\ document[d].key # 0 => document'[d].key = document[d].key
             /\ document[d].key \in 0 .. MaxTry
  BY DEF Keeps, RowsTyped, Row
<1>2. ASSUME NEW d \in Doc, NEW n \in 1 .. MaxTry
      PROVE  /\ office.note[<<d, n>>] # "none" => office'.note[<<d, n>>] # "none"
             /\ office.note[<<d, n>>] = "cancelled" => office'.note[<<d, n>>] = "cancelled"
  <2>1. <<d, n>> \in Note
    BY DEF Note
  <2>. QED BY <2>1 DEF Keeps
<1>. DEFINE t == task[v]
            at == t.at
            d == t.doc
<1>3. task'[v] = t
  OBVIOUS
<1>4. SoundTask(t)
  OBVIOUS
<1>. HIDE DEF t
<1>5. CASE d \notin Doc
  <2>1. at \notin InCall
    BY <1>4, <1>5 DEF SoundTask
  <2>. QED BY <1>3, <2>1 DEF SoundTask, InCall
<1>6. CASE d \in Doc
  <2>. HIDE DEF d
  <2>1. t.key \in 1 .. MaxTry /\ office.note[<<d, t.key>>] # "none" =>
          office'.note[<<d, t.key>>] # "none"
    BY <1>2, <1>6
  <2>2. document[d].key # 0 /\ office.note[<<d, document[d].key>>] = "cancelled" =>
          office'.note[<<d, document'[d].key>>] = "cancelled"
    <3>1. document[d].key # 0 => document[d].key \in 1 .. MaxTry
      BY <1>1, <1>6, FiscalAssumption
    <3>. QED BY <1>1, <1>2, <1>6, <3>1
  <2>3. t.doc = d
    BY DEF d
  <2>. QED BY <1>1, <1>3, <1>4, <1>6, <2>1, <2>2, <2>3, FiscalAssumption DEF SoundTask
<1>. QED BY <1>5, <1>6

\* A document that is left alone stays sound.
LEMMA DocStays ==
  ASSUME RowsTyped, RowsTyped', Keeps, NEW d \in Doc, DocSound(d),
         document'[d] = document[d], notes'[d] = notes[d],
         attachment'[d] = "none" <=> attachment[d] = "none"
  PROVE  DocSound(d)'
<1>1. /\ Len(notes[d]) \in Nat /\ document[d].key \in 0 .. MaxTry
      /\ \A n \in 1 .. MaxTry :
           /\ office.note[<<d, n>>] # "none" => office'.note[<<d, n>>] # "none"
           /\ office.note[<<d, n>>] = "cancelled" => office'.note[<<d, n>>] = "cancelled"
  BY FiscalAssumption DEF Keeps, RowsTyped, Row, Note
<1>. QED BY <1>1, FiscalAssumption DEF DocSound

\* A document that a step leaves alone.
DocKept(d) ==
  /\ document'[d] = document[d]
  /\ notes'[d] = notes[d]
  /\ attachment'[d] = "none" <=> attachment[d] = "none"

\* A step of one worker, and the documents it rewrites.
LEMMA StepFrame ==
  ASSUME FiscalInv, RowsTyped', Keeps, NEW w \in Worker, NEW next,
         task' = [task EXCEPT ![w] = next], SoundTask(task[w])',
         \A d \in Doc : DocSound(d)' \/ DocKept(d)
  PROVE  FiscalInv'
<1>1. \A v \in Worker \ {w} : task'[v] = task[v]
  BY DEF FiscalInv, RowsTyped
<1>2. \A v \in Worker \ {w} : SoundTask(task[v])'
  BY <1>1, TaskStays DEF FiscalInv
<1>3. \A d \in Doc : DocSound(d)'
  BY DocStays DEF FiscalInv, DocKept
<1>. QED BY <1>2, <1>3 DEF FiscalInv

\* What a worker holds after it goes on.
LEMMA GoesTo ==
  ASSUME RowsTyped, NEW w \in Worker, NEW next, task' = [task EXCEPT ![w] = next]
  PROVE  task'[w] = next /\ task' = [v \in Worker |-> task'[v]]
  BY DEF RowsTyped

\* Steps that only move the worker, and what is not in the invariant.
LEMMA QuietSteps ==
  ASSUME FiscalInv, NEW w \in Worker, NEW next, Goes(w, next), SoundTask(next),
         UNCHANGED <<document, notes, attachment, office>>, sequence' \in Nat
  PROVE  FiscalInv'
<1>1. task' = [task EXCEPT ![w] = next] /\ task'[w] = next /\ RowsTyped'
  BY GoesTo DEF FiscalInv, RowsTyped, Goes
<1>2. Keeps
  BY DEF FiscalInv, RowsTyped, Keeps
<1>3. SoundTask(task[w])'
  BY <1>1 DEF SoundTask
<1>4. \A d \in Doc : DocKept(d)
  BY DEF DocKept
<1>. QED BY <1>1, <1>2, <1>3, <1>4, StepFrame

\* A worker with nothing in hand, or with what the invariant does not speak of.
LEMMA Harmless ==
  ASSUME NEW t, t.at \notin InCall
  PROVE  SoundTask(t)
  BY DEF SoundTask, InCall

\* The same, of a worker after a step.
LEMMA HarmlessNext ==
  ASSUME NEW w \in Worker, task'[w].at \notin InCall
  PROVE  SoundTask(task[w])'
  BY DEF SoundTask, InCall

\* What a task in a call holds.
LEMMA Held ==
  ASSUME FiscalInv, NEW w \in Worker, task[w].at \in InCall
  PROVE  /\ task[w].doc \in Doc
         /\ document[task[w].doc].status # "none"
         /\ DocSound(task[w].doc)
         /\ SoundTask(task[w])
  BY DEF FiscalInv, SoundTask, InCall

\* An office that forgets no note and revives none.
OfficeGoesOn ==
  /\ office'.note \in [Note -> {"none", "authorized", "cancelled"}]
  /\ office' = [note |-> office'.note, voided |-> office'.voided, late |-> office'.late]
  /\ \A k \in Note :
       /\ office.note[k] # "none" => office'.note[k] # "none"
       /\ office.note[k] = "cancelled" => office'.note[k] = "cancelled"

\* An office whose notes stay as they are.
LEMMA OfficeStays ==
  ASSUME RowsTyped, NEW voided, NEW late,
         \/ UNCHANGED office
         \/ office' = [office EXCEPT !.late = late]
         \/ office' = [office EXCEPT !.voided = voided]
  PROVE  OfficeGoesOn /\ office'.note = office.note
<1>1. office = [note |-> office.note, voided |-> office.voided, late |-> office.late]
  BY DEF RowsTyped
<1>2. CASE UNCHANGED office
  BY <1>2 DEF RowsTyped, OfficeGoesOn
<1>3. CASE office' = [office EXCEPT !.late = late]
  <2>1. office' = [note |-> office.note, voided |-> office.voided, late |-> late]
    BY <1>1, <1>3
  <2>. QED BY <2>1 DEF RowsTyped, OfficeGoesOn
<1>4. CASE office' = [office EXCEPT !.voided = voided]
  <2>1. office' = [note |-> office.note, voided |-> voided, late |-> office.late]
    BY <1>1, <1>4
  <2>. QED BY <2>1 DEF RowsTyped, OfficeGoesOn
<1>. QED BY <1>2, <1>3, <1>4

\* An office that authorizes a note it does not have: none with the number.
LEMMA OfficeAuthorizes ==
  ASSUME RowsTyped, NEW k \in Note, CanAuthorize(k), office' = Authorize(k)
  PROVE  OfficeGoesOn /\ office'.note[k] # "none"
<1>1. office = [note |-> office.note, voided |-> office.voided, late |-> office.late]
  BY DEF RowsTyped
<1>2. office' = [note |-> [office.note EXCEPT ![k] = "authorized"], voided |-> office.voided,
                 late |-> office.late \ {k}]
  BY <1>1 DEF Authorize
<1>3. office.note[k] = "none"
  BY DEF CanAuthorize, NumberTaken
<1>. QED BY <1>2, <1>3 DEF RowsTyped, OfficeGoesOn

\* An office that cancels a note it has authorized.
LEMMA OfficeCancels ==
  ASSUME RowsTyped, NEW k, office.note[k] = "authorized",
         office' = [office EXCEPT !.note[k] = "cancelled"]
  PROVE  OfficeGoesOn /\ (k \in Note => office'.note[k] = "cancelled")
<1>1. office = [note |-> office.note, voided |-> office.voided, late |-> office.late]
  BY DEF RowsTyped
<1>2. office' = [note |-> [office.note EXCEPT ![k] = "cancelled"], voided |-> office.voided,
                 late |-> office.late]
  BY <1>1
<1>3. office'.note = [office.note EXCEPT ![k] = "cancelled"]
  BY <1>2
<1>4. /\ office'.note \in [Note -> {"none", "authorized", "cancelled"}]
      /\ k \in Note => office'.note[k] = "cancelled"
      /\ \A m \in Note \ {k} : office'.note[m] = office.note[m]
  BY <1>3 DEF RowsTyped
<1>5. office' = [note |-> office'.note, voided |-> office'.voided, late |-> office'.late]
  BY <1>2
<1>. QED BY <1>4, <1>5 DEF OfficeGoesOn

-----------------------------------------------------------------------------
(* Kinds of steps *)

\* Steps that move a worker and the office.
LEMMA OfficeSteps ==
  ASSUME FiscalInv, NEW w \in Worker, NEW next, Goes(w, next), SoundTask(task[w])',
         OfficeGoesOn, UNCHANGED <<document, notes, attachment, sequence>>
  PROVE  FiscalInv'
<1>1. task' = [task EXCEPT ![w] = next] /\ RowsTyped'
  BY GoesTo DEF FiscalInv, RowsTyped, Goes, OfficeGoesOn
<1>2. Keeps
  BY DEF FiscalInv, RowsTyped, Keeps, OfficeGoesOn
<1>3. \A d \in Doc : DocKept(d)
  BY DEF DocKept
<1>. QED BY <1>1, <1>2, <1>3, StepFrame

\* Steps that rewrite the row of a document, and record no attempt and no key.
LEMMA RowSteps ==
  ASSUME FiscalInv, NEW w \in Worker, NEW next, Goes(w, next), SoundTask(task[w])',
         NEW d \in Doc, document[d].status # "none",
         NEW r \in Row, document' = [document EXCEPT ![d] = r],
         r.status # "none", r.try = document[d].try, r.key = document[d].key,
         r.status = "AUTHORIZED" =>
           document[d].status = "AUTHORIZED" /\ r.numero = document[d].numero,
         r.status = "CANCELLED" =>
           \/ document[d].status = "CANCELLED"
           \/ document[d].key # 0 /\ office.note[<<d, document[d].key>>] = "cancelled",
         attachment' \in [Doc -> {"none", "PENDING", "ATTACHED", "DONE"}],
         \A e \in Doc : attachment'[e] = "none" <=> attachment[e] = "none",
         OfficeGoesOn, office'.note = office.note, UNCHANGED <<notes, sequence>>
  PROVE  FiscalInv'
<1>1. task' = [task EXCEPT ![w] = next] /\ RowsTyped'
  BY GoesTo DEF FiscalInv, RowsTyped, Goes, OfficeGoesOn
<1>2. document'[d] = r /\ \A e \in Doc \ {d} : document'[e] = document[e]
  BY DEF FiscalInv, RowsTyped
<1>3. Keeps
  BY <1>2 DEF FiscalInv, RowsTyped, Keeps, OfficeGoesOn
<1>4. DocSound(d)'
  BY <1>2 DEF FiscalInv, DocSound
<1>5. \A e \in Doc \ {d} : DocKept(e)
  BY <1>2 DEF DocKept
<1>. QED BY <1>1, <1>3, <1>4, <1>5, StepFrame

\* Steps that rewrite the row and the attempts of a document.
LEMMA NoteSteps ==
  ASSUME FiscalInv, NEW w \in Worker, NEW next, Goes(w, next), SoundTask(task[w])',
         NEW d \in Doc, NEW r \in Row, NEW n \in Seq(Entry),
         document' = [document EXCEPT ![d] = r], notes' = [notes EXCEPT ![d] = n],
         r.status \notin {"none", "AUTHORIZED", "CANCELLED"}, r.key = document[d].key,
         r.try \in 1 .. Len(n), Len(notes[d]) <= Len(n),
         \A i \in 1 .. Len(notes[d]) : n[i].numero = notes[d][i].numero,
         OfficeGoesOn, attachment' = attachment, sequence' \in Nat
  PROVE  FiscalInv'
<1>1. task' = [task EXCEPT ![w] = next] /\ RowsTyped'
  BY GoesTo DEF FiscalInv, RowsTyped, Goes, OfficeGoesOn
<1>2. /\ document'[d] = r /\ \A e \in Doc \ {d} : document'[e] = document[e]
      /\ notes'[d] = n /\ \A e \in Doc \ {d} : notes'[e] = notes[e]
  BY DEF FiscalInv, RowsTyped
<1>3. Keeps
  <2>1. \A e \in Doc \ {d} : Len(notes[e]) <= Len(notes'[e])
    BY <1>2, RowShape DEF FiscalInv
  <2>. QED BY <1>2, <2>1 DEF Keeps, OfficeGoesOn
<1>4. DocSound(d)'
  <2>1. document[d].key <= Len(notes[d])
    BY DEF FiscalInv, DocSound
  <2>2. document[d].key \in Nat /\ Len(notes[d]) \in Nat /\ Len(n) \in Nat
    BY RowShape, FiscalAssumption DEF FiscalInv, Row
  <2>. QED BY <1>2, <2>1, <2>2 DEF FiscalInv, DocSound
<1>5. \A e \in Doc \ {d} : DocKept(e)
  BY <1>2 DEF DocKept
<1>. QED BY <1>1, <1>3, <1>4, <1>5, StepFrame

\* Steps of the office, or of the operator's switch, that move no worker.
LEMMA WorldSteps ==
  ASSUME FiscalInv, OfficeGoesOn, UNCHANGED <<document, notes, attachment, sequence, task>>
  PROVE  FiscalInv'
<1>1. RowsTyped' /\ Keeps
  BY DEF FiscalInv, RowsTyped, OfficeGoesOn, Keeps
<1>2. \A w \in Worker : SoundTask(task[w])'
  BY <1>1, TaskStays DEF FiscalInv
<1>3. \A d \in Doc : DocSound(d)'
  BY <1>1, DocStays DEF FiscalInv
<1>. QED BY <1>1, <1>2, <1>3 DEF FiscalInv

\* Steps that write only the status of a document, and leave it.
LEMMA StatusSteps ==
  ASSUME FiscalInv, NEW w \in Worker, NEW next, Goes(w, next), next.at \notin InCall,
         NEW d \in Doc, document[d].status # "none",
         NEW s \in Status, document' = [document EXCEPT ![d].status = s],
         s = "AUTHORIZED" => document[d].status = "AUTHORIZED",
         s = "CANCELLED" =>
           \/ document[d].status = "CANCELLED"
           \/ document[d].key # 0 /\ office.note[<<d, document[d].key>>] = "cancelled",
         OfficeGoesOn, office'.note = office.note, UNCHANGED <<notes, attachment, sequence>>
  PROVE  FiscalInv'
<1>. DEFINE r == [document[d] EXCEPT !.status = s]
<1>1. document' = [document EXCEPT ![d] = r]
  BY DEF FiscalInv, RowsTyped
<1>2. /\ r \in Row
      /\ r.status = s
      /\ r.numero = document[d].numero
      /\ r.try = document[d].try
      /\ r.key = document[d].key
  BY RowShape DEF FiscalInv, Row
<1>3. s # "none"
  BY DEF Status
<1>4. SoundTask(task[w])'
  BY GoesTo, HarmlessNext DEF FiscalInv, Goes
<1>5. /\ attachment' \in [Doc -> {"none", "PENDING", "ATTACHED", "DONE"}]
      /\ \A e \in Doc : attachment'[e] = "none" <=> attachment[e] = "none"
  BY DEF FiscalInv, RowsTyped
<1>. HIDE DEF r
<1>. QED BY <1>1, <1>2, <1>3, <1>4, <1>5, RowSteps

-----------------------------------------------------------------------------
(* Emission *)

\* What is left of a request whose caller gives up.
LEMMA Abandoned ==
  ASSUME RowsTyped, NEW w \in Worker, Abandon(w)
  PROVE  OfficeGoesOn /\ office'.note = office.note
  BY OfficeStays DEF Abandon

\* A note that is known to exist is a note of the office's.
LEMMA KnownNote ==
  ASSUME NEW d \in Doc, NEW n \in 1 .. MaxTry
  PROVE  <<d, n>> \in Note
  BY DEF Note

\* A document that is born has its first attempt, and no key.
LEMMA EmitStep ==
  ASSUME FiscalInv, NEW w \in Request, NEW d \in Doc,
         NEW status \in {"SENT", "CONTINGENCY", "PENDING_SIGNATURE"},
         NEW n \in Nat, NEW offline \in BOOLEAN, NEW next,
         EmitIn(w, d, status, n, offline, next),
         next.at \notin InCall \/ next = [at |-> "send", doc |-> d, try |-> 1, tick |-> FALSE]
  PROVE  FiscalInv'
<1>. DEFINE r == [status |-> status, numero |-> n, try |-> 1, key |-> 0, source |-> FALSE]
            seq == <<FirstTry(n, offline)>>
<1>1. /\ w \in Worker
      /\ Goes(w, next)
      /\ document' = [document EXCEPT ![d] = r]
      /\ notes' = [notes EXCEPT ![d] = seq]
      /\ document[d].status = "none"
      /\ UNCHANGED <<attachment, office>>
  BY DEF EmitIn, Worker
<1>2. r \in Row /\ r.status = status /\ r.try = 1 /\ r.key = 0
  BY FiscalAssumption DEF Row, Status
<1>3. seq \in Seq(Entry) /\ Len(seq) = 1
  BY DEF FirstTry, Entry
<1>4. Len(notes[d]) = 0 /\ document[d].key = 0
  <2>1. Len(notes[d]) = 0 /\ document[d].key <= Len(notes[d])
    BY <1>1 DEF FiscalInv, DocSound
  <2>. QED BY <2>1, RowShape, FiscalAssumption DEF FiscalInv, Row
<1>5. sequence' \in Nat
  BY DEF EmitIn, FiscalInv, RowsTyped
<1>6. OfficeGoesOn
  BY <1>1, OfficeStays DEF FiscalInv
<1>7. task'[w] = next
  BY <1>1, GoesTo DEF FiscalInv, Goes
<1>8. document'[d] = r /\ notes'[d] = seq
  BY <1>1 DEF FiscalInv, RowsTyped
<1>. HIDE DEF r, seq
<1>9. SoundTask(task[w])'
  <2>1. CASE next.at \notin InCall
    BY <1>1, <1>7, <2>1, HarmlessNext
  <2>2. CASE next = [at |-> "send", doc |-> d, try |-> 1, tick |-> FALSE]
    <3>1. next.at = "send" /\ next.doc = d /\ next.try = 1
      BY <2>2
    <3>2. document'[d].status # "none" /\ Len(notes'[d]) = 1 /\ 1 <= MaxTry
      BY <1>2, <1>3, <1>8, FiscalAssumption
    <3>. QED BY <1>7, <3>1, <3>2 DEF SoundTask
  <2>. QED BY <2>1, <2>2
<1>10. /\ r.status \notin {"none", "AUTHORIZED", "CANCELLED"}
       /\ r.key = document[d].key
       /\ r.try \in 1 .. Len(seq)
       /\ Len(notes[d]) <= Len(seq)
       /\ \A i \in 1 .. Len(notes[d]) : seq[i].numero = notes[d][i].numero
       /\ attachment' = attachment
  BY <1>1, <1>2, <1>3, <1>4
<1>. QED BY <1>1, <1>2, <1>3, <1>5, <1>6, <1>9, <1>10, NoteSteps

\* The office's answer to a note is about that note.
LEMMA AnswerSound ==
  ASSUME FiscalInv, NEW w \in Worker, task[w].at = "send", NEW r, NEW by,
         task'[w] = [at |-> "answer", doc |-> task[w].doc, try |-> task[w].try,
                     key |-> task[w].try, result |-> r, by |-> by, misses |-> 0],
         r = "AUTHORIZED" => office'.note[<<task[w].doc, task[w].try>>] # "none",
         UNCHANGED <<document, notes>>
  PROVE  SoundTask(task[w])'
<1>1. /\ task[w].doc \in Doc
      /\ document[task[w].doc].status # "none"
      /\ task[w].try \in 1 .. Len(notes[task[w].doc])
      /\ task[w].try <= MaxTry
  BY Held DEF SoundTask, InCall
<1>. DEFINE t == [at |-> "answer", doc |-> task[w].doc, try |-> task[w].try,
                  key |-> task[w].try, result |-> r, by |-> by, misses |-> 0]
<1>2. /\ t.at = "answer"
      /\ t.doc = task[w].doc
      /\ t.try = task[w].try
      /\ t.key = task[w].try
      /\ t.result = r
      /\ t.misses = 0
  OBVIOUS
<1>3. task'[w] = t
  OBVIOUS
<1>. HIDE DEF t
<1>. QED BY <1>1, <1>2, <1>3 DEF SoundTask

\* The office receives a note.
LEMMA ReceiveStep ==
  ASSUME FiscalInv, NEW w \in Worker, ReceiveNote(w)
  PROVE  FiscalInv'
<1>. DEFINE d == task[w].doc
            k == <<d, task[w].try>>
            by == IF task[w].tick THEN "tick" ELSE "send"
            Answer(r) == [at |-> "answer", doc |-> d, try |-> task[w].try,
                          key |-> task[w].try, result |-> r, by |-> by, misses |-> 0]
<1>1. /\ task[w].at = "send"
      /\ UNCHANGED <<document, notes, attachment, sequence>>
  BY DEF ReceiveNote, At
<1>2. k \in Note
  <2>1. SoundTask(task[w]) /\ d \in Doc /\ Len(notes[d]) \in Nat
    BY <1>1, Held, RowShape DEF InCall, FiscalInv
  <2>2. task[w].try \in 1 .. MaxTry
    BY <1>1, <2>1, FiscalAssumption DEF SoundTask
  <2>. QED BY <2>1, <2>2, KnownNote
<1>3. \/ CanAuthorize(k) /\ office' = Authorize(k) /\ Goes(w, Answer("AUTHORIZED"))
      \/ office' = [office EXCEPT !.late = office.late \ {k}] /\ Goes(w, Answer(Found(k)))
      \/ office' = [office EXCEPT !.late = office.late \ {k}] /\ Goes(w, Answer("REJECTED"))
  BY DEF ReceiveNote
<1>4. CASE CanAuthorize(k) /\ office' = Authorize(k) /\ Goes(w, Answer("AUTHORIZED"))
  <2>1. OfficeGoesOn /\ office'.note[k] # "none"
    BY <1>2, <1>4, OfficeAuthorizes DEF FiscalInv
  <2>2. task'[w] = Answer("AUTHORIZED")
    BY <1>4, GoesTo DEF FiscalInv, Goes
  <2>3. SoundTask(task[w])'
    BY <1>1, <2>1, <2>2, AnswerSound
  <2>. QED BY <1>1, <1>4, <2>1, <2>3, OfficeSteps
<1>5. CASE office' = [office EXCEPT !.late = office.late \ {k}] /\ Goes(w, Answer(Found(k)))
  <2>1. OfficeGoesOn /\ office'.note = office.note
    BY <1>5, OfficeStays DEF FiscalInv
  <2>2. task'[w] = Answer(Found(k))
    BY <1>5, GoesTo DEF FiscalInv, Goes
  <2>3. Found(k) = "AUTHORIZED" => office'.note[k] # "none"
    BY <2>1 DEF Found
  <2>4. SoundTask(task[w])'
    BY <1>1, <2>2, <2>3, AnswerSound
  <2>. QED BY <1>1, <1>5, <2>1, <2>4, OfficeSteps
<1>6. CASE office' = [office EXCEPT !.late = office.late \ {k}] /\ Goes(w, Answer("REJECTED"))
  <2>1. OfficeGoesOn /\ office'.note = office.note
    BY <1>6, OfficeStays DEF FiscalInv
  <2>2. task'[w] = Answer("REJECTED")
    BY <1>6, GoesTo DEF FiscalInv, Goes
  <2>3. "REJECTED" = "AUTHORIZED" => office'.note[k] # "none"
    OBVIOUS
  <2>4. SoundTask(task[w])'
    BY <1>1, <2>2, <2>3, AnswerSound
  <2>. QED BY <1>1, <1>6, <2>1, <2>4, OfficeSteps
<1>. QED BY <1>3, <1>4, <1>5, <1>6

\* A request that fails over an off-line note, a session that ends, a document
\* that is said to stay SENT, and a rejection write the status and nothing else.
LEMMA StatusActions ==
  ASSUME FiscalInv, NEW w \in Worker,
         \/ SessionExpired(w) \/ OfflineFails(w) \/ KeepSent(w) \/ ApplyRejected(w)
  PROVE  FiscalInv'
<1>. DEFINE d == task[w].doc
<1>1. task[w].at \in {"send", "answer", "keep"}
  BY DEF SessionExpired, OfflineFails, KeepSent, ApplyRejected, At, IsSending, Accepts
<1>2. d \in Doc /\ document[d].status # "none" /\ document[d].status \in Status
  BY <1>1, Held, RowShape DEF InCall, FiscalInv, Row
<1>3. \E s \in Status, at \in {"idle", "leave"} :
        /\ document' = [document EXCEPT ![d].status = s]
        /\ s \in {"AUTHORIZED", "CANCELLED"} => s = document[d].status
        /\ Goes(w, [at |-> at])
  <2>1. CASE SessionExpired(w)
    BY <1>2, <2>1 DEF SessionExpired, Leaves, Idle, Status
  <2>2. CASE OfflineFails(w)
    BY <1>2, <2>2 DEF OfflineFails, Leaves, Idle, Status
  <2>3. CASE KeepSent(w)
    BY <1>2, <2>3 DEF KeepSent, Leaves, Idle, Status
  <2>4. CASE ApplyRejected(w)
    BY <1>2, <2>4 DEF ApplyRejected, Then, Idle, Status
  <2>. QED BY <2>1, <2>2, <2>3, <2>4
<1>4. OfficeGoesOn /\ office'.note = office.note
  BY Abandoned, OfficeStays DEF FiscalInv, SessionExpired, OfflineFails, KeepSent, ApplyRejected
<1>5. UNCHANGED <<notes, attachment, sequence>>
  BY DEF SessionExpired, OfflineFails, KeepSent, ApplyRejected
<1>6. PICK s \in Status, at \in {"idle", "leave"} :
        /\ document' = [document EXCEPT ![d].status = s]
        /\ s \in {"AUTHORIZED", "CANCELLED"} => s = document[d].status
        /\ Goes(w, [at |-> at])
  BY <1>3
<1>. DEFINE next == [at |-> at]
<1>7. next.at \notin InCall
  BY DEF InCall
<1>. HIDE DEF next
<1>8. Goes(w, next)
  BY <1>6 DEF next
<1>. HIDE DEF d
<1>. QED BY <1>2, <1>4, <1>5, <1>6, <1>7, <1>8, StatusSteps

\* The sale that leaves off-line gets a new attempt.
LEMMA ContingencyStep ==
  ASSUME FiscalInv, NEW w \in Worker, EnterContingency(w)
  PROVE  FiscalInv'
<1>. DEFINE d == task[w].doc
            try == task[w].try + 1
            r == [document[d] EXCEPT !.status = "CONTINGENCY", !.numero = sequence + 1, !.try = try]
            n == Append(notes[d], FirstTry(sequence + 1, TRUE))
<1>1. task[w].at \in {"send", "answer"}
  BY DEF EnterContingency, At, IsSending
<1>2. /\ d \in Doc
      /\ task[w].try \in 1 .. Len(notes[d])
      /\ task[w].try < MaxTry
  BY <1>1, Held DEF InCall, SoundTask, EnterContingency
<1>3. document[d] \in Row /\ notes[d] \in Seq(Entry) /\ Len(notes[d]) \in Nat /\ sequence + 1 \in Nat
  BY <1>2, RowShape DEF FiscalInv, RowsTyped
<1>4. try \in 1 .. MaxTry /\ try <= Len(notes[d]) + 1
  BY <1>2, <1>3, FiscalAssumption
<1>5. /\ document' = [document EXCEPT ![d] = r]
      /\ notes' = [notes EXCEPT ![d] = n]
      /\ sequence' = sequence + 1
      /\ attachment' = attachment
      /\ Goes(w, Idle)
  BY DEF EnterContingency, Leaves, FiscalInv, RowsTyped
<1>. HIDE DEF d, try
<1>6. /\ r \in Row
      /\ r.status = "CONTINGENCY"
      /\ r.try = try
      /\ r.key = document[d].key
  <2>. DEFINE n0 == sequence + 1
  <2>1. n0 \in Nat /\ try \in 0 .. MaxTry /\ "CONTINGENCY" \in Status
    BY <1>3, <1>4, FiscalAssumption DEF Status
  <2>. HIDE DEF n0
  <2>2. r = [document[d] EXCEPT !.status = "CONTINGENCY", !.numero = n0, !.try = try]
    BY DEF n0
  <2>. HIDE DEF r
  <2>. QED BY <1>3, <2>1, <2>2 DEF Row
<1>7. /\ n \in Seq(Entry)
      /\ Len(n) = Len(notes[d]) + 1
      /\ \A i \in 1 .. Len(notes[d]) : n[i] = notes[d][i]
  BY <1>3 DEF FirstTry, Entry
<1>8. OfficeGoesOn
  BY Abandoned DEF FiscalInv, EnterContingency
<1>9. SoundTask(task[w])'
  BY <1>5, GoesTo, HarmlessNext DEF FiscalInv, Goes, Idle, InCall
<1>. HIDE DEF r, n
<1>10. /\ r.status \notin {"none", "AUTHORIZED", "CANCELLED"}
       /\ r.try \in 1 .. Len(n)
       /\ Len(notes[d]) <= Len(n)
       /\ \A i \in 1 .. Len(notes[d]) : n[i].numero = notes[d][i].numero
  BY <1>3, <1>4, <1>6, <1>7
<1>11. sequence' \in Nat
  BY <1>3, <1>5
<1>. QED BY <1>2, <1>5, <1>6, <1>7, <1>8, <1>9, <1>10, <1>11, NoteSteps

\* A failure that only drops the call.
LEMMA FailStep ==
  ASSUME FiscalInv, NEW w \in Worker, SendFails(w) \/ TransmitFails(w)
  PROVE  FiscalInv'
<1>1. OfficeGoesOn /\ UNCHANGED <<document, notes, attachment, sequence>>
  BY Abandoned DEF FiscalInv, SendFails, TransmitFails
<1>2. CASE SendFails(w)
  <2>. DEFINE next == [at |-> "keep", doc |-> task[w].doc]
  <2>1. task[w].at \in {"send", "answer"}
    BY <1>2 DEF SendFails, IsSending, At
  <2>2. next.at = "keep" /\ next.doc = task[w].doc /\ Goes(w, next)
    BY <1>2 DEF SendFails
  <2>. HIDE DEF next
  <2>3. task'[w] = next
    BY <2>2, GoesTo DEF FiscalInv, Goes
  <2>4. task[w].doc \in Doc /\ document[task[w].doc].status # "none"
    BY <2>1, Held DEF InCall
  <2>5. SoundTask(task[w])'
    BY <1>1, <2>2, <2>3, <2>4 DEF SoundTask
  <2>. QED BY <1>1, <2>2, <2>5, OfficeSteps
<1>3. CASE TransmitFails(w)
  <2>1. Goes(w, Idle)
    BY <1>3 DEF TransmitFails, Leaves
  <2>2. SoundTask(task[w])'
    BY <2>1, GoesTo, HarmlessNext DEF FiscalInv, Goes, Idle, InCall
  <2>. QED BY <1>1, <2>1, <2>2, OfficeSteps
<1>. QED BY <1>2, <1>3

-----------------------------------------------------------------------------
(* Results *)

\* An authorization gives the document its key, which it did not have.
LEMMA AuthorizedStep ==
  ASSUME FiscalInv, NEW w \in Worker, ApplyAuthorized(w)
  PROVE  FiscalInv'
<1>1. task[w].at = "answer" /\ task[w].result = "AUTHORIZED"
  BY DEF ApplyAuthorized, Accepts, At
<1>. SUFFICES ASSUME NEW d \in Doc, d = task[w].doc
              PROVE  FiscalInv'
  BY <1>1, Held DEF InCall
<1>. DEFINE key == task[w].key
            numero == notes[d][key].numero
            r == [document[d] EXCEPT !.status = "AUTHORIZED", !.key = key,
                                     !.numero = numero, !.source = FALSE]
            next == [at |-> "drain", doc |-> d, tick |-> task[w].by = "tick"]
<1>2. /\ document[d].status # "none"
      /\ DocSound(d)
      /\ key \in 1 .. Len(notes[d]) /\ key <= MaxTry
      /\ office.note[<<d, key>>] # "none"
  BY <1>1, Held DEF InCall, SoundTask
<1>3. /\ document[d] \in Row
      /\ Len(notes[d]) \in Nat
      /\ notes[d][key] \in Entry
  BY <1>2, RowShape DEF FiscalInv
<1>4. /\ document' = [document EXCEPT ![d] = r]
      /\ attachment[d] = "none"
      /\ attachment' = [attachment EXCEPT ![d] = "PENDING"]
      /\ Goes(w, next)
      /\ UNCHANGED <<notes, sequence, office>>
  BY DEF ApplyAuthorized, FiscalInv, RowsTyped
<1>5. document[d].key = 0
  BY <1>2, <1>4 DEF DocSound
<1>6. numero \in Nat /\ key \in 0 .. MaxTry /\ key # 0
  BY <1>2, <1>3, FiscalAssumption DEF Entry
<1>. HIDE DEF key, numero
<1>7. /\ r \in Row
      /\ r.status = "AUTHORIZED"
      /\ r.key = key
      /\ r.numero = numero
      /\ r.try = document[d].try
  BY <1>3, <1>6 DEF Row, Status
<1>. HIDE DEF r
<1>8. document'[d] = r /\ \A e \in Doc \ {d} : document'[e] = document[e]
  BY <1>2, <1>4 DEF FiscalInv, RowsTyped
<1>9. attachment'[d] = "PENDING" /\ \A e \in Doc \ {d} : attachment'[e] = attachment[e]
  BY <1>2, <1>4 DEF FiscalInv, RowsTyped
<1>10. RowsTyped'
  BY <1>4, <1>7, GoesTo DEF FiscalInv, RowsTyped, Goes
<1>11. Keeps
  BY <1>4, <1>5, <1>7, <1>8, RowShape DEF FiscalInv, Keeps
<1>12. DocSound(d)'
  <2>1. document[d].try \in 1 .. Len(notes[d]) /\ key <= Len(notes[d])
    BY <1>2, <1>3 DEF DocSound
  <2>2. r.numero = notes[d][key].numero
    BY <1>7 DEF numero
  <2>3. document'[d].try \in 1 .. Len(notes'[d]) /\ document'[d].key <= Len(notes'[d])
    BY <1>4, <1>7, <1>8, <2>1
  <2>4. document'[d].key # 0 /\ attachment'[d] # "none"
    BY <1>6, <1>7, <1>8, <1>9
  <2>5. office'.note[<<d, document'[d].key>>] # "none"
        /\ document'[d].numero = notes'[d][document'[d].key].numero
    BY <1>2, <1>4, <1>7, <1>8, <2>2
  <2>6. document'[d].status = "AUTHORIZED"
    BY <1>7, <1>8
  <2>. QED BY <2>3, <2>4, <2>5, <2>6 DEF DocSound
<1>13. \A e \in Doc \ {d} : DocKept(e)
  BY <1>4, <1>8, <1>9 DEF DocKept
<1>14. SoundTask(task[w])'
  <2>1. next.at = "drain" /\ next.doc = d
    OBVIOUS
  <2>2. task'[w] = next
    BY <1>4, GoesTo DEF FiscalInv, Goes
  <2>3. document'[d].key # 0 /\ document'[d].status # "none"
    BY <1>6, <1>7, <1>8
  <2>. HIDE DEF next
  <2>. QED BY <1>2, <2>1, <2>2, <2>3 DEF SoundTask
<1>15. task' = [task EXCEPT ![w] = next]
  BY <1>4 DEF Goes
<1>16. \A e \in Doc : DocSound(e)' \/ DocKept(e)
  BY <1>12, <1>13
<1>. HIDE DEF next
<1>. QED BY <1>10, <1>11, <1>14, <1>15, <1>16, StepFrame

\* A note that is not found has its misses counted.
LEMMA NotFoundStep ==
  ASSUME FiscalInv, NEW w \in Worker, ApplyNotFound(w)
  PROVE  FiscalInv'
<1>. DEFINE d == task[w].doc
            try == task[w].try
            misses == task[w].misses
            status == IF misses = MissLimit THEN "REJECTED" ELSE "PROCESSING"
            r == [document[d] EXCEPT !.status = status]
            n == [notes[d] EXCEPT ![try] = [notes[d][try] EXCEPT !.misses = misses]]
<1>1. task[w].at = "answer"
  BY DEF ApplyNotFound, Accepts, At
<1>2. /\ d \in Doc
      /\ document[d].status # "none"
      /\ DocSound(d)
      /\ try \in 1 .. Len(notes[d])
      /\ misses \in Nat
  BY <1>1, Held DEF InCall, SoundTask
<1>3. /\ document[d] \in Row
      /\ notes[d] \in Seq(Entry)
      /\ Len(notes[d]) \in Nat
      /\ notes[d][try] \in Entry
  BY <1>2, RowShape DEF FiscalInv
<1>4. /\ document' = [document EXCEPT ![d] = r]
      /\ notes' = [notes EXCEPT ![d] = n]
      /\ Goes(w, Then(w))
      /\ UNCHANGED <<attachment, sequence, office>>
  BY DEF ApplyNotFound, FiscalInv, RowsTyped
<1>5. status \in {"REJECTED", "PROCESSING"}
  OBVIOUS
<1>. HIDE DEF d, try, misses, status
<1>6. /\ r \in Row
      /\ r.status = status
      /\ r.try = document[d].try
      /\ r.key = document[d].key
  <2>1. status \in Status \cup {"none"}
    BY <1>5 DEF Status
  <2>. QED BY <1>3, <2>1 DEF Row
<1>7. /\ n \in Seq(Entry)
      /\ Len(n) = Len(notes[d])
      /\ \A i \in 1 .. Len(notes[d]) : n[i].numero = notes[d][i].numero
  <2>. DEFINE x == [notes[d][try] EXCEPT !.misses = misses]
  <2>1. x \in Entry /\ x.numero = notes[d][try].numero
    BY <1>2, <1>3 DEF Entry
  <2>2. n = [notes[d] EXCEPT ![try] = x]
    OBVIOUS
  <2>. HIDE DEF x, n
  <2>3. n \in Seq(Entry) /\ Len(n) = Len(notes[d])
    BY <1>2, <1>3, <2>1, <2>2
  <2>4. n[try] = x /\ \A i \in 1 .. Len(notes[d]) : i # try => n[i] = notes[d][i]
    BY <1>2, <1>3, <2>2
  <2>. QED BY <2>1, <2>3, <2>4
<1>8. SoundTask(task[w])'
  BY <1>4, GoesTo, HarmlessNext DEF FiscalInv, Goes, Then, Idle, InCall
<1>9. OfficeGoesOn /\ sequence' \in Nat
  BY <1>4, OfficeStays DEF FiscalInv, RowsTyped
<1>. HIDE DEF r, n
<1>10. r.status \notin {"none", "AUTHORIZED", "CANCELLED"} /\ r.try \in 1 .. Len(n) /\ Len(notes[d]) <= Len(n)
  BY <1>2, <1>3, <1>5, <1>6, <1>7 DEF DocSound
<1>11. attachment' = attachment
  BY <1>4
<1>. QED BY <1>2, <1>4, <1>6, <1>7, <1>8, <1>9, <1>10, <1>11, NoteSteps

\* The provenance is attached, then linked, to a document that has its key.
LEMMA DrainSteps ==
  ASSUME FiscalInv, NEW w \in Worker, AttachSource(w) \/ LinkSource(w)
  PROVE  FiscalInv'
<1>. DEFINE d == task[w].doc
<1>1. task[w].at \in {"drain", "link"}
  BY DEF AttachSource, LinkSource, At
<1>2. /\ d \in Doc
      /\ document[d].status # "none"
      /\ document[d].key # 0
      /\ attachment[d] # "none"
      /\ document[d] \in Row
  BY <1>1, Held, RowShape DEF InCall, SoundTask, DocSound, FiscalInv
<1>3. OfficeGoesOn /\ office'.note = office.note /\ UNCHANGED <<notes, sequence>>
  BY OfficeStays DEF FiscalInv, AttachSource, LinkSource
<1>4. /\ attachment' \in [Doc -> {"none", "PENDING", "ATTACHED", "DONE"}]
      /\ \A e \in Doc : attachment'[e] = "none" <=> attachment[e] = "none"
  BY <1>2 DEF FiscalInv, RowsTyped, AttachSource, LinkSource
<1>5. CASE AttachSource(w)
  <2>. DEFINE next == [at |-> "link", doc |-> d, tick |-> task[w].tick,
                       authorized |-> document[d].status = "AUTHORIZED"]
  <2>1. document' = document /\ Goes(w, next)
    BY <1>5 DEF AttachSource
  <2>2. next.at = "link" /\ next.doc = d /\ next.authorized \in BOOLEAN
    OBVIOUS
  <2>3. task'[w] = next
    BY <2>1, GoesTo DEF FiscalInv, Goes
  <2>. HIDE DEF next, d
  <2>4. SoundTask(task[w])'
    BY <1>2, <2>1, <2>2, <2>3 DEF SoundTask
  <2>5. document' = [document EXCEPT ![d] = document[d]]
    BY <1>2, <2>1 DEF FiscalInv, RowsTyped
  <2>. QED BY <1>2, <1>3, <1>4, <2>1, <2>4, <2>5, RowSteps
<1>6. CASE LinkSource(w)
  <2>. DEFINE linked == task[w].authorized /\ document[d].status = "AUTHORIZED"
              source == document[d].source \/ linked
              r == [document[d] EXCEPT !.source = source]
              next == IF task[w].tick THEN [at |-> "leave"] ELSE Idle
  <2>1. document' = [document EXCEPT ![d] = r] /\ Goes(w, next)
    BY <1>6 DEF LinkSource, FiscalInv, RowsTyped
  <2>2. source \in BOOLEAN
    OBVIOUS
  <2>. HIDE DEF source, d
  <2>3. /\ r \in Row
        /\ r.status = document[d].status
        /\ r.numero = document[d].numero
        /\ r.try = document[d].try
        /\ r.key = document[d].key
    BY <1>2, <2>2 DEF Row
  <2>4. SoundTask(task[w])'
    BY <2>1, GoesTo, HarmlessNext DEF FiscalInv, Goes, Idle, InCall
  <2>. HIDE DEF r, next
  <2>. QED BY <1>2, <1>3, <1>4, <2>1, <2>3, <2>4, RowSteps
<1>. QED BY <1>5, <1>6

-----------------------------------------------------------------------------
(* Consultations, new attempts and cancellations *)

\* A consultation is of an attempt that exists, under a key that exists.
LEMMA ConsultationSound ==
  ASSUME FiscalInv, NEW d \in Doc, document[d].status # "none",
         NEW try \in 1 .. Len(notes[d]), try <= MaxTry,
         NEW ref \in 0 .. Len(notes[d]), ref <= MaxTry
  PROVE  SoundTask(Consultation(d, try, ref))
<1>. DEFINE misses == notes[d][document[d].try].misses
            key == IF ref # 0 THEN ref ELSE document[d].try
            next == Consultation(d, try, ref)
<1>1. /\ document[d] \in Row
      /\ Len(notes[d]) \in Nat
      /\ \A i \in 1 .. Len(notes[d]) : notes[d][i] \in Entry
      /\ document[d].try \in 1 .. Len(notes[d])
  BY RowShape DEF FiscalInv, DocSound
<1>2. misses \in Nat
  BY <1>1 DEF Entry
<1>3. key \in 1 .. Len(notes[d]) /\ key <= MaxTry
  BY <1>1, FiscalAssumption DEF Row
<1>4. /\ next.at = "ask"
      /\ next.doc = d
      /\ next.try = try
      /\ next.key = key
      /\ next.misses = misses
  BY DEF Consultation
<1>. HIDE DEF misses, key, next
<1>5. SoundTask(next)
  BY <1>2, <1>3, <1>4 DEF SoundTask
<1>. QED BY <1>5 DEF next

\* The poll reads the attempts of a document it has listed.
LEMMA PollStep ==
  ASSUME FiscalInv, NEW w \in Worker, PollNote(w)
  PROVE  FiscalInv'
<1>. DEFINE next == Consultation(task[w].doc, task[w].try, task[w].ref)
<1>1. task[w].at = "poll" /\ Goes(w, next)
      /\ UNCHANGED <<document, notes, attachment, office, sequence>>
  BY DEF PollNote, At
<1>2. /\ SoundTask(task[w])
      /\ task[w].doc \in Doc
      /\ document[task[w].doc].status # "none"
  BY <1>1, Held DEF InCall
<1>3. SoundTask(next)
  BY <1>1, <1>2, ConsultationSound DEF SoundTask
<1>4. sequence' \in Nat
  BY <1>1 DEF FiscalInv, RowsTyped
<1>. HIDE DEF next
<1>. QED BY <1>1, <1>3, <1>4, QuietSteps

\* A consultation answers what the office holds under the key asked for.
LEMMA AskStep ==
  ASSUME FiscalInv, NEW w \in Worker, AskNote(w)
  PROVE  FiscalInv'
<1>. DEFINE d == task[w].doc
            key == task[w].key
            result == Found(<<d, key>>)
            counted == IF result = "217" THEN Counted(task[w].misses) ELSE {0}
            next(misses) == [at |-> "answer", doc |-> d, try |-> task[w].try, key |-> key,
                             result |-> result, by |-> "ask", misses |-> misses]
<1>1. task[w].at = "ask"
  BY DEF AskNote, At
<1>2. SoundTask(task[w]) /\ task[w].doc \in Doc /\ document[task[w].doc].status # "none"
  BY <1>1, Held DEF InCall
<1>3. counted \subseteq Nat
  BY FiscalAssumption DEF Counted
<1>4. PICK misses \in counted : Goes(w, next(misses))
  BY DEF AskNote
<1>5. /\ next(misses).at = "answer"
      /\ next(misses).doc = task[w].doc
      /\ next(misses).try = task[w].try
      /\ next(misses).key = task[w].key
      /\ next(misses).misses = misses
      /\ next(misses).result = "AUTHORIZED" => office.note[<<task[w].doc, task[w].key>>] # "none"
  BY DEF Found
<1>6. UNCHANGED <<document, notes, attachment, office, sequence>>
  BY DEF AskNote
<1>7. sequence' \in Nat /\ misses \in Nat
  BY <1>3, <1>6 DEF FiscalInv, RowsTyped
<1>. HIDE DEF next, counted, result
<1>8. SoundTask(next(misses))
  BY <1>1, <1>2, <1>5, <1>7 DEF SoundTask
<1>. QED BY <1>4, <1>6, <1>7, <1>8, QuietSteps

\* A resend appends the attempt after the last one.
LEMMA ResendStep ==
  ASSUME FiscalInv, NEW w \in Worker, Resend(w)
  PROVE  FiscalInv'
<1>1. task[w].at = "resend"
  BY DEF Resend, At
<1>. SUFFICES ASSUME NEW d \in Doc, d = task[w].doc
              PROVE  FiscalInv'
  BY <1>1, Held DEF InCall
<1>. DEFINE try == task[w].try
            num == IF task[w].numero = 0 THEN sequence + 1 ELSE task[w].numero
            first == FirstTry(num, notes[d][try - 1].offline)
            r == [document[d] EXCEPT !.status = "SENT", !.try = try, !.numero = num]
            n == Append(notes[d], first)
            next == [at |-> "send", doc |-> d, try |-> try, tick |-> FALSE]
<1>2. /\ document[d].status # "none"
      /\ try \in 2 .. MaxTry
      /\ try <= Len(notes[d]) + 1
      /\ task[w].numero \in Nat
      /\ Len(notes[d]) < try
  BY <1>1, Held DEF InCall, SoundTask, Resend
<1>3. /\ document[d] \in Row
      /\ notes[d] \in Seq(Entry)
      /\ Len(notes[d]) \in Nat
      /\ \A i \in 1 .. Len(notes[d]) : notes[d][i] \in Entry
      /\ sequence \in Nat
  BY RowShape DEF FiscalInv, RowsTyped
<1>4. try \in 0 .. MaxTry /\ try = Len(notes[d]) + 1 /\ try - 1 \in 1 .. Len(notes[d])
  BY <1>2, <1>3, FiscalAssumption
<1>5. num \in Nat /\ sequence + 1 \in Nat
  BY <1>2, <1>3
<1>6. /\ document' = [document EXCEPT ![d] = r]
      /\ notes' = [notes EXCEPT ![d] = n]
      /\ sequence' \in {sequence, sequence + 1}
      /\ Goes(w, next)
      /\ UNCHANGED <<attachment, office>>
  BY DEF Resend, FiscalInv, RowsTyped
<1>. HIDE DEF try, num
<1>7. first \in Entry
  <2>1. notes[d][try - 1].offline \in BOOLEAN
    BY <1>3, <1>4 DEF Entry
  <2>. QED BY <1>5, <2>1 DEF FirstTry, Entry
<1>8. /\ r \in Row
      /\ r.status = "SENT"
      /\ r.try = try
      /\ r.key = document[d].key
  <2>1. "SENT" \in Status
    BY DEF Status
  <2>. QED BY <1>3, <1>4, <1>5, <2>1 DEF Row
<1>. HIDE DEF first, r
<1>9. /\ n \in Seq(Entry)
      /\ Len(n) = Len(notes[d]) + 1
      /\ \A i \in 1 .. Len(notes[d]) : n[i] = notes[d][i]
  BY <1>3, <1>7
<1>. HIDE DEF n
<1>10. /\ r.status \notin {"none", "AUTHORIZED", "CANCELLED"}
       /\ r.try \in 1 .. Len(n)
       /\ Len(notes[d]) <= Len(n)
       /\ \A i \in 1 .. Len(notes[d]) : n[i].numero = notes[d][i].numero
  BY <1>3, <1>4, <1>8, <1>9
<1>11. SoundTask(task[w])'
  <2>1. next.at = "send" /\ next.doc = d /\ next.try = try
    OBVIOUS
  <2>2. task'[w] = next
    BY <1>6, GoesTo DEF FiscalInv, Goes
  <2>3. document'[d].status # "none" /\ try \in 1 .. Len(notes'[d]) /\ try <= MaxTry
    BY <1>2, <1>3, <1>4, <1>6, <1>8, <1>9 DEF FiscalInv, RowsTyped
  <2>. HIDE DEF next
  <2>. QED BY <2>1, <2>2, <2>3 DEF SoundTask
<1>12. OfficeGoesOn /\ sequence' \in Nat /\ attachment' = attachment
  BY <1>3, <1>5, <1>6, OfficeStays DEF FiscalInv
<1>. HIDE DEF next
<1>. QED BY <1>6, <1>8, <1>9, <1>10, <1>11, <1>12, NoteSteps

\* The office registers the cancellation of the document's own key.
LEMMA CancelStep ==
  ASSUME FiscalInv, NEW w \in Worker, CancelNote(w)
  PROVE  FiscalInv'
<1>1. task[w].at = "cancel"
  BY DEF CancelNote, At
<1>. SUFFICES ASSUME NEW d \in Doc, d = task[w].doc
              PROVE  FiscalInv'
  BY <1>1, Held DEF InCall
<1>. DEFINE k == <<d, task[w].key>>
            next == [at |-> "cancelled", doc |-> d, source |-> task[w].source]
<1>2. /\ document[d].status # "none"
      /\ document[d].key # 0
      /\ task[w].key = document[d].key
  BY <1>1, Held DEF InCall, SoundTask
<1>3. k \in Note
  BY <1>2, RowShape, FiscalAssumption DEF FiscalInv, Row, Note
<1>4. UNCHANGED <<document, notes, attachment, sequence>>
  BY DEF CancelNote
<1>5. CASE UNCHANGED office /\ Goes(w, Idle)
  <2>1. SoundTask(task[w])'
    BY <1>5, GoesTo, HarmlessNext DEF FiscalInv, Goes, Idle, InCall
  <2>2. OfficeGoesOn
    BY <1>5, OfficeStays DEF FiscalInv
  <2>. QED BY <1>4, <1>5, <2>1, <2>2, OfficeSteps
<1>6. CASE /\ office.note[k] = "authorized"
           /\ office' = [office EXCEPT !.note[k] = "cancelled"]
           /\ Goes(w, next)
  <2>1. OfficeGoesOn /\ office'.note[k] = "cancelled"
    BY <1>3, <1>6, OfficeCancels DEF FiscalInv
  <2>2. next.at = "cancelled" /\ next.doc = d
    OBVIOUS
  <2>3. task'[w] = next
    BY <1>6, GoesTo DEF FiscalInv, Goes
  <2>4. office'.note[<<d, document[d].key>>] = "cancelled"
    BY <1>2, <2>1
  <2>. HIDE DEF next, k
  <2>5. SoundTask(task[w])'
    BY <1>2, <1>4, <2>2, <2>3, <2>4 DEF SoundTask
  <2>. QED BY <1>4, <1>6, <2>1, <2>5, OfficeSteps
<1>. QED BY <1>5, <1>6 DEF CancelNote, Leaves

\* A document is marked cancelled once the office has registered the event.
LEMMA MarkStep ==
  ASSUME FiscalInv, NEW w \in Worker, MarkCancelled(w)
  PROVE  FiscalInv'
<1>1. task[w].at = "cancelled"
  BY DEF MarkCancelled, At
<1>. SUFFICES ASSUME NEW d \in Doc, d = task[w].doc
              PROVE  FiscalInv'
  BY <1>1, Held DEF InCall
<1>. DEFINE ok == document[d].status = "AUTHORIZED"
            s == IF ok THEN "CANCELLED" ELSE document[d].status
            next == IF ok /\ task[w].source THEN [at |-> "retire", doc |-> d] ELSE Idle
<1>2. /\ document[d].status # "none"
      /\ document[d].key # 0
      /\ office.note[<<d, document[d].key>>] = "cancelled"
  BY <1>1, Held DEF InCall, SoundTask
<1>3. s \in Status
  BY <1>2, RowShape DEF FiscalInv, Row, Status
<1>4. /\ document' = [document EXCEPT ![d].status = s]
      /\ Goes(w, next)
      /\ UNCHANGED <<notes, attachment, sequence, office>>
  BY DEF MarkCancelled
<1>5. s = "AUTHORIZED" => document[d].status = "AUTHORIZED"
  OBVIOUS
<1>6. next.at \notin InCall
  BY DEF Idle, InCall
<1>7. OfficeGoesOn /\ office'.note = office.note
  BY <1>4, OfficeStays DEF FiscalInv
<1>. HIDE DEF s, next
<1>. QED BY <1>2, <1>3, <1>4, <1>5, <1>6, <1>7, StatusSteps

-----------------------------------------------------------------------------
(* Orphans, voided numbers, and what starts or only goes on *)

\* An orphan is cancelled by substitution, or its closing is left to a person.
LEMMA SubstituteStep ==
  ASSUME FiscalInv, NEW w \in Worker, Substitute(w)
  PROVE  FiscalInv'
<1>. DEFINE k == task[w].note
            next(s) == [at |-> "close", note |-> k, as |-> s]
<1>1. UNCHANGED <<document, notes, attachment, sequence>>
  BY DEF Substitute
<1>2. \E s \in {"CANCELLED_SUBST", "FAILED"} : Goes(w, next(s))
  BY DEF Substitute
<1>3. OfficeGoesOn
  <2>1. \/ UNCHANGED office
        \/ office.note[k] = "authorized" /\ office' = [office EXCEPT !.note[k] = "cancelled"]
    BY DEF Substitute
  <2>. HIDE DEF k
  <2>2. CASE UNCHANGED office
    BY <2>2, OfficeStays DEF FiscalInv
  <2>3. CASE office.note[k] = "authorized" /\ office' = [office EXCEPT !.note[k] = "cancelled"]
    BY <2>3, OfficeCancels DEF FiscalInv
  <2>. QED BY <2>1, <2>2, <2>3
<1>4. PICK s \in {"CANCELLED_SUBST", "FAILED"} : Goes(w, next(s))
  BY <1>2
<1>5. SoundTask(task[w])'
  BY <1>4, GoesTo, HarmlessNext DEF FiscalInv, Goes, InCall
<1>. QED BY <1>1, <1>3, <1>4, <1>5, OfficeSteps

\* A request to void a number is answered, or is not.
LEMMA VoidStep ==
  ASSUME FiscalInv, NEW w \in Worker, SendVoid(w) \/ VoidUnanswered(w)
  PROVE  FiscalInv'
<1>1. UNCHANGED <<document, notes, attachment, sequence>>
  BY DEF SendVoid, VoidUnanswered
<1>2. PICK n : \/ UNCHANGED office
               \/ office' = [office EXCEPT !.voided = office.voided \cup {n}]
  BY DEF SendVoid, VoidUnanswered, OfficeVoids
<1>3. OfficeGoesOn
  BY <1>2, OfficeStays DEF FiscalInv
<1>4. \E next : Goes(w, next) /\ next.at \in {"void.apply", "idle", "close"}
  BY DEF SendVoid, VoidUnanswered, After, Idle
<1>5. PICK next : Goes(w, next) /\ next.at \in {"void.apply", "idle", "close"}
  BY <1>4
<1>6. SoundTask(task[w])'
  BY <1>5, GoesTo, HarmlessNext DEF FiscalInv, Goes, InCall
<1>. QED BY <1>1, <1>3, <1>5, <1>6, OfficeSteps

\* Steps after which a worker holds nothing of a document, and rewrites none.
LEMMA QuietActions ==
  ASSUME FiscalInv, NEW w \in Worker,
         \/ DropAnswer(w) \/ LeaveContingency(w) \/ DrainFails(w) \/ ResendConflict(w)
         \/ RetireSource(w) \/ AskOrphan(w) \/ CloseOrphan(w) \/ VoidOrphan(w)
         \/ ApplyVoid(w) \/ Dies(w)
         \/ \E n \in Number : VoidNumber(w, n)
         \/ \E k \in Note : StartOrphan(w, k)
  PROVE  FiscalInv'
<1>1. UNCHANGED <<document, notes, attachment, office, sequence>>
  BY DEF DropAnswer, LeaveContingency, DrainFails, ResendConflict, RetireSource, AskOrphan,
         CloseOrphan, VoidOrphan, ApplyVoid, Dies, VoidNumber, StartOrphan
<1>2. \E next : Goes(w, next) /\ next.at \notin InCall
  <2>1. CASE \/ DropAnswer(w) \/ LeaveContingency(w) \/ DrainFails(w) \/ ResendConflict(w)
             \/ RetireSource(w) \/ CloseOrphan(w) \/ Dies(w)
    BY <2>1 DEF DropAnswer, LeaveContingency, DrainFails, ResendConflict, RetireSource,
                CloseOrphan, Dies, Leaves, Idle, InCall
  <2>2. CASE AskOrphan(w)
    BY <2>2 DEF AskOrphan, Idle, InCall
  <2>3. CASE VoidOrphan(w)
    BY <2>3 DEF VoidOrphan, RequestVoidOf, After, Idle, InCall
  <2>4. CASE ApplyVoid(w)
    BY <2>4 DEF ApplyVoid, After, Idle, InCall
  <2>5. CASE \E n \in Number : VoidNumber(w, n)
    BY <2>5 DEF VoidNumber, RequestVoidOf, InCall
  <2>6. CASE \E k \in Note : StartOrphan(w, k)
    BY <2>6 DEF StartOrphan, InCall
  <2>. QED BY <2>1, <2>2, <2>3, <2>4, <2>5, <2>6
<1>3. PICK next : Goes(w, next) /\ next.at \notin InCall
  BY <1>2
<1>4. SoundTask(next) /\ sequence' \in Nat
  BY <1>1, <1>3, Harmless DEF FiscalInv, RowsTyped
<1>. QED BY <1>1, <1>3, <1>4, QuietSteps

\* What a worker reads of a document before its first call.
LEMMA StartSteps ==
  ASSUME FiscalInv, NEW w \in Worker, NEW d \in Doc,
         \/ CheckResend(w, d) \/ StartCancel(w, d) \/ Transmit(w, d) \/ StartDrain(w, d)
         \/ StartAsk(w, d) \/ ListPending(w, d)
  PROVE  FiscalInv'
<1>1. UNCHANGED <<document, notes, attachment, office, sequence>>
  BY DEF CheckResend, StartCancel, Transmit, StartDrain, StartAsk, ListPending
<1>2. sequence' \in Nat
  BY <1>1 DEF FiscalInv, RowsTyped
<1>3. /\ document[d] \in Row
      /\ Len(notes[d]) \in Nat
      /\ \A i \in 1 .. Len(notes[d]) : notes[d][i] \in Entry
      /\ DocSound(d)
  BY RowShape DEF FiscalInv
<1>4. CASE CheckResend(w, d)
  <2>. DEFINE next == [at |-> "resend", doc |-> d, from |-> document[d].status,
                       numero |-> document[d].numero, try |-> document[d].try + 1]
  <2>1. /\ Goes(w, next)
        /\ document[d].status \in {"REJECTED", "PENDING_SIGNATURE"}
        /\ document[d].try < MaxTry
    BY <1>4 DEF CheckResend
  <2>2. document[d].numero \in Nat /\ document[d].try \in 1 .. Len(notes[d])
    BY <1>3, <2>1 DEF DocSound, Row
  <2>3. document[d].try + 1 \in 2 .. MaxTry /\ document[d].try + 1 <= Len(notes[d]) + 1
    BY <1>3, <2>1, <2>2, FiscalAssumption
  <2>4. next.at = "resend" /\ next.doc = d /\ next.numero = document[d].numero
        /\ next.try = document[d].try + 1
    OBVIOUS
  <2>. HIDE DEF next
  <2>5. SoundTask(next)
    BY <2>1, <2>2, <2>3, <2>4 DEF SoundTask
  <2>. QED BY <1>1, <1>2, <2>1, <2>5, QuietSteps
<1>5. CASE StartCancel(w, d)
  <2>. DEFINE next == [at |-> "cancel", doc |-> d, key |-> document[d].key,
                       source |-> document[d].source]
  <2>1. Goes(w, next) /\ document[d].status = "AUTHORIZED"
    BY <1>5 DEF StartCancel
  <2>2. document[d].key # 0
    BY <1>3, <2>1 DEF DocSound
  <2>3. next.at = "cancel" /\ next.doc = d /\ next.key = document[d].key
    OBVIOUS
  <2>. HIDE DEF next
  <2>4. SoundTask(next)
    BY <2>1, <2>2, <2>3 DEF SoundTask
  <2>. QED BY <1>1, <1>2, <2>1, <2>4, QuietSteps
<1>6. CASE Transmit(w, d)
  <2>. DEFINE next == [at |-> "send", doc |-> d, try |-> document[d].try, tick |-> TRUE]
  <2>1. Goes(w, next) /\ document[d].status = "CONTINGENCY"
    BY <1>6 DEF Transmit
  <2>2. document[d].try \in 1 .. Len(notes[d]) /\ document[d].try <= MaxTry
    BY <1>3, <2>1, FiscalAssumption DEF DocSound, Row
  <2>3. next.at = "send" /\ next.doc = d /\ next.try = document[d].try
    OBVIOUS
  <2>. HIDE DEF next
  <2>4. SoundTask(next)
    BY <2>1, <2>2, <2>3 DEF SoundTask
  <2>. QED BY <1>1, <1>2, <2>1, <2>4, QuietSteps
<1>7. CASE StartDrain(w, d)
  <2>. DEFINE next == [at |-> "drain", doc |-> d, tick |-> FALSE]
  <2>1. Goes(w, next) /\ attachment[d] # "none"
    BY <1>7 DEF StartDrain
  <2>2. document[d].key # 0
    BY <1>3, <2>1 DEF DocSound
  <2>3. document[d].status # "none"
    BY <1>3, <2>2, FiscalAssumption DEF DocSound, Row
  <2>4. next.at = "drain" /\ next.doc = d
    OBVIOUS
  <2>. HIDE DEF next
  <2>5. SoundTask(next)
    BY <2>2, <2>3, <2>4 DEF SoundTask
  <2>. QED BY <1>1, <1>2, <2>1, <2>5, QuietSteps
<1>8. document[d].status \in PENDING_STATUSES =>
        /\ document[d].status # "none"
        /\ document[d].try \in 1 .. Len(notes[d]) /\ document[d].try <= MaxTry
        /\ document[d].key \in 0 .. Len(notes[d]) /\ document[d].key <= MaxTry
  BY <1>3, FiscalAssumption DEF DocSound, Row, PENDING_STATUSES
<1>9. CASE StartAsk(w, d)
  <2>. DEFINE next == Consultation(d, document[d].try, document[d].key)
  <2>1. Goes(w, next) /\ document[d].status \in PENDING_STATUSES
    BY <1>9 DEF StartAsk
  <2>2. SoundTask(next)
    BY <1>8, <2>1, ConsultationSound
  <2>. HIDE DEF next
  <2>. QED BY <1>1, <1>2, <2>1, <2>2, QuietSteps
<1>10. CASE ListPending(w, d)
  <2>. DEFINE next == [at |-> "poll", doc |-> d, try |-> document[d].try, ref |-> document[d].key]
  <2>1. Goes(w, next) /\ document[d].status \in PENDING_STATUSES
    BY <1>10 DEF ListPending
  <2>2. next.at = "poll" /\ next.doc = d /\ next.try = document[d].try /\ next.ref = document[d].key
    OBVIOUS
  <2>. HIDE DEF next
  <2>3. SoundTask(next)
    BY <1>8, <2>1, <2>2 DEF SoundTask
  <2>. QED BY <1>1, <1>2, <2>1, <2>3, QuietSteps
<1>. QED BY <1>4, <1>5, <1>6, <1>7, <1>9, <1>10

\* A sale is issued on line, off line or unsigned.
LEMMA EmitActions ==
  ASSUME FiscalInv, NEW w \in Request, NEW d \in Doc,
         Emit(w, d) \/ EmitOffline(w, d) \/ EmitUnsigned(w, d)
  PROVE  FiscalInv'
<1>1. sequence + 1 \in Nat /\ 0 \in Nat
  BY DEF FiscalInv, RowsTyped
<1>2. Idle.at \notin InCall
  BY DEF Idle, InCall
<1>3. CASE Emit(w, d)
  BY <1>1, <1>3, EmitStep DEF Emit
<1>4. CASE EmitOffline(w, d)
  BY <1>1, <1>2, <1>4, EmitStep DEF EmitOffline
<1>5. CASE EmitUnsigned(w, d)
  BY <1>1, <1>2, <1>5, EmitStep DEF EmitUnsigned
<1>. QED BY <1>3, <1>4, <1>5

\* A late note arrives or is lost, and the operator turns the switch.
LEMMA WorldActions ==
  ASSUME FiscalInv,
         \/ \E k \in Note : LateNote(k)
         \/ \E s \in {"off", "MANUAL"} : SetContingency(s)
         \/ UNCHANGED vars
  PROVE  FiscalInv'
<1>1. UNCHANGED <<document, notes, attachment, sequence, task>>
  BY DEF LateNote, SetContingency, vars
<1>2. OfficeGoesOn
  <2>1. CASE UNCHANGED office
    BY <2>1, OfficeStays DEF FiscalInv
  <2>2. ASSUME NEW k \in Note, LateNote(k)
        PROVE  OfficeGoesOn
    <3>1. \/ CanAuthorize(k) /\ office' = Authorize(k)
          \/ office' = [office EXCEPT !.late = office.late \ {k}]
      BY <2>2 DEF LateNote
    <3>. QED BY <3>1, OfficeAuthorizes, OfficeStays DEF FiscalInv
  <2>. QED BY <2>1, <2>2 DEF SetContingency, vars
<1>. QED BY <1>1, <1>2, WorldSteps

-----------------------------------------------------------------------------
(* The theorems *)

\* No sale is issued at the start.
LEMMA FiscalStarts == FiscalInit => FiscalInv
<1>. SUFFICES ASSUME FiscalInit PROVE FiscalInv
  OBVIOUS
<1>1. RowsTyped
  <2>1. Unissued \in Row /\ Unissued.status = "none"
    BY FiscalAssumption DEF Unissued, Row
  <2>2. <<>> \in Seq(Entry)
    OBVIOUS
  <2>. QED BY <2>1, <2>2 DEF FiscalInit, RowsTyped
<1>2. ASSUME NEW d \in Doc
      PROVE  DocSound(d)
  <2>1. /\ document[d].status = "none"
        /\ document[d].key = 0
        /\ Len(notes[d]) = 0
        /\ attachment[d] = "none"
    BY DEF FiscalInit, Unissued
  <2>. QED BY <2>1 DEF DocSound
<1>3. ASSUME NEW w \in Worker
      PROVE  SoundTask(task[w])
  <2>1. task[w].at \notin InCall
    BY DEF FiscalInit, Idle, InCall
  <2>. QED BY <2>1, Harmless
<1>. QED BY <1>1, <1>2, <1>3 DEF FiscalInv

\* Every step of a task that goes on preserves the invariant.
LEMMA ContinuesStep ==
  ASSUME FiscalInv, NEW w \in Worker, Continues(w)
  PROVE  FiscalInv'
<1>1. CASE ReceiveNote(w)
  BY <1>1, ReceiveStep
<1>2. CASE SessionExpired(w) \/ OfflineFails(w) \/ KeepSent(w) \/ ApplyRejected(w)
  BY <1>2, StatusActions
<1>3. CASE EnterContingency(w)
  BY <1>3, ContingencyStep
<1>4. CASE SendFails(w) \/ TransmitFails(w)
  BY <1>4, FailStep
<1>5. CASE ApplyAuthorized(w)
  BY <1>5, AuthorizedStep
<1>6. CASE ApplyNotFound(w)
  BY <1>6, NotFoundStep
<1>7. CASE AttachSource(w) \/ LinkSource(w)
  BY <1>7, DrainSteps
<1>8. CASE PollNote(w) \/ AskNote(w)
  BY <1>8, PollStep, AskStep
<1>9. CASE Resend(w)
  BY <1>9, ResendStep
<1>10. CASE CancelNote(w)
  BY <1>10, CancelStep
<1>11. CASE MarkCancelled(w)
  BY <1>11, MarkStep
<1>12. CASE Substitute(w)
  BY <1>12, SubstituteStep
<1>13. CASE SendVoid(w) \/ VoidUnanswered(w)
  BY <1>13, VoidStep
<1>14. CASE \/ DropAnswer(w) \/ LeaveContingency(w) \/ DrainFails(w) \/ ResendConflict(w)
            \/ RetireSource(w) \/ AskOrphan(w) \/ CloseOrphan(w) \/ VoidOrphan(w)
            \/ ApplyVoid(w) \/ Dies(w)
  BY <1>14, QuietActions
<1>. QED BY <1>1, <1>2, <1>3, <1>4, <1>5, <1>6, <1>7, <1>8, <1>9, <1>10, <1>11, <1>12,
            <1>13, <1>14 DEF Continues

\* Every step preserves the invariant.
LEMMA FiscalStep == FiscalInv /\ [FiscalNext]_vars => FiscalInv'
<1>. SUFFICES ASSUME FiscalInv, [FiscalNext]_vars PROVE FiscalInv'
  OBVIOUS
<1>1. ASSUME NEW w \in Request, RequestStarts(w)
      PROVE  FiscalInv'
  <2>1. w \in Worker
    BY DEF Worker
  <2>2. ASSUME NEW d \in Doc, Emit(w, d) \/ EmitOffline(w, d) \/ EmitUnsigned(w, d)
        PROVE  FiscalInv'
    BY <2>2, EmitActions
  <2>3. ASSUME NEW d \in Doc,
               CheckResend(w, d) \/ StartCancel(w, d) \/ StartAsk(w, d)
        PROVE  FiscalInv'
    BY <2>1, <2>3, StartSteps
  <2>4. CASE \E n \in Number : VoidNumber(w, n)
    BY <2>1, <2>4, QuietActions
  <2>. QED BY <1>1, <2>2, <2>3, <2>4 DEF RequestStarts
<1>2. ASSUME NEW w \in Job,
             \/ \E d \in Doc : Transmit(w, d) \/ StartDrain(w, d) \/ ListPending(w, d)
             \/ \E k \in Note : StartOrphan(w, k)
      PROVE  FiscalInv'
  <2>1. w \in Worker
    BY DEF Worker
  <2>2. ASSUME NEW d \in Doc, Transmit(w, d) \/ StartDrain(w, d) \/ ListPending(w, d)
        PROVE  FiscalInv'
    BY <2>1, <2>2, StartSteps
  <2>3. CASE \E k \in Note : StartOrphan(w, k)
    BY <2>1, <2>3, QuietActions
  <2>. QED BY <1>2, <2>2, <2>3
<1>3. ASSUME NEW w \in Worker, Continues(w)
      PROVE  FiscalInv'
  BY <1>3, ContinuesStep
<1>4. CASE \/ \E k \in Note : LateNote(k)
           \/ \E s \in {"off", "MANUAL"} : SetContingency(s)
           \/ UNCHANGED vars
  BY <1>4, WorldActions
<1>. QED BY <1>1, <1>2, <1>3, <1>4 DEF FiscalNext

\* Rows, attempts and what every task holds across its calls are sound, always.
THEOREM FiscalCorrect == FiscalSpec => []FiscalInv
<1>. QED BY FiscalStarts, FiscalStep, PTL DEF FiscalSpec

\* The program never takes a note for more than the office made it, whatever
\* answers arrive late, over another attempt or to a task that died, for any
\* number of concurrent requests, jobs, attempts and lost notes.
THEOREM ProgramBelievesOffice == FiscalSpec => []BelievesTheOffice
<1>1. FiscalInv => BelievesTheOffice
  <2>. SUFFICES ASSUME FiscalInv, NEW d \in Doc
                PROVE  /\ document[d].status = "AUTHORIZED" =>
                            /\ office.note[<<d, document[d].key>>] # "none"
                            /\ document[d].numero = Numero(<<d, document[d].key>>)
                       /\ document[d].status = "CANCELLED" =>
                            office.note[<<d, document[d].key>>] = "cancelled"
    BY DEF BelievesTheOffice
  <2>1. DocSound(d)
    BY DEF FiscalInv
  <2>2. Numero(<<d, document[d].key>>) = notes[d][document[d].key].numero
    BY DEF Numero
  <2>. QED BY <2>1, <2>2 DEF DocSound
<1>. QED BY <1>1, FiscalCorrect, PTL
=============================================================================

---------------------------- MODULE EntryApproval ----------------------------
(***************************************************************************)
(* The maker-checker tower over the journal (EntryApprovalService):        *)
(*                                                                         *)
(*   Draft --submit--> PendingApproval --approve--> Posted                 *)
(*                     PendingApproval --reject--> Draft                   *)
(*                                                                         *)
(* Each command reads the entry, checks it, and then runs a transaction    *)
(* whose compare-and-set is on the version only: status, hash, date and    *)
(* authors come from the read.  The commands run beside everything that    *)
(* Ledger does.                                                            *)
(***************************************************************************)
EXTENDS Ledger

CONSTANTS
  User,        \* actors
  Owner,       \* ownerUserId of the scope
  Content,     \* description and legs of an entry
  Command,     \* in-flight approval requests
  MaxVersion   \* bound: the versions of an entry explored

ASSUME ApprovalAssumption ==
  /\ Owner \in User
  /\ NULL \notin User \cup Content
  /\ MaxVersion \in Nat \ {0}

VARIABLES
  draft,    \* the columns of journal_entries that only the approval uses
  command   \* what each in-flight command read, and what it will write

approvalVars == <<draft, command>>
allVars == <<vars, approvalVars>>

\* computeEntryContentHash(date, description, postings): sha256 taken to be
\* injective, so the hash is what it hashes.  A description is the text of the
\* draft, and TRUE when the remark of a late record was appended to it.
Hash == Period \X Content \X BOOLEAN

\* content is NULL for an entry that did not come through createDraft.
DraftColumns ==
  [content : Content \cup {NULL}, hash : Hash \cup {NULL}, version : 1 .. MaxVersion,
   createdBy : User \cup {NULL}, submittedBy : User \cup {NULL},
   approvedBy : User \cup {NULL}]

NoDraft ==
  [content |-> NULL, hash |-> NULL, version |-> 1,
   createdBy |-> NULL, submittedBy |-> NULL, approvedBy |-> NULL]

NoCommand == [do |-> "none"]

\* period and content: what updateDraft writes, or the date and content that
\* the other commands read.
CommandState ==
  [do : {"update", "submit", "approve", "reject"}, entry : EntryId, actor : User,
   version : 1 .. MaxVersion, period : Period, content : Content,
   hash : Hash \cup {NULL}, reason : BOOLEAN]

ApprovalTypeOK ==
  /\ TypeOK
  /\ draft \in [EntryId -> DraftColumns]
  /\ command \in [Command -> CommandState \cup {NoCommand}]

ApprovalInit ==
  /\ Init
  /\ draft = [e \in EntryId |-> NoDraft]
  /\ command = [c \in Command |-> NoCommand]

-----------------------------------------------------------------------------
\* AccountingPolicy.enforcesSegregationOfDuties: off while the owner acts.
EnforcesSegregation(actor) == actor # Owner

\* The guard of createEntry with status Draft: no number, no source id.
DraftRow(p) ==
  [period |-> p, number |-> 0, src |-> <<"manual", NULL>>, status |-> "Draft",
   reversedBy |-> NULL, mirrors |-> NULL, late |-> FALSE]

Done(c) == command' = [command EXCEPT ![c] = NoCommand]

\* createDraft: one transaction; only the chart of accounts is read before it.
CreateDraft(e, p, content, actor) ==
  /\ entry[e] = NULL
  /\ entry' = [entry EXCEPT ![e] = DraftRow(p)]
  /\ draft' = [draft EXCEPT ![e] =
       [NoDraft EXCEPT !.content = content, !.createdBy = actor]]
  /\ audit' = audit \cup {<<"entry.drafted", e, NULL>>}
  /\ UNCHANGED <<period, last, job, answers, command>>

\* Before the transaction.  A client sends the version it has seen; an older one
\* than the row's can only lose the compare-and-set, so the row's is sent.
Read(c, do, e, actor, p, content, reason) ==
  /\ command[c] = NoCommand
  /\ entry[e] # NULL
  /\ draft[e].version < MaxVersion
  /\ command' = [command EXCEPT ![c] =
       [do |-> do, entry |-> e, actor |-> actor, version |-> draft[e].version,
        period |-> p, content |-> content, hash |-> draft[e].hash, reason |-> reason]]
  /\ UNCHANGED <<vars, draft>>

\* Mutants: an edit or a submit of an entry that is not a draft.
ReadForUpdateAnyStatus(c, e, actor, p, content) ==
  Read(c, "update", e, actor, p, content, FALSE)

ReadForSubmitAnyStatus(c, e, actor) ==
  /\ entry[e] # NULL
  /\ Read(c, "submit", e, actor, entry[e].period, draft[e].content, FALSE)

ReadForUpdate(c, e, actor, p, content) ==
  /\ entry[e] # NULL /\ entry[e].status = "Draft"
  /\ Read(c, "update", e, actor, p, content, FALSE)

ReadForSubmit(c, e, actor) ==
  /\ entry[e] # NULL /\ entry[e].status = "Draft"
  /\ Read(c, "submit", e, actor, entry[e].period, draft[e].content, FALSE)

\* Segregation of duties and the period preflight.
ReadForApprove(c, e, actor, reason) ==
  /\ entry[e] # NULL /\ entry[e].status = "PendingApproval"
  /\ EnforcesSegregation(actor) => actor \notin {draft[e].createdBy, draft[e].submittedBy}
  /\ IsOpen(entry[e].period)
  /\ Read(c, "approve", e, actor, entry[e].period, draft[e].content, reason)

ReadForReject(c, e, actor) ==
  /\ entry[e] # NULL /\ entry[e].status = "PendingApproval"
  /\ Read(c, "reject", e, actor, entry[e].period, draft[e].content, FALSE)

\* Mutant: any later version is accepted.
CasAtLeast(c) == draft[command[c].entry].version >= command[c].version

\* casUpdate: WHERE version = expectedVersion, SET version = expectedVersion + 1.
Cas(c) == draft[command[c].entry].version = command[c].version

Bumped(c) == [draft[command[c].entry] EXCEPT !.version = command[c].version + 1]

UpdateCommit(c) ==
  LET e == command[c].entry IN
  /\ command[c].do = "update"
  /\ Cas(c)
  /\ entry' = [entry EXCEPT ![e].period = command[c].period]
  /\ draft' = [draft EXCEPT ![e] =
       [Bumped(c) EXCEPT !.content = command[c].content, !.hash = NULL]]
  /\ audit' = audit \cup {<<"entry.draft_updated", e, NULL>>}
  /\ Done(c)
  /\ UNCHANGED <<period, last, job, answers>>

SubmitCommit(c) ==
  LET e == command[c].entry IN
  /\ command[c].do = "submit"
  /\ Cas(c)
  /\ entry' = [entry EXCEPT ![e].status = "PendingApproval"]
  /\ draft' = [draft EXCEPT ![e] =
       [Bumped(c) EXCEPT !.hash = <<command[c].period, command[c].content, FALSE>>,
                         !.submittedBy = command[c].actor]]
  /\ audit' = audit \cup {<<"entry.submitted", e, NULL>>}
  /\ Done(c)
  /\ UNCHANGED <<period, last, job, answers>>

\* The gate is on the date read; the hash read is compared with one over the
\* legs read again here and the date and description read before.
ApproveCommit(c) ==
  LET e == command[c].entry  p == command[c].period IN
  /\ command[c].do = "approve"
  /\ GateTx(p, command[c].reason)
  /\ command[c].hash # NULL
  /\ command[c].hash = <<p, draft[e].content, FALSE>>
  /\ Cas(c)
  /\ NextEntryNumber(p)
  /\ entry' = [entry EXCEPT ![e].status = "Posted",
                            ![e].number = last[YearOf[p]] + 1,
                            ![e].late = period[p].closedAt /\ command[c].reason]
  /\ draft' = [draft EXCEPT ![e] = [Bumped(c) EXCEPT !.approvedBy = command[c].actor]]
  /\ audit' = audit \cup {<<"entry.approved", e, NULL>>}
  /\ Done(c)
  /\ UNCHANGED <<period, job, answers>>

RejectCommit(c) ==
  LET e == command[c].entry IN
  /\ command[c].do = "reject"
  /\ Cas(c)
  /\ entry' = [entry EXCEPT ![e].status = "Draft"]
  /\ draft' = [draft EXCEPT ![e] =
       [Bumped(c) EXCEPT !.hash = NULL, !.submittedBy = NULL]]
  /\ audit' = audit \cup {<<"entry.rejected", e, NULL>>}
  /\ Done(c)
  /\ UNCHANGED <<period, last, job, answers>>

\* A check that throws, a lost compare-and-set, a rollback or a crash.
AbandonCommand(c) ==
  /\ command[c] # NoCommand
  /\ Done(c)
  /\ UNCHANGED <<vars, draft>>

ApprovalNext ==
  \/ \E e \in EntryId, p \in Period, content \in Content, actor \in User :
       CreateDraft(e, p, content, actor)
  \/ \E c \in Command, e \in EntryId, actor \in User :
       \/ \E p \in Period, content \in Content : ReadForUpdate(c, e, actor, p, content)
       \/ ReadForSubmit(c, e, actor)
       \/ \E reason \in BOOLEAN : ReadForApprove(c, e, actor, reason)
       \/ ReadForReject(c, e, actor)
  \/ \E c \in Command :
       \/ UpdateCommit(c) \/ SubmitCommit(c) \/ ApproveCommit(c) \/ RejectCommit(c)
       \/ AbandonCommand(c)

ApprovalSpec == ApprovalInit /\ [][ApprovalNext \/ (Next /\ UNCHANGED approvalVars)]_allVars

-----------------------------------------------------------------------------
(* Properties *)

\* "The checker approves exactly what was submitted" (ACC-017): while an entry is
\* pending, and for good once it is approved, its date, text and legs are those the
\* hash was frozen over (a late approval appends its remark to the text).
ContentFrozen ==
  \A e \in Rows :
    entry[e].status = "PendingApproval" \/ draft[e].approvedBy # NULL
      => draft[e].hash = <<entry[e].period, draft[e].content, FALSE>>

\* "Approver # creator/submitter" for a delegate, though the check is made on a
\* read that rejections and resubmissions may have overtaken.
DutiesSegregated ==
  \A e \in EntryId :
    draft[e].approvedBy \notin {NULL, Owner} =>
      draft[e].approvedBy \notin {draft[e].createdBy, draft[e].submittedBy}

\* A number is born at the post and never in a draft, so a rejected draft leaves
\* no gap (ACC-015); who approved an entry is known exactly when it was approved.
NumberedIffPosted ==
  /\ \A e \in Rows : entry[e].status \in {"Draft", "PendingApproval"} <=> entry[e].number = 0
  /\ \A e \in Rows :
       draft[e].approvedBy # NULL <=> <<"entry.approved", e, NULL>> \in audit

\* Once an entry has a number, no late command moves it back, re-dates it,
\* renumbers it or rewrites its content: only its reversal touches it.
PostedIsImmutable ==
  [][\A e \in Numbered :
       /\ entry'[e].number = entry[e].number
       /\ entry'[e].period = entry[e].period
       /\ entry'[e].status \in {entry[e].status, "Reversed"}
       /\ draft'[e] = draft[e]]_allVars
=============================================================================

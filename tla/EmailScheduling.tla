-------------------------- MODULE EmailScheduling --------------------------
(***************************************************************************)
(* The emails of one sequence: SchedulingService (createBatch,             *)
(* simulateSend, sendFirstStepNow, the cancelFutureJobs family), the        *)
(* outcomes of ResponseOutcomeService, ReplySimulationService, and the      *)
(* removals, unlink and import confirmation that write the same two        *)
(* tables.  Only the last four run in a transaction: every other handler   *)
(* reads rows, then updates them by id with no condition, one statement at *)
(* a time, beside any other handler.                                       *)
(*                                                                         *)
(* An email is known by its contact and its step: step contents keep their *)
(* first version, and the steps their positions and statuses.              *)
(***************************************************************************)
EXTENDS Naturals, FiniteSets

CONSTANTS
    Contacts,     \* those who may be enrolled in the sequence
    Company,      \* those of them enrolled for the one company modelled
    Steps,        \* the positions of the sequence's steps
    Published,    \* the steps in status PUBLISHED
    Archived,     \* the steps in status ARCHIVED
    DailyLimit,   \* the mailbox's sendingLimits.dailyLimit
    Slots,        \* handlers that may run at once
    MaxRequests,  \* bound: requests admitted in a behaviour
    None          \* absent

ASSUME ConstantsAssumption ==
    /\ Company \subseteq Contacts
    /\ Steps \subseteq Nat \ {0}
    /\ Published \subseteq Steps \ Archived
    /\ DailyLimit \in Nat /\ MaxRequests \in Nat
    /\ None \notin Contacts

VARIABLES
    contact,      \* sequence_contacts: status and current step
    email,        \* scheduled_emails
    suppressed,   \* contacts suppressed everywhere
    conversation, \* contacts with a conversation about this sequence
    req,          \* what each handler holds and does next
    requests,     \* how many requests were admitted
    overwritten,  \* auxiliary: emails whose status SENT was overwritten
    overlapped,   \* auxiliary: contacts that two handlers worked on at once
    resent        \* auxiliary: emails simulated when they no longer waited

businessVars == <<contact, email, suppressed, conversation>>
handlerVars == <<req, requests, overlapped, resent>>
vars == <<businessVars, handlerVars, overwritten>>

-----------------------------------------------------------------------------
Row == Contacts \X Steps

\* A contact's currentStepId is null once it has COMPLETED.
StepOrNull == Steps \cup {0}
LiveSteps == Steps \ Archived

\* Mutant of the next definition: the first PUBLISHED step found, unsorted.
IsFirstUnsorted(k) == k \in Published

\* §21: contacts enter at the first PUBLISHED step...
IsFirst(k) == k \in Published /\ \A p \in Published : k <= p

\* ... and go through every step that is not ARCHIVED, the DRAFT ones included.
Course == {k \in LiveSteps : \E p \in Published : p <= k}

IsNext(k, j) == j \in LiveSteps /\ k < j /\ \A i \in LiveSteps : k < i => j <= i

\* Mutant of the next definition: the neighbouring position is the next step.
IsLastByPosition(k) == k + 1 \notin LiveSteps
IsLast(k) == \A j \in LiveSteps : j <= k

ContactStatus == {"NONE", "ACTIVE", "SCHEDULED", "REPLIED", "BOUNCED", "UNSUBSCRIBED",
                  "COMPLETED", "COMPLETED_MANUALLY", "REMOVED"}
Stopped == ContactStatus \ {"NONE", "ACTIVE", "SCHEDULED"}
NON_ACTIVE_SEQUENCE_STATUSES == {"REMOVED", "COMPLETED", "COMPLETED_MANUALLY", "UNSUBSCRIBED"}
Participating == ContactStatus \ ({"NONE"} \cup NON_ACTIVE_SEQUENCE_STATUSES)

EmailStatus == {"NONE", "PENDING", "RETRY_SCHEDULED", "FAILED", "SENT", "CANCELLED"}

\* Mutants of the next definition: retries are forgotten; sent emails are included.
CANCELLABLE_WithoutRetries == {"PENDING"}
CANCELLABLE_WithSent == {"PENDING", "RETRY_SCHEDULED", "SENT"}

\* SCHEDULED and QUEUED are cancellable too, but nothing writes them.
CANCELLABLE_STATUSES == {"PENDING", "RETRY_SCHEDULED"}
Waiting == {r \in Row : email[r].status \in CANCELLABLE_STATUSES}

\* sentAt is set once sent and nothing clears it; reply: inReplyTo names a message.
Emails == [status: EmailStatus, sent: BOOLEAN, reply: BOOLEAN]

\* The statuses a reply's classification leads to, "NONE" when it does not stop.
ReplyStatus == {"REPLIED", "BOUNCED", "UNSUBSCRIBED", "NONE"}

Points == {"idle", "check", "create", "mark", "read", "write", "advance", "fail",
           "enrollments", "cancelRead", "cancel", "stop", "suppress", "converse",
           "companyRead", "companyWrite", "enrol", "enrolCreate", "first"}

\* who, step: the row in hand; rows: those still to visit; list: those to create;
\* status: the one to write; scope: the contacts the handler may still write.
Requests ==
    [pc: Points, op: {"none", "batch", "send", "cancelAll", "company", "contact", "refer", "reply"},
     who: Contacts \cup {None}, step: StepOrNull, rows: SUBSET Row, list: SUBSET Row,
     status: ContactStatus \cup EmailStatus, reply: BOOLEAN, scope: SUBSET Contacts]

Idle == [pc |-> "idle", op |-> "none", who |-> None, step |-> 0, rows |-> {}, list |-> {},
         status |-> "NONE", reply |-> FALSE, scope |-> {}]

Init ==
    /\ contact = [c \in Contacts |-> [status |-> "NONE", step |-> 0]]
    /\ email = [r \in Row |-> [status |-> "NONE", sent |-> FALSE, reply |-> FALSE]]
    /\ suppressed = {}
    /\ conversation = {}
    /\ req = [s \in Slots |-> Idle]
    /\ requests = 0
    /\ overwritten = {}
    /\ overlapped = {}
    /\ resent = {}

-----------------------------------------------------------------------------
(* Handlers in general.                                                     *)

\* The contacts that handlers other than s may still write.
InHand(s) == UNION {req[t].scope : t \in Slots \ {s}}

Handle(s, r) ==
    /\ req' = [req EXCEPT ![s] = r]
    /\ overlapped' = overlapped \cup (r.scope \cap InHand(s))

Continue(s, r) == Handle(s, r) /\ UNCHANGED <<requests, resent>>
Goto(s, p) == Continue(s, [req[s] EXCEPT !.pc = p])
Finish(s) == Continue(s, Idle)

Admit == requests < MaxRequests /\ requests' = requests + 1

\* again: the emails that the request simulates although they no longer wait.
Begin(s, r, again) ==
    /\ req[s].pc = "idle"
    /\ Admit
    /\ Handle(s, r)
    /\ resent' = resent \cup again

At(s, p) == req[s].pc = p

\* A request of one transaction, which writes the contacts in C.
Transaction(C) ==
    /\ Admit
    /\ overlapped' = overlapped \cup (C \cap UNION {req[t].scope : t \in Slots})
    /\ UNCHANGED <<req, resent>>

\* scheduledEmails.update: by id, whatever the row's status is by now.
WriteEmail(r, new) ==
    /\ email' = [email EXCEPT ![r] = new]
    /\ overwritten' = IF email[r].status = "SENT" /\ new.status # "SENT"
                      THEN overwritten \cup {r} ELSE overwritten

\* sequenceContacts.update, likewise.
WriteStatus(c, status) == contact' = [contact EXCEPT ![c].status = status]

\* The process stops, or a statement throws: what is written stays written.
HandlerFails(s) ==
    /\ ~At(s, "idle")
    /\ Finish(s)
    /\ UNCHANGED <<businessVars, overwritten>>

-----------------------------------------------------------------------------
(* createBatch.                                                             *)

\* Mutant of the next definition: any contact with a current step is due.
IsDueInAnyStatus(c) == contact[c].step # 0
IsDue(c) == contact[c].status = "ACTIVE" /\ contact[c].step # 0

BeginBatch(s) ==
    LET due == {c \in Contacts : IsDue(c)}
    IN  /\ due # {}
        /\ Begin(s, [Idle EXCEPT !.pc = "check", !.op = "batch", !.scope = due,
                                 !.rows = {<<c, contact[c].step>> : c \in due}], {})
        /\ UNCHANGED <<businessVars, overwritten>>

\* One contact's emails are read; it is pending unless its step has one already.
BatchCheck(s) ==
    /\ At(s, "check")
    /\ \E r \in req[s].rows :
         Continue(s, [req[s] EXCEPT !.rows = @ \ {r},
                        !.list = IF email[r].status \in {"NONE", "CANCELLED"}
                                 THEN @ \cup {r} ELSE @])
    /\ UNCHANGED <<businessVars, overwritten>>

\* The limit keeps the contacts that are furthest on: follow-ups come first.
BatchCap(s) ==
    /\ At(s, "check") /\ req[s].rows = {}
    /\ \E kept \in SUBSET req[s].list :
         /\ kept # req[s].list => Cardinality(kept) = DailyLimit
         /\ Cardinality(kept) <= DailyLimit
         /\ \A r \in kept, q \in req[s].list \ kept : q[2] <= r[2]
         /\ IF kept = {} THEN Finish(s)
            ELSE Continue(s, [req[s] EXCEPT !.pc = "create", !.list = kept,
                                            !.scope = {r[1] : r \in kept}])
    /\ UNCHANGED <<businessVars, overwritten>>

\* Mutant of the next definition: the row is SCHEDULED like its contact.
NewEmailScheduled == [status |-> "SCHEDULED", sent |-> FALSE, reply |-> FALSE]
NewEmail == [status |-> "PENDING", sent |-> FALSE, reply |-> FALSE]

\* The unique key of contact, step and version refuses a second row, cancelled or
\* not: the conflict ends the batch where it is.
BatchCreate(s) ==
    /\ At(s, "create")
    /\ \E r \in req[s].list :
         /\ \A q \in req[s].list : q[2] <= r[2]
         /\ \/ /\ email[r].status = "NONE"
               /\ WriteEmail(r, NewEmail)
               /\ Continue(s, [req[s] EXCEPT !.pc = "mark", !.who = r[1], !.step = r[2],
                                             !.list = @ \ {r}])
            \/ /\ email[r].status # "NONE"
               /\ Finish(s)
               /\ UNCHANGED <<email, overwritten>>
    /\ UNCHANGED <<contact, suppressed, conversation>>

BatchMark(s) ==
    /\ At(s, "mark")
    /\ WriteStatus(req[s].who, "SCHEDULED")
    /\ IF req[s].list = {} THEN Finish(s)
       ELSE Continue(s, [req[s] EXCEPT !.pc = "create", !.who = None, !.step = 0,
                                       !.scope = @ \ {req[s].who}])
    /\ UNCHANGED <<email, suppressed, conversation, overwritten>>

-----------------------------------------------------------------------------
(* simulateSend: of any email that exists, whatever its status.  One that no *)
(* longer waits, sent or cancelled, is simulated like any other.             *)

Simulates(c, k, p, status) ==
    [Idle EXCEPT !.pc = p, !.op = "send", !.who = c, !.step = k, !.status = status,
                 !.scope = {c}]

BeginSend(s) ==
    \E r \in Row :
      /\ email[r].status # "NONE"
      /\ \E outcome \in {"SENT", "RETRY_SCHEDULED", "FAILED"} :
           Begin(s, Simulates(r[1], r[2], IF outcome = "SENT" THEN "read" ELSE "fail", outcome),
                 {r} \ Waiting)
      /\ UNCHANGED <<businessVars, overwritten>>

FailWrite(s) ==
    LET r == <<req[s].who, req[s].step>>
    IN  /\ At(s, "fail")
        /\ WriteEmail(r, [email[r] EXCEPT !.status = req[s].status])
        /\ Finish(s)
        /\ UNCHANGED <<contact, suppressed, conversation>>

\* Mutant of the next definition: only the preceding position is looked at.
SentBeforeByPosition(c, k) == k - 1 \in Steps /\ email[<<c, k - 1>>].status = "SENT"
SentBefore(c, k) == \E j \in Steps : email[<<c, j>>].status = "SENT"

\* priorSent: with a message already sent to the contact, this one answers it.
SendRead(s) ==
    /\ At(s, "read")
    /\ Continue(s, [req[s] EXCEPT !.pc = "write",
                                  !.reply = SentBefore(req[s].who, req[s].step)])
    /\ UNCHANGED <<businessVars, overwritten>>

SendWrite(s) ==
    /\ At(s, "write")
    /\ WriteEmail(<<req[s].who, req[s].step>>,
                  [status |-> "SENT", sent |-> TRUE, reply |-> req[s].reply])
    /\ Goto(s, "advance")
    /\ UNCHANGED <<contact, suppressed, conversation>>

\* Mutant of the next definition: the status is left as createBatch set it.
StatusOnNextStepUnchanged == "SCHEDULED"
StatusOnNextStep == "ACTIVE"

\* The contact moves on from the step sent, wherever it was.
SendAdvance(s) ==
    LET c == req[s].who
        k == req[s].step
    IN  /\ At(s, "advance")
        /\ \/ \E j \in LiveSteps :
                /\ IsNext(k, j) /\ ~IsLast(k)
                /\ contact' = [contact EXCEPT ![c] = [status |-> StatusOnNextStep, step |-> j]]
           \/ /\ IsLast(k)
              /\ contact' = [contact EXCEPT ![c] = [status |-> "COMPLETED", step |-> 0]]
        /\ Finish(s)
        /\ UNCHANGED <<email, suppressed, conversation, overwritten>>

-----------------------------------------------------------------------------
(* The cancelFutureJobs family, and what each of its callers goes on to do.  *)

\* cancelPendingSends: every contact of the sequence, none of which is stopped.
BeginCancelAll(s) ==
    /\ Begin(s, [Idle EXCEPT !.pc = "cancelRead", !.op = "cancelAll", !.scope = Contacts], {})
    /\ UNCHANGED <<businessVars, overwritten>>

\* interested, notInterested: about a conversation, for the contact's company.
BeginCompany(s) ==
    /\ Company \cap conversation # {}
    /\ Begin(s, [Idle EXCEPT !.pc = "cancelRead", !.op = "company", !.scope = Company], {})
    /\ UNCHANGED <<businessVars, overwritten>>

About(c, op, p, status) ==
    [Idle EXCEPT !.pc = p, !.op = op, !.who = c, !.status = status, !.scope = {c}]

BeginDoNotContact(s) ==
    \E c \in conversation \ suppressed :
      /\ Begin(s, About(c, "contact", "enrollments", "REMOVED"), {})
      /\ UNCHANGED <<businessVars, overwritten>>

BeginRefer(s) ==
    \E c \in conversation :
      /\ Begin(s, About(c, "refer", "cancelRead", "REMOVED"), {})
      /\ UNCHANGED <<businessVars, overwritten>>

\* simulateReply: to an email that is SENT; some classifications stop nothing.
BeginReply(s) ==
    \E r \in Row, status \in ReplyStatus :
      /\ email[r].status = "SENT"
      /\ Begin(s, About(r[1], "reply", IF status = "NONE" THEN "converse" ELSE "cancelRead",
                        status), {})
      /\ UNCHANGED <<businessVars, overwritten>>

\* doNotContact stops the contact only where it still takes part.
ReadEnrollments(s) ==
    /\ At(s, "enrollments")
    /\ Goto(s, IF contact[req[s].who].status \in Participating THEN "cancelRead" ELSE "suppress")
    /\ UNCHANGED <<businessVars, overwritten>>

AfterCancel(s) ==
    IF req[s].op = "cancelAll" THEN Idle
    ELSE [req[s] EXCEPT !.pc = IF req[s].op = "company" THEN "companyRead" ELSE "stop",
                        !.rows = {}]

\* The rows are read once; those that can be cancelled then are.
CancelRead(s) ==
    LET found == {r \in Waiting : r[1] \in req[s].scope}
    IN  /\ At(s, "cancelRead")
        /\ Continue(s, IF found = {} THEN AfterCancel(s)
                       ELSE [req[s] EXCEPT !.pc = "cancel", !.rows = found])
        /\ UNCHANGED <<businessVars, overwritten>>

CancelRow(s) ==
    /\ At(s, "cancel")
    /\ \E r \in req[s].rows :
         /\ WriteEmail(r, [email[r] EXCEPT !.status = "CANCELLED"])
         /\ Continue(s, IF req[s].rows = {r} THEN AfterCancel(s)
                        ELSE [req[s] EXCEPT !.rows = @ \ {r}])
    /\ UNCHANGED <<contact, suppressed, conversation>>

\* The contact's status is written last; what follows depends on the caller.
StopContact(s) ==
    /\ At(s, "stop")
    /\ WriteStatus(req[s].who, req[s].status)
    /\ Goto(s, CASE req[s].op = "refer" -> "enrol"
                 [] req[s].op = "contact" -> "suppress"
                 [] OTHER -> IF req[s].status = "REPLIED" THEN "converse" ELSE "suppress")
    /\ UNCHANGED <<email, suppressed, conversation, overwritten>>

Suppress(s) ==
    /\ At(s, "suppress")
    /\ suppressed' = suppressed \cup {req[s].who}
    /\ IF req[s].op = "reply" THEN Goto(s, "converse") ELSE Finish(s)
    /\ UNCHANGED <<contact, email, conversation, overwritten>>

Converse(s) ==
    /\ At(s, "converse")
    /\ conversation' = conversation \cup {req[s].who}
    /\ Finish(s)
    /\ UNCHANGED <<contact, email, suppressed, overwritten>>

\* stopWholeCompany: those who still take part, then one update for each of them.
CompanyRead(s) ==
    LET found == {c \in Company : contact[c].status \in Participating}
    IN  /\ At(s, "companyRead")
        /\ IF found = {} THEN Finish(s)
           ELSE Continue(s, [req[s] EXCEPT !.pc = "companyWrite", !.scope = found])
        /\ UNCHANGED <<businessVars, overwritten>>

CompanyWrite(s) ==
    /\ At(s, "companyWrite")
    /\ \E c \in req[s].scope :
         /\ WriteStatus(c, "COMPLETED_MANUALLY")
         /\ IF req[s].scope = {c} THEN Finish(s)
            ELSE Continue(s, [req[s] EXCEPT !.scope = @ \ {c}])
    /\ UNCHANGED <<email, suppressed, conversation, overwritten>>

-----------------------------------------------------------------------------
(* Enrolment: refer's new contact, and the confirmation of an import.       *)

\* The contact who replied is already REMOVED: a new one that is enrolled, active or
\* not, is refused all the same.
ReferRead(s) ==
    /\ At(s, "enrol")
    /\ \E c \in Contacts :
         IF contact[c].status = "NONE"
         THEN Continue(s, [req[s] EXCEPT !.pc = "enrolCreate", !.who = c, !.scope = {c}])
         ELSE Finish(s)
    /\ UNCHANGED <<businessVars, overwritten>>

Enrol(C, k) ==
    /\ IsFirst(k)
    /\ contact' = [c \in Contacts |-> IF c \in C THEN [status |-> "ACTIVE", step |-> k]
                                      ELSE contact[c]]

\* A contact enrolled since the read is refused; the first email may go out at once.
ReferEnrol(s) ==
    /\ At(s, "enrolCreate")
    /\ \/ /\ contact[req[s].who].status = "NONE"
          /\ \E k \in Published :
               /\ Enrol({req[s].who}, k)
               /\ \/ Finish(s)
                  \/ Continue(s, [req[s] EXCEPT !.pc = "first", !.step = k])
       \/ /\ contact[req[s].who].status # "NONE"
          /\ Finish(s)
          /\ UNCHANGED contact
    /\ UNCHANGED <<email, suppressed, conversation, overwritten>>

\* sendFirstStepNow: the email is created, and simulated at once.
FirstCreate(s) ==
    LET r == <<req[s].who, req[s].step>>
    IN  /\ At(s, "first")
        /\ \/ /\ email[r].status = "NONE"
              /\ WriteEmail(r, NewEmail)
              /\ Continue(s, Simulates(r[1], r[2], "read", "SENT"))
           \/ /\ email[r].status # "NONE"
              /\ Finish(s)
              /\ UNCHANGED <<email, overwritten>>
        /\ UNCHANGED <<contact, suppressed, conversation>>

\* ConfirmProspectImportUseCase: those not yet enrolled, in one transaction.
ConfirmImport ==
    \E C \in SUBSET {c \in Contacts : contact[c].status = "NONE"} :
      /\ C # {}
      /\ Transaction(C)
      /\ \E k \in Published : Enrol(C, k)
      /\ UNCHANGED <<email, suppressed, conversation, overwritten>>

-----------------------------------------------------------------------------
(* Removal and unlink: one transaction each, over the rows as they are.     *)

CancelWhere(C) ==
    email' = [r \in Row |-> IF r \in Waiting /\ r[1] \in C
                            THEN [email[r] EXCEPT !.status = "CANCELLED"] ELSE email[r]]

\* conditionalRemove, bulkRemoveByCompany: those that are not REMOVED yet.
Removable(C) == {c \in C : contact[c].status \notin {"NONE", "REMOVED"}}

Remove(C) ==
    /\ Transaction(C)
    /\ contact' = [c \in Contacts |-> IF c \in Removable(C)
                                      THEN [contact[c] EXCEPT !.status = "REMOVED"]
                                      ELSE contact[c]]
    /\ CancelWhere(C)
    /\ UNCHANGED <<suppressed, conversation, overwritten>>

RemoveContact == \E c \in Removable(Contacts) : Remove({c})
RemoveCompany == Remove(Company)

\* UnlinkMailboxUseCase: the contacts keep the status they have.
UnlinkMailbox ==
    /\ Transaction(Contacts)
    /\ Waiting # {}
    /\ CancelWhere(Contacts)
    /\ UNCHANGED <<contact, suppressed, conversation, overwritten>>

-----------------------------------------------------------------------------
Next ==
    \/ \E s \in Slots :
         \/ BeginBatch(s) \/ BatchCheck(s) \/ BatchCap(s) \/ BatchCreate(s) \/ BatchMark(s)
         \/ BeginSend(s) \/ FailWrite(s) \/ SendRead(s) \/ SendWrite(s) \/ SendAdvance(s)
         \/ BeginCancelAll(s) \/ BeginCompany(s) \/ BeginDoNotContact(s) \/ BeginRefer(s)
         \/ BeginReply(s) \/ ReadEnrollments(s) \/ CancelRead(s) \/ CancelRow(s)
         \/ StopContact(s) \/ Suppress(s) \/ Converse(s) \/ CompanyRead(s) \/ CompanyWrite(s)
         \/ ReferRead(s) \/ ReferEnrol(s) \/ FirstCreate(s) \/ HandlerFails(s)
    \/ ConfirmImport \/ RemoveContact \/ RemoveCompany \/ UnlinkMailbox

Spec == Init /\ [][Next]_vars

-----------------------------------------------------------------------------
(* Properties.                                                              *)

\* Every variable has the shape its table or handler gives it.
TypeOK ==
    /\ contact \in [Contacts -> [status: ContactStatus, step: StepOrNull]]
    /\ email \in [Row -> Emails]
    /\ suppressed \subseteq Contacts /\ conversation \subseteq Contacts
    /\ req \in [Slots -> Requests]
    /\ requests \in Nat
    /\ overwritten \subseteq Row /\ resent \subseteq Row /\ overlapped \subseteq Contacts

\* No step is jumped: an email exists for a step of the course only once those of
\* all the earlier steps were sent, however handlers interleave, fail or repeat.
InOrder ==
    \A c \in Contacts, k \in Steps, j \in Course :
      j < k /\ email[<<c, k>>].status # "NONE" => email[<<c, j>>].sent

\* COMPLETED "went through every step naturally" (sequence-contact.entity.ts:6):
\* each step of the course was sent to the contact.
CompletedWentThrough ==
    \A c \in Contacts, j \in Course :
      contact[c].status = "COMPLETED" => email[<<c, j>>].sent

\* §32: a follow-up answers the message sent before it, unless a cancellation, a
\* failure or a retry took the status SENT from an earlier email.
FollowUpsReply ==
    \A c \in Contacts, k \in Steps, j \in Course :
      j < k /\ email[<<c, k>>].sent /\ ~email[<<c, k>>].reply =>
        \E i \in Steps : <<c, i>> \in overwritten

\* The contacts that an email was simulated for although it no longer waited.
Resent == {r[1] : r \in resent}

\* §27: as long as requests about a contact come one at a time, even when they fail
\* half-way, none of its emails waits to be sent once it is stopped, or suppressed by
\* a request about this sequence.  Excepted is what a lone simulateSend may do, which
\* takes an email in any status (scheduling.service.ts:203): an email itself simulated
\* after it was sent, failed or cancelled may wait again, and a suppressed contact of
\* which one was may be made ACTIVE by it and go on.
QuietOnceStopped ==
    \A c \in Contacts \ overlapped, k \in Steps :
      email[<<c, k>>].status \in {"PENDING", "RETRY_SCHEDULED"} =>
        /\ contact[c].status \in Stopped => <<c, k>> \in resent
        /\ c \in suppressed => c \in Resent

\* With requests about a contact one at a time, whatever they simulate again, a
\* SCHEDULED contact has an email for the step it is at.
ScheduledHasItsEmail ==
    \A c \in Contacts \ overlapped :
      contact[c].status = "SCHEDULED" =>
        /\ contact[c].step # 0
        /\ email[<<c, contact[c].step>>].status # "NONE"

\* With requests about a contact one at a time, an email that is SENT is written by
\* no batch, cancellation, removal or reply: only by a simulateSend of that very
\* email, which scheduling.service.ts:203 lets through (and may leave it FAILED).
SentIsFinal ==
    [][\A r \in Row :
         email[r].status = "SENT" /\ r[1] \notin overlapped' /\ r \notin resent =>
           email'[r] = email[r]]_vars

-----------------------------------------------------------------------------
(* What the two tables amount to, as SequenceCourse has it.                 *)

Received == [c \in Contacts |-> {k \in Steps : email[<<c, k>>].sent}]
WithStatus(statuses) == {c \in Contacts : contact[c].status \in statuses}

Sequence == INSTANCE SequenceCourse WITH
    received <- Received,
    stopped <- WithStatus(Stopped),
    through <- WithStatus({"COMPLETED"}),
    loose <- overlapped \cup Resent

\* Batches, simulations, cancellations, removals, replies and enrolments, with every
\* statement of theirs at its own time, give what a sequence promises: a contact
\* receives the steps in order, and, once it is stopped, stays so and receives nothing
\* more, unless requests about it overlapped or an email of its was simulated after
\* it had been sent, failed or cancelled.
ImplementsCourse == Sequence!Spec
=============================================================================

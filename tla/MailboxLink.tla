---------------------------- MODULE MailboxLink ----------------------------
(***************************************************************************)
(* One mailbox account that the motor hands over against a token: its link *)
(* (LinkMailboxUseCase, UnlinkMailboxUseCase, and the three places that ask *)
(* the motor for its status), and its executives (reassignment, the         *)
(* configuration use cases, MailboxesService.setAssignees and the wizard of *)
(* SequencesService) with the visibility on the account's client that       *)
(* follows from an assignment.                                              *)
(*                                                                         *)
(* link, unlink up to its commit, reassign, configure and update run in a  *)
(* transaction that ends with the claim of the Idempotency-Key.  The        *)
(* confirmation of an unlink, the status checks, setAssignees and the       *)
(* wizard do not.  The motor is external and the only authority on the link *)
(* at its side: it revokes for good, asked by us or not, and may answer     *)
(* late or not at all.  A repeated key changes nothing and is left out, as  *)
(* is whether an executive is active: a request about one who is not        *)
(* changes nothing.                                                         *)
(***************************************************************************)
EXTENDS Naturals, FiniteSets

CONSTANTS
    Executives,   \* the users who may be assigned
    Elsewhere,    \* those who see the client whatever this account does: another
                  \* mailbox of it is theirs, or it was given them by hand (MANUAL)
    Keys,         \* Idempotency-Keys
    Slots,        \* handlers that may run at once
    MaxRequests,  \* bound: requests admitted in a behaviour
    None          \* absent

ASSUME ConstantsAssumption ==
    /\ Elsewhere \subseteq Executives
    /\ MaxRequests \in Nat
    /\ None \notin Executives \cup Keys

VARIABLES
    link,      \* the mailbox's linkStatus, "NONE" before it exists
    role,      \* mailbox_assignments: each executive's role, or "NONE"
    visible,   \* client_executive_assignments: who sees the client
    command,   \* integration_commands: the status of what each key claimed
    motor,     \* external: the account's linkStatus at the motor
    req,       \* what each handler holds and does next
    requests,  \* how many requests were admitted
    happened   \* auxiliary: what the properties make an exception for

rows == <<link, role, visible, command>>
vars == <<rows, motor, req, requests, happened>>

-----------------------------------------------------------------------------
LinkStatus == {"NONE", "ACTIVE", "UNLINK_REQUESTED", "REVOKED"}
Role == {"NONE", "PRIMARY", "SECONDARY"}
IDEMPOTENCY_SCOPE == {"link", "unlink", "reassign", "configure"}
CommandStatus == {"NONE", "REQUESTED", "COMPLETED"}

Assigned == {e \in Executives : role[e] # "NONE"}
Primaries == {e \in Executives : role[e] = "PRIMARY"}

Points == {"idle", "link", "unlink", "revoke", "complete", "assignees",
           "remaining", "derived", "status", "reassign", "configure", "update",
           "remove", "primary", "secondaries", "verify", "wizardRead", "wizard"}

\* Where a handler is between a read of the assignments and a write that rests on it.
AssigningPoints == {"assignees", "remaining", "derived", "reassign", "configure", "update",
                    "remove", "primary", "secondaries", "verify", "wizardRead", "wizard"}

\* primary, others: the executives asked for; old: those to be removed, or looked at.
Requests ==
    [pc: Points, key: Keys \cup {None}, primary: Executives \cup {None},
     others: SUBSET Executives, old: SUBSET Executives, seen: {"ACTIVE", "REVOKED"}]

Idle == [pc |-> "idle", key |-> None, primary |-> None, others |-> {}, old |-> {},
         seen |-> "ACTIVE"]

Exceptions == {"overlap", "cut", "assignees", "configure", "check", "race"}

Init ==
    /\ link = "NONE"
    /\ role = [e \in Executives |-> "NONE"]
    /\ visible = Elsewhere
    /\ command = [c \in IDEMPOTENCY_SCOPE \X Keys |-> "NONE"]
    /\ motor = "ACTIVE"
    /\ req = [s \in Slots |-> Idle]
    /\ requests = 0
    /\ happened = {}

-----------------------------------------------------------------------------
(* Handlers in general.                                                     *)

At(s, p) == req[s].pc = p

\* Whether s, at p, works on assignments that another handler works on as well.
Overlaps(s, p) ==
    /\ p \in AssigningPoints
    /\ \E t \in Slots \ {s} : req[t].pc \in AssigningPoints

Handle(s, r, marks) ==
    /\ req' = [req EXCEPT ![s] = r]
    /\ happened' = happened \cup marks \cup (IF Overlaps(s, r.pc) THEN {"overlap"} ELSE {})

Continue(s, r) == Handle(s, r, {}) /\ UNCHANGED requests
Goto(s, p) == Continue(s, [req[s] EXCEPT !.pc = p])
Finish(s) == Continue(s, Idle)

Begin(s, r, marks) ==
    /\ At(s, "idle")
    /\ requests < MaxRequests
    /\ requests' = requests + 1
    /\ Handle(s, r, marks)
    /\ UNCHANGED <<rows, motor>>

\* checkExisting finds nothing under the key: a known key is answered or refused.
Unknown(scope, k) == command[<<scope, k>>] = "NONE"

\* The claim is the transaction's last write: with the key taken, all rolls back.
Claim(scope, s, status) ==
    /\ Unknown(scope, req[s].key)
    /\ command' = [command EXCEPT ![<<scope, req[s].key>>] = status]

\* A statement throws, the motor does not answer, or the process stops.
HandlerFails(s) ==
    /\ ~At(s, "idle")
    /\ Handle(s, Idle, IF req[s].pc \in {"remove", "primary", "secondaries"} THEN {"cut"} ELSE {})
    /\ UNCHANGED <<rows, motor, requests>>

\* A transaction meets its key or its row taken: nothing of it stays.
RollBack(s) ==
    /\ \/ At(s, "link") /\ (link # "NONE" \/ ~Unknown("link", req[s].key))
       \/ At(s, "unlink") /\ ~Unknown("unlink", req[s].key)
       \/ At(s, "reassign") /\ ~Unknown("reassign", req[s].key)
       \/ req[s].pc \in {"configure", "update"} /\ ~Unknown("configure", req[s].key)
    /\ Finish(s)
    /\ UNCHANGED <<rows, motor>>

\* Assignments are upserted: those named get their role, the others keep theirs.
Upsert(roles, primary, others) ==
    [e \in Executives |-> IF e = primary THEN "PRIMARY"
                          ELSE IF e \in others THEN "SECONDARY" ELSE roles[e]]

Removed(roles, E) == [e \in Executives |-> IF e \in E THEN "NONE" ELSE roles[e]]

\* Mutant of the next definition: nobody is taken for an executive as well.
NamedOrNone(primary) == {primary}

\* An executive named, if any.
Named(primary) == {primary} \ {None}

-----------------------------------------------------------------------------
(* LinkMailboxUseCase.                                                      *)

\* The token is redeemed before the transaction; the motor answers the same again.
BeginLink(s) ==
    \E k \in Keys, p \in Executives : \E others \in SUBSET (Executives \ {p}) :
      /\ Unknown("link", k)
      /\ Begin(s, [Idle EXCEPT !.pc = "link", !.key = k, !.primary = p, !.others = others], {})

\* serverMailboxId is unique: the account is created once.
Link(s) ==
    /\ At(s, "link")
    /\ link = "NONE"
    /\ Claim("link", s, "COMPLETED")
    /\ link' = "ACTIVE"
    /\ role' = Upsert(role, req[s].primary, req[s].others)
    /\ visible' = visible \cup {req[s].primary} \cup req[s].others
    /\ Finish(s)
    /\ UNCHANGED <<motor>>

-----------------------------------------------------------------------------
(* UnlinkMailboxUseCase.                                                    *)

\* Mutant of the next definition: an account that is REVOKED is unlinked again.
UnlinkableOnceLinked == link # "NONE"

\* The transaction reads the mailbox: a REVOKED one is answered with success.
Unlinkable == link \in {"ACTIVE", "UNLINK_REQUESTED"}

BeginUnlink(s) ==
    \E k \in Keys :
      /\ Unknown("unlink", k)
      /\ Unlinkable
      /\ Begin(s, [Idle EXCEPT !.pc = "unlink", !.key = k], {})

\* It writes UNLINK_REQUESTED over what the row says by then.
Unlink(s) ==
    /\ At(s, "unlink")
    /\ Claim("unlink", s, "REQUESTED")
    /\ link' = "UNLINK_REQUESTED"
    /\ Handle(s, [req[s] EXCEPT !.pc = "revoke"],
              IF \E t \in Slots : At(t, "status") THEN {"check"} ELSE {})
    /\ UNCHANGED <<role, visible, motor, requests>>

\* retryConfirmation: another call to the motor, with no command of its own.
BeginRetry(s) ==
    /\ link = "UNLINK_REQUESTED"
    /\ Begin(s, [Idle EXCEPT !.pc = "revoke"], {})

\* Asked by confirmWithMotor, before or after the handler gives the call up, or of the
\* motor's own accord.
MotorRevokes ==
    /\ motor = "ACTIVE"
    /\ motor' = "REVOKED"
    /\ UNCHANGED <<rows, req, requests, happened>>

\* Other handlers are about to write the link as they found it before.
Races(s) == IF \E t \in Slots \ {s} : req[t].pc \in {"status", "unlink"} THEN {"race"} ELSE {}

\* Mutant of the next definition: an answer is taken for a confirmation.
ConfirmedByAnyAnswer == motor \in {"ACTIVE", "REVOKED"}
Confirmed == motor = "REVOKED"

\* confirmWithMotor: the motor answers that it revoked.
Revoke(s) ==
    /\ At(s, "revoke")
    /\ Confirmed
    /\ link' = "REVOKED"
    /\ Handle(s, [req[s] EXCEPT !.pc = IF req[s].key = None THEN "assignees" ELSE "complete"],
              Races(s))
    /\ UNCHANGED <<role, visible, command, motor, requests>>

\* Mutant of the next definition: the call that failed is taken back.
StatusAfterFailedCallBack == IF link = "UNLINK_REQUESTED" THEN "ACTIVE" ELSE link
StatusAfterFailedCall == link

\* The call throws: the account stays blocked, and the request is answered.
NotConfirmed(s) ==
    /\ At(s, "revoke")
    /\ link' = StatusAfterFailedCall
    /\ Finish(s)
    /\ UNCHANGED <<role, visible, command, motor>>

\* markCompleted.
Complete(s) ==
    /\ At(s, "complete")
    /\ command' = [command EXCEPT ![<<"unlink", req[s].key>>] = "COMPLETED"]
    /\ Goto(s, "assignees")
    /\ UNCHANGED <<link, role, visible, motor>>

\* The account's executives are looked at one after the other...
ReadAssignees(s) ==
    /\ At(s, "assignees")
    /\ IF Assigned = {} THEN Finish(s)
       ELSE Continue(s, [req[s] EXCEPT !.pc = "remaining", !.old = Assigned])
    /\ UNCHANGED <<rows, motor>>

After(s, e) ==
    IF req[s].old = {e} THEN Idle
    ELSE [req[s] EXCEPT !.pc = "remaining", !.primary = None, !.old = @ \ {e}]

\* Mutant of the next definition: other mailboxes of the client do not count.
StillHasThisMailbox(roles, e) == roles[e] # "NONE"

\* revokeIfNoRemainingMailbox: this account counts as well, revoked or not.  (Of one
\* who sees the client by a MANUAL grant it finds no derived visibility to take away.)
StillHasMailbox(roles, e) == roles[e] # "NONE" \/ e \in Elsewhere

\* ... and one without a mailbox of the client loses the visibility it had.
CheckRemaining(s) ==
    /\ At(s, "remaining")
    /\ \E e \in req[s].old :
         IF StillHasMailbox(role, e) THEN Continue(s, After(s, e))
         ELSE Continue(s, [req[s] EXCEPT !.pc = "derived", !.primary = e])
    /\ UNCHANGED <<rows, motor>>

RevokeDerived(s) ==
    /\ At(s, "derived")
    /\ visible' = visible \ {req[s].primary}
    /\ Continue(s, After(s, req[s].primary))
    /\ UNCHANGED <<link, role, command, motor>>

-----------------------------------------------------------------------------
(* Status checks: the motor is asked, then the row is written unconditionally. *)

BeginCheck(s) ==
    Begin(s, [Idle EXCEPT !.pc = "status", !.seen = motor],
          IF \E k \in Keys : ~Unknown("unlink", k) THEN {"check"} ELSE {})

\* MailboxesService.refreshServerStatus.
BeginRefresh(s) == link # "NONE" /\ BeginCheck(s)

\* ExecutiveMailboxEligibilityService: for an executive of an account not REVOKED.
BeginRequireEligible(s) == link \notin {"NONE", "REVOKED"} /\ Assigned # {} /\ BeginCheck(s)

\* PublishSequenceUseCase.assertServerMailboxEligible.
BeginAssertEligible(s) == link # "NONE" /\ BeginCheck(s)

WriteStatus(s) ==
    /\ At(s, "status")
    /\ link' = req[s].seen
    /\ Handle(s, Idle, IF req[s].seen = "REVOKED" THEN Races(s) ELSE {})
    /\ UNCHANGED <<role, visible, command, motor, requests>>

-----------------------------------------------------------------------------
(* The executives of the account.                                           *)

\* ReassignMailboxPrimaryExecutiveUseCase: the transaction reads who is PRIMARY...
BeginReassign(s) ==
    \E k \in Keys, e \in Executives, old \in SUBSET Primaries :
      /\ Unknown("reassign", k)
      /\ link \in {"ACTIVE", "UNLINK_REQUESTED"}
      /\ Cardinality(old) = IF Primaries = {} THEN 0 ELSE 1
      /\ Begin(s, [Idle EXCEPT !.pc = "reassign", !.key = k, !.primary = e, !.old = old \ {e}], {})

\* Mutant of the next definition: who was PRIMARY keeps the assignment.
ReplaceNobody(primary, others, old) == Upsert(role, primary, others)

\* Those of old lose their assignment, then those named get theirs.
Replace(primary, others, old) == Upsert(Removed(role, old), primary, others)

\* grantForExecutives, then revokeIfNoRemainingMailbox of those removed.
Seeing(roles, granted, old) ==
    (visible \cup granted) \ {e \in old : ~StillHasMailbox(roles, e)}

Replaces(s, scope, status) ==
    /\ Claim(scope, s, status)
    /\ role' = Replace(req[s].primary, req[s].others, req[s].old)
    /\ visible' = Seeing(role', Named(req[s].primary) \cup req[s].others, req[s].old)
    /\ UNCHANGED <<link, motor>>

\* ... and replaces it.
Reassign(s) ==
    /\ At(s, "reassign")
    /\ Replaces(s, "reassign", "COMPLETED")
    /\ Finish(s)

\* Both configuration use cases write the mailbox first, and so lock its row.
Unlocked == \A t \in Slots : req[t].pc \notin {"update", "configure"}

\* UpdateMailboxConfigurationUseCase: the executives named replace those there are.
BeginUpdate(s) ==
    \E k \in Keys, p \in Executives \cup {None} : \E others \in SUBSET (Executives \ {p}) :
      /\ Unknown("configure", k)
      /\ link # "NONE" /\ Unlocked
      /\ Begin(s, [Idle EXCEPT !.pc = "update", !.key = k, !.primary = p, !.others = others,
                               !.old = Assigned \ (others \cup {p})], {})

Update(s) ==
    /\ At(s, "update")
    /\ Replaces(s, "configure", "REQUESTED")
    /\ Finish(s)

\* ConfigureMailboxUseCase for the address of the account: nobody is removed.
BeginConfigure(s) ==
    \E k \in Keys, p \in Executives \cup {None} : \E others \in SUBSET (Executives \ {p}) :
      /\ Unknown("configure", k)
      /\ link # "NONE" /\ Unlocked
      /\ Begin(s, [Idle EXCEPT !.pc = "configure", !.key = k, !.primary = p,
                               !.others = others], {})

Configure(s) ==
    /\ At(s, "configure")
    /\ Replaces(s, "configure", "REQUESTED")
    /\ Handle(s, Idle, {"configure"})
    /\ UNCHANGED requests

\* setAssignees: the same without a transaction, nor a word to the visibility.
BeginSetAssignees(s) ==
    \E p \in Executives \cup {None} : \E others \in SUBSET (Executives \ {p}) :
      /\ link # "NONE"
      /\ LET old == Assigned \ (others \cup {p})
         IN  Begin(s, [Idle EXCEPT !.pc = IF old = {} THEN "primary" ELSE "remove",
                                   !.primary = p, !.others = others, !.old = old], {"assignees"})

RemoveAssignee(s) ==
    /\ At(s, "remove")
    /\ \E e \in req[s].old :
         /\ role' = Removed(role, {e})
         /\ Continue(s, [req[s] EXCEPT !.pc = IF req[s].old = {e} THEN "primary" ELSE "remove",
                                       !.old = @ \ {e}])
    /\ UNCHANGED <<link, visible, command, motor>>

SetPrimary(s) ==
    /\ At(s, "primary")
    /\ role' = Upsert(role, req[s].primary, {})
    /\ IF req[s].others = {} THEN Finish(s) ELSE Goto(s, "secondaries")
    /\ UNCHANGED <<link, visible, command, motor>>

SetSecondary(s) ==
    /\ At(s, "secondaries")
    /\ \E e \in req[s].others :
         /\ role' = Upsert(role, None, {e})
         /\ Continue(s, IF req[s].others = {e} THEN Idle ELSE [req[s] EXCEPT !.others = @ \ {e}])
    /\ UNCHANGED <<link, visible, command, motor>>

\* createFromWizardForExecutive, for an executive who sees the client...
BeginWizard(s) ==
    \E e \in visible :
      /\ link # "NONE"
      /\ Begin(s, [Idle EXCEPT !.pc = "verify", !.primary = e], {})

\* ... and has no assignment yet: it is to get it, if that is authorized.
WizardVerify(s) ==
    /\ At(s, "verify")
    /\ IF link = "ACTIVE" /\ req[s].primary \notin Assigned THEN Goto(s, "wizardRead")
       ELSE Finish(s)
    /\ UNCHANGED <<rows, motor>>

\* The list of assignments is read again, for the role.
WizardRead(s) ==
    /\ At(s, "wizardRead")
    /\ Continue(s, [req[s] EXCEPT !.pc = "wizard", !.old = Assigned])
    /\ UNCHANGED <<rows, motor>>

\* An upsert, of nobody else's assignment and with no word to the visibility.
WizardAssign(s) ==
    LET e == req[s].primary
    IN  /\ At(s, "wizard")
        /\ role' = IF req[s].old = {} THEN Upsert(role, e, {}) ELSE Upsert(role, None, {e})
        /\ Finish(s)
        /\ UNCHANGED <<link, visible, command, motor>>

-----------------------------------------------------------------------------
Next ==
    \/ MotorRevokes
    \/ \E s \in Slots :
         \/ HandlerFails(s) \/ RollBack(s)
         \/ BeginLink(s) \/ Link(s)
         \/ BeginUnlink(s) \/ Unlink(s) \/ BeginRetry(s) \/ Revoke(s)
         \/ NotConfirmed(s) \/ Complete(s) \/ ReadAssignees(s) \/ CheckRemaining(s)
         \/ RevokeDerived(s)
         \/ BeginRefresh(s) \/ BeginRequireEligible(s) \/ BeginAssertEligible(s)
         \/ WriteStatus(s)
         \/ BeginReassign(s) \/ Reassign(s) \/ BeginUpdate(s) \/ Update(s)
         \/ BeginConfigure(s) \/ Configure(s)
         \/ BeginSetAssignees(s) \/ RemoveAssignee(s) \/ SetPrimary(s) \/ SetSecondary(s)
         \/ BeginWizard(s) \/ WizardVerify(s) \/ WizardRead(s) \/ WizardAssign(s)

Spec == Init /\ [][Next]_vars

-----------------------------------------------------------------------------
(* Properties.                                                              *)

\* Every variable has the shape its table or handler gives it.
TypeOK ==
    /\ link \in LinkStatus
    /\ role \in [Executives -> Role]
    /\ visible \subseteq Executives
    /\ command \in [IDEMPOTENCY_SCOPE \X Keys -> CommandStatus]
    /\ motor \in {"ACTIVE", "REVOKED"}
    /\ req \in [Slots -> Requests]
    /\ requests \in Nat
    /\ happened \subseteq Exceptions

\* "never claim revoked when the motor never confirmed it" (unlink-mailbox.use-case.ts
\* :278): an account shown REVOKED, or whose unlink is COMPLETED, is revoked at the
\* motor, whichever handler wrote it last and whatever it had read before.
RevokedIsConfirmed ==
    link = "REVOKED" \/ (\E k \in Keys : command[<<"unlink", k>>] = "COMPLETED") =>
      motor = "REVOKED"

\* An account whose unlink was accepted is not ACTIVE again, whatever fails and
\* whoever retries, unless a status check ran beside the unlink or after it.
UnlinkStands ==
    (\E k \in Keys : command[<<"unlink", k>>] # "NONE") /\ "check" \notin happened =>
      link \in {"UNLINK_REQUESTED", "REVOKED"}

\* REVOKED is for good, unless a status check or an unlink was about to write the
\* link when the revocation was written.
RevokedIsFinal ==
    [][link = "REVOKED" /\ "race" \notin happened => link' = "REVOKED"]_vars

\* '"Only one PRIMARY per mailbox" is enforced here' (mailboxes.service.ts:589): it is,
\* while nobody configures the account anew, no setAssignees is cut short and no two
\* handlers change the assignments at once.
OnePrimary ==
    /\ happened \cap {"overlap", "cut", "configure"} = {}
    /\ \A s \in Slots : req[s].pc \notin {"remove", "primary", "secondaries"}
    => Cardinality(Primaries) <= 1

\* Visibility is derived from the assignments (client-mailbox-visibility.service.ts:12):
\* while the account is not REVOKED, those who see the client are its executives, for
\* as long as they are, and those who see it on other grounds.  Excepted are the uses
\* of setAssignees, which derives nothing, and two handlers that changed assignments at
\* once; and REVOKED, where unlink-mailbox.use-case.ts:246 has the executives lose the
\* visibility and the code leaves it to all of them.  Who else sees the client is taken
\* as given: ClientsService.setAssignees, which an administrator may take anybody's
\* visibility away with, derived or not, is outside this module.
SeesClientWhileAssigned ==
    happened \cap {"overlap", "assignees"} = {} /\ link # "REVOKED" =>
      visible = Assigned \cup Elsewhere
=============================================================================

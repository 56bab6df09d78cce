--------------------------- MODULE MailboxLinkProofs ---------------------------
(***************************************************************************)
(* Theorems about MailboxLink, for any executives, keys and handlers.       *)
(*                                                                         *)
(* What a handler holds is related to the rows by predicates of a record    *)
(* and of the rows, so that a handler that does not move keeps them as      *)
(* long as the rows only go forward.                                        *)
(***************************************************************************)
EXTENDS MailboxLink, FiniteSetTheorems, TLAPS

\* An unlink was claimed under some key.
ClaimedIn(c) == \E k \in Keys : c[<<"unlink", k>>] # "NONE"

\* What a handler may rely on, whatever the others do.
Carries(r, l, m, c) ==
    /\ r.pc = "link" => r.primary \in Executives
    /\ r.pc = "unlink" => r.key \in Keys
    /\ r.pc \in {"revoke", "complete"} => ClaimedIn(c)
    /\ r.pc = "complete" => m = "REVOKED"
    /\ r.pc = "status" /\ r.seen = "REVOKED" => m = "REVOKED"
    /\ r.pc \notin {"idle", "link"} => l # "NONE"

\* The link, the commands and the motor tell the same story.
Agree(l, m, c, roles) ==
    /\ l = "REVOKED" => m = "REVOKED"
    /\ l = "UNLINK_REQUESTED" => ClaimedIn(c)
    /\ \A k \in Keys : c[<<"unlink", k>>] = "COMPLETED" => m = "REVOKED"
    /\ l = "NONE" => \A e \in Executives : roles[e] = "NONE"

LinkInv ==
    /\ TypeOK
    /\ Agree(link, motor, command, role)
    /\ \A s \in Slots : Carries(req[s], link, motor, command)

\* The rows only go forward, so that a handler keeps what it relies on.
Forward ==
    /\ ClaimedIn(command) => ClaimedIn(command')
    /\ motor = "REVOKED" => motor' = "REVOKED"
    /\ link # "NONE" => link' # "NONE"

LEMMA CarriesOn ==
    ASSUME NEW r, Carries(r, link, motor, command), Forward
    PROVE  Carries(r, link', motor', command')
BY DEF Carries, Forward

\* A handler's step: it holds r, the others what they held.
LEMMA Handled ==
    ASSUME TypeOK, NEW s \in Slots, NEW r \in Requests, NEW marks \in SUBSET Exceptions,
           Handle(s, r, marks)
    PROVE  /\ req' \in [Slots -> Requests]
           /\ happened' \subseteq Exceptions
           /\ happened \cup marks \subseteq happened'
           /\ req'[s] = r
           /\ \A t \in Slots \ {s} : req'[t] = req[t]
BY DEF Handle, TypeOK, Exceptions

LEMMA InvFromStep ==
    ASSUME LinkInv, NEW s \in Slots, NEW r \in Requests, NEW marks \in SUBSET Exceptions,
           Handle(s, r, marks), Forward,
           link' \in LinkStatus, role' \in [Executives -> Role], visible' \subseteq Executives,
           command' \in [IDEMPOTENCY_SCOPE \X Keys -> CommandStatus],
           motor' \in {"ACTIVE", "REVOKED"}, requests' \in Nat,
           Agree(link', motor', command', role'),
           Carries(r, link', motor', command')
    PROVE  LinkInv'
<1>1. /\ req' \in [Slots -> Requests]
      /\ happened' \subseteq Exceptions
      /\ req'[s] = r
      /\ \A t \in Slots \ {s} : req'[t] = req[t]
  BY Handled DEF LinkInv
<1>2. TypeOK'
  BY <1>1 DEF TypeOK
<1>3. ASSUME NEW t \in Slots
      PROVE  Carries(req'[t], link', motor', command')
  <2>1. CASE t = s
    BY <2>1, <1>1
  <2>2. CASE t # s
    BY <2>2, <1>1, CarriesOn DEF LinkInv
  <2> QED
    BY <2>1, <2>2
<1> QED
  BY <1>2, <1>3 DEF LinkInv

\* A step that writes none of the rows.
LEMMA InvFromQuietStep ==
    ASSUME LinkInv, NEW s \in Slots, NEW r \in Requests, NEW marks \in SUBSET Exceptions,
           Handle(s, r, marks), UNCHANGED <<rows, motor>>, requests' \in Nat,
           Carries(r, link, motor, command)
    PROVE  LinkInv'
<1>1. Forward /\ Agree(link', motor', command', role')
  BY DEF Forward, rows, LinkInv
<1> QED
  BY <1>1, InvFromStep DEF LinkInv, TypeOK, rows

LEMMA IdleFits == Idle \in Requests /\ Carries(Idle, link, motor, command)
                  /\ Carries(Idle, link', motor', command')
BY DEF Idle, Requests, Points, Carries

LEMMA BeganKeepsInv ==
    ASSUME LinkInv, NEW s \in Slots, NEW r \in Requests, NEW marks \in SUBSET Exceptions,
           Begin(s, r, marks), Carries(r, link, motor, command)
    PROVE  LinkInv'
<1>1. Handle(s, r, marks) /\ UNCHANGED <<rows, motor>> /\ requests' \in Nat
  BY DEF Begin, LinkInv, TypeOK
<1> QED
  BY <1>1, InvFromQuietStep

LEMMA Continuing ==
    ASSUME LinkInv, NEW s \in Slots, NEW r \in Requests, Continue(s, r),
           UNCHANGED <<rows, motor>>, Carries(r, link, motor, command)
    PROVE  LinkInv'
<1>1. Handle(s, r, {}) /\ requests' \in Nat
  BY DEF Continue, LinkInv, TypeOK
<1> QED
  BY <1>1, InvFromQuietStep

-----------------------------------------------------------------------------
(* Every action preserves LinkInv.                                          *)

LEMMA FailureKeepsInv ==
    ASSUME LinkInv, NEW s \in Slots, HandlerFails(s) \/ RollBack(s)
    PROVE  LinkInv'
<1>1. CASE HandlerFails(s)
  <2>1. PICK marks \in SUBSET Exceptions : Handle(s, Idle, marks)
    BY <1>1 DEF HandlerFails, Exceptions
  <2> QED
    BY <1>1, <2>1, InvFromQuietStep, IdleFits DEF HandlerFails, LinkInv, TypeOK
<1>2. CASE RollBack(s)
  BY <1>2, Continuing, IdleFits DEF RollBack, Finish
<1> QED
  BY <1>1, <1>2

\* What a handler holds when it begins.
Begun(r, marks) ==
    \/ r.pc = "link" /\ r.primary \in Executives
    \/ r.pc = "unlink" /\ r.key \in Keys /\ Unlinkable
    \/ r.pc = "revoke" /\ link = "UNLINK_REQUESTED"
    \/ /\ r.pc = "status" /\ r.seen = motor /\ link # "NONE"
       /\ ClaimedIn(command) => "check" \in marks
    \/ /\ r.pc = "reassign" /\ r.primary \in Executives /\ r.others = {} /\ link # "NONE"
       /\ \E old \in SUBSET Primaries :
            /\ Cardinality(old) = IF Primaries = {} THEN 0 ELSE 1
            /\ r.old = old \ {r.primary}
    \/ /\ r.pc = "update" /\ link # "NONE"
       /\ r.old = Assigned \ (r.others \cup {r.primary}) /\ r.primary \notin r.others
    \/ r.pc = "configure" /\ link # "NONE"
    \/ /\ r.pc \in {"remove", "primary"} /\ link # "NONE" /\ "assignees" \in marks
       /\ r.old = Assigned \ (r.others \cup {r.primary}) /\ r.primary \notin r.others
       /\ r.pc = "primary" => r.old = {}
    \/ r.pc = "verify" /\ r.primary \in visible /\ link # "NONE"

Beginning(s) ==
    \/ BeginLink(s) \/ BeginUnlink(s) \/ BeginRetry(s)
    \/ BeginRefresh(s) \/ BeginRequireEligible(s) \/ BeginAssertEligible(s)
    \/ BeginReassign(s) \/ BeginUpdate(s) \/ BeginConfigure(s) \/ BeginSetAssignees(s)
    \/ BeginWizard(s)

LEMMA Beginnings ==
    ASSUME TypeOK, NEW s \in Slots, Beginning(s)
    PROVE  \E r \in Requests, marks \in SUBSET Exceptions : Begin(s, r, marks) /\ Begun(r, marks)
<1>1. CASE BeginLink(s)
  <2>1. PICK k \in Keys, p \in Executives, others \in SUBSET Executives :
          /\ Begin(s, [Idle EXCEPT !.pc = "link", !.key = k, !.primary = p, !.others = others], {})
          /\ p \notin others
    BY <1>1 DEF BeginLink
  <2> DEFINE new == [Idle EXCEPT !.pc = "link", !.key = k, !.primary = p, !.others = others]
  <2>2. new \in Requests /\ Begun(new, {})
    BY <2>1 DEF Begun, Idle, Requests, Points
  <2>3. Begin(s, new, {})
    BY <2>1
  <2> HIDE DEF new
  <2> QED
    BY <2>2, <2>3
<1>2. CASE BeginUnlink(s)
  <2>1. PICK k \in Keys :
          /\ Begin(s, [Idle EXCEPT !.pc = "unlink", !.key = k], {})
          /\ Unlinkable
    BY <1>2 DEF BeginUnlink
  <2> DEFINE new == [Idle EXCEPT !.pc = "unlink", !.key = k]
  <2>2. new \in Requests /\ Begun(new, {})
    BY <2>1 DEF Begun, Idle, Requests, Points
  <2>3. Begin(s, new, {})
    BY <2>1
  <2> HIDE DEF new
  <2> QED
    BY <2>2, <2>3
<1>3. CASE BeginRetry(s)
  <2>1. Begin(s, [Idle EXCEPT !.pc = "revoke"], {}) /\ link = "UNLINK_REQUESTED"
    BY <1>3 DEF BeginRetry
  <2> DEFINE new == [Idle EXCEPT !.pc = "revoke"]
  <2>2. new \in Requests /\ Begun(new, {})
    BY <2>1 DEF Begun, Idle, Requests, Points
  <2>3. Begin(s, new, {})
    BY <2>1
  <2> HIDE DEF new
  <2> QED
    BY <2>2, <2>3
<1>4. CASE BeginReassign(s)
  <2>1. PICK k \in Keys, e \in Executives, old \in SUBSET Primaries :
          /\ Begin(s, [Idle EXCEPT !.pc = "reassign", !.key = k, !.primary = e, !.old = old \ {e}], {})
          /\ link # "NONE" /\ Cardinality(old) = (IF Primaries = {} THEN 0 ELSE 1)
    BY <1>4 DEF BeginReassign
  <2> DEFINE new == [Idle EXCEPT !.pc = "reassign", !.key = k, !.primary = e, !.old = old \ {e}]
  <2>2. new \in Requests /\ Begun(new, {})
    BY <2>1 DEF Begun, Primaries, Idle, Requests, Points
  <2>3. Begin(s, new, {})
    BY <2>1
  <2> HIDE DEF new
  <2> QED
    BY <2>2, <2>3
<1>5. CASE BeginUpdate(s)
  <2>1. PICK k \in Keys, p \in Executives \cup {None}, others \in SUBSET Executives :
          /\ Begin(s, [Idle EXCEPT !.pc = "update", !.key = k, !.primary = p, !.others = others,
                                 !.old = Assigned \ (others \cup {p})], {})
          /\ link # "NONE" /\ p \notin others
    BY <1>5 DEF BeginUpdate
  <2> DEFINE new == [Idle EXCEPT !.pc = "update", !.key = k, !.primary = p, !.others = others,
                                 !.old = Assigned \ (others \cup {p})]
  <2>2. new \in Requests /\ Begun(new, {})
    BY <2>1 DEF Begun, Assigned, Idle, Requests, Points
  <2>3. Begin(s, new, {})
    BY <2>1
  <2> HIDE DEF new
  <2> QED
    BY <2>2, <2>3
<1>6. CASE BeginConfigure(s)
  <2>1. PICK k \in Keys, p \in Executives \cup {None}, others \in SUBSET Executives :
          /\ Begin(s, [Idle EXCEPT !.pc = "configure", !.key = k, !.primary = p, !.others = others], {})
          /\ link # "NONE" /\ p \notin others
    BY <1>6 DEF BeginConfigure
  <2> DEFINE new == [Idle EXCEPT !.pc = "configure", !.key = k, !.primary = p, !.others = others]
  <2>2. new \in Requests /\ Begun(new, {})
    BY <2>1 DEF Begun, Idle, Requests, Points
  <2>3. Begin(s, new, {})
    BY <2>1
  <2> HIDE DEF new
  <2> QED
    BY <2>2, <2>3
<1>7. CASE BeginRefresh(s) \/ BeginRequireEligible(s) \/ BeginAssertEligible(s)
  <2> DEFINE new == [Idle EXCEPT !.pc = "status", !.seen = motor]
             marks == IF \E k \in Keys : ~Unknown("unlink", k) THEN {"check"} ELSE {}
  <2>1. link # "NONE" /\ Begin(s, new, marks)
    BY <1>7 DEF BeginRefresh, BeginRequireEligible, BeginAssertEligible, BeginCheck
  <2>2. marks \in SUBSET Exceptions /\ (ClaimedIn(command) => "check" \in marks)
    BY DEF Exceptions, ClaimedIn, Unknown
  <2> HIDE DEF marks
  <2>3. new \in Requests /\ Begun(new, marks)
    BY <2>1, <2>2 DEF Begun, Idle, Requests, Points, TypeOK
  <2> HIDE DEF new
  <2> QED
    BY <2>1, <2>2, <2>3
<1>8. CASE BeginSetAssignees(s)
  <2>1. PICK p \in Executives \cup {None}, others \in SUBSET Executives :
          /\ p \notin others /\ link # "NONE"
          /\ LET old == Assigned \ (others \cup {p})
             IN  Begin(s, [Idle EXCEPT !.pc = IF old = {} THEN "primary" ELSE "remove",
                                       !.primary = p, !.others = others, !.old = old],
                       {"assignees"})
    BY <1>8 DEF BeginSetAssignees
  <2> DEFINE old == Assigned \ (others \cup {p})
             new == [Idle EXCEPT !.pc = IF old = {} THEN "primary" ELSE "remove",
                                 !.primary = p, !.others = others, !.old = old]
  <2>2. new \in Requests /\ Begun(new, {"assignees"})
    BY <2>1 DEF Begun, Assigned, Idle, Requests, Points
  <2>3. Begin(s, new, {"assignees"})
    BY <2>1
  <2> HIDE DEF new
  <2> QED
    BY <2>2, <2>3 DEF Exceptions
<1>9. CASE BeginWizard(s)
  <2>1. PICK e \in visible :
          Begin(s, [Idle EXCEPT !.pc = "verify", !.primary = e], {}) /\ link # "NONE"
    BY <1>9 DEF BeginWizard
  <2> DEFINE new == [Idle EXCEPT !.pc = "verify", !.primary = e]
  <2>2. new \in Requests /\ Begun(new, {})
    BY <2>1 DEF Begun, Idle, Requests, Points, TypeOK
  <2>3. Begin(s, new, {})
    BY <2>1
  <2> HIDE DEF new
  <2> QED
    BY <2>2, <2>3
<1> QED
  BY <1>1, <1>2, <1>3, <1>4, <1>5, <1>6, <1>7, <1>8, <1>9 DEF Beginning

LEMMA BeginKeepsInv ==
    ASSUME LinkInv, NEW s \in Slots, Beginning(s)
    PROVE  LinkInv'
<1>1. PICK r \in Requests, marks \in SUBSET Exceptions : Begin(s, r, marks) /\ Begun(r, marks)
  BY Beginnings DEF LinkInv
<1>2. Carries(r, link, motor, command)
  BY <1>1 DEF Begun, Carries, Unlinkable, LinkInv, Agree
<1> QED
  BY <1>1, <1>2, BeganKeepsInv

\* The link, claimed by a request that names an executive.
LEMMA LinkKeepsInv ==
    ASSUME LinkInv, NEW s \in Slots, Link(s)
    PROVE  LinkInv'
<1>1. /\ link = "NONE" /\ link' = "ACTIVE"
      /\ command' = [command EXCEPT ![<<"link", req[s].key>>] = "COMPLETED"]
      /\ UNCHANGED <<motor, requests>>
      /\ Handle(s, Idle, {})
  BY DEF Link, Claim, Finish, Continue
<1>2. req[s].primary \in Executives /\ req[s].others \subseteq Executives
  BY DEF Link, At, LinkInv, Carries, TypeOK, Requests
<1>3. /\ role' \in [Executives -> Role] /\ visible' \subseteq Executives
      /\ command' \in [IDEMPOTENCY_SCOPE \X Keys -> CommandStatus]
  <2>1. role' = Upsert(role, req[s].primary, req[s].others)
    BY DEF Link
  <2>2. visible' = visible \cup {req[s].primary} \cup req[s].others
    BY DEF Link
  <2> QED
    BY <1>1, <1>2, <2>1, <2>2 DEF LinkInv, TypeOK, Upsert, Role, CommandStatus
<1>4. \A k \in Keys : command'[<<"unlink", k>>] = command[<<"unlink", k>>]
  BY <1>1 DEF LinkInv, TypeOK, IDEMPOTENCY_SCOPE
<1>5. Forward /\ Agree(link', motor', command', role')
  BY <1>1, <1>4 DEF Forward, ClaimedIn, Agree, LinkInv
<1> QED
  BY <1>1, <1>3, <1>5, IdleFits, InvFromStep DEF LinkInv, TypeOK, LinkStatus

\* An unlink is claimed: the row blocks the account from then on.
LEMMA UnlinkKeepsInv ==
    ASSUME LinkInv, NEW s \in Slots, Unlink(s)
    PROVE  LinkInv'
<1> DEFINE new == [req[s] EXCEPT !.pc = "revoke"]
<1>1. /\ link' = "UNLINK_REQUESTED"
      /\ command' = [command EXCEPT ![<<"unlink", req[s].key>>] = "REQUESTED"]
      /\ UNCHANGED <<role, visible, motor, requests>>
  BY DEF Unlink, Claim
<1>2. PICK marks \in SUBSET Exceptions : Handle(s, new, marks)
  BY DEF Unlink, Exceptions
<1>3. req[s].key \in Keys /\ link # "NONE"
  BY DEF Unlink, At, LinkInv, Carries
<1>4. command' \in [IDEMPOTENCY_SCOPE \X Keys -> CommandStatus]
  BY <1>1 DEF LinkInv, TypeOK, CommandStatus
<1>5. /\ command'[<<"unlink", req[s].key>>] = "REQUESTED"
      /\ \A k \in Keys \ {req[s].key} : command'[<<"unlink", k>>] = command[<<"unlink", k>>]
  BY <1>1, <1>3 DEF LinkInv, TypeOK, IDEMPOTENCY_SCOPE
<1>6. ClaimedIn(command')
  BY <1>3, <1>5 DEF ClaimedIn
<1>7. Forward /\ Agree(link', motor', command', role')
  BY <1>1, <1>5, <1>6 DEF Forward, Agree, LinkInv
<1>8. new \in Requests /\ Carries(new, link', motor', command')
  BY <1>1, <1>6 DEF LinkInv, TypeOK, Requests, Points, Carries
<1> QED
  BY <1>1, <1>2, <1>4, <1>7, <1>8, InvFromStep DEF LinkInv, TypeOK, LinkStatus

\* The motor that revokes, and the confirmation of an unlink.
LEMMA MotorKeepsInv ==
    ASSUME LinkInv, MotorRevokes
    PROVE  LinkInv'
<1>1. motor' = "REVOKED" /\ UNCHANGED <<rows, req, requests, happened>>
  BY DEF MotorRevokes
<1>2. TypeOK' /\ Forward /\ Agree(link', motor', command', role')
  BY <1>1 DEF LinkInv, TypeOK, Forward, Agree, rows
<1>3. ASSUME NEW t \in Slots
      PROVE  Carries(req'[t], link', motor', command')
  BY <1>1, <1>2, CarriesOn DEF LinkInv
<1> QED
  BY <1>2, <1>3 DEF LinkInv

LEMMA ConfirmationKeepsInv ==
    ASSUME LinkInv, NEW s \in Slots,
           \/ Revoke(s) \/ NotConfirmed(s) \/ Complete(s)
           \/ ReadAssignees(s) \/ CheckRemaining(s) \/ RevokeDerived(s)
    PROVE  LinkInv'
<1>r. req[s] \in Requests
  BY DEF LinkInv, TypeOK
<1>1. CASE Revoke(s)
  <2> DEFINE new == [req[s] EXCEPT !.pc = IF req[s].key = None THEN "assignees" ELSE "complete"]
  <2>1. /\ motor = "REVOKED" /\ link' = "REVOKED"
        /\ UNCHANGED <<role, visible, command, motor, requests>>
    BY <1>1 DEF Revoke, Confirmed
  <2>2. PICK marks \in SUBSET Exceptions : Handle(s, new, marks)
    BY <1>1 DEF Revoke, Races, Exceptions
  <2>3. ClaimedIn(command)
    BY <1>1 DEF Revoke, At, LinkInv, Carries
  <2>4. Forward /\ Agree(link', motor', command', role')
    BY <2>1, <2>3 DEF Forward, Agree, LinkInv
  <2>5. new \in Requests /\ Carries(new, link', motor', command')
    BY <1>r, <2>1, <2>3 DEF Requests, Points, Carries
  <2> QED
    BY <2>1, <2>2, <2>4, <2>5, InvFromStep DEF LinkInv, TypeOK, LinkStatus
<1>2. CASE NotConfirmed(s)
  BY <1>2, Continuing, IdleFits DEF NotConfirmed, StatusAfterFailedCall, Finish, rows
<1>3. CASE Complete(s)
  <2> DEFINE new == [req[s] EXCEPT !.pc = "assignees"]
  <2>1. /\ Handle(s, new, {})
        /\ command' = [command EXCEPT ![<<"unlink", req[s].key>>] = "COMPLETED"]
        /\ UNCHANGED <<link, role, visible, motor, requests>>
    BY <1>3 DEF Complete, Goto, Continue
  <2>2. motor = "REVOKED" /\ link # "NONE"
    BY <1>3 DEF Complete, At, LinkInv, Carries
  <2>3. /\ command' \in [IDEMPOTENCY_SCOPE \X Keys -> CommandStatus]
        /\ \A c \in IDEMPOTENCY_SCOPE \X Keys : command[c] # "NONE" => command'[c] # "NONE"
    BY <2>1 DEF LinkInv, TypeOK, CommandStatus
  <2>4. ClaimedIn(command) => ClaimedIn(command')
    BY <2>3 DEF ClaimedIn, IDEMPOTENCY_SCOPE
  <2>5. Forward /\ Agree(link', motor', command', role')
    BY <2>1, <2>2, <2>4 DEF Forward, Agree, LinkInv
  <2>6. new \in Requests /\ Carries(new, link', motor', command')
    BY <1>r, <2>1, <2>2 DEF Requests, Points, Carries
  <2> HIDE DEF new
  <2> QED
    BY <2>1, <2>3, <2>5, <2>6, InvFromStep DEF LinkInv, TypeOK
<1>4. CASE ReadAssignees(s)
  <2> DEFINE new == [req[s] EXCEPT !.pc = "remaining", !.old = Assigned]
  <2>1. new \in Requests /\ Carries(new, link, motor, command)
    BY <1>r, <1>4 DEF ReadAssignees, At, LinkInv, Requests, Points, Carries, Assigned
  <2> QED
    BY <1>4, <2>1, IdleFits, Continuing DEF ReadAssignees, Finish
<1>5. ASSUME NEW e \in Executives, req[s].pc \in {"remaining", "derived"}
      PROVE  After(s, e) \in Requests /\ Carries(After(s, e), link, motor, command)
  <2> DEFINE new == [req[s] EXCEPT !.pc = "remaining", !.primary = None, !.old = @ \ {e}]
  <2>1. new \in Requests /\ Carries(new, link, motor, command)
    BY <1>r, <1>5 DEF LinkInv, Requests, Points, Carries
  <2> QED
    BY <2>1, IdleFits DEF After
<1>6. CASE CheckRemaining(s)
  <2>1. PICK e \in req[s].old :
          IF StillHasMailbox(role, e) THEN Continue(s, After(s, e))
          ELSE Continue(s, [req[s] EXCEPT !.pc = "derived", !.primary = e])
    BY <1>6 DEF CheckRemaining
  <2> DEFINE new == [req[s] EXCEPT !.pc = "derived", !.primary = e]
  <2>2. e \in Executives /\ new \in Requests /\ Carries(new, link, motor, command)
    BY <1>r, <1>6 DEF CheckRemaining, At, LinkInv, Requests, Points, Carries
  <2> QED
    BY <1>5, <1>6, <2>1, <2>2, Continuing DEF CheckRemaining, At
<1>7. CASE RevokeDerived(s)
  <2> DEFINE new == After(s, req[s].primary)
  <2>1. /\ Handle(s, new, {})
        /\ UNCHANGED <<link, role, command, motor, requests>>
        /\ visible' \subseteq Executives
    BY <1>7 DEF RevokeDerived, Continue, LinkInv, TypeOK
  <2>2. new \in Requests /\ Carries(new, link, motor, command)
    <3> DEFINE next == [req[s] EXCEPT !.pc = "remaining", !.primary = None,
                                      !.old = @ \ {req[s].primary}]
    <3>1. next \in Requests /\ Carries(next, link, motor, command)
      BY <1>r, <1>7 DEF RevokeDerived, At, LinkInv, Requests, Points, Carries
    <3> QED
      BY <3>1, IdleFits DEF After
  <2>3. Forward /\ Agree(link', motor', command', role')
    BY <2>1 DEF Forward, LinkInv
  <2> QED
    BY <2>1, <2>2, <2>3, InvFromStep DEF LinkInv, TypeOK
<1> QED
  BY <1>1, <1>2, <1>3, <1>4, <1>6, <1>7

\* A status check writes what the motor said.
LEMMA WriteStatusKeepsInv ==
    ASSUME LinkInv, NEW s \in Slots, WriteStatus(s)
    PROVE  LinkInv'
<1>1. link' = req[s].seen /\ UNCHANGED <<role, visible, command, motor, requests>>
  BY DEF WriteStatus
<1>2. PICK marks \in SUBSET Exceptions : Handle(s, Idle, marks)
  BY DEF WriteStatus, Races, Exceptions
<1>3. /\ link' \in {"ACTIVE", "REVOKED"}
      /\ link' = "REVOKED" => motor = "REVOKED"
  BY <1>1 DEF WriteStatus, At, LinkInv, TypeOK, Requests, Carries
<1>4. Forward /\ Agree(link', motor', command', role')
  BY <1>1, <1>3 DEF Forward, Agree, LinkInv
<1> QED
  BY <1>1, <1>2, <1>3, <1>4, IdleFits, InvFromStep DEF LinkInv, TypeOK, LinkStatus

\* The writes of the assignments, which leave the link alone.
LEMMA AssigningKeepsInv ==
    ASSUME LinkInv, NEW s \in Slots,
           \/ Reassign(s) \/ Update(s) \/ Configure(s)
           \/ RemoveAssignee(s) \/ SetPrimary(s) \/ SetSecondary(s)
           \/ WizardVerify(s) \/ WizardRead(s) \/ WizardAssign(s)
    PROVE  LinkInv'
<1>r. req[s] \in Requests
  BY DEF LinkInv, TypeOK
<1>1. ASSUME NEW scope \in {"reassign", "configure"}, NEW status \in {"REQUESTED", "COMPLETED"},
             NEW marks \in SUBSET Exceptions,
             req[s].pc \in {"reassign", "update", "configure"},
             Replaces(s, scope, status), Handle(s, Idle, marks), UNCHANGED requests
      PROVE  LinkInv'
  <2>1. command' = [command EXCEPT ![<<scope, req[s].key>>] = status]
    BY <1>1 DEF Replaces, Claim
  <2>2. /\ command' \in [IDEMPOTENCY_SCOPE \X Keys -> CommandStatus]
        /\ \A k \in Keys : command'[<<"unlink", k>>] = command[<<"unlink", k>>]
    BY <2>1 DEF LinkInv, TypeOK, IDEMPOTENCY_SCOPE, CommandStatus
  <2>3. role' \in [Executives -> Role]
    BY <1>1 DEF Replaces, Replace, Upsert, Removed, LinkInv, TypeOK, Role
  <2>4. visible' \subseteq Executives
    BY <1>1, <1>r DEF Replaces, Seeing, Named, LinkInv, TypeOK, Requests
  <2>5. link # "NONE"
    BY <1>1 DEF LinkInv, Carries
  <2>6. Forward /\ Agree(link', motor', command', role')
    BY <1>1, <2>2, <2>5 DEF Replaces, Forward, Agree, ClaimedIn, LinkInv
  <2> QED
    BY <1>1, <2>2, <2>3, <2>4, <2>6, IdleFits, InvFromStep DEF Replaces, LinkInv, TypeOK
<1>2. CASE Reassign(s)
  BY <1>1, <1>2 DEF Reassign, At, Finish, Continue
<1>3. CASE Update(s)
  BY <1>1, <1>3 DEF Update, At, Finish, Continue
<1>4. CASE Configure(s)
  BY <1>1, <1>4 DEF Configure, At, Exceptions
<1>5. ASSUME NEW r \in Requests, Carries(r, link, motor, command),
             req[s].pc \in {"remove", "primary", "secondaries", "wizard"}, Continue(s, r),
             role' \in [Executives -> Role],
             UNCHANGED <<link, visible, command, motor>>
      PROVE  LinkInv'
  <2>1. Handle(s, r, {}) /\ UNCHANGED requests
    BY <1>5 DEF Continue
  <2>2. link # "NONE"
    BY <1>5 DEF LinkInv, Carries
  <2>3. Forward /\ Agree(link', motor', command', role')
    BY <1>5, <2>2 DEF Forward, Agree, LinkInv
  <2> QED
    BY <1>5, <2>1, <2>3, InvFromStep DEF LinkInv, TypeOK
<1>6. CASE RemoveAssignee(s)
  <2>1. PICK e \in req[s].old :
          /\ role' = Removed(role, {e})
          /\ Continue(s, [req[s] EXCEPT !.pc = IF req[s].old = {e} THEN "primary" ELSE "remove",
                                        !.old = @ \ {e}])
    BY <1>6 DEF RemoveAssignee
  <2> DEFINE new == [req[s] EXCEPT !.pc = IF req[s].old = {e} THEN "primary" ELSE "remove",
                                   !.old = @ \ {e}]
  <2>2. new \in Requests /\ Carries(new, link, motor, command)
    BY <1>r, <1>6 DEF RemoveAssignee, At, LinkInv, Requests, Points, Carries
  <2>3. role' \in [Executives -> Role]
    BY <2>1 DEF Removed, LinkInv, TypeOK, Role
  <2> HIDE DEF new
  <2> QED
    BY <1>5, <1>6, <2>1, <2>2, <2>3 DEF RemoveAssignee, At, new
<1>7. CASE SetPrimary(s)
  <2> DEFINE new == [req[s] EXCEPT !.pc = "secondaries"]
  <2>1. Continue(s, Idle) \/ Continue(s, new)
    BY <1>7 DEF SetPrimary, Finish, Goto
  <2>2. new \in Requests /\ Carries(new, link, motor, command)
    BY <1>r, <1>7 DEF SetPrimary, At, LinkInv, Requests, Points, Carries
  <2>3. role' \in [Executives -> Role]
    BY <1>7 DEF SetPrimary, Upsert, LinkInv, TypeOK, Role
  <2> HIDE DEF new
  <2> QED
    BY <1>5, <1>7, <2>1, <2>2, <2>3, IdleFits DEF SetPrimary, At
<1>8. CASE SetSecondary(s)
  <2>1. PICK e \in req[s].others :
          /\ role' = Upsert(role, None, {e})
          /\ Continue(s, IF req[s].others = {e} THEN Idle
                         ELSE [req[s] EXCEPT !.others = @ \ {e}])
    BY <1>8 DEF SetSecondary
  <2> DEFINE new == [req[s] EXCEPT !.others = @ \ {e}]
  <2>2. new \in Requests /\ Carries(new, link, motor, command)
    BY <1>r, <1>8 DEF SetSecondary, At, LinkInv, Requests, Points, Carries
  <2>3. role' \in [Executives -> Role]
    BY <2>1 DEF Upsert, LinkInv, TypeOK, Role
  <2>4. Continue(s, Idle) \/ Continue(s, new)
    BY <2>1
  <2> HIDE DEF new
  <2> QED
    BY <1>5, <1>8, <2>2, <2>3, <2>4, IdleFits DEF SetSecondary, At
<1>9. CASE WizardRead(s)
  <2> DEFINE new == [req[s] EXCEPT !.pc = "wizard", !.old = Assigned]
  <2>1. new \in Requests /\ Carries(new, link, motor, command)
    BY <1>r, <1>9 DEF WizardRead, At, LinkInv, Requests, Points, Carries, Assigned
  <2> QED
    BY <1>9, <2>1, Continuing DEF WizardRead
<1>10. CASE WizardAssign(s)
  <2>1. role' \in [Executives -> Role]
    BY <1>10 DEF WizardAssign, Upsert, LinkInv, TypeOK, Role
  <2> QED
    BY <1>5, <1>10, <2>1, IdleFits DEF WizardAssign, At, Finish
<1>11. CASE WizardVerify(s)
  <2> DEFINE new == [req[s] EXCEPT !.pc = "wizardRead"]
  <2>1. new \in Requests /\ Carries(new, link, motor, command)
    BY <1>r, <1>11 DEF WizardVerify, At, LinkInv, Requests, Points, Carries
  <2>2. Continue(s, Idle) \/ Continue(s, new)
    BY <1>11 DEF WizardVerify, Finish, Goto
  <2> HIDE DEF new
  <2> QED
    BY <1>11, <2>1, <2>2, IdleFits, Continuing DEF WizardVerify
<1> QED
  BY <1>2, <1>3, <1>4, <1>6, <1>7, <1>8, <1>9, <1>10, <1>11

LEMMA LinkInvInductive ==
    ASSUME LinkInv, [Next]_vars
    PROVE  LinkInv'
<1>1. CASE UNCHANGED vars
  BY <1>1 DEF LinkInv, TypeOK, vars, rows
<1>2. CASE Next
  <2>1. ASSUME NEW s \in Slots,
               \/ HandlerFails(s) \/ RollBack(s) \/ Beginning(s)
        PROVE  LinkInv'
    BY <2>1, FailureKeepsInv, BeginKeepsInv
  <2>2. ASSUME NEW s \in Slots,
               \/ Link(s) \/ Unlink(s)
               \/ Revoke(s) \/ NotConfirmed(s) \/ Complete(s)
               \/ ReadAssignees(s) \/ CheckRemaining(s) \/ RevokeDerived(s)
               \/ WriteStatus(s) \/ Reassign(s) \/ Update(s) \/ Configure(s)
               \/ RemoveAssignee(s) \/ SetPrimary(s) \/ SetSecondary(s)
               \/ WizardVerify(s) \/ WizardRead(s) \/ WizardAssign(s)
        PROVE  LinkInv'
    BY <2>2, LinkKeepsInv, UnlinkKeepsInv, ConfirmationKeepsInv, WriteStatusKeepsInv,
       AssigningKeepsInv
  <2> QED
    BY <1>2, <2>1, <2>2, MotorKeepsInv DEF Next, Beginning
<1> QED
  BY <1>1, <1>2

\* In every reachable state the link, the commands and the motor tell the same story,
\* and each handler holds what it relies on.
THEOREM LinkInvariant == Spec => []LinkInv
<1>1. Init => LinkInv
  <2> SUFFICES ASSUME Init PROVE LinkInv
    OBVIOUS
  <2>1. TypeOK
    BY ConstantsAssumption, IdleFits
    DEF Init, TypeOK, LinkStatus, Role, CommandStatus, Exceptions
  <2>2. Agree(link, motor, command, role)
    BY DEF Init, Agree, IDEMPOTENCY_SCOPE
  <2>3. ASSUME NEW s \in Slots
        PROVE  Carries(req[s], link, motor, command)
    BY IdleFits DEF Init
  <2> QED
    BY <2>1, <2>2, <2>3 DEF LinkInv
<1> QED
  BY <1>1, LinkInvInductive, PTL DEF Spec

\* Every variable keeps the shape its table or handler gives it.
THEOREM TypeCorrect == Spec => []TypeOK
BY LinkInvariant, PTL DEF LinkInv

\* An account shown REVOKED, or whose unlink is COMPLETED, is revoked at the motor,
\* whoever asked the motor for it and however late its answers are written.
THEOREM RevokedConfirmed == Spec => []RevokedIsConfirmed
<1>1. LinkInv => RevokedIsConfirmed
  BY DEF LinkInv, Agree, ClaimedIn, RevokedIsConfirmed
<1> QED
  BY <1>1, LinkInvariant, PTL

-----------------------------------------------------------------------------
(* An unlink stands, and a revocation is final, up to the races named.      *)

\* What an unlink that was claimed has left in the row.
Blocked(l, c, h) ==
    ClaimedIn(c) /\ "check" \notin h => l \in {"UNLINK_REQUESTED", "REVOKED"}

\* No handler is about to write the link as it was before an unlink was claimed.
Standing(r, c, h) ==
    ClaimedIn(c) /\ "check" \notin h => r.pc # "status"

\* No handler is about to write anything but REVOKED over REVOKED.
Final(r, l, h) ==
    l = "REVOKED" /\ "race" \notin h =>
      r.pc # "unlink" /\ (r.pc = "status" => r.seen = "REVOKED")

StandInv ==
    /\ Blocked(link, command, happened)
    /\ \A s \in Slots : Standing(req[s], command, happened) /\ Final(req[s], link, happened)

\* A step that leaves link and commands, of a handler that does not begin to write them.
LEMMA StandKept ==
    ASSUME LinkInv, StandInv, NEW s \in Slots, NEW r \in Requests,
           NEW marks \in SUBSET Exceptions, Handle(s, r, marks),
           link' = link, ClaimedIn(command') => ClaimedIn(command),
           r.pc \notin {"status", "unlink"}
    PROVE  StandInv'
<1>1. /\ happened \subseteq happened'
      /\ req'[s] = r
      /\ \A t \in Slots \ {s} : req'[t] = req[t]
  BY Handled DEF LinkInv
<1>2. ASSUME NEW t \in Slots
      PROVE  Standing(req'[t], command', happened') /\ Final(req'[t], link', happened')
  <2>1. CASE t = s
    BY <2>1, <1>1 DEF StandInv, Standing, Final
  <2>2. CASE t # s
    BY <2>2, <1>1 DEF StandInv, Standing, Final
  <2> QED
    BY <2>1, <2>2
<1> QED
  BY <1>1, <1>2 DEF StandInv, Blocked

LEMMA StandOnBegin ==
    ASSUME LinkInv, StandInv, NEW s \in Slots, Beginning(s)
    PROVE  StandInv' /\ link' = link
<1>1. PICK r \in Requests, marks \in SUBSET Exceptions : Begin(s, r, marks) /\ Begun(r, marks)
  BY Beginnings DEF LinkInv
<1>2. /\ happened \cup marks \subseteq happened'
      /\ req'[s] = r
      /\ \A t \in Slots \ {s} : req'[t] = req[t]
      /\ link' = link /\ command' = command
  BY <1>1, Handled DEF Begin, LinkInv, rows
<1>3. link = "REVOKED" => motor = "REVOKED"
  BY DEF LinkInv, Agree
<1>4. /\ r.pc = "unlink" => link # "REVOKED"
      /\ r.pc = "status" => r.seen = motor /\ (ClaimedIn(command) => "check" \in marks)
  BY <1>1 DEF Begun, Unlinkable
<1>5. ASSUME NEW t \in Slots
      PROVE  Standing(req'[t], command', happened') /\ Final(req'[t], link', happened')
  BY <1>2, <1>3, <1>4 DEF StandInv, Standing, Final
<1> QED
  BY <1>2, <1>5 DEF StandInv, Blocked

\* The writes of the assignments, and a handler that gives up or goes on.
LEMMA StandOnTheRest ==
    ASSUME LinkInv, StandInv, NEW s \in Slots,
           \/ HandlerFails(s) \/ RollBack(s)
           \/ NotConfirmed(s) \/ Complete(s)
           \/ ReadAssignees(s) \/ CheckRemaining(s) \/ RevokeDerived(s)
           \/ Reassign(s) \/ Update(s) \/ Configure(s)
           \/ RemoveAssignee(s) \/ SetPrimary(s) \/ SetSecondary(s)
           \/ WizardVerify(s) \/ WizardRead(s) \/ WizardAssign(s)
    PROVE  StandInv' /\ link' = link
<1>r. req[s] \in Requests /\ Idle \in Requests /\ Idle.pc = "idle"
  BY IdleFits DEF LinkInv, TypeOK, Idle
<1>1. CASE HandlerFails(s)
  <2>1. PICK marks \in SUBSET Exceptions : Handle(s, Idle, marks)
    BY <1>1 DEF HandlerFails, Exceptions
  <2>2. UNCHANGED rows
    BY <1>1 DEF HandlerFails
  <2> QED
    BY <1>r, <2>1, <2>2, StandKept DEF rows
<1>2. CASE RollBack(s) \/ NotConfirmed(s)
  <2>1. Handle(s, Idle, {}) /\ link' = link /\ command' = command
    BY <1>2 DEF RollBack, NotConfirmed, StatusAfterFailedCall, Finish, Continue, rows
  <2> QED
    BY <1>r, <2>1, StandKept
<1>3. CASE Complete(s)
  <2> DEFINE new == [req[s] EXCEPT !.pc = "assignees"]
  <2>1. Handle(s, new, {}) /\ link' = link
    BY <1>3 DEF Complete, Goto, Continue
  <2>2. new \in Requests /\ new.pc = "assignees"
    BY <1>r DEF Requests, Points
  <2>3. ClaimedIn(command)
    BY <1>3 DEF Complete, At, LinkInv, Carries
  <2> HIDE DEF new
  <2> QED
    BY <2>1, <2>2, <2>3, StandKept
<1>4. ASSUME NEW e \in Executives, req[s].pc \in {"remaining", "derived"}
      PROVE  After(s, e) \in Requests /\ After(s, e).pc \in {"idle", "remaining"}
  <2> DEFINE new == [req[s] EXCEPT !.pc = "remaining", !.primary = None, !.old = @ \ {e}]
  <2>1. new \in Requests /\ new.pc = "remaining"
    BY <1>r DEF Requests, Points
  <2> QED
    BY <1>r, <2>1 DEF After
<1>5. CASE ReadAssignees(s)
  <2> DEFINE new == [req[s] EXCEPT !.pc = "remaining", !.old = Assigned]
  <2>1. Handle(s, Idle, {}) \/ Handle(s, new, {})
    BY <1>5 DEF ReadAssignees, Finish, Continue
  <2>2. new \in Requests /\ new.pc = "remaining"
    BY <1>r DEF Requests, Points, Assigned
  <2>3. link' = link /\ command' = command
    BY <1>5 DEF ReadAssignees, rows
  <2> HIDE DEF new
  <2> QED
    BY <1>r, <2>1, <2>2, <2>3, StandKept
<1>6. CASE CheckRemaining(s)
  <2>1. PICK e \in req[s].old :
          \/ Handle(s, After(s, e), {})
          \/ Handle(s, [req[s] EXCEPT !.pc = "derived", !.primary = e], {})
    BY <1>6 DEF CheckRemaining, Continue
  <2> DEFINE new == [req[s] EXCEPT !.pc = "derived", !.primary = e]
  <2>2. e \in Executives /\ new \in Requests /\ new.pc = "derived"
    BY <1>r DEF Requests, Points
  <2>3. link' = link /\ command' = command
    BY <1>6 DEF CheckRemaining, rows
  <2>4. After(s, e) \in Requests /\ After(s, e).pc \in {"idle", "remaining"}
    BY <1>4, <1>6, <2>2 DEF CheckRemaining, At
  <2>5. Handle(s, After(s, e), {}) \/ Handle(s, new, {})
    BY <2>1
  <2> HIDE DEF new
  <2> QED
    BY <2>2, <2>3, <2>4, <2>5, StandKept
<1>7. CASE RevokeDerived(s)
  <2>1. Handle(s, After(s, req[s].primary), {}) /\ link' = link /\ command' = command
    BY <1>7 DEF RevokeDerived, Continue
  <2> DEFINE new == [req[s] EXCEPT !.pc = "remaining", !.primary = None,
                                   !.old = @ \ {req[s].primary}]
  <2>2. new \in Requests /\ new.pc = "remaining"
    BY <1>r DEF Requests, Points
  <2>3. /\ After(s, req[s].primary) \in Requests
        /\ After(s, req[s].primary).pc \in {"idle", "remaining"}
    BY <1>r, <2>2 DEF After
  <2> QED
    BY <2>1, <2>3, StandKept
<1>8. ASSUME NEW scope \in {"reassign", "configure"}, NEW status, NEW marks \in SUBSET Exceptions,
             Replaces(s, scope, status), Handle(s, Idle, marks)
      PROVE  StandInv' /\ link' = link
  <2>1. command' = [command EXCEPT ![<<scope, req[s].key>>] = status] /\ link' = link
    BY <1>8 DEF Replaces, Claim
  <2>2. \A k \in Keys : command'[<<"unlink", k>>] = command[<<"unlink", k>>]
    BY <2>1 DEF LinkInv, TypeOK, IDEMPOTENCY_SCOPE
  <2> QED
    BY <1>r, <1>8, <2>1, <2>2, StandKept DEF ClaimedIn
<1>9. CASE Reassign(s) \/ Update(s) \/ Configure(s)
  BY <1>8, <1>9 DEF Reassign, Update, Configure, Finish, Continue, Exceptions
<1>10. CASE RemoveAssignee(s)
  <2>1. PICK e \in req[s].old :
          Continue(s, [req[s] EXCEPT !.pc = IF req[s].old = {e} THEN "primary" ELSE "remove",
                                     !.old = @ \ {e}])
    BY <1>10 DEF RemoveAssignee
  <2> DEFINE new == [req[s] EXCEPT !.pc = IF req[s].old = {e} THEN "primary" ELSE "remove",
                                   !.old = @ \ {e}]
  <2>2. new \in Requests /\ new.pc \in {"primary", "remove"}
    BY <1>r DEF Requests, Points
  <2>3. Handle(s, new, {}) /\ link' = link /\ command' = command
    BY <1>10, <2>1 DEF RemoveAssignee, Continue
  <2> HIDE DEF new
  <2> QED
    BY <2>2, <2>3, StandKept
<1>11. CASE SetPrimary(s)
  <2> DEFINE new == [req[s] EXCEPT !.pc = "secondaries"]
  <2>1. Handle(s, Idle, {}) \/ Handle(s, new, {})
    BY <1>11 DEF SetPrimary, Finish, Goto, Continue
  <2>2. new \in Requests /\ new.pc = "secondaries"
    BY <1>r DEF Requests, Points
  <2>3. link' = link /\ command' = command
    BY <1>11 DEF SetPrimary
  <2> HIDE DEF new
  <2> QED
    BY <1>r, <2>1, <2>2, <2>3, StandKept
<1>12. CASE SetSecondary(s)
  <2>1. PICK e \in req[s].others :
          Continue(s, IF req[s].others = {e} THEN Idle ELSE [req[s] EXCEPT !.others = @ \ {e}])
    BY <1>12 DEF SetSecondary
  <2> DEFINE new == [req[s] EXCEPT !.others = @ \ {e}]
  <2>2. new \in Requests /\ new.pc = "secondaries"
    BY <1>r, <1>12 DEF SetSecondary, At, Requests, Points
  <2>3. link' = link /\ command' = command
    BY <1>12 DEF SetSecondary
  <2>4. Handle(s, Idle, {}) \/ Handle(s, new, {})
    BY <2>1 DEF Continue
  <2> HIDE DEF new
  <2> QED
    BY <1>r, <2>2, <2>3, <2>4, StandKept
<1>13. CASE WizardRead(s)
  <2> DEFINE new == [req[s] EXCEPT !.pc = "wizard", !.old = Assigned]
  <2>1. new \in Requests /\ new.pc = "wizard"
    BY <1>r DEF Requests, Points, Assigned
  <2>2. Handle(s, new, {}) /\ link' = link /\ command' = command
    BY <1>13 DEF WizardRead, Continue, rows
  <2> HIDE DEF new
  <2> QED
    BY <2>1, <2>2, StandKept
<1>14. CASE WizardAssign(s)
  <2>1. Handle(s, Idle, {}) /\ link' = link /\ command' = command
    BY <1>14 DEF WizardAssign, Finish, Continue
  <2> QED
    BY <1>r, <2>1, StandKept
<1>15. CASE WizardVerify(s)
  <2> DEFINE new == [req[s] EXCEPT !.pc = "wizardRead"]
  <2>1. new \in Requests /\ new.pc = "wizardRead"
    BY <1>r DEF Requests, Points
  <2>2. Handle(s, Idle, {}) \/ Handle(s, new, {})
    BY <1>15 DEF WizardVerify, Finish, Goto, Continue
  <2>3. link' = link /\ command' = command
    BY <1>15 DEF WizardVerify, rows
  <2> HIDE DEF new
  <2> QED
    BY <1>r, <2>1, <2>2, <2>3, StandKept
<1> QED
  BY <1>1, <1>2, <1>3, <1>5, <1>6, <1>7, <1>9, <1>10, <1>11, <1>12, <1>13, <1>14, <1>15

\* The account is linked once, when nothing was claimed about it.
LEMMA StandOnLink ==
    ASSUME LinkInv, StandInv, NEW s \in Slots, Link(s)
    PROVE  StandInv'
<1>1. /\ link = "NONE" /\ link' = "ACTIVE"
      /\ command' = [command EXCEPT ![<<"link", req[s].key>>] = "COMPLETED"]
      /\ Handle(s, Idle, {})
  BY DEF Link, Claim, Finish, Continue
<1>2. \A k \in Keys : command'[<<"unlink", k>>] = command[<<"unlink", k>>]
  BY <1>1 DEF LinkInv, TypeOK, IDEMPOTENCY_SCOPE
<1>3. ClaimedIn(command') => ClaimedIn(command)
  BY <1>2 DEF ClaimedIn
<1>4. /\ happened \subseteq happened'
      /\ req'[s] = Idle
      /\ \A t \in Slots \ {s} : req'[t] = req[t]
  BY <1>1, Handled, IdleFits DEF LinkInv
<1>5. ASSUME NEW t \in Slots
      PROVE  Standing(req'[t], command', happened') /\ Final(req'[t], link', happened')
  <2>1. Standing(req'[t], command', happened')
    BY <1>3, <1>4 DEF StandInv, Standing, Idle
  <2> QED
    BY <1>1, <2>1 DEF Final
<1> QED
  BY <1>1, <1>3, <1>4, <1>5 DEF StandInv, Blocked

\* An unlink is marked when a status check is about to write over it.
LEMMA StandOnUnlink ==
    ASSUME LinkInv, StandInv, NEW s \in Slots, Unlink(s)
    PROVE  StandInv' /\ (link = "REVOKED" => "race" \in happened)
<1> DEFINE new == [req[s] EXCEPT !.pc = "revoke"]
           marks == IF \E t \in Slots : At(t, "status") THEN {"check"} ELSE {}
<1>1. link' = "UNLINK_REQUESTED" /\ Handle(s, new, marks) /\ req[s].pc = "unlink"
  BY DEF Unlink, At
<1>2. new \in Requests /\ new.pc = "revoke" /\ marks \in SUBSET Exceptions
  BY DEF LinkInv, TypeOK, Requests, Points, Exceptions
<1>3. \A t \in Slots : req[t].pc = "status" => "check" \in marks
  BY DEF At
<1> HIDE DEF new, marks
<1>4. /\ happened \cup marks \subseteq happened'
      /\ req'[s] = new
      /\ \A t \in Slots \ {s} : req'[t] = req[t]
  BY <1>1, <1>2, Handled DEF LinkInv
<1>5. ASSUME NEW t \in Slots
      PROVE  Standing(req'[t], command', happened') /\ Final(req'[t], link', happened')
  <2>1. CASE t = s
    BY <2>1, <1>1, <1>2, <1>4 DEF Standing, Final
  <2>2. CASE t # s
    BY <2>2, <1>1, <1>3, <1>4 DEF Standing, Final
  <2> QED
    BY <2>1, <2>2
<1>6. link = "REVOKED" => "race" \in happened
  BY <1>1 DEF StandInv, Final
<1> QED
  BY <1>1, <1>5, <1>6 DEF StandInv, Blocked

\* A revocation is marked when another handler is about to write over it.
LEMMA StandOnRevocation ==
    ASSUME LinkInv, StandInv, NEW s \in Slots, NEW r \in Requests, Handle(s, r, Races(s)),
           r.pc \notin {"status", "unlink"}, link' = "REVOKED", command' = command
    PROVE  StandInv'
<1>1. Races(s) \in SUBSET Exceptions
  BY DEF Races, Exceptions
<1>2. /\ happened \cup Races(s) \subseteq happened'
      /\ req'[s] = r
      /\ \A t \in Slots \ {s} : req'[t] = req[t]
  BY <1>1, Handled DEF LinkInv
<1>3. \A t \in Slots \ {s} : req[t].pc \in {"status", "unlink"} => "race" \in happened'
  BY <1>2 DEF Races
<1>4. ASSUME NEW t \in Slots
      PROVE  Standing(req'[t], command', happened') /\ Final(req'[t], link', happened')
  <2>1. CASE t = s
    BY <2>1, <1>2 DEF Standing, Final
  <2>2. CASE t # s
    BY <2>2, <1>2, <1>3 DEF StandInv, Standing, Final
  <2> QED
    BY <2>1, <2>2
<1> QED
  BY <1>4 DEF StandInv, Blocked

LEMMA StandOnRevoke ==
    ASSUME LinkInv, StandInv, NEW s \in Slots, Revoke(s)
    PROVE  StandInv' /\ link' = "REVOKED"
<1> DEFINE new == [req[s] EXCEPT !.pc = IF req[s].key = None THEN "assignees" ELSE "complete"]
<1>1. Handle(s, new, Races(s)) /\ link' = "REVOKED" /\ command' = command
  BY DEF Revoke
<1>2. new \in Requests /\ new.pc \notin {"status", "unlink"}
  BY DEF LinkInv, TypeOK, Requests, Points
<1> HIDE DEF new
<1> QED
  BY <1>1, <1>2, StandOnRevocation

\* What a status check writes is only marked against when it finds an unlink.
LEMMA StandOnWriteStatus ==
    ASSUME LinkInv, StandInv, NEW s \in Slots, WriteStatus(s)
    PROVE  StandInv' /\ (link = "REVOKED" /\ link' # "REVOKED" => "race" \in happened)
<1>1. req[s].pc = "status" /\ link' = req[s].seen /\ command' = command
  BY DEF WriteStatus, At
<1>2. Idle \in Requests /\ Idle.pc = "idle"
  BY IdleFits DEF Idle
<1>3. link = "REVOKED" /\ link' # "REVOKED" => "race" \in happened
  BY <1>1 DEF StandInv, Final
<1>4. CASE req[s].seen = "REVOKED"
  <2>1. Handle(s, Idle, Races(s))
    BY <1>4 DEF WriteStatus
  <2> QED
    BY <1>1, <1>2, <1>3, <1>4, <2>1, StandOnRevocation
<1>5. CASE req[s].seen # "REVOKED"
  <2>1. Handle(s, Idle, {})
    BY <1>5 DEF WriteStatus
  <2>2. /\ happened \subseteq happened'
        /\ req'[s] = Idle
        /\ \A t \in Slots \ {s} : req'[t] = req[t]
    BY <1>2, <2>1, Handled DEF LinkInv
  <2>3. ClaimedIn(command) => "check" \in happened'
    BY <1>1, <2>2 DEF StandInv, Standing
  <2>4. link' # "REVOKED"
    BY <1>1, <1>5
  <2> QED
    BY <1>1, <1>3, <2>3, <2>4 DEF StandInv, Blocked, Standing, Final
<1> QED
  BY <1>4, <1>5

\* A step keeps StandInv, and takes REVOKED back only after a race.
LEMMA StandInvInductive ==
    ASSUME LinkInv, StandInv, [Next]_vars
    PROVE  StandInv' /\ (link = "REVOKED" /\ "race" \notin happened => link' = "REVOKED")
<1>1. CASE UNCHANGED vars
  BY <1>1 DEF StandInv, vars, rows
<1>2. CASE MotorRevokes
  BY <1>2 DEF MotorRevokes, StandInv, rows
<1>3. ASSUME NEW s \in Slots,
             \/ HandlerFails(s) \/ RollBack(s) \/ Beginning(s)
             \/ NotConfirmed(s) \/ Complete(s)
             \/ ReadAssignees(s) \/ CheckRemaining(s) \/ RevokeDerived(s)
             \/ Reassign(s) \/ Update(s) \/ Configure(s)
             \/ RemoveAssignee(s) \/ SetPrimary(s) \/ SetSecondary(s)
             \/ WizardVerify(s) \/ WizardRead(s) \/ WizardAssign(s)
      PROVE  StandInv' /\ link' = link
  BY <1>3, StandOnBegin, StandOnTheRest
<1>4. ASSUME NEW s \in Slots, Link(s)
      PROVE  StandInv' /\ link = "NONE"
  BY <1>4, StandOnLink DEF Link
<1>5. ASSUME NEW s \in Slots, Unlink(s) \/ Revoke(s) \/ WriteStatus(s)
      PROVE  StandInv' /\ (link = "REVOKED" /\ "race" \notin happened => link' = "REVOKED")
  BY <1>5, StandOnUnlink, StandOnRevoke, StandOnWriteStatus
<1> QED
  BY <1>1, <1>2, <1>3, <1>4, <1>5 DEF Next, Beginning

LEMMA StandInvariant == Spec => [](LinkInv /\ StandInv)
<1>1. Init => StandInv
  BY DEF Init, StandInv, Blocked, Standing, Final, ClaimedIn, Idle, IDEMPOTENCY_SCOPE
<1>2. LinkInv /\ StandInv /\ [Next]_vars => StandInv'
  BY StandInvInductive
<1> QED
  BY <1>1, <1>2, LinkInvariant, PTL DEF Spec

\* An account whose unlink was accepted is not ACTIVE again, unless a status check ran
\* beside the unlink or after it.
THEOREM UnlinkHolds == Spec => []UnlinkStands
<1>1. StandInv => UnlinkStands
  BY DEF StandInv, Blocked, ClaimedIn, UnlinkStands
<1> QED
  BY <1>1, StandInvariant, PTL

\* REVOKED is taken back only by a handler that read the account before it was written.
THEOREM RevocationIsFinal == Spec => RevokedIsFinal
<1>1. LinkInv /\ StandInv /\ [Next]_vars
      => [link = "REVOKED" /\ "race" \notin happened => link' = "REVOKED"]_vars
  BY StandInvInductive
<1> QED
  BY <1>1, StandInvariant, PTL DEF Spec, RevokedIsFinal

-----------------------------------------------------------------------------
(* Who is assigned, who is PRIMARY, and who sees the client.                *)

AssignedIn(roles) == {e \in Executives : roles[e] # "NONE"}
PrimariesIn(roles) == {e \in Executives : roles[e] = "PRIMARY"}

AtMostOne(roles) == \A d, e \in PrimariesIn(roles) : d = e

\* Where setAssignees is between two of its writes.
SettingPoints == {"remove", "primary", "secondaries"}

\* Where the wizard has yet to assign the executive it found unassigned.
WizardPoints == {"wizardRead", "wizard"}

\* Nothing happened that OnePrimary, or SeesClientWhileAssigned, makes an exception for.
Quiet(h) == h \cap {"overlap", "cut", "configure"} = {}
Calm(h) == h \cap {"overlap", "assignees"} = {}

\* What a handler read of the assignments is still so.
Rests(r, roles) ==
    /\ r.pc = "reassign" => PrimariesIn(roles) \subseteq r.old \cup {r.primary} /\ r.others = {}
    /\ r.pc \in {"update", "remove"} =>
         AssignedIn(roles) \subseteq r.old \cup r.others \cup {r.primary}
    /\ r.pc = "primary" => AssignedIn(roles) \subseteq r.others \cup {r.primary}
    /\ r.pc = "secondaries" => PrimariesIn(roles) \subseteq r.others \cup {r.primary}
    /\ r.pc = "wizard" /\ r.old = {} => AssignedIn(roles) = {}

Watches(r, roles) ==
    /\ r.pc \notin SettingPoints
    /\ r.pc = "derived" => ~StillHasMailbox(roles, r.primary)
    /\ r.pc = "verify" => r.primary \in AssignedIn(roles) \cup Elsewhere
    /\ r.pc \in WizardPoints => r.primary \in Elsewhere

AssignInv ==
    /\ "overlap" \notin happened =>
         \A s, t \in Slots :
           req[s].pc \in AssigningPoints /\ req[t].pc \in AssigningPoints => s = t
    /\ Quiet(happened) =>
         /\ \A s \in Slots : Rests(req[s], role)
         /\ (\A s \in Slots : req[s].pc \notin SettingPoints) => AtMostOne(role)
    /\ Calm(happened) =>
         /\ \A s \in Slots : Watches(req[s], role)
         /\ visible = AssignedIn(role) \cup Elsewhere

\* A handler's step, when those that rest on the assignments are not disturbed by it.
LEMMA AssignStep ==
    ASSUME LinkInv, AssignInv, NEW s \in Slots, NEW r \in Requests,
           NEW marks \in SUBSET Exceptions, Handle(s, r, marks),
           role' = role \/ req[s].pc \in AssigningPoints \/ link = "NONE",
           Quiet(happened') =>
             /\ Rests(r, role')
             /\ r.pc \notin SettingPoints =>
                  AtMostOne(role') \/ \E t \in Slots \ {s} : req[t].pc \in SettingPoints,
           Calm(happened') =>
             Watches(r, role') /\ visible' = AssignedIn(role') \cup Elsewhere
    PROVE  AssignInv'
<1>1. /\ happened \subseteq happened'
      /\ req'[s] = r
      /\ \A t \in Slots \ {s} : req'[t] = req[t]
  BY Handled DEF LinkInv
<1>2. /\ Quiet(happened') => Quiet(happened)
      /\ Calm(happened') => Calm(happened)
  BY <1>1 DEF Quiet, Calm
<1>3. "overlap" \notin happened' /\ r.pc \in AssigningPoints
      => \A t \in Slots \ {s} : req[t].pc \notin AssigningPoints
  BY DEF Handle, Overlaps
<1>4. ASSUME "overlap" \notin happened', NEW t \in Slots, NEW u \in Slots,
             req'[t].pc \in AssigningPoints, req'[u].pc \in AssigningPoints
      PROVE  t = u
  <2>1. CASE t # s /\ u # s
    BY <2>1, <1>1, <1>4 DEF AssignInv
  <2>2. CASE t = s \/ u = s
    BY <2>2, <1>1, <1>3, <1>4
  <2> QED
    BY <2>1, <2>2
\* The others rest on what they did, or on nothing.
<1>5. ASSUME NEW t \in Slots \ {s}, "overlap" \notin happened', role' # role
      PROVE  req[t].pc \notin AssigningPoints
  <2>1. CASE req[s].pc \in AssigningPoints
    BY <2>1, <1>1, <1>5 DEF AssignInv
  <2>2. CASE link = "NONE"
    BY <2>2 DEF LinkInv, Carries, AssigningPoints
  <2> QED
    BY <2>1, <2>2, <1>5
<1>6. ASSUME Quiet(happened'), NEW t \in Slots
      PROVE  Rests(req'[t], role')
  <2>1. CASE t = s
    BY <2>1, <1>1, <1>6
  <2>2. CASE t # s /\ role' = role
    BY <2>2, <1>1, <1>2, <1>6 DEF AssignInv
  <2>3. CASE t # s /\ role' # role
    <3>1. req[t].pc \notin AssigningPoints /\ req'[t] = req[t]
      BY <2>3, <1>1, <1>5, <1>6 DEF Quiet
    <3> QED
      BY <3>1 DEF Rests, AssigningPoints
  <2> QED
    BY <2>1, <2>2, <2>3
<1>7. ASSUME Quiet(happened'), \A t \in Slots : req'[t].pc \notin SettingPoints
      PROVE  AtMostOne(role')
  BY <1>1, <1>7
<1>8. ASSUME Calm(happened'), NEW t \in Slots
      PROVE  Watches(req'[t], role')
  <2>1. CASE t = s
    BY <2>1, <1>1, <1>8
  <2>2. CASE t # s /\ role' = role
    BY <2>2, <1>1, <1>2, <1>8 DEF AssignInv
  <2>3. CASE t # s /\ role' # role
    <3>1. req[t].pc \notin AssigningPoints /\ req'[t] = req[t]
      BY <2>3, <1>1, <1>5, <1>8 DEF Calm
    <3> QED
      BY <3>1 DEF Watches, AssigningPoints, SettingPoints, WizardPoints
  <2> QED
    BY <2>1, <2>2, <2>3
<1> QED
  BY <1>4, <1>6, <1>7, <1>8 DEF AssignInv

\* A step that writes nothing of it, of a handler that rests on nothing then.
LEMMA AssignStill ==
    ASSUME LinkInv, AssignInv, NEW s \in Slots, NEW r \in Requests,
           NEW marks \in SUBSET Exceptions, Handle(s, r, marks),
           role' = role, visible' = visible,
           r.pc \notin SettingPoints \cup WizardPoints \cup {"reassign", "update", "derived", "verify"},
           req[s].pc \in SettingPoints => "cut" \in marks
    PROVE  AssignInv'
<1>1. happened \cup marks \subseteq happened'
  BY Handled DEF LinkInv
<1>2. Rests(r, role) /\ Watches(r, role)
  BY DEF Rests, Watches, SettingPoints, WizardPoints
<1>3. ASSUME Quiet(happened')
      PROVE  AtMostOne(role) \/ \E t \in Slots \ {s} : req[t].pc \in SettingPoints
  <2>1. req[s].pc \notin SettingPoints /\ Quiet(happened)
    BY <1>1, <1>3 DEF Quiet
  <2> QED
    BY <2>1 DEF AssignInv
<1>4. Calm(happened') => visible = AssignedIn(role) \cup Elsewhere
  BY <1>1 DEF Calm, AssignInv
<1> QED
  BY <1>2, <1>3, <1>4, AssignStep

LEMMA AssignOnBegin ==
    ASSUME LinkInv, AssignInv, NEW s \in Slots, Beginning(s)
    PROVE  AssignInv'
<1>1. PICK r \in Requests, marks \in SUBSET Exceptions : Begin(s, r, marks) /\ Begun(r, marks)
  BY Beginnings DEF LinkInv
<1>2. Handle(s, r, marks) /\ role' = role /\ visible' = visible /\ req[s].pc = "idle"
  BY <1>1 DEF Begin, At, rows
<1>3. happened \cup marks \subseteq happened'
  BY <1>2, Handled DEF LinkInv
<1>4. ASSUME Quiet(happened')
      PROVE  AtMostOne(role) \/ \E t \in Slots \ {s} : req[t].pc \in SettingPoints
  BY <1>2, <1>3, <1>4 DEF Quiet, AssignInv, SettingPoints
<1>5. ASSUME Quiet(happened')
      PROVE  Rests(r, role)
  <2>1. CASE r.pc = "reassign"
    <3>1. \A t \in Slots \ {s} : req[t].pc \notin AssigningPoints
      BY <1>2, <1>5, <2>1 DEF Handle, Overlaps, Quiet, AssigningPoints
    <3>2. AtMostOne(role)
      BY <1>4, <1>5, <3>1 DEF AssigningPoints, SettingPoints
    <3>3. PICK old \in SUBSET Primaries :
            /\ Cardinality(old) = IF Primaries = {} THEN 0 ELSE 1
            /\ r.old = old \ {r.primary} /\ r.others = {}
      BY <1>1, <2>1 DEF Begun
    <3>4. old = Primaries
      BY <3>2, <3>3, FS_EmptySet DEF AtMostOne, PrimariesIn, Primaries
    <3> QED
      BY <2>1, <3>3, <3>4 DEF Rests, PrimariesIn, Primaries
  <2>2. CASE r.pc # "reassign"
    BY <1>1, <2>2 DEF Begun, Rests, Assigned, AssignedIn
  <2> QED
    BY <2>1, <2>2
<1>6. ASSUME Calm(happened')
      PROVE  Watches(r, role) /\ visible = AssignedIn(role) \cup Elsewhere
  <2>1. "assignees" \notin marks /\ Calm(happened)
    BY <1>3, <1>6 DEF Calm
  <2> QED
    BY <1>1, <2>1 DEF Begun, Watches, SettingPoints, WizardPoints, AssignInv, Assigned, AssignedIn
<1> QED
  BY <1>2, <1>4, <1>5, <1>6, AssignStep

\* A handler that gives up, and the steps about the link.
LEMMA AssignOnLinkSteps ==
    ASSUME LinkInv, AssignInv, NEW s \in Slots,
           \/ HandlerFails(s) \/ RollBack(s) \/ Unlink(s) \/ Revoke(s)
           \/ NotConfirmed(s) \/ Complete(s) \/ ReadAssignees(s) \/ WriteStatus(s)
    PROVE  AssignInv'
<1>r. req[s] \in Requests /\ Idle \in Requests /\ Idle.pc = "idle"
  BY IdleFits DEF LinkInv, TypeOK, Idle
<1>1. CASE HandlerFails(s)
  <2>1. PICK marks \in SUBSET Exceptions :
          Handle(s, Idle, marks) /\ (req[s].pc \in SettingPoints => "cut" \in marks)
    BY <1>1 DEF HandlerFails, Exceptions, SettingPoints
  <2>2. role' = role /\ visible' = visible
    BY <1>1 DEF HandlerFails, rows
  <2> QED
    BY <1>r, <2>1, <2>2, AssignStill DEF SettingPoints, WizardPoints
<1>2. CASE RollBack(s) \/ NotConfirmed(s)
  <2>1. /\ Handle(s, Idle, {}) /\ role' = role /\ visible' = visible
        /\ req[s].pc \notin SettingPoints
    BY <1>2 DEF RollBack, NotConfirmed, Finish, Continue, At, rows, SettingPoints
  <2> QED
    BY <1>r, <2>1, AssignStill DEF SettingPoints, WizardPoints
<1>3. CASE WriteStatus(s)
  <2>1. PICK marks \in SUBSET Exceptions : Handle(s, Idle, marks)
    BY <1>3 DEF WriteStatus, Races, Exceptions
  <2>2. role' = role /\ visible' = visible /\ req[s].pc \notin SettingPoints
    BY <1>3 DEF WriteStatus, At, SettingPoints
  <2> QED
    BY <1>r, <2>1, <2>2, AssignStill DEF SettingPoints, WizardPoints
<1>4. ASSUME NEW p \in {"revoke", "assignees", "complete"},
             NEW marks \in SUBSET Exceptions, Handle(s, [req[s] EXCEPT !.pc = p], marks),
             role' = role, visible' = visible, req[s].pc \notin SettingPoints
      PROVE  AssignInv'
  <2> DEFINE new == [req[s] EXCEPT !.pc = p]
  <2>1. new \in Requests /\ new.pc = p
    BY <1>r DEF Requests, Points
  <2>2. Handle(s, new, marks)
    BY <1>4
  <2>3. new.pc \notin SettingPoints \cup WizardPoints \cup {"reassign", "update", "derived", "verify"}
    BY <2>1 DEF SettingPoints, WizardPoints
  <2> HIDE DEF new
  <2> QED
    BY <1>4, <2>1, <2>2, <2>3, AssignStill
<1>5. CASE Unlink(s)
  <2>1. PICK marks \in SUBSET Exceptions : Handle(s, [req[s] EXCEPT !.pc = "revoke"], marks)
    BY <1>5 DEF Unlink, Exceptions
  <2> QED
    BY <1>4, <1>5, <2>1 DEF Unlink, At, SettingPoints
<1>6. CASE Revoke(s)
  <2>1. Races(s) \in SUBSET Exceptions
    BY DEF Races, Exceptions
  <2> QED
    BY <1>4, <1>6, <2>1 DEF Revoke, At, SettingPoints
<1>7. CASE Complete(s)
  BY <1>4, <1>7 DEF Complete, Goto, Continue, At, rows, SettingPoints
<1>8. CASE ReadAssignees(s)
  <2> DEFINE new == [req[s] EXCEPT !.pc = "remaining", !.old = Assigned]
  <2>1. Handle(s, Idle, {}) \/ Handle(s, new, {})
    BY <1>8 DEF ReadAssignees, Finish, Continue
  <2>2. new \in Requests /\ new.pc = "remaining"
    BY <1>r DEF Requests, Points, Assigned
  <2>3. role' = role /\ visible' = visible /\ req[s].pc \notin SettingPoints
    BY <1>8 DEF ReadAssignees, At, rows, SettingPoints
  <2> HIDE DEF new
  <2> QED
    BY <1>r, <2>1, <2>2, <2>3, AssignStill DEF SettingPoints, WizardPoints
<1> QED
  BY <1>1, <1>2, <1>3, <1>5, <1>6, <1>7, <1>8

\* The account is linked before anybody is assigned to it.
LEMMA AssignOnLink ==
    ASSUME LinkInv, AssignInv, NEW s \in Slots, Link(s)
    PROVE  AssignInv'
<1>1. /\ link = "NONE" /\ Handle(s, Idle, {})
      /\ role' = Upsert(role, req[s].primary, req[s].others)
      /\ visible' = visible \cup {req[s].primary} \cup req[s].others
  BY DEF Link, Finish, Continue
<1>2. \A e \in Executives : role[e] = "NONE"
  BY <1>1 DEF LinkInv, Agree
<1>3. req[s].primary \in Executives /\ req[s].others \subseteq Executives
  BY DEF Link, At, LinkInv, Carries, TypeOK, Requests
<1>4. AtMostOne(role') /\ AssignedIn(role') = {req[s].primary} \cup req[s].others
  BY <1>1, <1>2, <1>3 DEF AtMostOne, PrimariesIn, AssignedIn, Upsert
<1>5. happened \subseteq happened' /\ AssignedIn(role) = {}
  BY <1>1, <1>2, Handled, IdleFits DEF LinkInv, AssignedIn
<1>6. Calm(happened') => visible = Elsewhere
  BY <1>5 DEF AssignInv, Calm
<1>7. Rests(Idle, role') /\ Watches(Idle, role')
  BY DEF Idle, Rests, Watches, SettingPoints, WizardPoints
<1> QED
  BY <1>1, <1>4, <1>6, <1>7, IdleFits, AssignStep

\* After an unlink: who has no mailbox of the client left loses sight of it.
LEMMA AssignOnDerivation ==
    ASSUME LinkInv, AssignInv, NEW s \in Slots, CheckRemaining(s) \/ RevokeDerived(s)
    PROVE  AssignInv'
<1>r. req[s] \in Requests /\ Idle \in Requests /\ Idle.pc = "idle"
  BY IdleFits DEF LinkInv, TypeOK, Idle
<1>1. ASSUME NEW e
      PROVE  After(s, e) \in Requests /\ After(s, e).pc \in {"idle", "remaining"}
  <2> DEFINE new == [req[s] EXCEPT !.pc = "remaining", !.primary = None, !.old = @ \ {e}]
  <2>1. new \in Requests /\ new.pc = "remaining"
    BY <1>r DEF Requests, Points
  <2> QED
    BY <1>r, <2>1 DEF After
<1>2. CASE CheckRemaining(s)
  <2>1. PICK e \in req[s].old :
          \/ Handle(s, After(s, e), {})
          \/ /\ Handle(s, [req[s] EXCEPT !.pc = "derived", !.primary = e], {})
             /\ ~StillHasMailbox(role, e)
    BY <1>2 DEF CheckRemaining, Continue
  <2> DEFINE new == [req[s] EXCEPT !.pc = "derived", !.primary = e]
  <2>2. new \in Requests /\ new.pc = "derived" /\ new.primary = e
    BY <1>r DEF Requests, Points
  <2>3. role' = role /\ visible' = visible /\ req[s].pc \notin SettingPoints
    BY <1>2 DEF CheckRemaining, At, rows, SettingPoints
  <2>4. CASE Handle(s, After(s, e), {})
    BY <1>1, <2>3, <2>4, AssignStill DEF SettingPoints, WizardPoints
  <2>5. CASE Handle(s, new, {}) /\ ~StillHasMailbox(role, e)
    <3>1. Rests(new, role) /\ Watches(new, role)
      BY <2>2, <2>5 DEF Rests, Watches, SettingPoints, WizardPoints
    <3>2. happened \subseteq happened'
      BY <2>2, <2>5, Handled DEF LinkInv
    <3>3. ASSUME Quiet(happened')
          PROVE  AtMostOne(role) \/ \E t \in Slots \ {s} : req[t].pc \in SettingPoints
      BY <2>3, <3>2, <3>3 DEF Quiet, AssignInv
    <3>4. Calm(happened') => visible = AssignedIn(role) \cup Elsewhere
      BY <3>2 DEF Calm, AssignInv
    <3> HIDE DEF new
    <3> QED
      BY <2>2, <2>3, <2>5, <3>1, <3>3, <3>4, AssignStep
  <2> QED
    BY <2>1, <2>4, <2>5
<1>3. CASE RevokeDerived(s)
  <2> DEFINE new == After(s, req[s].primary)
  <2>1. /\ Handle(s, new, {}) /\ role' = role /\ visible' = visible \ {req[s].primary}
        /\ req[s].pc = "derived"
    BY <1>3 DEF RevokeDerived, Continue, At
  <2>2. new \in Requests /\ new.pc \in {"idle", "remaining"}
    BY <1>1
  <2> HIDE DEF new
  <2>3. happened \subseteq happened'
    BY <2>1, <2>2, Handled DEF LinkInv
  <2>4. Rests(new, role) /\ Watches(new, role)
    BY <2>2 DEF Rests, Watches, SettingPoints, WizardPoints
  <2>5. ASSUME Quiet(happened')
        PROVE  AtMostOne(role) \/ \E t \in Slots \ {s} : req[t].pc \in SettingPoints
    BY <2>1, <2>3, <2>5 DEF Quiet, AssignInv, SettingPoints
  <2>6. ASSUME Calm(happened')
        PROVE  visible' = AssignedIn(role) \cup Elsewhere
    <3>1. Calm(happened)
      BY <2>3, <2>6 DEF Calm
    <3>2. visible = AssignedIn(role) \cup Elsewhere /\ ~StillHasMailbox(role, req[s].primary)
      BY <2>1, <3>1 DEF AssignInv, Watches
    <3> QED
      BY <2>1, <3>2 DEF StillHasMailbox, AssignedIn
  <2> QED
    BY <2>1, <2>2, <2>4, <2>5, <2>6, AssignStep
<1> QED
  BY <1>2, <1>3

\* The transactions that replace the executives.
LEMMA AssignOnReplacing ==
    ASSUME LinkInv, AssignInv, NEW s \in Slots, Reassign(s) \/ Update(s) \/ Configure(s)
    PROVE  AssignInv'
<1> DEFINE r == req[s]
<1>1. /\ role' = Replace(r.primary, r.others, r.old)
      /\ visible' = Seeing(role', Named(r.primary) \cup r.others, r.old)
      /\ r.pc \in {"reassign", "update", "configure"}
  BY DEF Reassign, Update, Configure, Replaces, At
<1>2. PICK marks \in SUBSET Exceptions :
        Handle(s, Idle, marks) /\ (r.pc = "configure" => "configure" \in marks)
  BY DEF Reassign, Update, Configure, Finish, Continue, At, Exceptions
<1>3. happened \cup marks \subseteq happened'
  BY <1>2, Handled, IdleFits DEF LinkInv
<1>4. /\ r.primary \in Executives \cup {None} /\ r.others \subseteq Executives
      /\ role \in [Executives -> Role]
  BY DEF LinkInv, TypeOK, Requests
<1>5. ASSUME Quiet(happened')
      PROVE  AtMostOne(role')
  <2>1. r.pc # "configure" /\ Quiet(happened)
    BY <1>2, <1>3, <1>5 DEF Quiet
  <2>2. Rests(r, role)
    BY <2>1 DEF AssignInv
  <2>3. PrimariesIn(role') \subseteq {r.primary}
    BY <1>1, <1>4, <2>1, <2>2
    DEF Rests, PrimariesIn, AssignedIn, Replace, Upsert, Removed
  <2> QED
    BY <2>3 DEF AtMostOne
<1>6. ASSUME Calm(happened')
      PROVE  visible' = AssignedIn(role') \cup Elsewhere
  <2>1. visible = AssignedIn(role) \cup Elsewhere
    BY <1>3, <1>6 DEF Calm, AssignInv
  <2>2. AssignedIn(role') = (AssignedIn(role) \ r.old) \cup Named(r.primary) \cup r.others
    BY <1>1, <1>4, ConstantsAssumption
    DEF AssignedIn, Replace, Upsert, Removed, Named
  <2>3. visible' = (visible \cup Named(r.primary) \cup r.others)
                     \ {e \in r.old : e \notin AssignedIn(role') \cup Elsewhere}
    <3>1. \A e \in r.old : StillHasMailbox(role', e) <=> e \in AssignedIn(role') \cup Elsewhere
      BY DEF StillHasMailbox, AssignedIn, LinkInv, TypeOK, Requests
    <3> QED
      BY <1>1, <3>1 DEF Seeing
  <2> QED
    BY <2>1, <2>2, <2>3
<1>7. Rests(Idle, role') /\ Watches(Idle, role')
  BY DEF Idle, Rests, Watches, SettingPoints, WizardPoints
<1> QED
  BY <1>1, <1>2, <1>5, <1>6, <1>7, IdleFits, AssignStep DEF AssigningPoints

\* The writes of setAssignees, one by one.
LEMMA AssignOnSetting ==
    ASSUME LinkInv, AssignInv, NEW s \in Slots,
           RemoveAssignee(s) \/ SetPrimary(s) \/ SetSecondary(s)
    PROVE  AssignInv'
<1>r. req[s] \in Requests /\ Idle \in Requests /\ Idle.pc = "idle" /\ role \in [Executives -> Role]
  BY IdleFits DEF LinkInv, TypeOK, Idle
<1>1. req[s].pc \in SettingPoints
  BY DEF RemoveAssignee, SetPrimary, SetSecondary, At, SettingPoints
<1>2. ASSUME NEW r \in Requests, Handle(s, r, {}),
             Rests(req[s], role) => Rests(r, role') /\ (r.pc \notin SettingPoints => AtMostOne(role'))
      PROVE  AssignInv'
  <2>1. happened \subseteq happened'
    BY <1>2, Handled DEF LinkInv
  <2>2. ~Calm(happened')
    BY <1>1, <2>1 DEF Calm, AssignInv, Watches
  <2>3. Quiet(happened') => Rests(req[s], role)
    BY <2>1 DEF Quiet, AssignInv
  <2> QED
    BY <1>1, <1>2, <2>2, <2>3, AssignStep DEF AssigningPoints, SettingPoints
<1>3. CASE RemoveAssignee(s)
  <2>1. PICK e \in req[s].old :
          /\ role' = Removed(role, {e})
          /\ Continue(s, [req[s] EXCEPT !.pc = IF req[s].old = {e} THEN "primary" ELSE "remove",
                                        !.old = @ \ {e}])
    BY <1>3 DEF RemoveAssignee
  <2> DEFINE new == [req[s] EXCEPT !.pc = IF req[s].old = {e} THEN "primary" ELSE "remove",
                                   !.old = @ \ {e}]
  <2>2. /\ new \in Requests /\ new.pc = IF req[s].old = {e} THEN "primary" ELSE "remove"
        /\ new.old = req[s].old \ {e} /\ new.others = req[s].others
        /\ new.primary = req[s].primary
    BY <1>r DEF Requests, Points
  <2>3. Handle(s, new, {}) /\ req[s].pc = "remove"
    BY <1>3, <2>1 DEF Continue, RemoveAssignee, At
  <2> HIDE DEF new
  <2>4. AssignedIn(role') = AssignedIn(role) \ {e}
    BY <2>1, <1>r DEF AssignedIn, Removed
  <2>5. Rests(req[s], role) => Rests(new, role')
    BY <2>2, <2>3, <2>4 DEF Rests
  <2> QED
    BY <1>2, <2>2, <2>3, <2>5 DEF SettingPoints
<1>4. CASE SetPrimary(s)
  <2> DEFINE new == [req[s] EXCEPT !.pc = "secondaries"]
  <2>1. /\ \/ Handle(s, Idle, {}) /\ req[s].others = {}
           \/ Handle(s, new, {})
        /\ req[s].pc = "primary" /\ role' = Upsert(role, req[s].primary, {})
    BY <1>4 DEF SetPrimary, Finish, Goto, Continue, At
  <2>2. /\ new \in Requests /\ new.pc = "secondaries"
        /\ new.others = req[s].others /\ new.primary = req[s].primary
    BY <1>r DEF Requests, Points
  <2> HIDE DEF new
  <2>3. Rests(req[s], role) => PrimariesIn(role') \subseteq req[s].others \cup {req[s].primary}
    BY <2>1, <1>r DEF Rests, AssignedIn, PrimariesIn, Upsert
  <2>4. Rests(req[s], role) => Rests(new, role')
    BY <2>2, <2>3 DEF Rests
  <2>5. Rests(req[s], role) /\ req[s].others = {} => Rests(Idle, role') /\ AtMostOne(role')
    BY <2>3, <1>r DEF Rests, AtMostOne
  <2> QED
    BY <1>2, <1>r, <2>1, <2>2, <2>4, <2>5 DEF SettingPoints
<1>5. CASE SetSecondary(s)
  <2>1. PICK e \in req[s].others :
          /\ role' = Upsert(role, None, {e})
          /\ Continue(s, IF req[s].others = {e} THEN Idle
                         ELSE [req[s] EXCEPT !.others = @ \ {e}])
    BY <1>5 DEF SetSecondary
  <2> DEFINE new == [req[s] EXCEPT !.others = @ \ {e}]
  <2>2. /\ new \in Requests /\ new.pc = "secondaries" /\ req[s].pc = "secondaries"
        /\ new.others = req[s].others \ {e} /\ new.primary = req[s].primary
    BY <1>r, <1>5 DEF SetSecondary, At, Requests, Points
  <2>3. \/ Handle(s, Idle, {}) /\ req[s].others = {e}
        \/ Handle(s, new, {})
    BY <2>1 DEF Continue
  <2> HIDE DEF new
  <2>4. PrimariesIn(role') = PrimariesIn(role) \ {e}
    BY <2>1, <1>r, ConstantsAssumption DEF PrimariesIn, Upsert, Requests
  <2>5. Rests(req[s], role) => Rests(new, role')
    BY <2>2, <2>4 DEF Rests
  <2>6. Rests(req[s], role) /\ req[s].others = {e} => Rests(Idle, role') /\ AtMostOne(role')
    BY <1>r, <2>2, <2>4 DEF Rests, AtMostOne
  <2> QED
    BY <1>2, <1>r, <2>2, <2>3, <2>5, <2>6 DEF SettingPoints
<1> QED
  BY <1>3, <1>4, <1>5

\* The wizard gives a first executive the account alone, and any other a place beside
\* those there are; its executive saw the client without the account.
LEMMA AssignOnWizard ==
    ASSUME LinkInv, AssignInv, NEW s \in Slots,
           WizardVerify(s) \/ WizardRead(s) \/ WizardAssign(s)
    PROVE  AssignInv'
<1>r. req[s] \in Requests /\ role \in [Executives -> Role]
  BY DEF LinkInv, TypeOK
<1>0. /\ req[s].pc \in AssigningPoints \ SettingPoints
      /\ req[s].pc \in WizardPoints \/ req[s].pc = "verify"
  BY DEF WizardVerify, WizardRead, WizardAssign, At, AssigningPoints, WizardPoints, SettingPoints
<1>1. Calm(happened) =>
        /\ visible = AssignedIn(role) \cup Elsewhere
        /\ req[s].pc \in WizardPoints => req[s].primary \in Elsewhere
        /\ req[s].pc = "verify" => req[s].primary \in AssignedIn(role) \cup Elsewhere
  BY DEF AssignInv, Watches
<1>4. CASE WizardVerify(s)
  <2> DEFINE new == [req[s] EXCEPT !.pc = "wizardRead"]
  <2>1. /\ new \in Requests /\ new.pc = "wizardRead" /\ new.primary = req[s].primary
        /\ role' = role /\ visible' = visible /\ req[s].pc = "verify"
    BY <1>r, <1>4 DEF WizardVerify, At, Requests, Points, rows
  <2>2. Handle(s, Idle, {}) \/ (Handle(s, new, {}) /\ req[s].primary \notin Assigned)
    BY <1>4 DEF WizardVerify, Finish, Goto, Continue
  <2> HIDE DEF new
  <2>3. CASE Handle(s, Idle, {})
    <3>1. Idle \in Requests /\ Idle.pc = "idle"
      BY IdleFits DEF Idle
    <3> QED
      BY <1>0, <2>1, <2>3, <3>1, AssignStill DEF SettingPoints, WizardPoints
  <2>4. CASE Handle(s, new, {}) /\ req[s].primary \notin Assigned
    <3>1. happened \subseteq happened'
      BY <2>1, <2>4, Handled DEF LinkInv
    <3>2. Rests(new, role)
      BY <2>1 DEF Rests
    <3>3. ASSUME Quiet(happened')
          PROVE  AtMostOne(role) \/ \E t \in Slots \ {s} : req[t].pc \in SettingPoints
      BY <1>0, <3>1, <3>3 DEF Quiet, AssignInv
    <3>4. Calm(happened') => Watches(new, role) /\ visible = AssignedIn(role) \cup Elsewhere
      BY <1>1, <2>1, <2>4, <3>1 DEF Calm, Watches, SettingPoints, Assigned, AssignedIn
    <3> QED
      BY <2>1, <2>4, <3>2, <3>3, <3>4, AssignStep
  <2> QED
    BY <2>2, <2>3, <2>4
<1>2. CASE WizardRead(s)
  <2> DEFINE new == [req[s] EXCEPT !.pc = "wizard", !.old = Assigned]
  <2>1. /\ new \in Requests /\ new.pc = "wizard" /\ new.old = Assigned
        /\ new.primary = req[s].primary
    BY <1>r DEF Requests, Points, Assigned
  <2>2. Handle(s, new, {}) /\ role' = role /\ visible' = visible
    BY <1>2 DEF WizardRead, Continue, rows
  <2> HIDE DEF new
  <2>3. happened \subseteq happened'
    BY <2>1, <2>2, Handled DEF LinkInv
  <2>4. Rests(new, role)
    BY <2>1 DEF Rests, Assigned, AssignedIn
  <2>5. ASSUME Quiet(happened')
        PROVE  AtMostOne(role) \/ \E t \in Slots \ {s} : req[t].pc \in SettingPoints
    BY <1>0, <2>3, <2>5 DEF Quiet, AssignInv
  <2>6. Calm(happened') => Watches(new, role) /\ visible = AssignedIn(role) \cup Elsewhere
    BY <1>1, <1>2, <2>1, <2>3 DEF Calm, Watches, SettingPoints, WizardRead, At, WizardPoints
  <2> QED
    BY <2>1, <2>2, <2>4, <2>5, <2>6, AssignStep
<1>3. CASE WizardAssign(s)
  <2> DEFINE e == req[s].primary
  <2>1. /\ Handle(s, Idle, {}) /\ visible' = visible /\ req[s].pc = "wizard"
        /\ role' = IF req[s].old = {} THEN Upsert(role, e, {}) ELSE Upsert(role, None, {e})
    BY <1>3 DEF WizardAssign, Finish, Continue, At
  <2>2. happened \subseteq happened'
    BY <2>1, Handled, IdleFits DEF LinkInv
  <2>3. ASSUME Quiet(happened')
        PROVE  AtMostOne(role') \/ \E t \in Slots \ {s} : req[t].pc \in SettingPoints
    <3>1. Quiet(happened) /\ Rests(req[s], role)
      BY <2>2, <2>3 DEF Quiet, AssignInv
    <3>2. CASE req[s].old = {}
      <4>1. PrimariesIn(role') \subseteq {e}
        BY <1>r, <2>1, <3>1, <3>2 DEF Rests, AssignedIn, PrimariesIn, Upsert
      <4> QED
        BY <4>1 DEF AtMostOne
    <3>3. CASE req[s].old # {}
      <4>1. PrimariesIn(role') \subseteq PrimariesIn(role)
        BY <1>r, <2>1, <3>3, ConstantsAssumption DEF PrimariesIn, Upsert
      <4>2. AtMostOne(role) \/ \E t \in Slots \ {s} : req[t].pc \in SettingPoints
        BY <1>0, <3>1 DEF AssignInv
      <4> QED
        BY <4>1, <4>2 DEF AtMostOne
    <3> QED
      BY <3>2, <3>3
  <2>4. ASSUME Calm(happened')
        PROVE  visible' = AssignedIn(role') \cup Elsewhere
    <3>1. Calm(happened)
      BY <2>2, <2>4 DEF Calm
    <3>2. e \in Elsewhere /\ visible = AssignedIn(role) \cup Elsewhere
      BY <1>1, <2>1, <3>1 DEF WizardPoints
    <3>3. AssignedIn(role') = AssignedIn(role) \cup {e}
      BY <1>r, <2>1, <3>2, ConstantsAssumption DEF AssignedIn, Upsert
    <3> QED
      BY <2>1, <3>2, <3>3
  <2>5. Rests(Idle, role') /\ Watches(Idle, role')
    BY DEF Idle, Rests, Watches, SettingPoints, WizardPoints
  <2> QED
    BY <1>0, <2>1, <2>3, <2>4, <2>5, IdleFits, AssignStep
<1> QED
  BY <1>2, <1>3, <1>4

LEMMA AssignInvInductive ==
    ASSUME LinkInv, AssignInv, [Next]_vars
    PROVE  AssignInv'
<1>1. CASE UNCHANGED vars
  BY <1>1 DEF AssignInv, vars, rows, Quiet, Calm, Rests, Watches, AtMostOne, AssignedIn,
              PrimariesIn, StillHasMailbox
<1>2. CASE MotorRevokes
  BY <1>2 DEF MotorRevokes, AssignInv, rows, Quiet, Calm, Rests, Watches, AtMostOne, AssignedIn,
              PrimariesIn, StillHasMailbox
<1>3. ASSUME NEW s \in Slots,
             \/ HandlerFails(s) \/ RollBack(s) \/ Beginning(s) \/ Link(s)
             \/ Unlink(s) \/ Revoke(s)
             \/ NotConfirmed(s) \/ Complete(s) \/ ReadAssignees(s) \/ WriteStatus(s)
             \/ CheckRemaining(s) \/ RevokeDerived(s)
             \/ Reassign(s) \/ Update(s) \/ Configure(s)
             \/ RemoveAssignee(s) \/ SetPrimary(s) \/ SetSecondary(s)
             \/ WizardVerify(s) \/ WizardRead(s) \/ WizardAssign(s)
      PROVE  AssignInv'
  BY <1>3, AssignOnBegin, AssignOnLinkSteps, AssignOnLink, AssignOnDerivation,
     AssignOnReplacing, AssignOnSetting, AssignOnWizard
<1> QED
  BY <1>1, <1>2, <1>3 DEF Next, Beginning

LEMMA AssignInvariant == Spec => [](LinkInv /\ AssignInv)
<1>1. Init => AssignInv
  BY DEF Init, AssignInv, Idle, AssigningPoints, SettingPoints, WizardPoints, Rests, Watches,
         AtMostOne, AssignedIn, PrimariesIn
<1>2. LinkInv /\ AssignInv /\ [Next]_vars => AssignInv'
  BY AssignInvInductive
<1> QED
  BY <1>1, <1>2, LinkInvariant, PTL DEF Spec

\* At most one executive is PRIMARY, but for the overlaps, cuts and configurations named.
THEOREM AtMostOnePrimary == Spec => []OnePrimary
<1>1. ASSUME AssignInv
      PROVE  OnePrimary
  <2> SUFFICES ASSUME Quiet(happened), \A s \in Slots : req[s].pc \notin SettingPoints
               PROVE  Cardinality(Primaries) <= 1
    BY DEF OnePrimary, Quiet, SettingPoints
  <2>1. \A d, e \in Primaries : d = e
    BY <1>1 DEF AssignInv, AtMostOne, PrimariesIn, Primaries
  <2>2. CASE Primaries = {}
    BY <2>2, FS_EmptySet
  <2>3. ASSUME NEW e \in Primaries
        PROVE  Cardinality(Primaries) <= 1
    <3>1. Primaries = {e}
      BY <2>1
    <3>2. Cardinality({e}) = 1
      BY FS_Singleton
    <3> QED
      BY <3>1, <3>2
  <2> QED
    BY <2>2, <2>3
<1> QED
  BY <1>1, AssignInvariant, PTL

\* While the account is not REVOKED, its executives and those who see the client on
\* other grounds are those who see it, unless setAssignees was used or two handlers
\* changed the assignments at once.
THEOREM VisibilityFollows == Spec => []SeesClientWhileAssigned
<1>1. AssignInv => SeesClientWhileAssigned
  BY DEF AssignInv, Calm, AssignedIn, Assigned, SeesClientWhileAssigned
<1> QED
  BY <1>1, AssignInvariant, PTL
=============================================================================

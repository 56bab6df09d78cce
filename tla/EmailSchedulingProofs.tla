----------------------- MODULE EmailSchedulingProofs -----------------------
(***************************************************************************)
(* What holds of EmailScheduling for every set of contacts, steps and      *)
(* handlers.  First, with no assumption on how handlers interleave or fail, *)
(* the emails of a contact go out in the order of the course.  The argument *)
(* is that an email is never deleted and sentAt never cleared, so that what *)
(* a handler read of them when it took a step in hand is still true when it *)
(* writes: "every earlier step was sent" is stable.  Then, of a contact that *)
(* one handler at a time works on, that stopping it stops its emails, save  *)
(* what simulateSend does to an email that no longer waits.                 *)
(***************************************************************************)
EXTENDS EmailScheduling, TLAPS

\* k is a step of the course, and every one before it was sent to c, as e has the
\* emails.
Earlier(e, c, k) == k \in Course /\ \A j \in Course : j < k => e[<<c, j>>].sent

\* Some email of c lost its status SENT.
Lost(o, c) == \E i \in Steps : <<c, i>> \in o

\* What the emails e and the overwritten ones o owe to each other.
EmailsInOrder(e, o) ==
    \A c \in Contacts, k \in Steps :
      /\ e[<<c, k>>].status # "NONE" => Earlier(e, c, k)
      /\ e[<<c, k>>].sent => e[<<c, k>>].status # "NONE"
      /\ e[<<c, k>>].sent /\ e[<<c, k>>].status # "SENT" => <<c, k>> \in o
      /\ e[<<c, k>>].sent /\ ~e[<<c, k>>].reply =>
           \A j \in Course : j < k => Lost(o, c)

\* A contact is at a step whose earlier steps were sent, or through with all of them.
ContactInOrder(e, x, c) ==
    /\ x.step # 0 => Earlier(e, c, x.step)
    /\ x.status = "COMPLETED" => \A j \in Course : e[<<c, j>>].sent

\* What a handler holds: a contact and a step where it will use them...
HoldsContact(r) ==
    \/ r.pc \in {"mark", "read", "write", "advance", "fail", "enrollments", "stop", "suppress",
                 "converse", "enrolCreate", "first"}
    \/ r.pc \in {"cancelRead", "cancel"} /\ r.op \notin {"cancelAll", "company"}
HoldsStep(r) == r.pc \in {"read", "write", "advance", "fail", "first"}
HoldsStatus(r) ==
    \/ r.pc \in {"enrollments", "stop"}
    \/ r.pc \in {"cancelRead", "cancel"} /\ r.op \notin {"cancelAll", "company"}

\* ... and steps whose earlier ones were sent.
HandlerInOrder(e, o, r) ==
    /\ HoldsContact(r) => r.who \in Contacts
    /\ HoldsStatus(r) => r.status \in ContactStatus \ {"COMPLETED"}
    /\ HoldsStep(r) => r.step \in Steps /\ Earlier(e, r.who, r.step)
    /\ r.pc = "fail" => r.status \in EmailStatus \ {"NONE"}
    /\ r.pc = "advance" => e[<<r.who, r.step>>].sent
    /\ r.pc = "write" /\ ~r.reply => \A j \in Course : j < r.step => Lost(o, r.who)
    /\ \A q \in r.rows \cup r.list : Earlier(e, q[1], q[2])

IInv ==
    /\ TypeOK
    /\ EmailsInOrder(email, overwritten)
    /\ \A c \in Contacts : ContactInOrder(email, contact[c], c)
    /\ \A s \in Slots : HandlerInOrder(email, overwritten, req[s])

-----------------------------------------------------------------------------
(* The course.                                                              *)

\* The steps are positive numbers, and those of the course are among them.
LEMMA StepsFacts ==
    /\ Steps \subseteq Nat \ {0}
    /\ Course \subseteq Steps
    /\ LiveSteps \subseteq Steps /\ Published \subseteq Steps
BY ConstantsAssumption DEF Course, LiveSteps

\* Nothing of the course comes before the first step.
LEMMA FirstHasNoEarlier ==
    ASSUME NEW e, NEW c, NEW k \in Published, IsFirst(k)
    PROVE Earlier(e, c, k)
BY StepsFacts, ConstantsAssumption DEF Earlier, IsFirst, Course, LiveSteps

\* With k sent after all before it, its next step has all before it sent.
LEMMA NextHasEarlier ==
    ASSUME NEW e, NEW c, NEW k \in Steps, NEW j \in LiveSteps, IsNext(k, j),
           Earlier(e, c, k), e[<<c, k>>].sent
    PROVE Earlier(e, c, j)
BY StepsFacts DEF Earlier, IsNext, Course

\* With the last step sent after all before it, the whole course was.
LEMMA LastEndsCourse ==
    ASSUME NEW e, NEW c, NEW k \in Steps, IsLast(k), Earlier(e, c, k), e[<<c, k>>].sent
    PROVE \A j \in Course : e[<<c, j>>].sent
BY StepsFacts DEF Earlier, IsLast, Course

-----------------------------------------------------------------------------
(* Stability.                                                               *)

\* From emails e to emails f no sentAt is cleared; from o to p nothing is forgotten.
Grows(e, o, f, p) ==
    /\ \A r \in Row : e[r].sent => f[r].sent
    /\ o \subseteq p

LEMMA EarlierIsStable ==
    ASSUME NEW e, NEW o, NEW f, NEW p, Grows(e, o, f, p),
           NEW c \in Contacts, NEW k, Earlier(e, c, k)
    PROVE Earlier(f, c, k)
BY StepsFacts DEF Earlier, Grows, Row

\* What a handler holds stays in order whatever the others write.
LEMMA HandlerIsStable ==
    ASSUME NEW e, NEW o, NEW f, NEW p, Grows(e, o, f, p),
           NEW r \in Requests, HandlerInOrder(e, o, r)
    PROVE HandlerInOrder(f, p, r)
<1>1. HoldsStep(r) => HoldsContact(r)
  BY DEF HoldsStep, HoldsContact
<1>2. ASSUME NEW c \in Contacts, NEW k, Earlier(e, c, k) PROVE Earlier(f, c, k)
  BY <1>2, EarlierIsStable
<1>3. HoldsStep(r) => r.step \in Steps /\ Earlier(f, r.who, r.step)
  BY <1>1, <1>2 DEF HandlerInOrder
<1>4. r.pc = "advance" => f[<<r.who, r.step>>].sent
  BY <1>1 DEF HandlerInOrder, HoldsStep, Grows, Row
<1>5. \A q \in r.rows \cup r.list : Earlier(f, q[1], q[2])
  <2>1. TAKE q \in r.rows \cup r.list
  <2>2. q[1] \in Contacts
    BY DEF Requests, Row
  <2>3. Earlier(e, q[1], q[2])
    BY DEF HandlerInOrder
  <2>4. QED BY <1>2, <2>2, <2>3
<1>6. r.pc = "write" /\ ~r.reply => \A j \in Course : j < r.step => Lost(p, r.who)
  BY DEF HandlerInOrder, Lost, Grows
<1>7. QED BY <1>3, <1>4, <1>5, <1>6 DEF HandlerInOrder

LEMMA ContactIsStable ==
    ASSUME NEW e, NEW o, NEW f, NEW p, Grows(e, o, f, p),
           NEW x, NEW c \in Contacts, ContactInOrder(e, x, c)
    PROVE ContactInOrder(f, x, c)
<1>1. x.step # 0 => Earlier(f, c, x.step)
  BY EarlierIsStable DEF ContactInOrder
<1>2. x.status = "COMPLETED" => \A j \in Course : f[<<c, j>>].sent
  BY StepsFacts DEF ContactInOrder, Grows, Row
<1>3. QED BY <1>1, <1>2 DEF ContactInOrder

-----------------------------------------------------------------------------
(* One step of a handler, whatever it writes.                               *)

LEMMA NothingGrows == Grows(email, overwritten, email, overwritten)
BY DEF Grows

\* The handler's own record is in order, and the others' stay so.
LEMMA HandlerMoves ==
    ASSUME IInv, NEW s \in Slots, NEW r \in Requests,
           Handle(s, r),
           Grows(email, overwritten, email', overwritten'),
           HandlerInOrder(email', overwritten', r)
    PROVE /\ req' \in [Slots -> Requests]
          /\ overlapped' \subseteq Contacts
          /\ \A t \in Slots : HandlerInOrder(email', overwritten', req'[t])
<1>1. req \in [Slots -> Requests] /\ overlapped \subseteq Contacts
  BY DEF IInv, TypeOK
<1>2. req' = [req EXCEPT ![s] = r]
  BY DEF Handle
<1>3. req' \in [Slots -> Requests]
  BY <1>1, <1>2
<1>4. r.scope \subseteq Contacts
  BY DEF Requests
<1>5. overlapped' \subseteq Contacts
  BY <1>1, <1>4 DEF Handle
<1>6. ASSUME NEW t \in Slots PROVE HandlerInOrder(email', overwritten', req'[t])
  <2>1. CASE t = s
    BY <1>1, <1>2, <2>1
  <2>2. CASE t # s
    <3>1. req'[t] = req[t] /\ req[t] \in Requests
      BY <1>1, <1>2, <2>2
    <3>2. HandlerInOrder(email, overwritten, req[t])
      BY DEF IInv
    <3>3. QED BY <3>1, <3>2, HandlerIsStable
  <2>3. QED BY <2>1, <2>2
<1>7. QED BY <1>3, <1>5, <1>6

\* The others stay in order when no handler moves.
LEMMA HandlersStay ==
    ASSUME IInv, UNCHANGED req, Grows(email, overwritten, email', overwritten')
    PROVE /\ req' \in [Slots -> Requests]
          /\ \A t \in Slots : HandlerInOrder(email', overwritten', req'[t])
<1>1. req' \in [Slots -> Requests]
  BY DEF IInv, TypeOK
<1>2. ASSUME NEW t \in Slots PROVE HandlerInOrder(email', overwritten', req'[t])
  <2>1. req'[t] = req[t] /\ req[t] \in Requests
    BY DEF IInv, TypeOK
  <2>2. HandlerInOrder(email, overwritten, req[t])
    BY DEF IInv
  <2>3. QED BY <2>1, <2>2, HandlerIsStable
<1>3. QED BY <1>1, <1>2

\* A step that writes neither table.
LEMMA ReadPreserves ==
    ASSUME IInv, NEW s \in Slots, NEW r \in Requests,
           Handle(s, r), HandlerInOrder(email, overwritten, r),
           UNCHANGED <<contact, email, overwritten>>, requests' \in Nat /\ resent' \subseteq Row,
           suppressed' \subseteq Contacts, conversation' \subseteq Contacts
    PROVE IInv'
<1>1. /\ req' \in [Slots -> Requests]
      /\ overlapped' \subseteq Contacts
      /\ \A t \in Slots : HandlerInOrder(email', overwritten', req'[t])
  BY NothingGrows, HandlerMoves
<1>2. TypeOK'
  BY <1>1 DEF IInv, TypeOK
<1>3. EmailsInOrder(email', overwritten')
  BY DEF IInv
<1>4. \A c \in Contacts : ContactInOrder(email', contact'[c], c)
  BY DEF IInv
<1>5. QED BY <1>1, <1>2, <1>3, <1>4 DEF IInv

\* A step that writes one contact, keeping the emails.
LEMMA ContactWritePreserves ==
    ASSUME IInv, NEW s \in Slots, NEW r \in Requests, Continue(s, r),
           HandlerInOrder(email, overwritten, r),
           contact' \in [Contacts -> [status: ContactStatus, step: StepOrNull]],
           \A c \in Contacts : ContactInOrder(email, contact'[c], c),
           UNCHANGED <<email, suppressed, conversation, overwritten>>
    PROVE IInv'
<1>1. Handle(s, r) /\ UNCHANGED <<requests, resent>>
  BY DEF Continue
<1>2. /\ req' \in [Slots -> Requests]
      /\ overlapped' \subseteq Contacts
      /\ \A t \in Slots : HandlerInOrder(email', overwritten', req'[t])
  BY <1>1, NothingGrows, HandlerMoves
<1>3. TypeOK'
  BY <1>1, <1>2 DEF IInv, TypeOK
<1>4. EmailsInOrder(email', overwritten')
  BY DEF IInv
<1>5. QED BY <1>2, <1>3, <1>4 DEF IInv

\* What an update by id may make of an email: sentAt stays, the step is in order, a
\* status SENT that goes is noted, and a message that answers nothing is explained.
MayBecome(r, new) ==
    /\ new \in Emails /\ new.status # "NONE"
    /\ email[r].sent => new.sent
    /\ new.sent /\ new.status # "SENT" => email[r].sent
    /\ Earlier(email, r[1], r[2])
    /\ new.sent /\ ~new.reply => \A j \in Course : j < r[2] => Lost(overwritten, r[1])

\* A write of one email.
LEMMA EmailWrite ==
    ASSUME IInv, NEW r \in Row, NEW new, WriteEmail(r, new), MayBecome(r, new)
    PROVE /\ email' \in [Row -> Emails] /\ overwritten' \subseteq Row
          /\ Grows(email, overwritten, email', overwritten')
          /\ EmailsInOrder(email', overwritten')
<1>1. email \in [Row -> Emails] /\ overwritten \subseteq Row
  BY DEF IInv, TypeOK
<1>2. email' = [email EXCEPT ![r] = new]
  BY DEF WriteEmail
<1>3. email' \in [Row -> Emails] /\ overwritten' \subseteq Row
  BY <1>1, <1>2 DEF MayBecome, WriteEmail
<1>4. Grows(email, overwritten, email', overwritten')
  BY <1>1, <1>2 DEF MayBecome, WriteEmail, Grows
<1>5. ASSUME NEW c \in Contacts, NEW k \in Steps
      PROVE /\ email'[<<c, k>>].status # "NONE" => Earlier(email', c, k)
            /\ email'[<<c, k>>].sent => email'[<<c, k>>].status # "NONE"
            /\ email'[<<c, k>>].sent /\ email'[<<c, k>>].status # "SENT" =>
                 <<c, k>> \in overwritten'
            /\ email'[<<c, k>>].sent /\ ~email'[<<c, k>>].reply =>
                 \A j \in Course : j < k => Lost(overwritten', c)
  <2>1. <<c, k>> \in Row
    BY DEF Row
  <2>2. /\ email[<<c, k>>].status # "NONE" => Earlier(email, c, k)
        /\ email[<<c, k>>].sent => email[<<c, k>>].status # "NONE"
        /\ email[<<c, k>>].sent /\ email[<<c, k>>].status # "SENT" => <<c, k>> \in overwritten
        /\ email[<<c, k>>].sent /\ ~email[<<c, k>>].reply =>
             \A j \in Course : j < k => Lost(overwritten, c)
    BY DEF IInv, EmailsInOrder
  <2>3. Lost(overwritten, c) => Lost(overwritten', c)
    BY <1>4 DEF Lost, Grows
  <2>4. Earlier(email, c, k) => Earlier(email', c, k)
    BY <1>4, EarlierIsStable
  <2>5. CASE r = <<c, k>>
    <3>1. email'[<<c, k>>] = new
      BY <1>1, <1>2, <2>1, <2>5
    <3>2. new.sent /\ new.status # "SENT" => <<c, k>> \in overwritten'
      BY <2>2, <2>5 DEF MayBecome, WriteEmail
    <3>3. new.status # "NONE" /\ Earlier(email', c, k)
      BY <2>4, <2>5 DEF MayBecome
    <3>4. new.sent /\ ~new.reply => \A j \in Course : j < k => Lost(overwritten', c)
      BY <2>3, <2>5 DEF MayBecome
    <3>5. QED BY <3>1, <3>2, <3>3, <3>4
  <2>6. CASE r # <<c, k>>
    <3>1. email'[<<c, k>>] = email[<<c, k>>]
      BY <1>1, <1>2, <2>1, <2>6
    <3>2. overwritten \subseteq overwritten'
      BY <1>4 DEF Grows
    <3>3. QED BY <2>2, <2>3, <2>4, <3>1, <3>2
  <2>7. QED BY <2>5, <2>6
<1>6. QED BY <1>3, <1>4, <1>5 DEF EmailsInOrder

\* A step that writes one email, keeping the contacts.
LEMMA EmailWritePreserves ==
    ASSUME IInv, NEW s \in Slots, NEW r \in Row, NEW new, NEW h \in Requests,
           WriteEmail(r, new), MayBecome(r, new), Continue(s, h),
           HandlerInOrder(email', overwritten', h),
           UNCHANGED <<contact, suppressed, conversation>>
    PROVE IInv'
<1>1. /\ email' \in [Row -> Emails] /\ overwritten' \subseteq Row
      /\ Grows(email, overwritten, email', overwritten')
      /\ EmailsInOrder(email', overwritten')
  BY EmailWrite
<1>2. Handle(s, h) /\ UNCHANGED <<requests, resent>>
  BY DEF Continue
<1>3. /\ req' \in [Slots -> Requests]
      /\ overlapped' \subseteq Contacts
      /\ \A t \in Slots : HandlerInOrder(email', overwritten', req'[t])
  BY <1>1, <1>2, HandlerMoves
<1>4. TypeOK'
  BY <1>1, <1>2, <1>3 DEF IInv, TypeOK
<1>5. ASSUME NEW c \in Contacts PROVE ContactInOrder(email', contact'[c], c)
  <2>1. ContactInOrder(email, contact[c], c)
    BY DEF IInv
  <2>2. QED BY <1>1, <2>1, ContactIsStable
<1>6. QED BY <1>1, <1>3, <1>4, <1>5 DEF IInv

-----------------------------------------------------------------------------
(* The actions.                                                             *)

LEMMA InitHolds == Init => IInv
<1>1. Idle \in Requests
  BY DEF Idle, Requests, Points, StepOrNull, ContactStatus
<1> SUFFICES ASSUME Init PROVE IInv
  OBVIOUS
<1>2. TypeOK
  BY <1>1 DEF Init, TypeOK, Emails, EmailStatus, ContactStatus, StepOrNull
<1>3. EmailsInOrder(email, overwritten)
  BY DEF Init, EmailsInOrder, Row
<1>4. \A c \in Contacts : ContactInOrder(email, contact[c], c)
  BY DEF Init, ContactInOrder
<1>5. \A s \in Slots : HandlerInOrder(email, overwritten, req[s])
  BY DEF Init, Idle, HandlerInOrder, HoldsContact, HoldsStep, HoldsStatus
<1>6. QED BY <1>2, <1>3, <1>4, <1>5 DEF IInv

\* What the invariant says of the record of one handler.
LEMMA HandlerFacts ==
    ASSUME IInv, NEW s \in Slots
    PROVE /\ req[s] \in Requests
          /\ HandlerInOrder(email, overwritten, req[s])
BY DEF IInv, TypeOK

LEMMA IdleIsInOrder == Idle \in Requests /\ HandlerInOrder(email, overwritten, Idle)
BY DEF Idle, Requests, Points, StepOrNull, ContactStatus,
       HandlerInOrder, HoldsContact, HoldsStep, HoldsStatus

LEMMA HandlerFailsPreserves ==
    ASSUME IInv, NEW s \in Slots, HandlerFails(s) PROVE IInv'
<1>1. Handle(s, Idle) /\ requests' \in Nat /\ resent' \subseteq Row
  BY DEF HandlerFails, Finish, Continue, IInv, TypeOK
<1>2. QED
  BY <1>1, IdleIsInOrder, ReadPreserves
  DEF HandlerFails, businessVars, IInv, TypeOK

LEMMA BeginBatchPreserves ==
    ASSUME IInv, NEW s \in Slots, BeginBatch(s) PROVE IInv'
<1> DEFINE due == {c \in Contacts : IsDue(c)}
           new == [Idle EXCEPT !.pc = "check", !.op = "batch", !.scope = due,
                               !.rows = {<<c, contact[c].step>> : c \in due}]
<1>1. contact \in [Contacts -> [status: ContactStatus, step: StepOrNull]]
  BY DEF IInv, TypeOK
<1>2. \A c \in due : contact[c].step \in Steps /\ Earlier(email, c, contact[c].step)
  BY <1>1 DEF IInv, ContactInOrder, IsDue, StepOrNull
<1>3. {<<c, contact[c].step>> : c \in due} \subseteq Row
  BY <1>2 DEF Row
<1>4. new \in Requests
  BY <1>3, IdleIsInOrder DEF Requests, Points, Idle
<1>5. HandlerInOrder(email, overwritten, new)
  <2>1. new.pc = "check" /\ new.rows = {<<c, contact[c].step>> : c \in due} /\ new.list = {}
    BY DEF Idle
  <2>2. \A q \in new.rows \cup new.list : Earlier(email, q[1], q[2])
    BY <1>2, <2>1
  <2>3. QED BY <2>1, <2>2 DEF HandlerInOrder, HoldsContact, HoldsStep, HoldsStatus
<1>6. Handle(s, new) /\ requests' \in Nat /\ resent' \subseteq Row
  BY DEF BeginBatch, Begin, Admit, IInv, TypeOK
<1> HIDE DEF due, new
<1>7. QED
  BY <1>4, <1>5, <1>6, ReadPreserves DEF BeginBatch, businessVars, IInv, TypeOK

LEMMA BatchCheckPreserves ==
    ASSUME IInv, NEW s \in Slots, BatchCheck(s) PROVE IInv'
<1>1. req[s] \in Requests /\ HandlerInOrder(email, overwritten, req[s]) /\ req[s].pc = "check"
  BY HandlerFacts DEF BatchCheck, At
<1>2. PICK r \in req[s].rows :
        Continue(s, [req[s] EXCEPT !.rows = @ \ {r},
                       !.list = IF email[r].status \in {"NONE", "CANCELLED"}
                                THEN @ \cup {r} ELSE @])
  BY DEF BatchCheck
<1> DEFINE new == [req[s] EXCEPT !.rows = @ \ {r},
                       !.list = IF email[r].status \in {"NONE", "CANCELLED"}
                                THEN @ \cup {r} ELSE @]
<1>3. r \in Row
  BY <1>1 DEF Requests
<1>4. new \in Requests
  BY <1>1, <1>3 DEF Requests
<1>5. HandlerInOrder(email, overwritten, new)
  <2>1. /\ new.pc = "check"
        /\ new.rows \cup new.list \subseteq req[s].rows \cup req[s].list
    BY <1>1 DEF Requests
  <2>2. QED BY <1>1, <2>1 DEF HandlerInOrder, HoldsContact, HoldsStep, HoldsStatus
<1>6. Handle(s, new) /\ requests' \in Nat /\ resent' \subseteq Row
  BY <1>2 DEF Continue, IInv, TypeOK
<1> HIDE DEF new
<1>7. QED
  BY <1>4, <1>5, <1>6, ReadPreserves DEF BatchCheck, businessVars, IInv, TypeOK

LEMMA BatchCapPreserves ==
    ASSUME IInv, NEW s \in Slots, BatchCap(s) PROVE IInv'
<1>1. req[s] \in Requests /\ HandlerInOrder(email, overwritten, req[s])
  BY HandlerFacts
<1>2. PICK kept \in SUBSET req[s].list :
        IF kept = {} THEN Finish(s)
        ELSE Continue(s, [req[s] EXCEPT !.pc = "create", !.list = kept,
                                        !.scope = {r[1] : r \in kept}])
  BY DEF BatchCap
<1>3. UNCHANGED <<contact, email, overwritten>> /\ suppressed' \subseteq Contacts
      /\ conversation' \subseteq Contacts /\ requests' \in Nat /\ resent' \subseteq Row
  BY <1>2 DEF BatchCap, businessVars, IInv, TypeOK, Finish, Continue
<1>4. CASE kept = {}
  BY <1>2, <1>3, <1>4, IdleIsInOrder, ReadPreserves DEF Finish, Continue
<1>5. CASE kept # {}
  <2> DEFINE new == [req[s] EXCEPT !.pc = "create", !.list = kept,
                                   !.scope = {r[1] : r \in kept}]
  <2>1. kept \subseteq Row /\ {r[1] : r \in kept} \subseteq Contacts
    BY <1>1 DEF Requests, Row
  <2>2. new \in Requests
    BY <1>1, <2>1 DEF Requests, Points
  <2>3. HandlerInOrder(email, overwritten, new)
    <3>1. new.pc = "create" /\ new.rows \cup new.list \subseteq req[s].rows \cup req[s].list
      BY <1>1 DEF Requests
    <3>2. QED BY <1>1, <3>1 DEF HandlerInOrder, HoldsContact, HoldsStep, HoldsStatus
  <2>4. Handle(s, new)
    BY <1>2, <1>5 DEF Continue
  <2> HIDE DEF new
  <2>5. QED BY <1>3, <2>2, <2>3, <2>4, ReadPreserves
<1>6. QED BY <1>4, <1>5

\* A new email has sent nothing yet; its step's earlier ones must have been.
LEMMA NewEmailMayBe ==
    ASSUME IInv, NEW r \in Row, email[r].status = "NONE", Earlier(email, r[1], r[2])
    PROVE MayBecome(r, NewEmail)
<1>1. ~email[r].sent
  <2>1. r[1] \in Contacts /\ r[2] \in Steps /\ r = <<r[1], r[2]>>
    BY DEF Row
  <2>2. QED BY <2>1 DEF IInv, EmailsInOrder
<1>2. QED BY <1>1 DEF MayBecome, NewEmail, Emails, EmailStatus

LEMMA BatchCreatePreserves ==
    ASSUME IInv, NEW s \in Slots, BatchCreate(s) PROVE IInv'
<1>1. req[s] \in Requests /\ HandlerInOrder(email, overwritten, req[s])
  BY HandlerFacts
<1>2. PICK r \in req[s].list :
        \/ /\ email[r].status = "NONE"
           /\ WriteEmail(r, NewEmail)
           /\ Continue(s, [req[s] EXCEPT !.pc = "mark", !.who = r[1], !.step = r[2],
                                         !.list = @ \ {r}])
        \/ /\ email[r].status # "NONE"
           /\ Finish(s)
           /\ UNCHANGED <<email, overwritten>>
  BY DEF BatchCreate
<1>3. UNCHANGED <<contact, suppressed, conversation>>
  BY DEF BatchCreate
<1>4. CASE email[r].status = "NONE"
  <2> DEFINE new == [req[s] EXCEPT !.pc = "mark", !.who = r[1], !.step = r[2],
                                   !.list = @ \ {r}]
  <2>1. r \in Row /\ r[1] \in Contacts /\ r[2] \in Steps
    BY <1>1 DEF Requests, Row
  <2>2. Earlier(email, r[1], r[2])
    BY <1>1 DEF HandlerInOrder
  <2>3. MayBecome(r, NewEmail)
    BY <1>4, <2>1, <2>2, NewEmailMayBe
  <2>4. WriteEmail(r, NewEmail) /\ Continue(s, new)
    BY <1>2, <1>4
  <2>5. Grows(email, overwritten, email', overwritten')
    BY <2>1, <2>3, <2>4, EmailWrite
  <2>6. new \in Requests
    BY <1>1, <2>1 DEF Requests, Points, StepOrNull
  <2>7. HandlerInOrder(email, overwritten, new)
    <3>1. /\ new.pc = "mark" /\ new.who = r[1]
          /\ new.rows \cup new.list \subseteq req[s].rows \cup req[s].list
      BY <1>1 DEF Requests
    <3>2. QED BY <1>1, <2>1, <3>1 DEF HandlerInOrder, HoldsContact, HoldsStep, HoldsStatus
  <2> HIDE DEF new
  <2>8. HandlerInOrder(email', overwritten', new)
    BY <2>5, <2>6, <2>7, HandlerIsStable
  <2>9. QED BY <1>3, <2>1, <2>3, <2>4, <2>6, <2>8, EmailWritePreserves
<1>5. CASE email[r].status # "NONE"
  BY <1>2, <1>3, <1>5, IdleIsInOrder, ReadPreserves DEF Finish, Continue, IInv, TypeOK
<1>6. QED BY <1>4, <1>5

\* A status other than COMPLETED leaves a contact where it was, in order.
LEMMA StatusWritePreserves ==
    ASSUME IInv, NEW s \in Slots, NEW h \in Requests, Continue(s, h),
           HandlerInOrder(email, overwritten, h),
           NEW c \in Contacts, NEW status \in ContactStatus, status # "COMPLETED",
           WriteStatus(c, status),
           UNCHANGED <<email, suppressed, conversation, overwritten>>
    PROVE IInv'
<1>1. contact \in [Contacts -> [status: ContactStatus, step: StepOrNull]]
  BY DEF IInv, TypeOK
<1>2. contact' = [contact EXCEPT ![c].status = status]
  BY DEF WriteStatus
<1>3. contact' \in [Contacts -> [status: ContactStatus, step: StepOrNull]]
  BY <1>1, <1>2
<1>4. ASSUME NEW d \in Contacts PROVE ContactInOrder(email, contact'[d], d)
  <2>1. ContactInOrder(email, contact[d], d)
    BY DEF IInv
  <2>2. CASE d = c
    <3>1. contact'[d].step = contact[d].step /\ contact'[d].status = status
      BY <1>1, <1>2, <2>2
    <3>2. QED BY <2>1, <3>1 DEF ContactInOrder
  <2>3. CASE d # c
    BY <1>1, <1>2, <2>1, <2>3
  <2>4. QED BY <2>2, <2>3
<1>5. QED BY <1>3, <1>4, ContactWritePreserves

LEMMA BatchMarkPreserves ==
    ASSUME IInv, NEW s \in Slots, BatchMark(s) PROVE IInv'
<1>1. req[s] \in Requests /\ HandlerInOrder(email, overwritten, req[s]) /\ req[s].pc = "mark"
  BY HandlerFacts DEF BatchMark, At
<1>2. req[s].who \in Contacts
  BY <1>1 DEF HandlerInOrder, HoldsContact
<1> DEFINE new == [req[s] EXCEPT !.pc = "create", !.who = None, !.step = 0,
                                 !.scope = @ \ {req[s].who}]
<1>3. new \in Requests
  BY <1>1 DEF Requests, Points, StepOrNull
<1>4. HandlerInOrder(email, overwritten, new)
  <2>1. new.pc = "create" /\ new.rows = req[s].rows /\ new.list = req[s].list
    BY <1>1 DEF Requests
  <2>2. QED BY <1>1, <2>1 DEF HandlerInOrder, HoldsContact, HoldsStep, HoldsStatus
<1>5. Continue(s, Idle) \/ Continue(s, new)
  BY DEF BatchMark, Finish
<1>6. WriteStatus(req[s].who, "SCHEDULED") /\ UNCHANGED <<email, suppressed, conversation, overwritten>>
  BY DEF BatchMark
<1> HIDE DEF new
<1>7. "SCHEDULED" \in ContactStatus
  BY DEF ContactStatus
<1>8. CASE Continue(s, Idle)
  BY <1>2, <1>6, <1>7, <1>8, IdleIsInOrder, StatusWritePreserves
<1>9. CASE Continue(s, new)
  BY <1>2, <1>3, <1>4, <1>6, <1>7, <1>9, StatusWritePreserves
<1>10. QED BY <1>5, <1>8, <1>9

\* A request to simulate an email: of a contact and a step with the earlier ones sent.
LEMMA SimulatesInOrder ==
    ASSUME NEW c \in Contacts, NEW k \in Steps, NEW p \in {"read", "fail"},
           NEW status \in EmailStatus \ {"NONE"}, Earlier(email', c, k)
    PROVE /\ Simulates(c, k, p, status) \in Requests
          /\ HandlerInOrder(email', overwritten', Simulates(c, k, p, status))
BY DEF Simulates, Idle, Requests, Points, StepOrNull, HandlerInOrder, HoldsContact,
       HoldsStep, HoldsStatus

LEMMA BeginSendPreserves ==
    ASSUME IInv, NEW s \in Slots, BeginSend(s) PROVE IInv'
<1>1. PICK r \in Row :
        /\ email[r].status # "NONE"
        /\ \E outcome \in {"SENT", "RETRY_SCHEDULED", "FAILED"} :
             Begin(s, Simulates(r[1], r[2], IF outcome = "SENT" THEN "read" ELSE "fail", outcome),
                   {r} \ Waiting)
        /\ UNCHANGED <<businessVars, overwritten>>
  BY DEF BeginSend
<1>2. PICK outcome \in {"SENT", "RETRY_SCHEDULED", "FAILED"} :
        Begin(s, Simulates(r[1], r[2], IF outcome = "SENT" THEN "read" ELSE "fail", outcome),
              {r} \ Waiting)
  BY <1>1
<1>3. r[1] \in Contacts /\ r[2] \in Steps /\ r = <<r[1], r[2]>>
  BY DEF Row
<1>4. Earlier(email, r[1], r[2])
  BY <1>1, <1>3 DEF IInv, EmailsInOrder
<1>5. UNCHANGED <<contact, email, suppressed, conversation, overwritten>>
  BY <1>1 DEF businessVars
<1> DEFINE p == IF outcome = "SENT" THEN "read" ELSE "fail"
           new == Simulates(r[1], r[2], p, outcome)
<1>6. new \in Requests /\ HandlerInOrder(email, overwritten, new)
  <2>1. p \in {"read", "fail"} /\ outcome \in EmailStatus \ {"NONE"}
    BY DEF EmailStatus
  <2>2. Earlier(email', r[1], r[2])
    BY <1>4, <1>5
  <2> HIDE DEF p
  <2>3. new \in Requests /\ HandlerInOrder(email', overwritten', new)
    BY <1>3, <2>1, <2>2, SimulatesInOrder
  <2> HIDE DEF new
  <2>4. QED BY <1>5, <2>3
<1>7. Handle(s, new) /\ requests' \in Nat /\ resent' \subseteq Row
  BY <1>1, <1>2, <1>3 DEF Begin, Admit, IInv, TypeOK
<1> HIDE DEF new, p
<1>8. QED BY <1>5, <1>6, <1>7, ReadPreserves DEF IInv, TypeOK

LEMMA FailWritePreserves ==
    ASSUME IInv, NEW s \in Slots, FailWrite(s) PROVE IInv'
<1>1. req[s] \in Requests /\ HandlerInOrder(email, overwritten, req[s]) /\ req[s].pc = "fail"
  BY HandlerFacts DEF FailWrite, At
<1> DEFINE r == <<req[s].who, req[s].step>>
           new == [email[r] EXCEPT !.status = req[s].status]
<1>2. /\ req[s].who \in Contacts /\ req[s].step \in Steps
      /\ req[s].status \in EmailStatus \ {"NONE"} /\ Earlier(email, req[s].who, req[s].step)
  BY <1>1 DEF HandlerInOrder, HoldsContact, HoldsStep
<1>3. r \in Row /\ r[1] = req[s].who /\ r[2] = req[s].step
  BY <1>2 DEF Row
<1>4. email[r] \in Emails
  BY <1>3 DEF IInv, TypeOK
<1>5. /\ new \in Emails /\ new.status = req[s].status /\ new.sent = email[r].sent
      /\ new.reply = email[r].reply
  BY <1>2, <1>4 DEF Emails
<1>6. email[r].sent /\ ~email[r].reply => \A j \in Course : j < r[2] => Lost(overwritten, r[1])
  BY <1>2 DEF IInv, EmailsInOrder
<1>7. MayBecome(r, new)
  BY <1>2, <1>3, <1>5, <1>6 DEF MayBecome
<1>8. WriteEmail(r, new) /\ Continue(s, Idle) /\ UNCHANGED <<contact, suppressed, conversation>>
  BY DEF FailWrite, Finish
<1>9. HandlerInOrder(email', overwritten', Idle)
  BY DEF HandlerInOrder, HoldsContact, HoldsStep, HoldsStatus, Idle
<1> HIDE DEF r, new
<1>10. QED BY <1>3, <1>7, <1>8, <1>9, IdleIsInOrder, EmailWritePreserves

LEMMA SendReadPreserves ==
    ASSUME IInv, NEW s \in Slots, SendRead(s) PROVE IInv'
<1>1. req[s] \in Requests /\ HandlerInOrder(email, overwritten, req[s]) /\ req[s].pc = "read"
  BY HandlerFacts DEF SendRead, At
<1> DEFINE c == req[s].who
           k == req[s].step
           new == [req[s] EXCEPT !.pc = "write", !.reply = SentBefore(c, k)]
<1>2. c \in Contacts /\ k \in Steps /\ Earlier(email, c, k)
  BY <1>1 DEF HandlerInOrder, HoldsContact, HoldsStep
<1>3. SentBefore(c, k) \in BOOLEAN
  BY DEF SentBefore
<1>4. new \in Requests
  BY <1>1, <1>3 DEF Requests, Points
<1>5. ~SentBefore(c, k) => \A j \in Course : j < k => Lost(overwritten, c)
  <2>1. SUFFICES ASSUME ~SentBefore(c, k), NEW j \in Course, j < k PROVE Lost(overwritten, c)
    OBVIOUS
  <2>2. j \in Steps /\ email[<<c, j>>].sent /\ email[<<c, j>>].status # "SENT"
    BY <1>2, <2>1, StepsFacts DEF Earlier, SentBefore
  <2>3. <<c, j>> \in overwritten
    BY <1>2, <2>2 DEF IInv, EmailsInOrder
  <2>4. QED BY <2>2, <2>3 DEF Lost
<1>6. HandlerInOrder(email, overwritten, new)
  <2>1. /\ new.pc = "write" /\ new.who = c /\ new.step = k /\ new.reply = SentBefore(c, k)
        /\ new.rows = req[s].rows /\ new.list = req[s].list
    BY <1>1 DEF Requests
  <2>2. QED BY <1>1, <1>2, <1>5, <2>1 DEF HandlerInOrder, HoldsContact, HoldsStep, HoldsStatus
<1>7. Handle(s, new) /\ requests' \in Nat /\ resent' \subseteq Row
  BY DEF SendRead, Continue, IInv, TypeOK
<1> HIDE DEF new, c, k
<1>8. QED
  BY <1>4, <1>6, <1>7, ReadPreserves DEF SendRead, businessVars, IInv, TypeOK

LEMMA SendWritePreserves ==
    ASSUME IInv, NEW s \in Slots, SendWrite(s) PROVE IInv'
<1>1. req[s] \in Requests /\ HandlerInOrder(email, overwritten, req[s]) /\ req[s].pc = "write"
  BY HandlerFacts DEF SendWrite, At
<1> DEFINE r == <<req[s].who, req[s].step>>
           new == [status |-> "SENT", sent |-> TRUE, reply |-> req[s].reply]
           h == [req[s] EXCEPT !.pc = "advance"]
<1>2. req[s].who \in Contacts /\ req[s].step \in Steps /\ Earlier(email, req[s].who, req[s].step)
  BY <1>1 DEF HandlerInOrder, HoldsContact, HoldsStep
<1>3. r \in Row /\ r[1] = req[s].who /\ r[2] = req[s].step
  BY <1>2 DEF Row
<1>4. ~req[s].reply => \A j \in Course : j < req[s].step => Lost(overwritten, req[s].who)
  BY <1>1 DEF HandlerInOrder
<1>5. new \in Emails
  BY <1>1 DEF Requests, Emails, EmailStatus
<1>6. MayBecome(r, new)
  BY <1>2, <1>3, <1>4, <1>5 DEF MayBecome
<1>7. WriteEmail(r, new) /\ Continue(s, h) /\ UNCHANGED <<contact, suppressed, conversation>>
  BY DEF SendWrite, Goto
<1>8. h \in Requests
  BY <1>1 DEF Requests, Points
<1>9. email'[r].sent /\ Grows(email, overwritten, email', overwritten')
  BY <1>3, <1>6, <1>7, EmailWrite DEF WriteEmail, IInv, TypeOK
<1>10. HandlerInOrder(email', overwritten', h)
  <2>1. /\ h.pc = "advance" /\ h.who = req[s].who /\ h.step = req[s].step
        /\ h.rows = req[s].rows /\ h.list = req[s].list
    BY <1>1 DEF Requests
  <2>2. HandlerInOrder(email', overwritten', req[s])
    BY <1>1, <1>9, HandlerIsStable
  <2>3. QED
    BY <1>1, <1>2, <1>9, <2>1, <2>2 DEF HandlerInOrder, HoldsContact, HoldsStep, HoldsStatus
<1> HIDE DEF r, new, h
<1>11. QED BY <1>3, <1>6, <1>7, <1>8, <1>10, EmailWritePreserves

LEMMA SendAdvancePreserves ==
    ASSUME IInv, NEW s \in Slots, SendAdvance(s) PROVE IInv'
<1>1. req[s] \in Requests /\ HandlerInOrder(email, overwritten, req[s]) /\ req[s].pc = "advance"
  BY HandlerFacts DEF SendAdvance, At
<1> DEFINE c == req[s].who
           k == req[s].step
<1>2. c \in Contacts /\ k \in Steps /\ Earlier(email, c, k) /\ email[<<c, k>>].sent
  BY <1>1 DEF HandlerInOrder, HoldsContact, HoldsStep
<1>3. contact \in [Contacts -> [status: ContactStatus, step: StepOrNull]]
  BY DEF IInv, TypeOK
<1>4. PICK x \in [status: ContactStatus, step: StepOrNull] :
        contact' = [contact EXCEPT ![c] = x] /\ ContactInOrder(email, x, c)
  <2>1. CASE \E j \in LiveSteps :
               /\ IsNext(k, j) /\ ~IsLast(k)
               /\ contact' = [contact EXCEPT ![c] = [status |-> StatusOnNextStep, step |-> j]]
    <3>1. PICK j \in LiveSteps :
            /\ IsNext(k, j)
            /\ contact' = [contact EXCEPT ![c] = [status |-> StatusOnNextStep, step |-> j]]
      BY <2>1
    <3>2. Earlier(email, c, j)
      BY <1>2, <3>1, NextHasEarlier
    <3>3. /\ [status |-> StatusOnNextStep, step |-> j] \in [status: ContactStatus, step: StepOrNull]
          /\ ContactInOrder(email, [status |-> StatusOnNextStep, step |-> j], c)
      BY <3>2, StepsFacts DEF ContactInOrder, StatusOnNextStep, ContactStatus, StepOrNull
    <3>4. QED BY <3>1, <3>3
  <2>2. CASE /\ IsLast(k)
             /\ contact' = [contact EXCEPT ![c] = [status |-> "COMPLETED", step |-> 0]]
    <3>1. \A j \in Course : email[<<c, j>>].sent
      BY <1>2, <2>2, LastEndsCourse
    <3>2. /\ [status |-> "COMPLETED", step |-> 0] \in [status: ContactStatus, step: StepOrNull]
          /\ ContactInOrder(email, [status |-> "COMPLETED", step |-> 0], c)
      BY <3>1 DEF ContactInOrder, ContactStatus, StepOrNull
    <3>3. QED BY <2>2, <3>2
  <2>3. QED BY <2>1, <2>2 DEF SendAdvance
<1>5. contact' \in [Contacts -> [status: ContactStatus, step: StepOrNull]]
  BY <1>3, <1>4
<1>6. ASSUME NEW d \in Contacts PROVE ContactInOrder(email, contact'[d], d)
  <2>1. ContactInOrder(email, contact[d], d)
    BY DEF IInv
  <2>2. contact'[d] = IF d = c THEN x ELSE contact[d]
    BY <1>3, <1>4
  <2>3. QED BY <1>4, <2>1, <2>2
<1>7. Continue(s, Idle) /\ UNCHANGED <<email, suppressed, conversation, overwritten>>
  BY DEF SendAdvance, Finish
<1> HIDE DEF c, k
<1>8. QED BY <1>5, <1>6, <1>7, IdleIsInOrder, ContactWritePreserves

\* A request about a contact, as it begins.
LEMMA AboutInOrder ==
    ASSUME NEW c \in Contacts, NEW op \in {"contact", "refer", "reply"},
           NEW p \in {"enrollments", "cancelRead", "converse"},
           NEW status \in ContactStatus \ {"COMPLETED"}
    PROVE /\ About(c, op, p, status) \in Requests
          /\ HandlerInOrder(email, overwritten, About(c, op, p, status))
BY DEF About, Idle, Requests, Points, StepOrNull, HandlerInOrder, HoldsContact,
       HoldsStep, HoldsStatus

\* A step that begins a request and writes nothing else.
LEMMA BeginPreserves ==
    ASSUME IInv, NEW s \in Slots, NEW r \in Requests, Begin(s, r, {}),
           HandlerInOrder(email, overwritten, r), UNCHANGED <<businessVars, overwritten>>
    PROVE IInv'
<1>1. Handle(s, r) /\ requests' \in Nat /\ resent' \subseteq Row
  BY DEF Begin, Admit, IInv, TypeOK
<1>2. QED BY <1>1, ReadPreserves DEF businessVars, IInv, TypeOK

LEMMA BeginCancelAllPreserves ==
    ASSUME IInv, NEW s \in Slots, BeginCancelAll(s) PROVE IInv'
<1> DEFINE new == [Idle EXCEPT !.pc = "cancelRead", !.op = "cancelAll", !.scope = Contacts]
<1>1. new \in Requests /\ HandlerInOrder(email, overwritten, new)
  BY DEF Idle, Requests, Points, StepOrNull, ContactStatus, HandlerInOrder, HoldsContact,
         HoldsStep, HoldsStatus
<1>2. Begin(s, new, {}) /\ UNCHANGED <<businessVars, overwritten>>
  BY DEF BeginCancelAll
<1> HIDE DEF new
<1>3. QED BY <1>1, <1>2, BeginPreserves

LEMMA BeginCompanyPreserves ==
    ASSUME IInv, NEW s \in Slots, BeginCompany(s) PROVE IInv'
<1> DEFINE new == [Idle EXCEPT !.pc = "cancelRead", !.op = "company", !.scope = Company]
<1>1. new \in Requests /\ HandlerInOrder(email, overwritten, new)
  BY ConstantsAssumption
  DEF Idle, Requests, Points, StepOrNull, ContactStatus, HandlerInOrder, HoldsContact,
      HoldsStep, HoldsStatus
<1>2. Begin(s, new, {}) /\ UNCHANGED <<businessVars, overwritten>>
  BY DEF BeginCompany
<1> HIDE DEF new
<1>3. QED BY <1>1, <1>2, BeginPreserves

LEMMA BeginDoNotContactPreserves ==
    ASSUME IInv, NEW s \in Slots, BeginDoNotContact(s) PROVE IInv'
<1>1. PICK c \in conversation \ suppressed :
        /\ Begin(s, About(c, "contact", "enrollments", "REMOVED"), {})
        /\ UNCHANGED <<businessVars, overwritten>>
  BY DEF BeginDoNotContact
<1>2. c \in Contacts /\ "REMOVED" \in ContactStatus \ {"COMPLETED"}
  BY DEF IInv, TypeOK, ContactStatus
<1>3. QED BY <1>1, <1>2, AboutInOrder, BeginPreserves

LEMMA BeginReferPreserves ==
    ASSUME IInv, NEW s \in Slots, BeginRefer(s) PROVE IInv'
<1>1. PICK c \in conversation :
        /\ Begin(s, About(c, "refer", "cancelRead", "REMOVED"), {})
        /\ UNCHANGED <<businessVars, overwritten>>
  BY DEF BeginRefer
<1>2. c \in Contacts /\ "REMOVED" \in ContactStatus \ {"COMPLETED"}
  BY DEF IInv, TypeOK, ContactStatus
<1>3. QED BY <1>1, <1>2, AboutInOrder, BeginPreserves

LEMMA BeginReplyPreserves ==
    ASSUME IInv, NEW s \in Slots, BeginReply(s) PROVE IInv'
<1>1. PICK r \in Row, status \in ReplyStatus :
        /\ Begin(s, About(r[1], "reply", IF status = "NONE" THEN "converse" ELSE "cancelRead",
                          status), {})
        /\ UNCHANGED <<businessVars, overwritten>>
  BY DEF BeginReply
<1>2. r[1] \in Contacts /\ status \in ContactStatus \ {"COMPLETED"}
  BY DEF Row, ReplyStatus, ContactStatus
<1>3. QED BY <1>1, <1>2, AboutInOrder, BeginPreserves

LEMMA ReadEnrollmentsPreserves ==
    ASSUME IInv, NEW s \in Slots, ReadEnrollments(s) PROVE IInv'
<1>1. /\ req[s] \in Requests /\ HandlerInOrder(email, overwritten, req[s])
      /\ req[s].pc = "enrollments"
  BY HandlerFacts DEF ReadEnrollments, At
<1>2. PICK p \in {"cancelRead", "suppress"} : Continue(s, [req[s] EXCEPT !.pc = p])
  BY DEF ReadEnrollments, Goto
<1> DEFINE new == [req[s] EXCEPT !.pc = p]
<1>3. new \in Requests
  BY <1>1, <1>2 DEF Requests, Points
<1>4. HandlerInOrder(email, overwritten, new)
  <2>1. /\ new.pc = p /\ new.who = req[s].who /\ new.status = req[s].status
        /\ new.rows = req[s].rows /\ new.list = req[s].list
    BY <1>1 DEF Requests
  <2>2. QED BY <1>1, <2>1 DEF HandlerInOrder, HoldsContact, HoldsStep, HoldsStatus
<1>5. Handle(s, new) /\ requests' \in Nat /\ resent' \subseteq Row
  BY <1>2 DEF Continue, IInv, TypeOK
<1> HIDE DEF new
<1>6. QED BY <1>3, <1>4, <1>5, ReadPreserves DEF ReadEnrollments, businessVars, IInv, TypeOK

\* Once the emails are cancelled the caller goes on, with the contact it holds.
LEMMA AfterCancelInOrder ==
    ASSUME IInv, NEW s \in Slots, req[s].pc \in {"cancelRead", "cancel"}
    PROVE AfterCancel(s) \in Requests /\ HandlerInOrder(email, overwritten, AfterCancel(s))
<1>1. req[s] \in Requests /\ HandlerInOrder(email, overwritten, req[s])
  BY HandlerFacts
<1>2. CASE req[s].op = "cancelAll"
  BY <1>2, IdleIsInOrder DEF AfterCancel
<1>3. CASE req[s].op # "cancelAll"
  <2> DEFINE p == IF req[s].op = "company" THEN "companyRead" ELSE "stop"
             new == [req[s] EXCEPT !.pc = p, !.rows = {}]
  <2>1. new \in Requests
    BY <1>1 DEF Requests, Points
  <2>2. HandlerInOrder(email, overwritten, new)
    <3>1. /\ new.pc = p /\ new.who = req[s].who /\ new.status = req[s].status
          /\ new.op = req[s].op /\ new.rows = {} /\ new.list = req[s].list
      BY <1>1 DEF Requests
    <3>2. QED BY <1>1, <1>3, <3>1 DEF HandlerInOrder, HoldsContact, HoldsStep, HoldsStatus
  <2>3. AfterCancel(s) = new
    BY <1>3 DEF AfterCancel
  <2>4. QED BY <2>1, <2>2, <2>3
<1>4. QED BY <1>2, <1>3

LEMMA CancelReadPreserves ==
    ASSUME IInv, NEW s \in Slots, CancelRead(s) PROVE IInv'
<1>1. /\ req[s] \in Requests /\ HandlerInOrder(email, overwritten, req[s])
      /\ req[s].pc = "cancelRead"
  BY HandlerFacts DEF CancelRead, At
<1> DEFINE found == {r \in Waiting : r[1] \in req[s].scope}
           new == [req[s] EXCEPT !.pc = "cancel", !.rows = found]
<1>2. UNCHANGED <<contact, email, overwritten>> /\ suppressed' \subseteq Contacts
      /\ conversation' \subseteq Contacts /\ requests' \in Nat /\ resent' \subseteq Row
  BY DEF CancelRead, businessVars, IInv, TypeOK, Continue
<1>3. found \subseteq Row /\ \A r \in found : email[r].status # "NONE"
  BY DEF Waiting, CANCELLABLE_STATUSES
<1>4. \A r \in found : Earlier(email, r[1], r[2])
  <2>1. TAKE r \in found
  <2>2. r[1] \in Contacts /\ r[2] \in Steps /\ r = <<r[1], r[2]>>
    BY <1>3 DEF Row
  <2>3. QED BY <1>3, <2>2 DEF IInv, EmailsInOrder
<1>5. new \in Requests
  BY <1>1, <1>3 DEF Requests, Points
<1>6. HandlerInOrder(email, overwritten, new)
  <2>1. /\ new.pc = "cancel" /\ new.who = req[s].who /\ new.status = req[s].status
        /\ new.op = req[s].op /\ new.rows = found /\ new.list = req[s].list
    BY <1>1 DEF Requests
  <2>2. QED BY <1>1, <1>4, <2>1 DEF HandlerInOrder, HoldsContact, HoldsStep, HoldsStatus
<1>7. Handle(s, AfterCancel(s)) \/ Handle(s, new)
  BY DEF CancelRead, Continue
<1> HIDE DEF new
<1>8. CASE Handle(s, AfterCancel(s))
  BY <1>1, <1>2, <1>8, AfterCancelInOrder, ReadPreserves
<1>9. CASE Handle(s, new)
  BY <1>2, <1>5, <1>6, <1>9, ReadPreserves
<1>10. QED BY <1>7, <1>8, <1>9

LEMMA CancelRowPreserves ==
    ASSUME IInv, NEW s \in Slots, CancelRow(s) PROVE IInv'
<1>1. req[s] \in Requests /\ HandlerInOrder(email, overwritten, req[s]) /\ req[s].pc = "cancel"
  BY HandlerFacts DEF CancelRow, At
<1>2. PICK r \in req[s].rows :
        /\ WriteEmail(r, [email[r] EXCEPT !.status = "CANCELLED"])
        /\ Continue(s, IF req[s].rows = {r} THEN AfterCancel(s)
                       ELSE [req[s] EXCEPT !.rows = @ \ {r}])
  BY DEF CancelRow
<1> DEFINE new == [email[r] EXCEPT !.status = "CANCELLED"]
           h == [req[s] EXCEPT !.rows = @ \ {r}]
<1>3. r \in Row /\ r[1] \in Contacts /\ r[2] \in Steps /\ r = <<r[1], r[2]>>
  BY <1>1 DEF Requests, Row
<1>4. Earlier(email, r[1], r[2])
  BY <1>1 DEF HandlerInOrder
<1>5. email[r] \in Emails
  BY <1>3 DEF IInv, TypeOK
<1>6. /\ new \in Emails /\ new.status = "CANCELLED" /\ new.sent = email[r].sent
      /\ new.reply = email[r].reply
  BY <1>5 DEF Emails, EmailStatus
<1>7. email[r].sent /\ ~email[r].reply => \A j \in Course : j < r[2] => Lost(overwritten, r[1])
  BY <1>3 DEF IInv, EmailsInOrder
<1>8. WriteEmail(r, new) /\ MayBecome(r, new)
  BY <1>2, <1>4, <1>6, <1>7 DEF MayBecome
<1>9. Grows(email, overwritten, email', overwritten')
  BY <1>3, <1>8, EmailWrite
<1>10. PICK g \in Requests : Continue(s, g) /\ HandlerInOrder(email, overwritten, g)
  <2>1. h \in Requests
    BY <1>1 DEF Requests
  <2>2. HandlerInOrder(email, overwritten, h)
    <3>1. /\ h.pc = "cancel" /\ h.who = req[s].who /\ h.status = req[s].status
          /\ h.op = req[s].op /\ h.rows \subseteq req[s].rows /\ h.list = req[s].list
      BY <1>1 DEF Requests
    <3>2. QED BY <1>1, <3>1 DEF HandlerInOrder, HoldsContact, HoldsStep, HoldsStatus
  <2>3. Continue(s, AfterCancel(s)) \/ Continue(s, h)
    BY <1>2
  <2> HIDE DEF h
  <2>4. QED BY <1>1, <2>1, <2>2, <2>3, AfterCancelInOrder
<1>11. HandlerInOrder(email', overwritten', g)
  BY <1>9, <1>10, HandlerIsStable
<1>12. UNCHANGED <<contact, suppressed, conversation>>
  BY DEF CancelRow
<1> HIDE DEF new, h
<1>13. QED BY <1>3, <1>8, <1>10, <1>11, <1>12, EmailWritePreserves

\* Moving on to a point that needs no more than the contact in hand.
LEMMA MovesOn ==
    ASSUME IInv, NEW s \in Slots, HoldsContact(req[s]),
           NEW p \in {"suppress", "converse", "enrol"}
    PROVE /\ [req[s] EXCEPT !.pc = p] \in Requests
          /\ HandlerInOrder(email, overwritten, [req[s] EXCEPT !.pc = p])
<1>1. req[s] \in Requests /\ HandlerInOrder(email, overwritten, req[s])
  BY HandlerFacts
<1> DEFINE new == [req[s] EXCEPT !.pc = p]
<1>2. /\ new \in Requests /\ new.pc = p /\ new.who = req[s].who
      /\ new.rows = req[s].rows /\ new.list = req[s].list
  BY <1>1 DEF Requests, Points
<1>3. HandlerInOrder(email, overwritten, new)
  BY <1>1, <1>2 DEF HandlerInOrder, HoldsContact, HoldsStep, HoldsStatus
<1>4. QED BY <1>2, <1>3

LEMMA StopContactPreserves ==
    ASSUME IInv, NEW s \in Slots, StopContact(s) PROVE IInv'
<1>1. req[s] \in Requests /\ HandlerInOrder(email, overwritten, req[s]) /\ req[s].pc = "stop"
  BY HandlerFacts DEF StopContact, At
<1>2. HoldsContact(req[s]) /\ HoldsStatus(req[s])
  BY <1>1 DEF HoldsContact, HoldsStatus
<1>3. req[s].who \in Contacts /\ req[s].status \in ContactStatus /\ req[s].status # "COMPLETED"
  BY <1>1, <1>2 DEF HandlerInOrder
<1>4. PICK p \in {"suppress", "converse", "enrol"} : Continue(s, [req[s] EXCEPT !.pc = p])
  BY DEF StopContact, Goto
<1>5. /\ [req[s] EXCEPT !.pc = p] \in Requests
      /\ HandlerInOrder(email, overwritten, [req[s] EXCEPT !.pc = p])
  BY <1>2, <1>4, MovesOn
<1>6. /\ WriteStatus(req[s].who, req[s].status)
      /\ UNCHANGED <<email, suppressed, conversation, overwritten>>
  BY DEF StopContact
<1>7. QED BY <1>3, <1>4, <1>5, <1>6, StatusWritePreserves

LEMMA SuppressPreserves ==
    ASSUME IInv, NEW s \in Slots, Suppress(s) PROVE IInv'
<1>1. HandlerInOrder(email, overwritten, req[s]) /\ req[s].pc = "suppress"
  BY HandlerFacts DEF Suppress, At
<1>2. HoldsContact(req[s])
  BY <1>1 DEF HoldsContact
<1>3. suppressed' \subseteq Contacts /\ conversation' \subseteq Contacts
  BY <1>1, <1>2 DEF Suppress, HandlerInOrder, IInv, TypeOK
<1>4. PICK r \in Requests : Continue(s, r) /\ HandlerInOrder(email, overwritten, r)
  BY <1>2, MovesOn, IdleIsInOrder DEF Suppress, Goto, Finish
<1>5. Handle(s, r) /\ requests' \in Nat /\ resent' \subseteq Row
  BY <1>4 DEF Continue, IInv, TypeOK
<1>6. UNCHANGED <<contact, email, overwritten>>
  BY DEF Suppress
<1>7. QED BY <1>3, <1>4, <1>5, <1>6, ReadPreserves

LEMMA ConversePreserves ==
    ASSUME IInv, NEW s \in Slots, Converse(s) PROVE IInv'
<1>1. HandlerInOrder(email, overwritten, req[s]) /\ req[s].pc = "converse"
  BY HandlerFacts DEF Converse, At
<1>2. suppressed' \subseteq Contacts /\ conversation' \subseteq Contacts
  BY <1>1 DEF Converse, HandlerInOrder, HoldsContact, IInv, TypeOK
<1>3. /\ Handle(s, Idle) /\ requests' \in Nat /\ resent' \subseteq Row
      /\ UNCHANGED <<contact, email, overwritten>>
  BY DEF Converse, Finish, Continue, IInv, TypeOK
<1>4. QED BY <1>2, <1>3, IdleIsInOrder, ReadPreserves

LEMMA CompanyReadPreserves ==
    ASSUME IInv, NEW s \in Slots, CompanyRead(s) PROVE IInv'
<1>1. /\ req[s] \in Requests /\ HandlerInOrder(email, overwritten, req[s])
      /\ req[s].pc = "companyRead"
  BY HandlerFacts DEF CompanyRead, At
<1> DEFINE found == {c \in Company : contact[c].status \in Participating}
           new == [req[s] EXCEPT !.pc = "companyWrite", !.scope = found]
<1>2. UNCHANGED <<contact, email, overwritten>> /\ suppressed' \subseteq Contacts
      /\ conversation' \subseteq Contacts /\ requests' \in Nat /\ resent' \subseteq Row
  BY DEF CompanyRead, businessVars, IInv, TypeOK, Continue, Finish
<1>3. new \in Requests
  BY <1>1, ConstantsAssumption DEF Requests, Points
<1>4. HandlerInOrder(email, overwritten, new)
  <2>1. new.pc = "companyWrite" /\ new.rows = req[s].rows /\ new.list = req[s].list
    BY <1>1 DEF Requests
  <2>2. QED BY <1>1, <2>1 DEF HandlerInOrder, HoldsContact, HoldsStep, HoldsStatus
<1>5. Handle(s, Idle) \/ Handle(s, new)
  BY DEF CompanyRead, Finish, Continue
<1> HIDE DEF new
<1>6. QED BY <1>2, <1>3, <1>4, <1>5, IdleIsInOrder, ReadPreserves

LEMMA CompanyWritePreserves ==
    ASSUME IInv, NEW s \in Slots, CompanyWrite(s) PROVE IInv'
<1>1. /\ req[s] \in Requests /\ HandlerInOrder(email, overwritten, req[s])
      /\ req[s].pc = "companyWrite"
  BY HandlerFacts DEF CompanyWrite, At
<1>2. PICK c \in req[s].scope :
        /\ WriteStatus(c, "COMPLETED_MANUALLY")
        /\ IF req[s].scope = {c} THEN Finish(s)
           ELSE Continue(s, [req[s] EXCEPT !.scope = @ \ {c}])
  BY DEF CompanyWrite
<1> DEFINE new == [req[s] EXCEPT !.scope = @ \ {c}]
<1>3. c \in Contacts /\ "COMPLETED_MANUALLY" \in ContactStatus
  BY <1>1 DEF Requests, ContactStatus
<1>4. new \in Requests
  BY <1>1 DEF Requests
<1>5. HandlerInOrder(email, overwritten, new)
  <2>1. new.pc = "companyWrite" /\ new.rows = req[s].rows /\ new.list = req[s].list
    BY <1>1 DEF Requests
  <2>2. QED BY <1>1, <2>1 DEF HandlerInOrder, HoldsContact, HoldsStep, HoldsStatus
<1>6. Continue(s, Idle) \/ Continue(s, new)
  BY <1>2 DEF Finish
<1>7. UNCHANGED <<email, suppressed, conversation, overwritten>>
  BY DEF CompanyWrite
<1> HIDE DEF new
<1>8. CASE Continue(s, Idle)
  BY <1>2, <1>3, <1>7, <1>8, IdleIsInOrder, StatusWritePreserves
<1>9. CASE Continue(s, new)
  BY <1>2, <1>3, <1>4, <1>5, <1>7, <1>9, StatusWritePreserves
<1>10. QED BY <1>6, <1>8, <1>9

LEMMA ReferReadPreserves ==
    ASSUME IInv, NEW s \in Slots, ReferRead(s) PROVE IInv'
<1>1. req[s] \in Requests /\ HandlerInOrder(email, overwritten, req[s]) /\ req[s].pc = "enrol"
  BY HandlerFacts DEF ReferRead, At
<1>2. PICK c \in Contacts :
        IF contact[c].status = "NONE"
        THEN Continue(s, [req[s] EXCEPT !.pc = "enrolCreate", !.who = c, !.scope = {c}])
        ELSE Finish(s)
  BY DEF ReferRead
<1> DEFINE new == [req[s] EXCEPT !.pc = "enrolCreate", !.who = c, !.scope = {c}]
<1>3. UNCHANGED <<contact, email, overwritten>> /\ suppressed' \subseteq Contacts
      /\ conversation' \subseteq Contacts /\ requests' \in Nat /\ resent' \subseteq Row
  BY <1>2 DEF ReferRead, businessVars, IInv, TypeOK, Continue, Finish
<1>4. new \in Requests
  BY <1>1 DEF Requests, Points
<1>5. HandlerInOrder(email, overwritten, new)
  <2>1. /\ new.pc = "enrolCreate" /\ new.who = c
        /\ new.rows = req[s].rows /\ new.list = req[s].list
    BY <1>1 DEF Requests
  <2>2. QED BY <1>1, <2>1 DEF HandlerInOrder, HoldsContact, HoldsStep, HoldsStatus
<1>6. Handle(s, Idle) \/ Handle(s, new)
  BY <1>2 DEF Finish, Continue
<1> HIDE DEF new
<1>7. QED BY <1>3, <1>4, <1>5, <1>6, IdleIsInOrder, ReadPreserves

\* Those who enter do so at the first step; the others keep what they have.
LEMMA EnrolInOrder ==
    ASSUME IInv, NEW C \in SUBSET Contacts, NEW k \in Published, Enrol(C, k)
    PROVE /\ contact' \in [Contacts -> [status: ContactStatus, step: StepOrNull]]
          /\ \A c \in Contacts : ContactInOrder(email, contact'[c], c)
<1>1. contact \in [Contacts -> [status: ContactStatus, step: StepOrNull]]
  BY DEF IInv, TypeOK
<1>2. [status |-> "ACTIVE", step |-> k] \in [status: ContactStatus, step: StepOrNull]
  BY StepsFacts DEF ContactStatus, StepOrNull
<1>3. contact' \in [Contacts -> [status: ContactStatus, step: StepOrNull]]
  BY <1>1, <1>2 DEF Enrol
<1>4. ASSUME NEW c \in Contacts PROVE ContactInOrder(email, contact'[c], c)
  <2>1. ContactInOrder(email, contact[c], c)
    BY DEF IInv
  <2>2. Earlier(email, c, k)
    BY FirstHasNoEarlier DEF Enrol
  <2>3. contact'[c] = IF c \in C THEN [status |-> "ACTIVE", step |-> k] ELSE contact[c]
    BY DEF Enrol
  <2>4. CASE c \in C
    BY <2>2, <2>3, <2>4 DEF ContactInOrder
  <2>5. CASE c \notin C
    BY <2>1, <2>3, <2>5
  <2>6. QED BY <2>4, <2>5
<1>5. QED BY <1>3, <1>4

LEMMA ReferEnrolPreserves ==
    ASSUME IInv, NEW s \in Slots, ReferEnrol(s) PROVE IInv'
<1>1. /\ req[s] \in Requests /\ HandlerInOrder(email, overwritten, req[s])
      /\ req[s].pc = "enrolCreate"
  BY HandlerFacts DEF ReferEnrol, At
<1>2. req[s].who \in Contacts
  BY <1>1 DEF HandlerInOrder, HoldsContact
<1>3. UNCHANGED <<email, suppressed, conversation, overwritten>>
  BY DEF ReferEnrol
<1>4. CASE Finish(s) /\ UNCHANGED contact
  BY <1>3, <1>4, IdleIsInOrder, ReadPreserves DEF Finish, Continue, IInv, TypeOK
<1>5. CASE \E k \in Published :
             /\ Enrol({req[s].who}, k)
             /\ \/ Finish(s)
                \/ Continue(s, [req[s] EXCEPT !.pc = "first", !.step = k])
  <2>1. PICK k \in Published :
          /\ Enrol({req[s].who}, k)
          /\ \/ Finish(s)
             \/ Continue(s, [req[s] EXCEPT !.pc = "first", !.step = k])
    BY <1>5
  <2>2. /\ contact' \in [Contacts -> [status: ContactStatus, step: StepOrNull]]
        /\ \A c \in Contacts : ContactInOrder(email, contact'[c], c)
    BY <1>2, <2>1, EnrolInOrder
  <2> DEFINE new == [req[s] EXCEPT !.pc = "first", !.step = k]
  <2>3. new \in Requests
    BY <1>1, StepsFacts DEF Requests, Points, StepOrNull
  <2>4. HandlerInOrder(email, overwritten, new)
    <3>1. /\ new.pc = "first" /\ new.who = req[s].who /\ new.step = k
          /\ new.rows = req[s].rows /\ new.list = req[s].list
      BY <1>1 DEF Requests
    <3>2. Earlier(email, req[s].who, k)
      BY <2>1, FirstHasNoEarlier DEF Enrol
    <3>3. QED
      BY <1>1, <1>2, <3>1, <3>2, StepsFacts
      DEF HandlerInOrder, HoldsContact, HoldsStep, HoldsStatus
  <2>5. Continue(s, Idle) \/ Continue(s, new)
    BY <2>1 DEF Finish
  <2> HIDE DEF new
  <2>6. QED BY <1>3, <2>2, <2>3, <2>4, <2>5, IdleIsInOrder, ContactWritePreserves
<1>6. QED BY <1>4, <1>5 DEF ReferEnrol

LEMMA FirstCreatePreserves ==
    ASSUME IInv, NEW s \in Slots, FirstCreate(s) PROVE IInv'
<1>1. req[s] \in Requests /\ HandlerInOrder(email, overwritten, req[s]) /\ req[s].pc = "first"
  BY HandlerFacts DEF FirstCreate, At
<1> DEFINE r == <<req[s].who, req[s].step>>
           new == Simulates(r[1], r[2], "read", "SENT")
<1>2. req[s].who \in Contacts /\ req[s].step \in Steps /\ Earlier(email, req[s].who, req[s].step)
  BY <1>1 DEF HandlerInOrder, HoldsContact, HoldsStep
<1>3. r \in Row /\ r[1] = req[s].who /\ r[2] = req[s].step
  BY <1>2 DEF Row
<1>4. UNCHANGED <<contact, suppressed, conversation>>
  BY DEF FirstCreate
<1>5. CASE email[r].status = "NONE"
  <2>1. WriteEmail(r, NewEmail) /\ Continue(s, new)
    BY <1>5 DEF FirstCreate
  <2>2. MayBecome(r, NewEmail)
    BY <1>2, <1>3, <1>5, NewEmailMayBe
  <2> HIDE DEF r
  <2>3. Grows(email, overwritten, email', overwritten')
    BY <1>3, <2>1, <2>2, EmailWrite
  <2>4. Earlier(email', r[1], r[2])
    BY <1>2, <1>3, <2>3, EarlierIsStable
  <2>5. new \in Requests /\ HandlerInOrder(email', overwritten', new)
    BY <1>2, <1>3, <2>4, SimulatesInOrder DEF EmailStatus
  <2> HIDE DEF new
  <2>6. QED BY <1>3, <1>4, <2>1, <2>2, <2>5, EmailWritePreserves
<1>6. CASE email[r].status # "NONE"
  <2>1. Finish(s) /\ UNCHANGED <<email, overwritten>>
    BY <1>6 DEF FirstCreate
  <2>2. QED BY <1>4, <2>1, IdleIsInOrder, ReadPreserves DEF Finish, Continue, IInv, TypeOK
<1>7. QED BY <1>5, <1>6

LEMMA ConfirmImportPreserves ==
    ASSUME IInv, ConfirmImport PROVE IInv'
<1>1. PICK C \in SUBSET Contacts, k \in Published :
        /\ Transaction(C) /\ Enrol(C, k)
        /\ UNCHANGED <<email, suppressed, conversation, overwritten>>
  BY DEF ConfirmImport
<1>2. /\ contact' \in [Contacts -> [status: ContactStatus, step: StepOrNull]]
      /\ \A c \in Contacts : ContactInOrder(email, contact'[c], c)
  BY <1>1, EnrolInOrder
<1>3. /\ req' \in [Slots -> Requests]
      /\ \A t \in Slots : HandlerInOrder(email', overwritten', req'[t])
  BY <1>1, NothingGrows, HandlersStay DEF Transaction
<1>4. requests' \in Nat /\ resent' \subseteq Row /\ overlapped' \subseteq Contacts
  BY <1>1 DEF Transaction, Admit, IInv, TypeOK
<1>5. TypeOK'
  BY <1>1, <1>2, <1>3, <1>4 DEF IInv, TypeOK
<1>6. EmailsInOrder(email', overwritten')
  BY <1>1 DEF IInv
<1>7. QED BY <1>1, <1>2, <1>3, <1>5, <1>6 DEF IInv

\* Cancelling the emails that wait keeps what was sent, and what it answers.
LEMMA CancelWhereInOrder ==
    ASSUME IInv, NEW C, CancelWhere(C), UNCHANGED overwritten
    PROVE /\ email' \in [Row -> Emails]
          /\ Grows(email, overwritten, email', overwritten')
          /\ EmailsInOrder(email', overwritten')
<1>1. email \in [Row -> Emails]
  BY DEF IInv, TypeOK
<1>2. email' \in [Row -> Emails]
  BY <1>1 DEF CancelWhere, Emails, EmailStatus
<1>3. ASSUME NEW r \in Row
      PROVE /\ email'[r].sent = email[r].sent /\ email'[r].reply = email[r].reply
            /\ \/ email'[r].status = email[r].status
               \/ email'[r].status = "CANCELLED" /\ email[r].status \in CANCELLABLE_STATUSES
  BY <1>1 DEF CancelWhere, Waiting, Emails
<1>4. Grows(email, overwritten, email', overwritten')
  BY <1>3 DEF Grows
<1>5. ASSUME NEW c \in Contacts, NEW k \in Steps
      PROVE /\ email'[<<c, k>>].status # "NONE" => Earlier(email', c, k)
            /\ email'[<<c, k>>].sent => email'[<<c, k>>].status # "NONE"
            /\ email'[<<c, k>>].sent /\ email'[<<c, k>>].status # "SENT" =>
                 <<c, k>> \in overwritten'
            /\ email'[<<c, k>>].sent /\ ~email'[<<c, k>>].reply =>
                 \A j \in Course : j < k => Lost(overwritten', c)
  <2>1. <<c, k>> \in Row
    BY DEF Row
  <2>2. /\ email[<<c, k>>].status # "NONE" => Earlier(email, c, k)
        /\ email[<<c, k>>].sent => email[<<c, k>>].status # "NONE"
        /\ email[<<c, k>>].sent /\ email[<<c, k>>].status # "SENT" => <<c, k>> \in overwritten
        /\ email[<<c, k>>].sent /\ ~email[<<c, k>>].reply =>
             \A j \in Course : j < k => Lost(overwritten, c)
    BY DEF IInv, EmailsInOrder
  <2>3. Earlier(email, c, k) => Earlier(email', c, k)
    BY <1>4, EarlierIsStable
  <2>4. email'[<<c, k>>].status = "CANCELLED" /\ email'[<<c, k>>].status # email[<<c, k>>].status =>
          email[<<c, k>>].status \notin {"NONE", "SENT"}
    BY <1>3, <2>1 DEF CANCELLABLE_STATUSES
  <2>5. QED BY <1>3, <2>1, <2>2, <2>3, <2>4
<1>6. QED BY <1>2, <1>4, <1>5 DEF EmailsInOrder

\* A transaction that cancels emails and writes contacts.
LEMMA CancellingPreserves ==
    ASSUME IInv, NEW C \in SUBSET Contacts, Transaction(C), CancelWhere(C),
           contact' \in [Contacts -> [status: ContactStatus, step: StepOrNull]],
           \A c \in Contacts : ContactInOrder(email, contact'[c], c),
           UNCHANGED <<suppressed, conversation, overwritten>>
    PROVE IInv'
<1>1. /\ email' \in [Row -> Emails]
      /\ Grows(email, overwritten, email', overwritten')
      /\ EmailsInOrder(email', overwritten')
  BY CancelWhereInOrder
<1>2. /\ req' \in [Slots -> Requests]
      /\ \A t \in Slots : HandlerInOrder(email', overwritten', req'[t])
  BY <1>1, HandlersStay DEF Transaction
<1>3. requests' \in Nat /\ resent' \subseteq Row /\ overlapped' \subseteq Contacts
  BY DEF Transaction, Admit, IInv, TypeOK
<1>4. TypeOK'
  BY <1>1, <1>2, <1>3 DEF IInv, TypeOK
<1>5. \A c \in Contacts : ContactInOrder(email', contact'[c], c)
  BY <1>1, ContactIsStable
<1>6. QED BY <1>1, <1>2, <1>4, <1>5 DEF IInv

LEMMA RemovePreserves ==
    ASSUME IInv, NEW C \in SUBSET Contacts, Remove(C) PROVE IInv'
<1>1. contact \in [Contacts -> [status: ContactStatus, step: StepOrNull]]
  BY DEF IInv, TypeOK
<1>2. contact' = [c \in Contacts |-> IF c \in Removable(C)
                                    THEN [contact[c] EXCEPT !.status = "REMOVED"]
                                    ELSE contact[c]]
  BY DEF Remove
<1>3. contact' \in [Contacts -> [status: ContactStatus, step: StepOrNull]]
  BY <1>1, <1>2 DEF ContactStatus
<1>4. ASSUME NEW c \in Contacts PROVE ContactInOrder(email, contact'[c], c)
  <2>1. ContactInOrder(email, contact[c], c)
    BY DEF IInv
  <2>2. contact'[c].step = contact[c].step /\ contact'[c].status \in {contact[c].status, "REMOVED"}
    BY <1>1, <1>2
  <2>3. QED BY <2>1, <2>2 DEF ContactInOrder
<1>5. QED BY <1>3, <1>4, CancellingPreserves DEF Remove

LEMMA UnlinkMailboxPreserves ==
    ASSUME IInv, UnlinkMailbox PROVE IInv'
<1>1. /\ contact' \in [Contacts -> [status: ContactStatus, step: StepOrNull]]
      /\ \A c \in Contacts : ContactInOrder(email, contact'[c], c)
  BY DEF UnlinkMailbox, IInv, TypeOK
<1>2. QED BY <1>1, CancellingPreserves DEF UnlinkMailbox

LEMMA StutterPreserves ==
    ASSUME IInv, UNCHANGED vars PROVE IInv'
BY DEF vars, businessVars, handlerVars, IInv, TypeOK

LEMMA NextPreserves ==
    ASSUME IInv, [Next]_vars PROVE IInv'
<1>1. CASE UNCHANGED vars
  BY <1>1, StutterPreserves
<1>2. ASSUME NEW s \in Slots,
             \/ BeginBatch(s) \/ BatchCheck(s) \/ BatchCap(s) \/ BatchCreate(s) \/ BatchMark(s)
             \/ BeginSend(s) \/ FailWrite(s) \/ SendRead(s) \/ SendWrite(s) \/ SendAdvance(s)
      PROVE IInv'
  BY <1>2, BeginBatchPreserves, BatchCheckPreserves, BatchCapPreserves, BatchCreatePreserves,
     BatchMarkPreserves, BeginSendPreserves, FailWritePreserves, SendReadPreserves,
     SendWritePreserves, SendAdvancePreserves
<1>3. ASSUME NEW s \in Slots,
             \/ BeginCancelAll(s) \/ BeginCompany(s) \/ BeginDoNotContact(s) \/ BeginRefer(s)
             \/ BeginReply(s) \/ ReadEnrollments(s) \/ CancelRead(s) \/ CancelRow(s)
      PROVE IInv'
  BY <1>3, BeginCancelAllPreserves, BeginCompanyPreserves, BeginDoNotContactPreserves,
     BeginReferPreserves, BeginReplyPreserves, ReadEnrollmentsPreserves, CancelReadPreserves,
     CancelRowPreserves
<1>4. ASSUME NEW s \in Slots,
             \/ StopContact(s) \/ Suppress(s) \/ Converse(s) \/ CompanyRead(s) \/ CompanyWrite(s)
             \/ ReferRead(s) \/ ReferEnrol(s) \/ FirstCreate(s) \/ HandlerFails(s)
      PROVE IInv'
  BY <1>4, StopContactPreserves, SuppressPreserves, ConversePreserves, CompanyReadPreserves,
     CompanyWritePreserves, ReferReadPreserves, ReferEnrolPreserves, FirstCreatePreserves,
     HandlerFailsPreserves
<1>5. CASE RemoveContact \/ RemoveCompany
  BY <1>5, RemovePreserves, ConstantsAssumption DEF RemoveContact, RemoveCompany, Removable
<1>6. CASE ConfirmImport \/ UnlinkMailbox
  BY <1>6, ConfirmImportPreserves, UnlinkMailboxPreserves
<1>7. QED BY <1>1, <1>2, <1>3, <1>4, <1>5, <1>6 DEF Next

\* The inductive invariant holds throughout.
LEMMA Invariance == Spec => []IInv
<1>1. Init => IInv
  BY InitHolds
<1>2. IInv /\ [Next]_vars => IInv'
  BY NextPreserves
<1>3. QED BY <1>1, <1>2, PTL DEF Spec

-----------------------------------------------------------------------------
(* The theorems.                                                            *)

\* Both tables, and what each handler carries between its statements, keep their shape.
THEOREM TypeCorrect == Spec => []TypeOK
<1>1. IInv => TypeOK
  BY DEF IInv
<1>2. QED BY <1>1, Invariance, PTL

\* createBatch, refer and simulateSend never write to a contact about a step while an
\* earlier one is unsent, whatever cancels, fails, repeats or overlaps.
THEOREM EmailsGoInOrder == Spec => []InOrder
<1>1. IInv => InOrder
  BY DEF IInv, EmailsInOrder, Earlier, InOrder
<1>2. QED BY <1>1, Invariance, PTL

\* simulateSend alone completes a contact, and only when every step was sent to it.
THEOREM CompletionIsEarned == Spec => []CompletedWentThrough
<1>1. IInv => CompletedWentThrough
  BY DEF IInv, ContactInOrder, CompletedWentThrough
<1>2. QED BY <1>1, Invariance, PTL

\* simulateSend threads a follow-up on a message already sent, or one was overwritten.
THEOREM FollowUpsAreThreaded == Spec => []FollowUpsReply
<1>1. IInv => FollowUpsReply
  BY DEF IInv, EmailsInOrder, Lost, FollowUpsReply
<1>2. QED BY <1>1, Invariance, PTL

-----------------------------------------------------------------------------
(* One request about a contact at a time.  A second invariant says, of the   *)
(* contacts that are not overlapped, how the two tables agree and what the   *)
(* one handler with the contact in its scope relies on.  No other handler    *)
(* writes such a contact: what a handler has read of it is still true.  An   *)
(* email that was simulated when it no longer waited may wait again whatever *)
(* its contact's status, and its contact may be made ACTIVE: of these emails *)
(* and contacts the invariant says less, of the others nothing changes.      *)

Waits(e, c, k) == e[<<c, k>>].status \in CANCELLABLE_STATUSES
Quiet(e, c) == \A k \in Steps : ~Waits(e, c, k)
ActiveAt(x, k) == x.status = "ACTIVE" /\ x.step = k

\* One of c's emails is among a.
AnyOf(a, c) == \E k \in Steps : <<c, k>> \in a

\* How the tables agree about a contact.
Sound(c) ==
    /\ \A k \in Steps :
         Waits(email, c, k) /\ <<c, k>> \notin resent =>
           contact[c].status \in {"ACTIVE", "SCHEDULED"} /\ ~email[<<c, k>>].sent
    /\ c \in suppressed => contact[c].status \in Stopped \/ AnyOf(resent, c)
    /\ contact[c].status = "SCHEDULED" =>
         contact[c].step \in Steps /\ email[<<c, contact[c].step>>].status # "NONE"
    /\ contact[c].status = "NONE" =>
         c \notin conversation /\ \A k \in Steps : email[<<c, k>>].status = "NONE"

\* What a handler has in hand lies in its scope.
Scoped(r) ==
    /\ HoldsContact(r) => r.who \in r.scope
    /\ HoldsStatus(r) => r.status \in Stopped
    /\ HoldsStep(r) \/ r.pc = "mark" => r.step \in Steps
    /\ \A q \in r.rows \cup r.list : q[1] \in r.scope
    /\ r.rows # {} => r.pc \in {"check", "cancel"}
    /\ r.list # {} => r.pc \in {"check", "create", "mark"}
    /\ r.pc = "mark" => \A q \in r.list : q[1] # r.who
    /\ r.pc # "cancel" => \A p, q \in r.rows \cup r.list : p[1] = q[1] => p = q
    /\ r.op = "company" /\ r.pc \in {"cancelRead", "cancel"} => r.scope = Company
    /\ r.pc = "companyRead" => r.scope = Company
    /\ r.pc = "enrollments" => r.op = "contact"

\* A handler that works on the rows it read: the contact is still as they say.
RowsFit(x, e, r, c) ==
    /\ r.pc \in {"check", "create", "mark"} =>
         \A q \in r.rows \cup r.list : q[1] = c => ActiveAt(x, q[2])
    /\ r.pc = "cancel" => \A k \in Steps : Waits(e, c, k) <=> <<c, k>> \in r.rows
    /\ r.pc \in {"stop", "companyRead", "companyWrite"} => Quiet(e, c)

\* A handler about to write one contact or email: it is still as it was found, or
\* the email is among those (a) simulated when they no longer waited.
WhoFits(x, e, a, r, c) ==
    HoldsContact(r) /\ r.who = c =>
      /\ r.pc # "enrolCreate" => x.status # "NONE"
      /\ r.pc \in {"mark", "first"} => ActiveAt(x, r.step)
      /\ r.pc = "mark" => e[<<c, r.step>>].status # "NONE"
      /\ r.pc \in {"read", "write", "fail"} => Waits(e, c, r.step) \/ <<c, r.step>> \in a
      /\ r.pc = "advance" => /\ x.status \in {"ACTIVE", "SCHEDULED"} \/ AnyOf(a, c)
                             /\ e[<<c, r.step>>].status = "SENT"
      /\ r.pc = "suppress" => x.status \in Stopped

Fits(x, e, a, r, c) == RowsFit(x, e, r, c) /\ WhoFits(x, e, a, r, c)

RegularInv ==
    /\ \A s \in Slots : Scoped(req[s])
    /\ \A s, t \in Slots : s # t => req[s].scope \cap req[t].scope \subseteq overlapped
    /\ \A c \in Contacts \ overlapped : Sound(c)
    /\ \A s \in Slots, c \in Contacts \ overlapped :
         c \in req[s].scope => Fits(contact[c], email, resent, req[s], c)

\* What a step must not do to a contact, the content of the two action properties.
Kept(c) ==
    /\ contact[c].status \in Stopped => contact'[c].status \in Stopped \/ AnyOf(resent', c)
    /\ \A k \in Steps : email[<<c, k>>].status = "SENT" /\ <<c, k>> \notin resent =>
                          email'[<<c, k>>] = email[<<c, k>>]
Steady == \A c \in Contacts \ overlapped' : Kept(c)

\* A step that leaves a contact alone.
Same(c) ==
    /\ contact'[c] = contact[c]
    /\ \A k \in Steps : email'[<<c, k>>] = email[<<c, k>>]
    /\ c \in suppressed' <=> c \in suppressed
    /\ c \in conversation' <=> c \in conversation

\* What is left alone stays as it should be.
LEMMA SameKeeps ==
    ASSUME NEW c \in Contacts, Same(c), resent \subseteq resent'
    PROVE /\ Sound(c) => Sound(c)'
          /\ Kept(c)
          /\ \A r \in Requests : Scoped(r) /\ Fits(contact[c], email, resent, r, c) =>
                                   Fits(contact'[c], email', resent', r, c)
<1>1. Sound(c) => Sound(c)'
  <2>1. SUFFICES ASSUME Sound(c) PROVE Sound(c)'
    OBVIOUS
  <2>2. \A k \in Steps : Waits(email', c, k) <=> Waits(email, c, k)
    BY DEF Same, Waits
  <2>3. AnyOf(resent, c) => AnyOf(resent', c)
    BY DEF AnyOf
  <2>4. QED BY <2>1, <2>2, <2>3 DEF Sound, Same
<1>2. Kept(c)
  BY DEF Same, Kept
<1>3. ASSUME NEW r \in Requests, Scoped(r), Fits(contact[c], email, resent, r, c)
      PROVE Fits(contact'[c], email', resent', r, c)
  <2>1. \A k \in Steps : Waits(email', c, k) <=> Waits(email, c, k)
    BY DEF Same, Waits
  <2>2. RowsFit(contact'[c], email', r, c)
    BY <1>3, <2>1 DEF Fits, RowsFit, Quiet, Same
  <2>3. WhoFits(contact'[c], email', resent', r, c)
    BY <1>3, <2>1 DEF Fits, WhoFits, Scoped, HoldsStep, Same, AnyOf
  <2>4. QED BY <2>2, <2>3 DEF Fits
<1>4. QED BY <1>1, <1>2, <1>3

LEMMA IdleIsScoped == Scoped(Idle) /\ Idle.scope = {}
BY DEF Idle, Scoped, HoldsContact, HoldsStatus, HoldsStep

\* What the two invariants say of a handler and of a contact that stays regular.
LEMMA RegularFacts ==
    ASSUME IInv, RegularInv, NEW s \in Slots
    PROVE /\ req[s] \in Requests /\ Scoped(req[s])
          /\ \A c \in Contacts \ overlapped :
               /\ contact[c] \in [status: ContactStatus, step: StepOrNull]
               /\ Sound(c)
               /\ c \in req[s].scope => Fits(contact[c], email, resent, req[s], c)
BY DEF IInv, TypeOK, RegularInv

\* A step of a handler that writes nothing outside its scope.
LEMMA HandlerStep ==
    ASSUME IInv, RegularInv, NEW s \in Slots, NEW h \in Requests,
           Handle(s, h), Scoped(h), resent \subseteq resent',
           \A c \in Contacts : c \notin req[s].scope => Same(c),
           \A c \in Contacts \ overlapped' : c \in req[s].scope => Sound(c)' /\ Kept(c),
           \A c \in Contacts \ overlapped' : c \in h.scope => Fits(contact'[c], email', resent', h, c)
    PROVE RegularInv' /\ Steady
<1>1. req \in [Slots -> Requests] /\ req' = [req EXCEPT ![s] = h]
  BY DEF IInv, TypeOK, Handle
<1>2. overlapped \subseteq overlapped' /\ h.scope \cap InHand(s) \subseteq overlapped'
  BY DEF Handle
<1>3. req'[s] = h /\ \A t \in Slots \ {s} : req'[t] = req[t]
  BY <1>1
<1>4. \A t \in Slots \ {s} : req[t].scope \subseteq InHand(s)
  BY DEF InHand
<1>5. (\A t \in Slots : Scoped(req[t]))'
  BY <1>3 DEF RegularInv
<1>6. \A t, u \in Slots : t # u => req'[t].scope \cap req'[u].scope \subseteq overlapped'
  <2>1. SUFFICES ASSUME NEW t \in Slots, NEW u \in Slots, t # u
                 PROVE req'[t].scope \cap req'[u].scope \subseteq overlapped'
    OBVIOUS
  <2>2. CASE t # s /\ u # s
    BY <1>2, <1>3, <2>1, <2>2 DEF RegularInv
  <2>3. CASE t = s \/ u = s
    BY <1>2, <1>3, <1>4, <2>1, <2>3
  <2>4. QED BY <2>2, <2>3
<1>7. \A c \in Contacts \ overlapped' : Sound(c)' /\ Kept(c)
  <2>1. TAKE c \in Contacts \ overlapped'
  <2>2. CASE c \in req[s].scope
    BY <2>2
  <2>3. CASE c \notin req[s].scope
    BY <1>2, <2>3, SameKeeps DEF RegularInv
  <2>4. QED BY <2>2, <2>3
<1>8. \A t \in Slots, c \in Contacts \ overlapped' :
        c \in req'[t].scope => Fits(contact'[c], email', resent', req'[t], c)
  <2>1. SUFFICES ASSUME NEW t \in Slots, NEW c \in Contacts \ overlapped', c \in req'[t].scope
                 PROVE Fits(contact'[c], email', resent', req'[t], c)
    OBVIOUS
  <2>2. CASE t = s
    BY <1>3, <2>1, <2>2
  <2>3. CASE t # s
    <3>1. req'[t] = req[t] /\ req[t] \in Requests
      BY <1>1, <1>3, <2>3
    <3>2. c \notin req[s].scope
      BY <1>2, <2>1, <2>3, <3>1 DEF RegularInv
    <3>3. Scoped(req[t]) /\ Fits(contact[c], email, resent, req[t], c)
      BY <1>2, <2>1, <3>1 DEF RegularInv
    <3>4. QED BY <3>1, <3>2, <3>3, SameKeeps
  <2>4. QED BY <2>2, <2>3
<1>9. QED BY <1>5, <1>6, <1>7, <1>8 DEF RegularInv, Steady

\* A handler that writes neither table, nor the suppressions and conversations.
LEMMA ReadKeeps ==
    ASSUME IInv, RegularInv, NEW s \in Slots, NEW h \in Requests,
           Handle(s, h), Scoped(h), UNCHANGED businessVars, resent \subseteq resent',
           \A c \in Contacts \ overlapped' : c \in h.scope => Fits(contact[c], email, resent', h, c)
    PROVE RegularInv' /\ Steady
<1>1. \A c \in Contacts : Same(c)
  BY DEF businessVars, Same
<1>2. \A c \in Contacts \ overlapped' : Sound(c)' /\ Kept(c)
  BY <1>1, SameKeeps DEF RegularInv, Handle
<1>3. \A c \in Contacts \ overlapped' : c \in h.scope => Fits(contact'[c], email', resent', h, c)
  BY DEF businessVars
<1>4. QED BY <1>1, <1>2, <1>3, HandlerStep

\* A handler that writes of one contact only.
LEMMA WriteKeeps ==
    ASSUME IInv, RegularInv, NEW s \in Slots, NEW h \in Requests, Continue(s, h), Scoped(h),
           NEW c \in Contacts, c \in req[s].scope,
           \A d \in Contacts : d # c => Same(d),
           c \notin overlapped' => /\ Sound(c)' /\ Kept(c)
                                   /\ c \in h.scope => Fits(contact'[c], email', resent', h, c),
           \A d \in Contacts \ overlapped' :
             d \in h.scope /\ d # c => Fits(contact[d], email, resent, h, d)
    PROVE RegularInv' /\ Steady
<1>1. Handle(s, h) /\ overlapped \subseteq overlapped' /\ resent' = resent
  BY DEF Continue, Handle
<1>2. \A d \in Contacts \ overlapped' : Sound(d)' /\ Kept(d)
  BY <1>1, SameKeeps DEF RegularInv
<1>3. \A d \in Contacts \ overlapped' : d \in h.scope => Fits(contact'[d], email', resent', h, d)
  BY <1>1, SameKeeps
<1>4. QED BY <1>1, <1>2, <1>3, HandlerStep

\* Finishing releases the contacts in hand.
LEMMA FinishKeeps ==
    ASSUME IInv, RegularInv, NEW s \in Slots, Finish(s), UNCHANGED businessVars
    PROVE RegularInv' /\ Steady
BY IdleIsInOrder, IdleIsScoped, ReadKeeps DEF Finish, Continue

LEMMA HandlerFailsKeeps ==
    ASSUME IInv, RegularInv, NEW s \in Slots, HandlerFails(s) PROVE RegularInv' /\ Steady
BY FinishKeeps DEF HandlerFails

\* The tables when one contact is written...
LEMMA ContactSame ==
    ASSUME IInv, NEW c \in Contacts, NEW x, contact' = [contact EXCEPT ![c] = x],
           UNCHANGED <<email, suppressed, conversation>>
    PROVE contact'[c] = x /\ \A d \in Contacts : d # c => Same(d)
BY DEF IInv, TypeOK, Same

\* ... and when one email is.
LEMMA EmailSame ==
    ASSUME IInv, NEW c \in Contacts, NEW k \in Steps, NEW new, WriteEmail(<<c, k>>, new),
           UNCHANGED <<contact, suppressed, conversation>>
    PROVE /\ email'[<<c, k>>] = new
          /\ \A j \in Steps : j # k => email'[<<c, j>>] = email[<<c, j>>]
          /\ \A d \in Contacts : d # c => Same(d)
<1>1. email' = [email EXCEPT ![<<c, k>>] = new] /\ email \in [Row -> Emails]
  BY DEF WriteEmail, IInv, TypeOK
<1>2. \A r \in Row : email'[r] = IF r = <<c, k>> THEN new ELSE email[r]
  BY <1>1
<1>3. \A d \in Contacts, j \in Steps : <<d, j>> \in Row
  BY DEF Row
<1>4. QED BY <1>2, <1>3 DEF Same

\* A status written by id: what there is to know of the contact.
LEMMA StatusSame ==
    ASSUME IInv, NEW c \in Contacts, NEW status, WriteStatus(c, status),
           UNCHANGED <<email, suppressed, conversation>>
    PROVE /\ contact'[c].status = status /\ contact'[c].step = contact[c].step
          /\ \A d \in Contacts : d # c => Same(d)
<1>1. contact \in [Contacts -> [status: ContactStatus, step: StepOrNull]]
  BY DEF IInv, TypeOK
<1>2. contact' = [contact EXCEPT ![c].status = status]
  BY DEF WriteStatus
<1>3. /\ contact'[c].status = status /\ contact'[c].step = contact[c].step
      /\ \A d \in Contacts : d # c => contact'[d] = contact[d]
  BY <1>1, <1>2
<1>4. QED BY <1>3 DEF Same

LEMMA BeginBatchKeeps ==
    ASSUME IInv, RegularInv, NEW s \in Slots, BeginBatch(s) PROVE RegularInv' /\ Steady
<1> DEFINE due == {c \in Contacts : IsDue(c)}
           new == [Idle EXCEPT !.pc = "check", !.op = "batch", !.scope = due,
                               !.rows = {<<c, contact[c].step>> : c \in due}]
<1>1. contact \in [Contacts -> [status: ContactStatus, step: StepOrNull]]
  BY DEF IInv, TypeOK
<1>2. /\ new.pc = "check" /\ new.rows = {<<c, contact[c].step>> : c \in due} /\ new.list = {}
      /\ new.scope = due /\ new.op = "batch"
  BY DEF Idle
<1>3. \A c \in due : contact[c].step \in Steps
  BY <1>1 DEF IsDue, StepOrNull
<1>4. new.rows \subseteq Row
  BY <1>2, <1>3 DEF Row
<1>5. new \in Requests
  BY <1>4, IdleIsInOrder DEF Requests, Points, Idle
<1>6. Scoped(new)
  <2>1. \A p, q \in new.rows \cup new.list : p[1] = q[1] => p = q
    BY <1>2
  <2>2. \A q \in new.rows \cup new.list : q[1] \in new.scope
    BY <1>2
  <2>3. ~HoldsContact(new) /\ ~HoldsStatus(new) /\ ~HoldsStep(new)
    BY <1>2 DEF HoldsContact, HoldsStatus, HoldsStep
  <2>4. QED BY <1>2, <2>1, <2>2, <2>3 DEF Scoped
<1>7. \A c \in Contacts : Fits(contact[c], email, resent, new, c)
  <2>1. \A q \in new.rows \cup new.list : ActiveAt(contact[q[1]], q[2])
    BY <1>2 DEF IsDue, ActiveAt
  <2>2. QED BY <1>2, <2>1 DEF Fits, RowsFit, WhoFits, HoldsContact
<1>8. Handle(s, new) /\ UNCHANGED businessVars /\ resent' = resent
  BY DEF BeginBatch, Begin
<1> HIDE DEF due, new
<1>9. QED BY <1>5, <1>6, <1>7, <1>8, ReadKeeps

LEMMA BatchCheckKeeps ==
    ASSUME IInv, RegularInv, NEW s \in Slots, BatchCheck(s) PROVE RegularInv' /\ Steady
<1>1. req[s] \in Requests /\ Scoped(req[s]) /\ req[s].pc = "check"
  BY RegularFacts DEF BatchCheck, At
<1>2. PICK r \in req[s].rows :
        Continue(s, [req[s] EXCEPT !.rows = @ \ {r},
                       !.list = IF email[r].status \in {"NONE", "CANCELLED"}
                                THEN @ \cup {r} ELSE @])
  BY DEF BatchCheck
<1> DEFINE new == [req[s] EXCEPT !.rows = @ \ {r},
                       !.list = IF email[r].status \in {"NONE", "CANCELLED"}
                                THEN @ \cup {r} ELSE @]
<1>3. /\ new \in Requests /\ new.pc = "check" /\ new.op = req[s].op
      /\ new.scope = req[s].scope
      /\ new.rows \cup new.list \subseteq req[s].rows \cup req[s].list
  BY <1>1 DEF Requests
<1>4. /\ Handle(s, new) /\ UNCHANGED businessVars
      /\ overlapped \subseteq overlapped' /\ resent' = resent
  BY <1>2 DEF BatchCheck, Continue, Handle
<1> HIDE DEF new
<1>5. Scoped(new)
  BY <1>1, <1>3 DEF Scoped, HoldsContact, HoldsStatus, HoldsStep
<1>6. \A c \in Contacts \ overlapped' : c \in new.scope => Fits(contact[c], email, resent, new, c)
  <2>1. TAKE c \in Contacts \ overlapped'
  <2>2. HAVE c \in new.scope
  <2>3. Fits(contact[c], email, resent, req[s], c)
    BY <1>3, <1>4, <2>2, RegularFacts
  <2>4. QED BY <1>1, <1>3, <2>3 DEF Fits, RowsFit, WhoFits, HoldsContact
<1>7. QED BY <1>3, <1>4, <1>5, <1>6, ReadKeeps

LEMMA BatchCapKeeps ==
    ASSUME IInv, RegularInv, NEW s \in Slots, BatchCap(s) PROVE RegularInv' /\ Steady
<1>1. req[s] \in Requests /\ Scoped(req[s]) /\ req[s].pc = "check" /\ req[s].rows = {}
  BY RegularFacts DEF BatchCap, At
<1>2. PICK kept \in SUBSET req[s].list :
        IF kept = {} THEN Finish(s)
        ELSE Continue(s, [req[s] EXCEPT !.pc = "create", !.list = kept,
                                        !.scope = {r[1] : r \in kept}])
  BY DEF BatchCap
<1>3. UNCHANGED businessVars
  BY DEF BatchCap
<1>4. CASE kept = {}
  BY <1>2, <1>3, <1>4, FinishKeeps
<1>5. CASE kept # {}
  <2> DEFINE new == [req[s] EXCEPT !.pc = "create", !.list = kept,
                                   !.scope = {r[1] : r \in kept}]
  <2>1. kept \subseteq Row /\ {r[1] : r \in kept} \subseteq Contacts
    BY <1>1 DEF Requests, Row
  <2>2. /\ new \in Requests /\ new.pc = "create" /\ new.op = req[s].op
        /\ new.scope = {r[1] : r \in kept} /\ new.rows = {} /\ new.list = kept
    BY <1>1, <2>1 DEF Requests, Points
  <2>3. Handle(s, new) /\ overlapped \subseteq overlapped' /\ resent' = resent
    BY <1>2, <1>5 DEF Continue, Handle
  <2> HIDE DEF new
  <2>4. new.scope \subseteq req[s].scope
    BY <1>1, <2>2 DEF Scoped
  <2>5. Scoped(new)
    BY <1>1, <2>2 DEF Scoped, HoldsContact, HoldsStatus, HoldsStep
  <2>6. \A c \in Contacts \ overlapped' : c \in new.scope => Fits(contact[c], email, resent, new, c)
    <3>1. TAKE c \in Contacts \ overlapped'
    <3>2. HAVE c \in new.scope
    <3>3. Fits(contact[c], email, resent, req[s], c)
      BY <2>3, <2>4, <3>2, RegularFacts
    <3>4. QED BY <1>1, <2>2, <3>3 DEF Fits, RowsFit, WhoFits, HoldsContact
  <2>7. QED BY <1>3, <2>2, <2>3, <2>5, <2>6, ReadKeeps
<1>6. QED BY <1>4, <1>5

LEMMA BatchCreateKeeps ==
    ASSUME IInv, RegularInv, NEW s \in Slots, BatchCreate(s) PROVE RegularInv' /\ Steady
<1>1. req[s] \in Requests /\ Scoped(req[s]) /\ req[s].pc = "create"
  BY RegularFacts DEF BatchCreate, At
<1>2. PICK r \in req[s].list :
        \/ /\ email[r].status = "NONE"
           /\ WriteEmail(r, NewEmail)
           /\ Continue(s, [req[s] EXCEPT !.pc = "mark", !.who = r[1], !.step = r[2],
                                         !.list = @ \ {r}])
        \/ /\ email[r].status # "NONE"
           /\ Finish(s)
           /\ UNCHANGED <<email, overwritten>>
  BY DEF BatchCreate
<1>3. UNCHANGED <<contact, suppressed, conversation>>
  BY DEF BatchCreate
<1>4. CASE email[r].status = "NONE"
  <2> DEFINE new == [req[s] EXCEPT !.pc = "mark", !.who = r[1], !.step = r[2],
                                   !.list = @ \ {r}]
  <2>1. PICK c \in Contacts, k \in Steps : r = <<c, k>>
    BY <1>1 DEF Requests, Row
  <2>2. /\ new \in Requests /\ new.pc = "mark" /\ new.who = c /\ new.step = k
        /\ new.list = req[s].list \ {r} /\ new.rows = req[s].rows
        /\ new.scope = req[s].scope /\ new.op = req[s].op
    BY <1>1, <2>1 DEF Requests, Points, StepOrNull
  <2>3. /\ Continue(s, new) /\ WriteEmail(<<c, k>>, NewEmail)
        /\ overlapped \subseteq overlapped' /\ resent' = resent
    BY <1>2, <1>4, <2>1 DEF Continue, Handle
  <2> HIDE DEF new
  <2>4. c \in req[s].scope /\ req[s].rows = {}
    BY <1>1, <2>1 DEF Scoped
  <2>5. \A p, q \in req[s].list : p[1] = q[1] => p = q
    BY <1>1 DEF Scoped
  <2>6. \A q \in new.list : q[1] # c
    BY <2>1, <2>2, <2>5
  <2>7. Scoped(new)
    BY <1>1, <2>2, <2>4, <2>6 DEF Scoped, HoldsContact, HoldsStatus, HoldsStep
  <2>8. /\ email'[<<c, k>>].status = "PENDING" /\ ~email'[<<c, k>>].sent
        /\ \A j \in Steps : j # k => email'[<<c, j>>] = email[<<c, j>>]
        /\ \A d \in Contacts : d # c => Same(d)
    BY <1>3, <2>3, EmailSame DEF NewEmail
  <2>9. ASSUME c \notin overlapped'
        PROVE Sound(c)' /\ Kept(c) /\ Fits(contact'[c], email', resent', new, c)
    <3>1. Sound(c) /\ Fits(contact[c], email, resent, req[s], c)
      BY <2>3, <2>4, <2>9, RegularFacts
    <3>2. ActiveAt(contact[c], k)
      BY <1>1, <2>1, <3>1 DEF Fits, RowsFit
    <3>3. Sound(c)'
      BY <1>3, <2>3, <2>8, <3>1, <3>2 DEF Sound, Waits, ActiveAt
    <3>4. Kept(c)
      BY <1>3, <1>4, <2>1, <2>8 DEF Kept
    <3>5. Fits(contact'[c], email', resent', new, c)
      BY <1>3, <2>2, <2>4, <2>6, <2>8, <3>2 DEF Fits, RowsFit, WhoFits, ActiveAt
    <3>6. QED BY <3>3, <3>4, <3>5
  <2>10. \A d \in Contacts \ overlapped' :
           d \in new.scope /\ d # c => Fits(contact[d], email, resent, new, d)
    <3>1. TAKE d \in Contacts \ overlapped'
    <3>2. HAVE d \in new.scope /\ d # c
    <3>3. Fits(contact[d], email, resent, req[s], d)
      BY <2>2, <2>3, <3>2, RegularFacts
    <3>4. QED BY <1>1, <2>2, <3>2, <3>3 DEF Fits, RowsFit, WhoFits
  <2>11. QED BY <2>2, <2>3, <2>4, <2>7, <2>8, <2>9, <2>10, WriteKeeps
<1>5. CASE email[r].status # "NONE"
  BY <1>2, <1>3, <1>5, FinishKeeps DEF businessVars
<1>6. QED BY <1>4, <1>5

LEMMA BatchMarkKeeps ==
    ASSUME IInv, RegularInv, NEW s \in Slots, BatchMark(s) PROVE RegularInv' /\ Steady
<1>1. req[s] \in Requests /\ Scoped(req[s]) /\ req[s].pc = "mark"
  BY RegularFacts DEF BatchMark, At
<1>2. PICK c \in Contacts : c = req[s].who
  BY <1>1 DEF Scoped, HoldsContact, Requests
<1> DEFINE new == [req[s] EXCEPT !.pc = "create", !.who = None, !.step = 0, !.scope = @ \ {c}]
<1>3. /\ new \in Requests /\ new.pc = "create" /\ new.list = req[s].list
      /\ new.rows = req[s].rows /\ new.scope = req[s].scope \ {c} /\ new.op = req[s].op
  BY <1>1 DEF Requests, Points, StepOrNull
<1>4. /\ c \in req[s].scope /\ req[s].step \in Steps
      /\ req[s].rows = {} /\ \A q \in req[s].list : q[1] # c
  BY <1>1, <1>2 DEF Scoped, HoldsContact, Requests
<1>5. PICK h \in {Idle, new} : Continue(s, h)
  BY <1>2 DEF BatchMark, Finish
<1>6. /\ WriteStatus(c, "SCHEDULED") /\ UNCHANGED <<email, suppressed, conversation>>
      /\ overlapped \subseteq overlapped' /\ resent' = resent
  BY <1>2, <1>5 DEF BatchMark, Continue, Handle
<1> HIDE DEF new
<1>7. HoldsContact(req[s])
  BY <1>1 DEF HoldsContact
<1>8. Scoped(new)
  BY <1>1, <1>3, <1>4 DEF Scoped, HoldsContact, HoldsStatus, HoldsStep
<1>9. h \in Requests /\ Scoped(h) /\ c \notin h.scope
  BY <1>3, <1>5, <1>8, IdleIsInOrder, IdleIsScoped
<1>10. /\ contact'[c].status = "SCHEDULED" /\ contact'[c].step = contact[c].step
      /\ \A d \in Contacts : d # c => Same(d)
  BY <1>4, <1>6, StatusSame
<1>11. ASSUME c \notin overlapped' PROVE Sound(c)' /\ Kept(c)
  <2>1. Sound(c) /\ Fits(contact[c], email, resent, req[s], c)
    BY <1>4, <1>6, <1>11, RegularFacts
  <2>2. ActiveAt(contact[c], req[s].step) /\ email[<<c, req[s].step>>].status # "NONE"
    BY <1>1, <1>2, <1>7, <2>1 DEF Fits, WhoFits
  <2>3. Sound(c)'
    BY <1>4, <1>6, <1>10, <2>1, <2>2 DEF Sound, Waits, ActiveAt, Stopped, ContactStatus
  <2>4. Kept(c)
    BY <1>6, <2>2 DEF Kept, ActiveAt, Stopped
  <2>5. QED BY <2>3, <2>4
<1>12. \A d \in Contacts \ overlapped' :
         d \in h.scope /\ d # c => Fits(contact[d], email, resent, h, d)
  <2>1. TAKE d \in Contacts \ overlapped'
  <2>2. HAVE d \in h.scope /\ d # c
  <2>3. h = new /\ d \in req[s].scope
    BY <1>3, <1>5, <2>2, IdleIsScoped
  <2>4. Fits(contact[d], email, resent, req[s], d)
    BY <1>6, <2>3, RegularFacts
  <2>5. QED BY <1>1, <1>3, <2>3, <2>4 DEF Fits, RowsFit, WhoFits, HoldsContact
<1>13. QED BY <1>4, <1>5, <1>9, <1>10, <1>11, <1>12, WriteKeeps

LEMMA BeginSendKeeps ==
    ASSUME IInv, RegularInv, NEW s \in Slots, BeginSend(s) PROVE RegularInv' /\ Steady
<1>1. PICK r \in Row :
        /\ email[r].status # "NONE"
        /\ \E outcome \in {"SENT", "RETRY_SCHEDULED", "FAILED"} :
             Begin(s, Simulates(r[1], r[2], IF outcome = "SENT" THEN "read" ELSE "fail", outcome),
                   {r} \ Waiting)
        /\ UNCHANGED <<businessVars, overwritten>>
  BY DEF BeginSend
<1>2. PICK outcome \in {"SENT", "RETRY_SCHEDULED", "FAILED"} :
        Begin(s, Simulates(r[1], r[2], IF outcome = "SENT" THEN "read" ELSE "fail", outcome),
              {r} \ Waiting)
  BY <1>1
<1>3. PICK c \in Contacts, k \in Steps : r = <<c, k>>
  BY DEF Row
<1> DEFINE p == IF outcome = "SENT" THEN "read" ELSE "fail"
           new == Simulates(c, k, p, outcome)
<1>4. /\ new \in Requests /\ new.pc \in {"read", "fail"} /\ new.op = "send"
      /\ new.who = c /\ new.step = k
      /\ new.scope = {c} /\ new.rows = {} /\ new.list = {}
  BY <1>3 DEF Simulates, Idle, Requests, Points, StepOrNull, EmailStatus
<1>5. Handle(s, new) /\ resent' = resent \cup ({r} \ Waiting) /\ UNCHANGED businessVars
  BY <1>1, <1>2, <1>3 DEF Begin
<1>6. /\ overlapped \subseteq overlapped' /\ resent \subseteq resent'
      /\ Waits(email, c, k) \/ <<c, k>> \in resent'
  BY <1>3, <1>5 DEF Handle, Waiting, Waits
<1> HIDE DEF new, p
<1>7. Scoped(new)
  BY <1>4 DEF Scoped, HoldsContact, HoldsStatus, HoldsStep
<1>8. \A d \in Contacts \ overlapped' :
        d \in new.scope => Fits(contact[d], email, resent', new, d)
  <2>1. TAKE d \in Contacts \ overlapped'
  <2>2. HAVE d \in new.scope
  <2>3. d = c /\ Sound(c) /\ email[<<c, k>>].status # "NONE"
    BY <1>1, <1>3, <1>4, <1>6, <2>2, RegularFacts
  <2>4. contact[c].status # "NONE"
    BY <2>3 DEF Sound
  <2>5. QED BY <1>4, <1>6, <2>3, <2>4 DEF Fits, RowsFit, WhoFits
<1>9. QED BY <1>4, <1>5, <1>6, <1>7, <1>8, ReadKeeps

\* The contact in hand, by a name that does not change with the handler.
LEMMA WhoFacts ==
    ASSUME IInv, RegularInv, NEW s \in Slots, HoldsContact(req[s])
    PROVE /\ req[s].who \in Contacts /\ req[s].who \in req[s].scope
          /\ req[s].who \notin overlapped =>
               /\ Sound(req[s].who)
               /\ Fits(contact[req[s].who], email, resent, req[s], req[s].who)
BY RegularFacts DEF Scoped, Requests

LEMMA FailWriteKeeps ==
    ASSUME IInv, RegularInv, NEW s \in Slots, FailWrite(s) PROVE RegularInv' /\ Steady
<1>1. /\ Scoped(req[s]) /\ HoldsContact(req[s]) /\ req[s].pc = "fail"
      /\ HandlerInOrder(email, overwritten, req[s])
  BY RegularFacts, HandlerFacts DEF FailWrite, At, HoldsContact
<1>2. PICK c \in Contacts, k \in Steps : c = req[s].who /\ k = req[s].step
  BY <1>1, WhoFacts DEF Scoped, HoldsStep
<1>3. /\ WriteEmail(<<c, k>>, [email[<<c, k>>] EXCEPT !.status = req[s].status])
      /\ Continue(s, Idle) /\ UNCHANGED <<contact, suppressed, conversation>>
      /\ overlapped \subseteq overlapped' /\ resent' = resent
  BY <1>2 DEF FailWrite, Finish, Continue, Handle
<1>4. email[<<c, k>>] \in Emails
  BY DEF IInv, TypeOK, Row
<1>5. req[s].status \in EmailStatus \ {"NONE"}
  BY <1>1 DEF HandlerInOrder
<1>6. /\ email'[<<c, k>>].status = req[s].status /\ email'[<<c, k>>].sent = email[<<c, k>>].sent
      /\ \A j \in Steps : j # k => email'[<<c, j>>] = email[<<c, j>>]
      /\ \A d \in Contacts : d # c => Same(d)
  BY <1>3, <1>4, EmailSame DEF Emails
<1>7. ASSUME c \notin overlapped' PROVE Sound(c)' /\ Kept(c)
  <2>1. Sound(c) /\ Fits(contact[c], email, resent, req[s], c)
    BY <1>1, <1>2, <1>3, <1>7, WhoFacts
  <2>2. /\ Waits(email, c, k) \/ <<c, k>> \in resent
        /\ contact[c].status # "NONE"
    BY <1>1, <1>2, <2>1 DEF Fits, WhoFits
  <2>3. Sound(c)'
    <3>1. ASSUME NEW j \in Steps, Waits(email', c, j), <<c, j>> \notin resent
          PROVE contact[c].status \in {"ACTIVE", "SCHEDULED"} /\ ~email'[<<c, j>>].sent
      BY <1>6, <2>1, <2>2, <3>1 DEF Sound, Waits
    <3>2. ASSUME NEW j \in Steps, email[<<c, j>>].status # "NONE"
          PROVE email'[<<c, j>>].status # "NONE"
      BY <1>5, <1>6, <3>2
    <3>3. QED BY <1>3, <2>1, <2>2, <3>1, <3>2 DEF Sound
  <2>4. Kept(c)
    BY <1>3, <1>6, <2>2 DEF Kept, Waits, CANCELLABLE_STATUSES
  <2>5. QED BY <2>3, <2>4
<1>8. QED
  BY <1>1, <1>2, <1>3, <1>6, <1>7, WhoFacts, IdleIsInOrder, IdleIsScoped, WriteKeeps

LEMMA SendReadKeeps ==
    ASSUME IInv, RegularInv, NEW s \in Slots, SendRead(s) PROVE RegularInv' /\ Steady
<1>1. req[s] \in Requests /\ Scoped(req[s]) /\ req[s].pc = "read"
  BY RegularFacts DEF SendRead, At
<1> DEFINE new == [req[s] EXCEPT !.pc = "write", !.reply = SentBefore(req[s].who, req[s].step)]
<1>2. SentBefore(req[s].who, req[s].step) \in BOOLEAN
  BY DEF SentBefore
<1>3. /\ new \in Requests /\ new.pc = "write" /\ new.op = req[s].op /\ new.who = req[s].who
      /\ new.step = req[s].step /\ new.rows = req[s].rows /\ new.list = req[s].list
      /\ new.scope = req[s].scope
  BY <1>1, <1>2 DEF Requests, Points
<1>4. /\ Handle(s, new) /\ UNCHANGED businessVars
      /\ overlapped \subseteq overlapped' /\ resent' = resent
  BY DEF SendRead, Continue, Handle
<1> HIDE DEF new
<1>5. Scoped(new)
  BY <1>1, <1>3 DEF Scoped, HoldsContact, HoldsStatus, HoldsStep
<1>6. \A c \in Contacts \ overlapped' : c \in new.scope => Fits(contact[c], email, resent, new, c)
  <2>1. TAKE c \in Contacts \ overlapped'
  <2>2. HAVE c \in new.scope
  <2>3. Fits(contact[c], email, resent, req[s], c)
    BY <1>3, <1>4, <2>2, RegularFacts
  <2>4. QED BY <1>1, <1>3, <2>3 DEF Fits, RowsFit, WhoFits, HoldsContact
<1>7. QED BY <1>3, <1>4, <1>5, <1>6, ReadKeeps

LEMMA SendWriteKeeps ==
    ASSUME IInv, RegularInv, NEW s \in Slots, SendWrite(s) PROVE RegularInv' /\ Steady
<1>1. /\ req[s] \in Requests /\ Scoped(req[s]) /\ HoldsContact(req[s]) /\ req[s].pc = "write"
  BY RegularFacts DEF SendWrite, At, HoldsContact
<1>2. PICK c \in Contacts, k \in Steps : c = req[s].who /\ k = req[s].step
  BY <1>1, WhoFacts DEF Scoped, HoldsStep
<1> DEFINE new == [req[s] EXCEPT !.pc = "advance"]
<1>3. /\ new \in Requests /\ new.pc = "advance" /\ new.op = req[s].op /\ new.who = c
      /\ new.step = k /\ new.rows = req[s].rows /\ new.list = req[s].list
      /\ new.scope = req[s].scope
  BY <1>1, <1>2 DEF Requests, Points
<1>4. /\ WriteEmail(<<c, k>>, [status |-> "SENT", sent |-> TRUE, reply |-> req[s].reply])
      /\ Continue(s, new) /\ UNCHANGED <<contact, suppressed, conversation>>
      /\ overlapped \subseteq overlapped' /\ resent' = resent
  BY <1>2 DEF SendWrite, Goto, Continue, Handle
<1> HIDE DEF new
<1>5. c \in req[s].scope /\ req[s].rows = {} /\ req[s].list = {}
  BY <1>1, <1>2, WhoFacts DEF Scoped
<1>6. Scoped(new)
  BY <1>1, <1>2, <1>3, <1>5 DEF Scoped, HoldsContact, HoldsStatus, HoldsStep
<1>7. /\ email'[<<c, k>>].status = "SENT"
      /\ \A j \in Steps : j # k => email'[<<c, j>>] = email[<<c, j>>]
      /\ \A d \in Contacts : d # c => Same(d)
  BY <1>4, EmailSame
<1>8. ASSUME c \notin overlapped'
      PROVE Sound(c)' /\ Kept(c) /\ Fits(contact'[c], email', resent', new, c)
  <2>1. Sound(c) /\ Fits(contact[c], email, resent, req[s], c)
    BY <1>1, <1>2, <1>4, <1>8, WhoFacts
  <2>2. Waits(email, c, k) \/ <<c, k>> \in resent
    BY <1>1, <1>2, <2>1 DEF Fits, WhoFits
  <2>3. /\ contact[c].status \in {"ACTIVE", "SCHEDULED"} \/ AnyOf(resent, c)
        /\ contact[c].status # "NONE"
    BY <1>1, <1>2, <2>1, <2>2 DEF Sound, AnyOf, Fits, WhoFits
  <2>4. Sound(c)'
    BY <1>4, <1>7, <2>1, <2>3 DEF Sound, Waits, CANCELLABLE_STATUSES
  <2>5. Kept(c)
    BY <1>4, <1>7, <2>2 DEF Kept, Waits, CANCELLABLE_STATUSES
  <2>6. Fits(contact'[c], email', resent', new, c)
    BY <1>3, <1>4, <1>5, <1>7, <2>3 DEF Fits, RowsFit, WhoFits
  <2>7. QED BY <2>4, <2>5, <2>6
<1>9. \A d \in Contacts : d # c => Fits(contact[d], email, resent, new, d)
  BY <1>3, <1>5 DEF Fits, RowsFit, WhoFits
<1>10. QED BY <1>3, <1>4, <1>5, <1>6, <1>7, <1>8, <1>9, WriteKeeps

\* Any other email of a contact with one for the last step was sent.
LEMMA OthersWereSent ==
    ASSUME IInv, NEW c \in Contacts, NEW k \in Steps, IsLast(k), email[<<c, k>>].status # "NONE",
           NEW j \in Steps, j # k, email[<<c, j>>].status # "NONE"
    PROVE email[<<c, j>>].sent
<1>1. Earlier(email, c, j) /\ Earlier(email, c, k)
  BY DEF IInv, EmailsInOrder
<1>2. j \in Course /\ j <= k
  BY <1>1 DEF Earlier, Course, IsLast
<1>3. j < k
  BY <1>2, StepsFacts
<1>4. QED BY <1>1, <1>2, <1>3 DEF Earlier

LEMMA SendAdvanceKeeps ==
    ASSUME IInv, RegularInv, NEW s \in Slots, SendAdvance(s) PROVE RegularInv' /\ Steady
<1>1. Scoped(req[s]) /\ HoldsContact(req[s]) /\ req[s].pc = "advance"
  BY RegularFacts DEF SendAdvance, At, HoldsContact
<1>2. PICK c \in Contacts, k \in Steps : c = req[s].who /\ k = req[s].step
  BY <1>1, WhoFacts DEF Scoped, HoldsStep
<1>3. PICK x \in [status: {"ACTIVE", "COMPLETED"}, step: StepOrNull] :
        contact' = [contact EXCEPT ![c] = x] /\ (x.status = "COMPLETED" => IsLast(k))
  <2>1. CASE \E j \in LiveSteps :
               contact' = [contact EXCEPT ![c] = [status |-> StatusOnNextStep, step |-> j]]
    <3>1. PICK j \in LiveSteps :
            contact' = [contact EXCEPT ![c] = [status |-> StatusOnNextStep, step |-> j]]
      BY <2>1
    <3>2. [status |-> StatusOnNextStep, step |-> j] \in
            [status: {"ACTIVE", "COMPLETED"}, step: StepOrNull]
      BY StepsFacts DEF StatusOnNextStep, StepOrNull
    <3>3. StatusOnNextStep # "COMPLETED"
      BY DEF StatusOnNextStep
    <3>4. QED BY <3>1, <3>2, <3>3
  <2>2. CASE IsLast(k) /\ contact' = [contact EXCEPT ![c] = [status |-> "COMPLETED", step |-> 0]]
    <3>1. [status |-> "COMPLETED", step |-> 0] \in
            [status: {"ACTIVE", "COMPLETED"}, step: StepOrNull]
      BY DEF StepOrNull
    <3>2. QED BY <2>2, <3>1
  <2>3. QED BY <1>2, <2>1, <2>2 DEF SendAdvance
<1>4. /\ Continue(s, Idle) /\ UNCHANGED <<email, suppressed, conversation>>
      /\ overlapped \subseteq overlapped' /\ resent' = resent
  BY DEF SendAdvance, Finish, Continue, Handle
<1>5. contact'[c] = x /\ \A d \in Contacts : d # c => Same(d)
  BY <1>3, <1>4, ContactSame
<1>6. ASSUME c \notin overlapped' PROVE Sound(c)' /\ Kept(c)
  <2>1. Sound(c) /\ Fits(contact[c], email, resent, req[s], c)
    BY <1>1, <1>2, <1>4, <1>6, WhoFacts
  <2>2. /\ contact[c].status \in {"ACTIVE", "SCHEDULED"} \/ AnyOf(resent, c)
        /\ email[<<c, k>>].status = "SENT"
    BY <1>1, <1>2, <2>1 DEF Fits, WhoFits
  <2>3. ASSUME NEW j \in Steps, Waits(email, c, j), <<c, j>> \notin resent
        PROVE x.status = "ACTIVE" /\ ~email[<<c, j>>].sent
    <3>1. ~email[<<c, j>>].sent
      BY <2>1, <2>3 DEF Sound
    <3>2. email[<<c, j>>].status # "NONE" /\ j # k
      BY <2>2, <2>3 DEF Waits, CANCELLABLE_STATUSES
    <3>3. ~IsLast(k)
      BY <2>2, <3>1, <3>2, OthersWereSent
    <3>4. QED BY <1>3, <3>1, <3>3
  <2>4. c \in suppressed => AnyOf(resent, c)
    BY <2>1, <2>2 DEF Sound, Stopped
  <2>5. Sound(c)'
    BY <1>3, <1>4, <1>5, <2>3, <2>4 DEF Sound, Waits
  <2>6. Kept(c)
    BY <1>4, <2>2 DEF Kept, Stopped
  <2>7. QED BY <2>5, <2>6
<1>7. QED
  BY <1>1, <1>2, <1>4, <1>5, <1>6, WhoFacts, IdleIsInOrder, IdleIsScoped, WriteKeeps

\* A request begins: nothing is written, and what it holds must fit.
LEMMA BeginKeeps ==
    ASSUME IInv, RegularInv, NEW s \in Slots, NEW h \in Requests, Begin(s, h, {}), Scoped(h),
           UNCHANGED <<businessVars, overwritten>>,
           \A c \in Contacts \ overlapped : c \in h.scope => Fits(contact[c], email, resent, h, c)
    PROVE RegularInv' /\ Steady
<1>1. Handle(s, h) /\ overlapped \subseteq overlapped' /\ resent' = resent
  BY DEF Begin, Handle
<1>2. QED BY <1>1, ReadKeeps

\* A cancellation by company or of the whole sequence holds nothing at first.
LEMMA BeginCancelAllKeeps ==
    ASSUME IInv, RegularInv, NEW s \in Slots, BeginCancelAll(s) PROVE RegularInv' /\ Steady
<1> DEFINE new == [Idle EXCEPT !.pc = "cancelRead", !.op = "cancelAll", !.scope = Contacts]
<1>1. /\ new \in Requests /\ new.pc = "cancelRead" /\ new.op = "cancelAll"
      /\ new.rows = {} /\ new.list = {}
  BY DEF Idle, Requests, Points, StepOrNull, ContactStatus
<1>2. Begin(s, new, {}) /\ UNCHANGED <<businessVars, overwritten>>
  BY DEF BeginCancelAll
<1> HIDE DEF new
<1>3. Scoped(new) /\ \A c \in Contacts : Fits(contact[c], email, resent, new, c)
  BY <1>1 DEF Scoped, Fits, RowsFit, WhoFits, HoldsContact, HoldsStatus, HoldsStep
<1>4. QED BY <1>1, <1>2, <1>3, BeginKeeps

LEMMA BeginCompanyKeeps ==
    ASSUME IInv, RegularInv, NEW s \in Slots, BeginCompany(s) PROVE RegularInv' /\ Steady
<1> DEFINE new == [Idle EXCEPT !.pc = "cancelRead", !.op = "company", !.scope = Company]
<1>1. /\ new \in Requests /\ new.pc = "cancelRead" /\ new.op = "company"
      /\ new.rows = {} /\ new.list = {} /\ new.scope = Company
  BY ConstantsAssumption DEF Idle, Requests, Points, StepOrNull, ContactStatus
<1>2. Begin(s, new, {}) /\ UNCHANGED <<businessVars, overwritten>>
  BY DEF BeginCompany
<1> HIDE DEF new
<1>3. Scoped(new) /\ \A c \in Contacts : Fits(contact[c], email, resent, new, c)
  BY <1>1 DEF Scoped, Fits, RowsFit, WhoFits, HoldsContact, HoldsStatus, HoldsStep
<1>4. QED BY <1>1, <1>2, <1>3, BeginKeeps

\* A request about a contact that is in the sequence.
LEMMA AboutKeeps ==
    ASSUME IInv, RegularInv, NEW s \in Slots, NEW c \in Contacts,
           NEW op \in {"contact", "refer", "reply"},
           NEW p \in {"enrollments", "cancelRead", "converse"}, NEW status \in ContactStatus,
           p # "converse" => status \in Stopped, p = "enrollments" => op = "contact",
           Begin(s, About(c, op, p, status), {}), UNCHANGED <<businessVars, overwritten>>,
           c \notin overlapped => contact[c].status # "NONE"
    PROVE RegularInv' /\ Steady
<1> DEFINE new == About(c, op, p, status)
<1>1. /\ new \in Requests /\ new.pc = p /\ new.op = op /\ new.who = c /\ new.status = status
      /\ new.rows = {} /\ new.list = {} /\ new.scope = {c}
  BY DEF About, Idle, Requests, Points, StepOrNull
<1> HIDE DEF new
<1>2. Scoped(new)
  BY <1>1 DEF Scoped, HoldsContact, HoldsStatus, HoldsStep
<1>3. \A d \in Contacts \ overlapped : d \in new.scope => Fits(contact[d], email, resent, new, d)
  BY <1>1 DEF Fits, RowsFit, WhoFits
<1>4. Begin(s, new, {})
  BY DEF new
<1>5. QED BY <1>1, <1>2, <1>3, <1>4, BeginKeeps

LEMMA BeginDoNotContactKeeps ==
    ASSUME IInv, RegularInv, NEW s \in Slots, BeginDoNotContact(s) PROVE RegularInv' /\ Steady
<1>1. PICK c \in conversation \ suppressed :
        /\ Begin(s, About(c, "contact", "enrollments", "REMOVED"), {})
        /\ UNCHANGED <<businessVars, overwritten>>
  BY DEF BeginDoNotContact
<1>2. c \in Contacts /\ "REMOVED" \in ContactStatus /\ "REMOVED" \in Stopped
  BY DEF IInv, TypeOK, ContactStatus, Stopped
<1>3. c \notin overlapped => contact[c].status # "NONE"
  BY <1>2 DEF RegularInv, Sound
<1>4. QED BY <1>1, <1>2, <1>3, AboutKeeps

LEMMA BeginReferKeeps ==
    ASSUME IInv, RegularInv, NEW s \in Slots, BeginRefer(s) PROVE RegularInv' /\ Steady
<1>1. PICK c \in conversation :
        /\ Begin(s, About(c, "refer", "cancelRead", "REMOVED"), {})
        /\ UNCHANGED <<businessVars, overwritten>>
  BY DEF BeginRefer
<1>2. c \in Contacts /\ "REMOVED" \in ContactStatus /\ "REMOVED" \in Stopped
  BY DEF IInv, TypeOK, ContactStatus, Stopped
<1>3. c \notin overlapped => contact[c].status # "NONE"
  BY <1>2 DEF RegularInv, Sound
<1>4. QED BY <1>1, <1>2, <1>3, AboutKeeps

LEMMA BeginReplyKeeps ==
    ASSUME IInv, RegularInv, NEW s \in Slots, BeginReply(s) PROVE RegularInv' /\ Steady
<1>1. PICK r \in Row, status \in ReplyStatus :
        /\ email[r].status = "SENT"
        /\ Begin(s, About(r[1], "reply", IF status = "NONE" THEN "converse" ELSE "cancelRead",
                          status), {})
        /\ UNCHANGED <<businessVars, overwritten>>
  BY DEF BeginReply
<1>2. PICK c \in Contacts, k \in Steps : r = <<c, k>>
  BY DEF Row
<1> DEFINE p == IF status = "NONE" THEN "converse" ELSE "cancelRead"
<1>3. /\ p \in {"enrollments", "cancelRead", "converse"} /\ p # "enrollments"
      /\ p # "converse" => status \in Stopped
      /\ status \in ContactStatus
  BY DEF ReplyStatus, Stopped, ContactStatus
<1>4. Begin(s, About(c, "reply", p, status), {})
  BY <1>1, <1>2
<1> HIDE DEF p
<1>5. c \notin overlapped => contact[c].status # "NONE"
  BY <1>1, <1>2 DEF RegularInv, Sound
<1>6. QED BY <1>1, <1>3, <1>4, <1>5, AboutKeeps

LEMMA ReadEnrollmentsKeeps ==
    ASSUME IInv, RegularInv, NEW s \in Slots, ReadEnrollments(s) PROVE RegularInv' /\ Steady
<1>1. req[s] \in Requests /\ Scoped(req[s]) /\ HoldsContact(req[s]) /\ req[s].pc = "enrollments"
  BY RegularFacts DEF ReadEnrollments, At, HoldsContact
<1>2. PICK p \in {"cancelRead", "suppress"} :
        /\ Continue(s, [req[s] EXCEPT !.pc = p])
        /\ p = "suppress" => contact[req[s].who].status \notin Participating
  BY DEF ReadEnrollments, Goto
<1> DEFINE new == [req[s] EXCEPT !.pc = p]
<1>3. /\ new \in Requests /\ new.pc = p /\ new.op = req[s].op /\ new.who = req[s].who
      /\ new.status = req[s].status /\ new.rows = req[s].rows /\ new.list = req[s].list
      /\ new.scope = req[s].scope
  BY <1>1, <1>2 DEF Requests, Points
<1>4. /\ Handle(s, new) /\ UNCHANGED businessVars
      /\ overlapped \subseteq overlapped' /\ resent' = resent
  BY <1>2 DEF ReadEnrollments, Continue, Handle
<1> HIDE DEF new
<1>5. /\ HoldsStatus(req[s]) /\ req[s].rows = {} /\ req[s].list = {}
      /\ req[s].op = "contact" /\ req[s].who \in req[s].scope
  BY <1>1 DEF Scoped, HoldsStatus
<1>6. Scoped(new)
  BY <1>1, <1>2, <1>3, <1>5 DEF Scoped, HoldsContact, HoldsStatus, HoldsStep
<1>7. \A c \in Contacts \ overlapped' : c \in new.scope => Fits(contact[c], email, resent, new, c)
  <2>1. TAKE c \in Contacts \ overlapped'
  <2>2. HAVE c \in new.scope
  <2>3. /\ Fits(contact[c], email, resent, req[s], c)
        /\ contact[c] \in [status: ContactStatus, step: StepOrNull]
    BY <1>3, <1>4, <2>2, RegularFacts
  <2>4. RowsFit(contact[c], email, new, c)
    BY <1>2, <1>3 DEF RowsFit
  <2>5. CASE c = req[s].who
    <3>1. contact[c].status # "NONE"
      BY <1>1, <2>3, <2>5 DEF Fits, WhoFits
    <3>2. p = "suppress" => contact[c].status \in Stopped
      BY <1>2, <2>3, <2>5, <3>1
      DEF Participating, NON_ACTIVE_SEQUENCE_STATUSES, Stopped, ContactStatus
    <3>3. QED BY <1>2, <1>3, <2>4, <3>1, <3>2 DEF Fits, WhoFits
  <2>6. CASE c # req[s].who
    BY <1>3, <2>4, <2>6 DEF Fits, WhoFits
  <2>7. QED BY <2>5, <2>6
<1>8. QED BY <1>3, <1>4, <1>6, <1>7, ReadKeeps

\* Once no email of its contacts waits, a cancelling handler goes on.
LEMMA AfterCancelKeeps ==
    ASSUME NEW s \in Slots, req[s] \in Requests, Scoped(req[s]),
           req[s].pc \in {"cancelRead", "cancel"}
    PROVE /\ AfterCancel(s) \in Requests /\ Scoped(AfterCancel(s))
          /\ AfterCancel(s).scope \subseteq req[s].scope
          /\ \A x, e, a, c :
                          /\ c \in AfterCancel(s).scope
                          /\ Quiet(e, c)
                          /\ HoldsContact(req[s]) /\ req[s].who = c => x.status # "NONE"
                          => Fits(x, e, a, AfterCancel(s), c)
<1>1. CASE req[s].op = "cancelAll"
  BY <1>1, IdleIsInOrder, IdleIsScoped DEF AfterCancel
<1>2. CASE req[s].op # "cancelAll"
  <2> DEFINE p == IF req[s].op = "company" THEN "companyRead" ELSE "stop"
             new == [req[s] EXCEPT !.pc = p, !.rows = {}]
  <2>1. /\ new \in Requests /\ new.pc = p /\ new.op = req[s].op /\ new.who = req[s].who
        /\ new.status = req[s].status /\ new.rows = {} /\ new.list = req[s].list
        /\ new.scope = req[s].scope
    BY DEF Requests, Points
  <2>2. AfterCancel(s) = new
    BY <1>2 DEF AfterCancel
  <2> HIDE DEF new
  <2>3. req[s].list = {}
    BY DEF Scoped
  <2>4. req[s].op # "company" => HoldsContact(req[s]) /\ HoldsStatus(req[s])
    BY <1>2 DEF HoldsContact, HoldsStatus
  <2>5. Scoped(new)
    BY <2>1, <2>3, <2>4 DEF Scoped, HoldsContact, HoldsStatus, HoldsStep
  <2>6. ASSUME NEW x, NEW e, NEW a, NEW c, Quiet(e, c),
               HoldsContact(req[s]) /\ req[s].who = c => x.status # "NONE"
        PROVE Fits(x, e, a, new, c)
    <3>1. RowsFit(x, e, new, c)
      BY <2>1, <2>6 DEF RowsFit
    <3>2. WhoFits(x, e, a, new, c)
      BY <2>1, <2>4, <2>6 DEF WhoFits, HoldsContact
    <3>3. QED BY <3>1, <3>2 DEF Fits
  <2>7. QED BY <2>1, <2>2, <2>5, <2>6
<1>3. QED BY <1>1, <1>2

LEMMA CancelReadKeeps ==
    ASSUME IInv, RegularInv, NEW s \in Slots, CancelRead(s) PROVE RegularInv' /\ Steady
<1>1. req[s] \in Requests /\ Scoped(req[s]) /\ req[s].pc = "cancelRead"
  BY RegularFacts DEF CancelRead, At
<1> DEFINE found == {r \in Waiting : r[1] \in req[s].scope}
           new == [req[s] EXCEPT !.pc = "cancel", !.rows = found]
<1>2. UNCHANGED businessVars /\ overlapped \subseteq overlapped' /\ resent' = resent
  BY DEF CancelRead, Continue, Handle
<1>3. \A c \in Contacts \ overlapped' :
        c \in req[s].scope /\ HoldsContact(req[s]) /\ req[s].who = c => contact[c].status # "NONE"
  BY <1>1, <1>2, RegularFacts DEF Fits, WhoFits
<1>4. CASE found = {} /\ Handle(s, AfterCancel(s))
  <2>1. \A c \in req[s].scope : Quiet(email, c)
    <3>1. TAKE c \in req[s].scope
    <3>2. c \in Contacts
      BY <1>1 DEF Requests
    <3>3. \A k \in Steps : <<c, k>> \notin Waiting
      BY <1>4
    <3>4. QED BY <3>2, <3>3 DEF Quiet, Waits, Waiting, Row
  <2>2. QED BY <1>1, <1>2, <1>3, <1>4, <2>1, AfterCancelKeeps, ReadKeeps
<1>5. CASE Handle(s, new)
  <2>1. found \subseteq Row
    BY DEF Waiting
  <2>2. /\ new \in Requests /\ new.pc = "cancel" /\ new.op = req[s].op /\ new.who = req[s].who
        /\ new.status = req[s].status /\ new.rows = found /\ new.list = req[s].list
        /\ new.scope = req[s].scope
    BY <1>1, <2>1 DEF Requests, Points
  <2> HIDE DEF new
  <2>3. req[s].list = {}
    BY <1>1 DEF Scoped
  <2>4. HoldsContact(new) <=> HoldsContact(req[s])
    BY <1>1, <2>2 DEF HoldsContact
  <2>5. HoldsStatus(new) <=> HoldsStatus(req[s])
    BY <1>1, <2>2 DEF HoldsStatus
  <2>6. Scoped(new)
    BY <1>1, <2>2, <2>3, <2>4, <2>5 DEF Scoped, HoldsStep
  <2>7. \A c \in Contacts \ overlapped' : c \in new.scope => Fits(contact[c], email, resent, new, c)
    <3>1. TAKE c \in Contacts \ overlapped'
    <3>2. HAVE c \in new.scope
    <3>3. \A k \in Steps : Waits(email, c, k) <=> <<c, k>> \in found
      BY <2>2, <3>2 DEF Waits, Waiting, Row
    <3>4. RowsFit(contact[c], email, new, c)
      BY <2>2, <3>3 DEF RowsFit
    <3>5. WhoFits(contact[c], email, resent, new, c)
      BY <1>3, <2>2, <2>4, <3>2 DEF WhoFits
    <3>6. QED BY <3>4, <3>5 DEF Fits
  <2>8. QED BY <1>2, <1>5, <2>2, <2>6, <2>7, ReadKeeps
<1>6. QED BY <1>4, <1>5 DEF CancelRead, Continue

LEMMA CancelRowKeeps ==
    ASSUME IInv, RegularInv, NEW s \in Slots, CancelRow(s) PROVE RegularInv' /\ Steady
<1>1. req[s] \in Requests /\ Scoped(req[s]) /\ req[s].pc = "cancel"
  BY RegularFacts DEF CancelRow, At
<1>2. PICK r \in req[s].rows :
        /\ WriteEmail(r, [email[r] EXCEPT !.status = "CANCELLED"])
        /\ Continue(s, IF req[s].rows = {r} THEN AfterCancel(s)
                       ELSE [req[s] EXCEPT !.rows = @ \ {r}])
  BY DEF CancelRow
<1>3. PICK c \in Contacts, k \in Steps : r = <<c, k>>
  BY <1>1 DEF Requests, Row
<1> DEFINE new == [req[s] EXCEPT !.rows = @ \ {r}]
<1>4. /\ UNCHANGED <<contact, suppressed, conversation>>
      /\ overlapped \subseteq overlapped' /\ resent' = resent
  BY <1>2 DEF CancelRow, Continue, Handle
<1>5. email[r] \in Emails
  BY <1>3 DEF IInv, TypeOK, Row
<1>6. /\ email'[<<c, k>>].status = "CANCELLED"
      /\ \A j \in Steps : j # k => email'[<<c, j>>] = email[<<c, j>>]
      /\ \A d \in Contacts : d # c => Same(d)
  BY <1>2, <1>3, <1>4, <1>5, EmailSame DEF Emails
<1>7. c \in req[s].scope
  BY <1>1, <1>3 DEF Scoped
<1>8. ASSUME c \notin overlapped' PROVE Sound(c)' /\ Kept(c)
  <2>1. Sound(c) /\ Fits(contact[c], email, resent, req[s], c)
    BY <1>4, <1>7, <1>8, RegularFacts
  <2>2. Waits(email, c, k)
    BY <1>1, <1>3, <2>1 DEF Fits, RowsFit
  <2>3. Sound(c)'
    BY <1>4, <1>6, <2>1, <2>2 DEF Sound, Waits, CANCELLABLE_STATUSES
  <2>4. Kept(c)
    BY <1>4, <1>6, <2>2 DEF Kept, Waits, CANCELLABLE_STATUSES
  <2>5. QED BY <2>3, <2>4
<1>9. \A d \in Contacts \ overlapped', j \in Steps :
        d \in req[s].scope => (Waits(email', d, j) <=> <<d, j>> \in req[s].rows \ {r})
  <2>1. SUFFICES ASSUME NEW d \in Contacts \ overlapped', NEW j \in Steps, d \in req[s].scope
                 PROVE Waits(email', d, j) <=> <<d, j>> \in req[s].rows \ {r}
    OBVIOUS
  <2>2. Waits(email, d, j) <=> <<d, j>> \in req[s].rows
    BY <1>1, <1>4, <2>1, RegularFacts DEF Fits, RowsFit
  <2>3. CASE d = c /\ j = k
    BY <1>3, <1>6, <2>3 DEF Waits, CANCELLABLE_STATUSES
  <2>4. CASE ~(d = c /\ j = k)
    BY <1>3, <1>6, <2>2, <2>4 DEF Waits, Same
  <2>5. QED BY <2>3, <2>4
<1>10. \A d \in Contacts \ overlapped' :
         d \in req[s].scope /\ HoldsContact(req[s]) /\ req[s].who = d => contact[d].status # "NONE"
  BY <1>1, <1>4, RegularFacts DEF Fits, WhoFits
<1>11. \/ Handle(s, AfterCancel(s)) /\ req[s].rows = {r}
       \/ Handle(s, new)
  BY <1>2 DEF Continue
<1>12. /\ \A d \in Contacts : d \notin req[s].scope => Same(d)
       /\ \A d \in Contacts \ overlapped' : d \in req[s].scope => Sound(d)' /\ Kept(d)
  BY <1>4, <1>6, <1>7, <1>8, SameKeeps DEF RegularInv
<1>13. CASE Handle(s, AfterCancel(s)) /\ req[s].rows = {r}
  <2>1. \A d \in Contacts \ overlapped' : d \in req[s].scope => Quiet(email', d)
    BY <1>9, <1>13 DEF Quiet
  <2>2. \A d \in Contacts \ overlapped' :
          d \in AfterCancel(s).scope => Fits(contact'[d], email', resent', AfterCancel(s), d)
    BY <1>1, <1>4, <1>10, <2>1, AfterCancelKeeps
  <2>3. QED BY <1>1, <1>4, <1>12, <1>13, <2>2, AfterCancelKeeps, HandlerStep
<1>14. CASE Handle(s, new)
  <2>1. /\ new \in Requests /\ new.pc = "cancel" /\ new.op = req[s].op /\ new.who = req[s].who
        /\ new.status = req[s].status /\ new.rows = req[s].rows \ {r} /\ new.list = req[s].list
        /\ new.scope = req[s].scope
    BY <1>1 DEF Requests
  <2> HIDE DEF new
  <2>2. HoldsContact(new) <=> HoldsContact(req[s])
    BY <1>1, <2>1 DEF HoldsContact
  <2>3. HoldsStatus(new) <=> HoldsStatus(req[s])
    BY <1>1, <2>1 DEF HoldsStatus
  <2>4. Scoped(new)
    BY <1>1, <2>1, <2>2, <2>3 DEF Scoped, HoldsStep
  <2>5. \A d \in Contacts \ overlapped' : d \in new.scope => Fits(contact'[d], email', resent', new, d)
    <3>1. TAKE d \in Contacts \ overlapped'
    <3>2. HAVE d \in new.scope
    <3>3. RowsFit(contact'[d], email', new, d)
      BY <1>9, <2>1, <3>2 DEF RowsFit
    <3>4. WhoFits(contact'[d], email', resent', new, d)
      BY <1>4, <1>10, <2>1, <2>2, <3>2 DEF WhoFits
    <3>5. QED BY <3>3, <3>4 DEF Fits
  <2>6. QED BY <1>4, <1>12, <1>14, <2>1, <2>4, <2>5, HandlerStep
<1>15. QED BY <1>11, <1>13, <1>14

\* A status that stops the contact, written with none of its emails waiting.
LEMMA StopKeeps ==
    ASSUME IInv, NEW c \in Contacts, NEW status \in Stopped, WriteStatus(c, status),
           UNCHANGED <<email, suppressed, conversation>>, Sound(c), Quiet(email, c)
    PROVE Sound(c)' /\ Kept(c)
<1>1. contact'[c].status \in Stopped
  BY StatusSame
<1>2. Sound(c)'
  BY <1>1 DEF Sound, Quiet, Waits, Stopped
<1>3. Kept(c)
  BY <1>1 DEF Kept
<1>4. QED BY <1>2, <1>3

LEMMA StopContactKeeps ==
    ASSUME IInv, RegularInv, NEW s \in Slots, StopContact(s) PROVE RegularInv' /\ Steady
<1>1. req[s] \in Requests /\ Scoped(req[s]) /\ HoldsContact(req[s]) /\ req[s].pc = "stop"
  BY RegularFacts DEF StopContact, At, HoldsContact
<1>2. PICK c \in Contacts : c = req[s].who
  BY <1>1, WhoFacts
<1>3. /\ c \in req[s].scope /\ req[s].status \in Stopped
      /\ req[s].rows = {} /\ req[s].list = {}
  BY <1>1, <1>2 DEF Scoped, HoldsStatus
<1>4. PICK p \in {"suppress", "converse", "enrol"} : Continue(s, [req[s] EXCEPT !.pc = p])
  BY DEF StopContact, Goto
<1> DEFINE new == [req[s] EXCEPT !.pc = p]
<1>5. /\ new \in Requests /\ new.pc = p /\ new.who = c /\ new.rows = {} /\ new.list = {}
      /\ new.scope = req[s].scope
  BY <1>1, <1>2, <1>3, <1>4 DEF Requests, Points
<1>6. Continue(s, new)
  BY <1>4
<1> HIDE DEF new
<1>7. /\ WriteStatus(c, req[s].status) /\ UNCHANGED <<email, suppressed, conversation>>
      /\ overlapped \subseteq overlapped' /\ resent' = resent
  BY <1>2, <1>6 DEF StopContact, Continue, Handle
<1>8. Scoped(new)
  BY <1>3, <1>4, <1>5 DEF Scoped, HoldsContact, HoldsStatus, HoldsStep
<1>9. contact'[c].status \in Stopped /\ \A d \in Contacts : d # c => Same(d)
  BY <1>3, <1>7, StatusSame
<1>10. ASSUME c \notin overlapped'
       PROVE Sound(c)' /\ Kept(c) /\ Fits(contact'[c], email', resent', new, c)
  <2>1. Sound(c) /\ Fits(contact[c], email, resent, req[s], c)
    BY <1>1, <1>2, <1>7, <1>10, WhoFacts
  <2>2. Quiet(email, c)
    BY <1>1, <2>1 DEF Fits, RowsFit
  <2>3. Sound(c)' /\ Kept(c)
    BY <1>3, <1>7, <2>1, <2>2, StopKeeps
  <2>4. Fits(contact'[c], email', resent', new, c)
    BY <1>4, <1>5, <1>9 DEF Fits, RowsFit, WhoFits, Stopped
  <2>5. QED BY <2>3, <2>4
<1>11. \A d \in Contacts : d # c => Fits(contact[d], email, resent, new, d)
  BY <1>4, <1>5 DEF Fits, RowsFit, WhoFits
<1>12. QED BY <1>3, <1>5, <1>6, <1>8, <1>9, <1>10, <1>11, WriteKeeps

LEMMA SuppressKeeps ==
    ASSUME IInv, RegularInv, NEW s \in Slots, Suppress(s) PROVE RegularInv' /\ Steady
<1>1. req[s] \in Requests /\ Scoped(req[s]) /\ HoldsContact(req[s]) /\ req[s].pc = "suppress"
  BY RegularFacts DEF Suppress, At, HoldsContact
<1>2. PICK c \in Contacts : c = req[s].who
  BY <1>1, WhoFacts
<1>3. c \in req[s].scope /\ req[s].rows = {} /\ req[s].list = {}
  BY <1>1, <1>2 DEF Scoped
<1> DEFINE new == [req[s] EXCEPT !.pc = "converse"]
<1>4. /\ new \in Requests /\ new.pc = "converse" /\ new.who = c
      /\ new.rows = {} /\ new.list = {} /\ new.scope = req[s].scope
  BY <1>1, <1>2, <1>3 DEF Requests, Points
<1>5. PICK h \in {Idle, new} : Continue(s, h)
  BY DEF Suppress, Goto, Finish
<1> HIDE DEF new
<1>6. /\ suppressed' = suppressed \cup {c} /\ UNCHANGED <<contact, email, conversation>>
      /\ overlapped \subseteq overlapped' /\ resent' = resent
  BY <1>2, <1>5 DEF Suppress, Continue, Handle
<1>7. Scoped(new)
  BY <1>3, <1>4 DEF Scoped, HoldsContact, HoldsStatus, HoldsStep
<1>8. h \in Requests /\ Scoped(h)
  BY <1>4, <1>5, <1>7, IdleIsInOrder, IdleIsScoped
<1>9. \A d \in Contacts : d # c => Same(d)
  BY <1>6 DEF Same
<1>10. ASSUME c \notin overlapped'
       PROVE Sound(c)' /\ Kept(c) /\ Fits(contact'[c], email', resent', new, c)
  <2>1. Sound(c) /\ Fits(contact[c], email, resent, req[s], c)
    BY <1>1, <1>2, <1>6, <1>10, WhoFacts
  <2>2. contact[c].status \in Stopped
    BY <1>1, <1>2, <2>1 DEF Fits, WhoFits
  <2>3. Sound(c)'
    BY <1>6, <2>1, <2>2 DEF Sound, Waits
  <2>4. Kept(c)
    BY <1>6 DEF Kept
  <2>5. Fits(contact'[c], email', resent', new, c)
    BY <1>4, <1>6, <2>2 DEF Fits, RowsFit, WhoFits, Stopped
  <2>6. QED BY <2>3, <2>4, <2>5
<1>11. \A d \in Contacts : d # c => Fits(contact[d], email, resent, new, d)
  BY <1>4 DEF Fits, RowsFit, WhoFits
<1>12. /\ c \notin overlapped' => /\ Sound(c)' /\ Kept(c)
                                  /\ c \in h.scope => Fits(contact'[c], email', resent', h, c)
       /\ \A d \in Contacts \ overlapped' :
            d \in h.scope /\ d # c => Fits(contact[d], email, resent, h, d)
  BY <1>5, <1>10, <1>11, IdleIsScoped
<1>13. QED BY <1>3, <1>5, <1>8, <1>9, <1>12, WriteKeeps

LEMMA ConverseKeeps ==
    ASSUME IInv, RegularInv, NEW s \in Slots, Converse(s) PROVE RegularInv' /\ Steady
<1>1. HoldsContact(req[s]) /\ req[s].pc = "converse"
  BY DEF Converse, At, HoldsContact
<1>2. PICK c \in Contacts : c = req[s].who
  BY <1>1, WhoFacts
<1>3. /\ conversation' = conversation \cup {c} /\ UNCHANGED <<contact, email, suppressed>>
      /\ Continue(s, Idle) /\ overlapped \subseteq overlapped' /\ resent' = resent
  BY <1>2 DEF Converse, Finish, Continue, Handle
<1>4. c \in req[s].scope
  BY <1>1, <1>2, WhoFacts
<1>5. \A d \in Contacts : d # c => Same(d)
  BY <1>3 DEF Same
<1>6. ASSUME c \notin overlapped' PROVE Sound(c)' /\ Kept(c)
  <2>1. Sound(c) /\ Fits(contact[c], email, resent, req[s], c)
    BY <1>1, <1>2, <1>3, <1>6, WhoFacts
  <2>2. contact[c].status # "NONE"
    BY <1>1, <1>2, <2>1 DEF Fits, WhoFits
  <2>3. Sound(c)'
    BY <1>3, <2>1, <2>2 DEF Sound, Waits
  <2>4. Kept(c)
    BY <1>3 DEF Kept
  <2>5. QED BY <2>3, <2>4
<1>7. QED BY <1>3, <1>4, <1>5, <1>6, IdleIsInOrder, IdleIsScoped, WriteKeeps

LEMMA CompanyReadKeeps ==
    ASSUME IInv, RegularInv, NEW s \in Slots, CompanyRead(s) PROVE RegularInv' /\ Steady
<1>1. req[s] \in Requests /\ Scoped(req[s]) /\ req[s].pc = "companyRead"
  BY RegularFacts DEF CompanyRead, At
<1> DEFINE found == {c \in Company : contact[c].status \in Participating}
           new == [req[s] EXCEPT !.pc = "companyWrite", !.scope = found]
<1>2. req[s].rows = {} /\ req[s].list = {} /\ found \subseteq req[s].scope
  BY <1>1 DEF Scoped
<1>3. /\ new \in Requests /\ new.pc = "companyWrite" /\ new.rows = {} /\ new.list = {}
      /\ new.scope = found
  BY <1>1, <1>2, ConstantsAssumption DEF Requests, Points
<1>4. UNCHANGED businessVars
  BY DEF CompanyRead
<1>5. CASE Finish(s)
  BY <1>4, <1>5, FinishKeeps
<1>6. CASE Continue(s, new)
  <2>1. Handle(s, new) /\ overlapped \subseteq overlapped' /\ resent' = resent
    BY <1>6 DEF Continue, Handle
  <2> HIDE DEF new
  <2>2. Scoped(new)
    BY <1>3 DEF Scoped, HoldsContact, HoldsStatus, HoldsStep
  <2>3. \A c \in Contacts \ overlapped' : c \in new.scope => Fits(contact[c], email, resent, new, c)
    <3>1. TAKE c \in Contacts \ overlapped'
    <3>2. HAVE c \in new.scope
    <3>3. Fits(contact[c], email, resent, req[s], c)
      BY <1>2, <1>3, <2>1, <3>2, RegularFacts
    <3>4. QED BY <1>1, <1>3, <3>3 DEF Fits, RowsFit, WhoFits, HoldsContact
  <2>4. QED BY <1>3, <1>4, <2>1, <2>2, <2>3, ReadKeeps
<1>7. QED BY <1>5, <1>6 DEF CompanyRead

LEMMA CompanyWriteKeeps ==
    ASSUME IInv, RegularInv, NEW s \in Slots, CompanyWrite(s) PROVE RegularInv' /\ Steady
<1>1. req[s] \in Requests /\ Scoped(req[s]) /\ req[s].pc = "companyWrite"
  BY RegularFacts DEF CompanyWrite, At
<1>2. PICK c \in req[s].scope :
        /\ WriteStatus(c, "COMPLETED_MANUALLY")
        /\ IF req[s].scope = {c} THEN Finish(s)
           ELSE Continue(s, [req[s] EXCEPT !.scope = @ \ {c}])
  BY DEF CompanyWrite
<1> DEFINE new == [req[s] EXCEPT !.scope = @ \ {c}]
<1>3. c \in Contacts /\ req[s].rows = {} /\ req[s].list = {}
  BY <1>1 DEF Requests, Scoped
<1>4. /\ new \in Requests /\ new.pc = "companyWrite" /\ new.rows = {} /\ new.list = {}
      /\ new.scope = req[s].scope \ {c}
  BY <1>1, <1>3 DEF Requests
<1>5. PICK h \in {Idle, new} : Continue(s, h)
  BY <1>2 DEF Finish
<1> HIDE DEF new
<1>6. /\ UNCHANGED <<email, suppressed, conversation>>
      /\ overlapped \subseteq overlapped' /\ resent' = resent
  BY <1>5 DEF CompanyWrite, Continue, Handle
<1>7. Scoped(new)
  BY <1>4 DEF Scoped, HoldsContact, HoldsStatus, HoldsStep
<1>8. h \in Requests /\ Scoped(h) /\ c \notin h.scope
  BY <1>4, <1>5, <1>7, IdleIsInOrder, IdleIsScoped
<1>9. \A d \in Contacts : d # c => Same(d)
  BY <1>2, <1>3, <1>6, StatusSame
<1>10. \A d \in Contacts \ overlapped' : d \in req[s].scope => Sound(d) /\ Quiet(email, d)
  BY <1>1, <1>6, RegularFacts DEF Fits, RowsFit
<1>11. "COMPLETED_MANUALLY" \in Stopped
  BY DEF Stopped, ContactStatus
<1>12. c \notin overlapped' => Sound(c)' /\ Kept(c)
  BY <1>2, <1>3, <1>6, <1>10, <1>11, StopKeeps
<1>13. \A d \in Contacts \ overlapped' :
         d \in h.scope /\ d # c => Fits(contact[d], email, resent, h, d)
  <2>1. TAKE d \in Contacts \ overlapped'
  <2>2. HAVE d \in h.scope /\ d # c
  <2>3. h = new /\ d \in req[s].scope
    BY <1>4, <1>5, <2>2, IdleIsScoped
  <2>4. QED BY <1>4, <1>10, <2>3 DEF Fits, RowsFit, WhoFits, HoldsContact
<1>14. QED BY <1>3, <1>5, <1>8, <1>9, <1>12, <1>13, WriteKeeps

LEMMA ReferReadKeeps ==
    ASSUME IInv, RegularInv, NEW s \in Slots, ReferRead(s) PROVE RegularInv' /\ Steady
<1>1. req[s] \in Requests /\ Scoped(req[s]) /\ req[s].pc = "enrol"
  BY RegularFacts DEF ReferRead, At
<1>2. PICK c \in Contacts :
        IF contact[c].status = "NONE"
        THEN Continue(s, [req[s] EXCEPT !.pc = "enrolCreate", !.who = c, !.scope = {c}])
        ELSE Finish(s)
  BY DEF ReferRead
<1> DEFINE new == [req[s] EXCEPT !.pc = "enrolCreate", !.who = c, !.scope = {c}]
<1>3. /\ new \in Requests /\ new.pc = "enrolCreate" /\ new.who = c /\ new.rows = {}
      /\ new.list = {} /\ new.scope = {c}
  BY <1>1 DEF Scoped, Requests, Points
<1>4. UNCHANGED businessVars
  BY DEF ReferRead
<1>5. CASE Finish(s)
  BY <1>4, <1>5, FinishKeeps
<1>6. CASE Continue(s, new)
  <2>1. Handle(s, new) /\ resent' = resent
    BY <1>6 DEF Continue
  <2> HIDE DEF new
  <2>2. Scoped(new)
    BY <1>3 DEF Scoped, HoldsContact, HoldsStatus, HoldsStep
  <2>3. \A d \in Contacts : Fits(contact[d], email, resent, new, d)
    BY <1>3 DEF Fits, RowsFit, WhoFits
  <2>4. QED BY <1>3, <1>4, <2>1, <2>2, <2>3, ReadKeeps
<1>7. QED BY <1>2, <1>5, <1>6

\* Entering the sequence: the contact had no email, and nothing stops it.
LEMMA EnrolKeeps ==
    ASSUME IInv, NEW C \in SUBSET Contacts, NEW k \in Published, Enrol(C, k),
           NEW c \in C, contact[c].status = "NONE", Sound(c),
           UNCHANGED <<email, suppressed, conversation, resent>>
    PROVE Sound(c)' /\ Kept(c) /\ ActiveAt(contact'[c], k)
<1>1. contact'[c] = [status |-> "ACTIVE", step |-> k]
  BY DEF Enrol
<1>2. (c \in suppressed => AnyOf(resent, c)) /\ Quiet(email, c)
  BY DEF Sound, Quiet, Waits, CANCELLABLE_STATUSES, Stopped
<1>3. Sound(c)'
  BY <1>1, <1>2 DEF Sound, Quiet, Waits
<1>4. Kept(c)
  BY DEF Kept, Stopped
<1>5. QED BY <1>1, <1>3, <1>4 DEF ActiveAt

LEMMA ReferEnrolKeeps ==
    ASSUME IInv, RegularInv, NEW s \in Slots, ReferEnrol(s) PROVE RegularInv' /\ Steady
<1>1. req[s] \in Requests /\ Scoped(req[s]) /\ HoldsContact(req[s]) /\ req[s].pc = "enrolCreate"
  BY RegularFacts DEF ReferEnrol, At, HoldsContact
<1>2. UNCHANGED <<email, suppressed, conversation>>
  BY DEF ReferEnrol
<1>3. CASE Finish(s) /\ UNCHANGED contact
  BY <1>2, <1>3, FinishKeeps DEF businessVars
<1>4. CASE /\ contact[req[s].who].status = "NONE"
           /\ \E k \in Published :
                /\ Enrol({req[s].who}, k)
                /\ \/ Finish(s)
                   \/ Continue(s, [req[s] EXCEPT !.pc = "first", !.step = k])
  <2>1. PICK c \in Contacts : c = req[s].who /\ c \in req[s].scope
    BY <1>1, WhoFacts
  <2>2. PICK k \in Published :
          /\ Enrol({c}, k)
          /\ \/ Finish(s)
             \/ Continue(s, [req[s] EXCEPT !.pc = "first", !.step = k])
    BY <1>4, <2>1
  <2> DEFINE new == [req[s] EXCEPT !.pc = "first", !.step = k]
  <2>3. /\ new \in Requests /\ new.pc = "first" /\ new.who = c /\ new.step = k
        /\ new.rows = {} /\ new.list = {} /\ new.scope = req[s].scope
    BY <1>1, <2>1, StepsFacts DEF Scoped, Requests, Points, StepOrNull
  <2>4. PICK h \in {Idle, new} : Continue(s, h)
    BY <2>2 DEF Finish
  <2> HIDE DEF new
  <2>5. Scoped(new)
    BY <2>1, <2>3, StepsFacts DEF Scoped, HoldsContact, HoldsStatus, HoldsStep
  <2>6. h \in Requests /\ Scoped(h)
    BY <2>3, <2>4, <2>5, IdleIsInOrder, IdleIsScoped
  <2>7. \A d \in Contacts : d # c => Same(d)
    BY <1>2, <2>2 DEF Enrol, Same
  <2>8. overlapped \subseteq overlapped' /\ resent' = resent
    BY <2>4 DEF Continue, Handle
  <2>9. ASSUME c \notin overlapped'
        PROVE Sound(c)' /\ Kept(c) /\ Fits(contact'[c], email', resent', new, c)
    <3>1. Sound(c)
      BY <2>8, <2>9, RegularFacts
    <3>2. Sound(c)' /\ Kept(c) /\ ActiveAt(contact'[c], k)
      BY <1>2, <1>4, <2>1, <2>2, <2>8, <3>1, EnrolKeeps
    <3>3. Fits(contact'[c], email', resent', new, c)
      BY <2>3, <3>2 DEF Fits, RowsFit, WhoFits, ActiveAt
    <3>4. QED BY <3>2, <3>3
  <2>10. \A d \in Contacts : d # c => Fits(contact[d], email, resent, new, d)
    BY <2>3 DEF Fits, RowsFit, WhoFits
  <2>11. /\ c \notin overlapped' => /\ Sound(c)' /\ Kept(c)
                                    /\ c \in h.scope => Fits(contact'[c], email', resent', h, c)
         /\ \A d \in Contacts \ overlapped' :
              d \in h.scope /\ d # c => Fits(contact[d], email, resent, h, d)
    BY <2>4, <2>9, <2>10, IdleIsScoped
  <2>12. QED BY <2>1, <2>4, <2>6, <2>7, <2>11, WriteKeeps
<1>5. QED BY <1>3, <1>4 DEF ReferEnrol

LEMMA FirstCreateKeeps ==
    ASSUME IInv, RegularInv, NEW s \in Slots, FirstCreate(s) PROVE RegularInv' /\ Steady
<1>1. Scoped(req[s]) /\ HoldsContact(req[s]) /\ req[s].pc = "first"
  BY RegularFacts DEF FirstCreate, At, HoldsContact
<1>2. PICK c \in Contacts, k \in Steps : c = req[s].who /\ k = req[s].step
  BY <1>1, WhoFacts DEF Scoped, HoldsStep
<1>3. UNCHANGED <<contact, suppressed, conversation>> /\ c \in req[s].scope
  BY <1>1, <1>2, WhoFacts DEF FirstCreate
<1>4. CASE email[<<c, k>>].status # "NONE" /\ Finish(s) /\ UNCHANGED email
  BY <1>3, <1>4, FinishKeeps DEF businessVars
<1>5. CASE /\ email[<<c, k>>].status = "NONE"
           /\ WriteEmail(<<c, k>>, NewEmail)
           /\ Continue(s, Simulates(c, k, "read", "SENT"))
  <2> DEFINE new == Simulates(c, k, "read", "SENT")
  <2>1. /\ new \in Requests /\ new.pc = "read" /\ new.op = "send" /\ new.who = c /\ new.step = k
        /\ new.rows = {} /\ new.list = {} /\ new.scope = {c}
    BY DEF Simulates, Idle, Requests, Points, StepOrNull, EmailStatus
  <2>2. Continue(s, new) /\ overlapped \subseteq overlapped' /\ resent' = resent
    BY <1>5 DEF Continue, Handle
  <2> HIDE DEF new
  <2>3. Scoped(new)
    BY <2>1 DEF Scoped, HoldsContact, HoldsStatus, HoldsStep
  <2>4. /\ email'[<<c, k>>].status = "PENDING" /\ ~email'[<<c, k>>].sent
        /\ \A j \in Steps : j # k => email'[<<c, j>>] = email[<<c, j>>]
        /\ \A d \in Contacts : d # c => Same(d)
    BY <1>3, <1>5, EmailSame DEF NewEmail
  <2>5. ASSUME c \notin overlapped'
        PROVE Sound(c)' /\ Kept(c) /\ Fits(contact'[c], email', resent', new, c)
    <3>1. Sound(c) /\ Fits(contact[c], email, resent, req[s], c)
      BY <1>1, <1>2, <2>2, <2>5, WhoFacts
    <3>2. ActiveAt(contact[c], k)
      BY <1>1, <1>2, <3>1 DEF Fits, WhoFits
    <3>3. Sound(c)'
      BY <1>3, <1>5, <2>2, <2>4, <3>1, <3>2 DEF Sound, Waits, ActiveAt
    <3>4. Kept(c)
      BY <1>3, <1>5, <2>4 DEF Kept
    <3>5. Waits(email', c, k)
      BY <2>4 DEF Waits, CANCELLABLE_STATUSES
    <3>6. Fits(contact'[c], email', resent', new, c)
      BY <1>3, <2>1, <3>2, <3>5 DEF Fits, RowsFit, WhoFits, ActiveAt
    <3>7. QED BY <3>3, <3>4, <3>6
  <2>6. \A d \in Contacts : d # c => Fits(contact[d], email, resent, new, d)
    BY <2>1 DEF Fits, RowsFit, WhoFits
  <2>7. QED BY <1>3, <2>1, <2>2, <2>3, <2>4, <2>5, <2>6, WriteKeeps
<1>6. <<c, k>>[1] = c /\ <<c, k>>[2] = k
  OBVIOUS
<1>7. QED BY <1>2, <1>4, <1>5, <1>6 DEF FirstCreate

\* A transaction that writes the contacts in C: no handler has a regular one of them.
LEMMA TransactionStep ==
    ASSUME IInv, RegularInv, NEW C \in SUBSET Contacts, Transaction(C),
           \A c \in Contacts \ C : Same(c),
           \A c \in C \ overlapped' : Sound(c)' /\ Kept(c)
    PROVE RegularInv' /\ Steady
<1>1. UNCHANGED <<req, resent>> /\ overlapped \subseteq overlapped' /\ req \in [Slots -> Requests]
  BY DEF Transaction, IInv, TypeOK
<1>2. \A t \in Slots : req[t].scope \cap C \subseteq overlapped'
  BY DEF Transaction
<1>3. (\A t \in Slots : Scoped(req[t]))'
  BY <1>1 DEF RegularInv
<1>4. \A t, u \in Slots : t # u => req'[t].scope \cap req'[u].scope \subseteq overlapped'
  BY <1>1 DEF RegularInv
<1>5. \A c \in Contacts \ overlapped' : Sound(c)' /\ Kept(c)
  BY <1>1, SameKeeps DEF RegularInv
<1>6. \A t \in Slots, c \in Contacts \ overlapped' :
        c \in req'[t].scope => Fits(contact'[c], email', resent', req'[t], c)
  <2>1. SUFFICES ASSUME NEW t \in Slots, NEW c \in Contacts \ overlapped', c \in req'[t].scope
                 PROVE Fits(contact'[c], email', resent', req'[t], c)
    OBVIOUS
  <2>2. req'[t] = req[t] /\ req[t] \in Requests /\ c \notin C
    BY <1>1, <1>2, <2>1
  <2>3. Scoped(req[t]) /\ Fits(contact[c], email, resent, req[t], c)
    BY <1>1, <2>1, <2>2 DEF RegularInv
  <2>4. QED BY <1>1, <2>2, <2>3, SameKeeps
<1>7. QED BY <1>3, <1>4, <1>5, <1>6 DEF RegularInv, Steady

LEMMA ConfirmImportKeeps ==
    ASSUME IInv, RegularInv, ConfirmImport PROVE RegularInv' /\ Steady
<1>1. PICK C \in SUBSET {c \in Contacts : contact[c].status = "NONE"}, k \in Published :
        /\ Transaction(C) /\ Enrol(C, k)
        /\ UNCHANGED <<email, suppressed, conversation, overwritten>>
  BY DEF ConfirmImport
<1>2. C \in SUBSET Contacts /\ overlapped \subseteq overlapped' /\ resent' = resent
  BY <1>1 DEF Transaction
<1>3. \A c \in Contacts \ C : Same(c)
  BY <1>1 DEF Enrol, Same
<1>4. \A c \in C \ overlapped' : Sound(c)
  BY <1>2 DEF RegularInv
<1>5. \A c \in C \ overlapped' : Sound(c)' /\ Kept(c)
  BY <1>1, <1>2, <1>4, EnrolKeeps
<1>6. QED BY <1>1, <1>2, <1>3, <1>5, TransactionStep

\* Cancelling where an email waits leaves none of the contact's waiting.
LEMMA CancelWhereKeeps ==
    ASSUME IInv, NEW C, CancelWhere(C), NEW c \in Contacts
    PROVE /\ c \notin C => \A k \in Steps : email'[<<c, k>>] = email[<<c, k>>]
          /\ c \in C => Quiet(email', c)
          /\ \A k \in Steps :
               /\ email'[<<c, k>>].status = "NONE" <=> email[<<c, k>>].status = "NONE"
               /\ email[<<c, k>>].status = "SENT" => email'[<<c, k>>] = email[<<c, k>>]
<1>1. ASSUME NEW k \in Steps
      PROVE /\ <<c, k>> \in Row /\ email[<<c, k>>] \in Emails
            /\ email'[<<c, k>>] = IF Waits(email, c, k) /\ c \in C
                                  THEN [email[<<c, k>>] EXCEPT !.status = "CANCELLED"]
                                  ELSE email[<<c, k>>]
  <2>1. <<c, k>> \in Row
    BY DEF Row
  <2>2. email[<<c, k>>] \in Emails
    BY <2>1 DEF IInv, TypeOK
  <2>3. QED BY <2>1, <2>2 DEF CancelWhere, Waiting, Waits
<1>2. QED BY <1>1 DEF Quiet, Waits, CANCELLABLE_STATUSES, Emails

LEMMA RemoveKeeps ==
    ASSUME IInv, RegularInv, NEW C \in SUBSET Contacts, Remove(C) PROVE RegularInv' /\ Steady
<1>1. /\ Transaction(C) /\ CancelWhere(C) /\ UNCHANGED <<suppressed, conversation>>
      /\ overlapped \subseteq overlapped' /\ resent' = resent
  BY DEF Remove, Transaction
<1>2. contact \in [Contacts -> [status: ContactStatus, step: StepOrNull]]
  BY DEF IInv, TypeOK
<1>3. \A c \in Contacts : contact'[c] = IF c \in Removable(C)
                                       THEN [contact[c] EXCEPT !.status = "REMOVED"]
                                       ELSE contact[c]
  BY DEF Remove
<1>4. \A c \in Contacts \ C : Same(c)
  BY <1>1, <1>3, CancelWhereKeeps DEF Removable, Same
<1>5. \A c \in C \ overlapped' : Sound(c)' /\ Kept(c)
  <2>1. TAKE c \in C \ overlapped'
  <2>2. Sound(c)
    BY <1>1 DEF RegularInv
  <2>3. contact'[c].status \in {"NONE", "REMOVED"}
    BY <1>2, <1>3 DEF Removable
  <2>4. contact'[c].status = "NONE" => contact[c].status = "NONE"
    BY <1>2, <1>3
  <2>5. Quiet(email', c)
    BY <1>1, CancelWhereKeeps
  <2>6. \A k \in Steps : email[<<c, k>>].status = "NONE" => email'[<<c, k>>].status = "NONE"
    BY <1>1, CancelWhereKeeps
  <2>7. c \in suppressed => contact'[c].status \in Stopped \/ AnyOf(resent, c)
    BY <2>2, <2>3, <2>4 DEF Sound, Stopped, ContactStatus
  <2>8. Sound(c)'
    BY <1>1, <2>2, <2>3, <2>4, <2>5, <2>6, <2>7 DEF Sound, Quiet
  <2>9. Kept(c)
    <3>1. contact[c].status \in Stopped => contact'[c].status \in Stopped
      BY <2>3, <2>4 DEF Stopped, ContactStatus
    <3>2. QED BY <1>1, <3>1, CancelWhereKeeps DEF Kept
  <2>10. QED BY <2>8, <2>9
<1>6. QED BY <1>1, <1>4, <1>5, TransactionStep

LEMMA UnlinkMailboxKeeps ==
    ASSUME IInv, RegularInv, UnlinkMailbox PROVE RegularInv' /\ Steady
<1>1. /\ Transaction(Contacts) /\ CancelWhere(Contacts)
      /\ UNCHANGED <<contact, suppressed, conversation>>
      /\ overlapped \subseteq overlapped' /\ resent' = resent
  BY DEF UnlinkMailbox, Transaction
<1>2. contact \in [Contacts -> [status: ContactStatus, step: StepOrNull]]
  BY DEF IInv, TypeOK
<1>3. \A c \in Contacts \ overlapped' : Sound(c)' /\ Kept(c)
  <2>1. TAKE c \in Contacts \ overlapped'
  <2>2. Sound(c) /\ Quiet(email', c)
    BY <1>1, CancelWhereKeeps DEF RegularInv
  <2>3. \A k \in Steps :
          /\ email[<<c, k>>].status = "NONE" <=> email'[<<c, k>>].status = "NONE"
          /\ email[<<c, k>>].status = "SENT" => email'[<<c, k>>] = email[<<c, k>>]
    BY <1>1, CancelWhereKeeps
  <2>4. Sound(c)'
    BY <1>1, <2>2, <2>3 DEF Sound, Quiet
  <2>5. Kept(c)
    BY <1>1, <2>3 DEF Kept
  <2>6. QED BY <2>4, <2>5
<1>4. QED BY <1>1, <1>3, TransactionStep

LEMMA StutterKeeps ==
    ASSUME IInv, RegularInv, UNCHANGED vars PROVE RegularInv' /\ Steady
<1>1. UNCHANGED <<contact, email, suppressed, conversation, req, overlapped, resent>>
  BY DEF vars, businessVars, handlerVars
<1>2. RegularInv'
  BY <1>1 DEF RegularInv, Sound
<1>3. Steady
  BY <1>1 DEF Steady, Kept
<1>4. QED BY <1>2, <1>3

LEMMA NextKeeps ==
    ASSUME IInv, RegularInv, [Next]_vars PROVE RegularInv' /\ Steady
<1>1. CASE UNCHANGED vars
  BY <1>1, StutterKeeps
<1>2. ASSUME NEW s \in Slots,
             \/ BeginBatch(s) \/ BatchCheck(s) \/ BatchCap(s) \/ BatchCreate(s) \/ BatchMark(s)
             \/ BeginSend(s) \/ FailWrite(s) \/ SendRead(s) \/ SendWrite(s) \/ SendAdvance(s)
      PROVE RegularInv' /\ Steady
  BY <1>2, BeginBatchKeeps, BatchCheckKeeps, BatchCapKeeps, BatchCreateKeeps, BatchMarkKeeps,
     BeginSendKeeps, FailWriteKeeps, SendReadKeeps, SendWriteKeeps, SendAdvanceKeeps
<1>3. ASSUME NEW s \in Slots,
             \/ BeginCancelAll(s) \/ BeginCompany(s) \/ BeginDoNotContact(s) \/ BeginRefer(s)
             \/ BeginReply(s) \/ ReadEnrollments(s) \/ CancelRead(s) \/ CancelRow(s)
      PROVE RegularInv' /\ Steady
  BY <1>3, BeginCancelAllKeeps, BeginCompanyKeeps, BeginDoNotContactKeeps, BeginReferKeeps,
     BeginReplyKeeps, ReadEnrollmentsKeeps, CancelReadKeeps, CancelRowKeeps
<1>4. ASSUME NEW s \in Slots,
             \/ StopContact(s) \/ Suppress(s) \/ Converse(s) \/ CompanyRead(s) \/ CompanyWrite(s)
             \/ ReferRead(s) \/ ReferEnrol(s) \/ FirstCreate(s) \/ HandlerFails(s)
      PROVE RegularInv' /\ Steady
  BY <1>4, StopContactKeeps, SuppressKeeps, ConverseKeeps, CompanyReadKeeps, CompanyWriteKeeps,
     ReferReadKeeps, ReferEnrolKeeps, FirstCreateKeeps, HandlerFailsKeeps
<1>5. CASE RemoveContact \/ RemoveCompany
  BY <1>5, RemoveKeeps, ConstantsAssumption DEF RemoveContact, RemoveCompany, Removable
<1>6. CASE ConfirmImport \/ UnlinkMailbox
  BY <1>6, ConfirmImportKeeps, UnlinkMailboxKeeps
<1>7. QED BY <1>1, <1>2, <1>3, <1>4, <1>5, <1>6 DEF Next

LEMMA InitIsRegular == Init => RegularInv
<1>1. SUFFICES ASSUME Init PROVE RegularInv
  OBVIOUS
<1>2. \A s \in Slots : req[s] = Idle
  BY <1>1 DEF Init
<1>3. \A c \in Contacts, k \in Steps : email[<<c, k>>].status = "NONE"
  BY <1>1 DEF Init, Row
<1>4. \A c \in Contacts : Sound(c)
  BY <1>1, <1>3 DEF Init, Sound, Waits, CANCELLABLE_STATUSES
<1>5. QED BY <1>2, <1>4, IdleIsScoped DEF RegularInv

\* Both invariants hold throughout, and every step leaves the contacts one handler at a
\* time works on steady: a stopped one stays so unless an email of its was simulated
\* that no longer waited, and an email that is SENT unless it was simulated again.
THEOREM RegularThroughout == Spec => [](IInv /\ RegularInv) /\ [][Steady]_vars
<1>1. Init => IInv /\ RegularInv
  BY InitHolds, InitIsRegular
<1>2. IInv /\ RegularInv /\ [Next]_vars => IInv' /\ RegularInv' /\ Steady
  BY NextPreserves, NextKeeps
<1>3. QED BY <1>1, <1>2, PTL DEF Spec

\* The cancelFutureJobs family leaves no email of a stopped or suppressed contact to
\* be sent, wherever it fails, when one request at a time is about the contact, but for
\* the emails that are themselves simulated after they were sent, failed or cancelled,
\* and for the suppressed contacts that this makes ACTIVE again.
THEOREM StoppedIsQuiet == Spec => []QuietOnceStopped
<1>1. RegularInv => QuietOnceStopped
  <2>1. SUFFICES ASSUME RegularInv, NEW c \in Contacts \ overlapped, NEW k \in Steps,
                        Waits(email, c, k)
                 PROVE /\ contact[c].status \in Stopped => <<c, k>> \in resent
                       /\ c \in suppressed => c \in Resent
    BY DEF QuietOnceStopped, Waits, CANCELLABLE_STATUSES
  <2>2. Sound(c)
    BY <2>1 DEF RegularInv
  <2>3. AnyOf(resent, c) => c \in Resent
    BY DEF AnyOf, Resent
  <2>4. contact[c].status \in Stopped => <<c, k>> \in resent
    BY <2>1, <2>2 DEF Sound, Stopped
  <2>5. c \in suppressed => AnyOf(resent, c)
    BY <2>2, <2>4 DEF Sound, AnyOf
  <2>6. QED BY <2>3, <2>4, <2>5
<1>2. QED BY <1>1, RegularThroughout, PTL

\* createBatch marks a contact SCHEDULED with its email in the table, and whatever is
\* simulated again it keeps one, when one request at a time is about the contact.
THEOREM ScheduledIsBacked == Spec => []ScheduledHasItsEmail
<1>1. ASSUME RegularInv PROVE ScheduledHasItsEmail
  BY <1>1, StepsFacts DEF RegularInv, Sound, ScheduledHasItsEmail
<1>2. QED BY <1>1, RegularThroughout, PTL

\* When one request at a time is about a contact, none but a simulateSend of that very
\* email writes an email that is SENT.
THEOREM SentStaysSent == Spec => SentIsFinal
<1>1. Steady => \A r \in Row :
                  email[r].status = "SENT" /\ r[1] \notin overlapped' /\ r \notin resent =>
                    email'[r] = email[r]
  BY DEF Steady, Kept, Row
<1>2. QED BY <1>1, RegularThroughout, PTL DEF SentIsFinal

-----------------------------------------------------------------------------
(* The tables implement SequenceCourse.  One action alone adds to what was   *)
(* received, and both invariants say why it may: the steps before were sent, *)
(* and a contact no other handler works on has its email waiting, so that it *)
(* is not stopped.                                                           *)

\* An update that leaves sentAt as it was leaves what each contact received.
LEMMA UpdateKeepsReceived ==
    ASSUME IInv, NEW r \in Row, NEW new, WriteEmail(r, new), new.sent = email[r].sent
    PROVE UNCHANGED Received
<1>1. email' = [email EXCEPT ![r] = new] /\ email \in [Row -> Emails]
  BY DEF WriteEmail, IInv, TypeOK
<1>2. \A q \in Row : email'[q].sent = email[q].sent
  BY <1>1
<1>3. QED BY <1>2 DEF Received, Row

\* So does a cancellation by transaction.
LEMMA CancelWhereKeepsReceived ==
    ASSUME IInv, NEW C, CancelWhere(C) PROVE UNCHANGED Received
<1>1. email \in [Row -> Emails]
  BY DEF IInv, TypeOK
<1>2. \A q \in Row : email'[q].sent = email[q].sent
  BY <1>1 DEF CancelWhere, Emails
<1>3. QED BY <1>2 DEF Received, Row

\* A row that does not exist was not sent.
LEMMA NewEmailKeepsReceived ==
    ASSUME IInv, NEW r \in Row, email[r].status = "NONE", WriteEmail(r, NewEmail)
    PROVE UNCHANGED Received
<1>1. r[1] \in Contacts /\ r[2] \in Steps /\ r = <<r[1], r[2]>>
  BY DEF Row
<1>2. ~email[r].sent /\ email[r] \in Emails
  BY <1>1 DEF IInv, EmailsInOrder, TypeOK
<1>3. NewEmail.sent = email[r].sent
  BY <1>2 DEF NewEmail, Emails
<1>4. QED BY <1>3, UpdateKeepsReceived

\* The statements that write an email and send none.
LEMMA WritesKeepReceived ==
    ASSUME IInv, NEW s \in Slots,
           BatchCreate(s) \/ FailWrite(s) \/ CancelRow(s) \/ FirstCreate(s)
    PROVE UNCHANGED Received
<1>1. req[s] \in Requests /\ HandlerInOrder(email, overwritten, req[s])
  BY HandlerFacts
<1>2. \A r \in Row : email[r] \in Emails
  BY DEF IInv, TypeOK
<1>3. UNCHANGED email => UNCHANGED Received
  BY DEF Received
<1>4. CASE BatchCreate(s)
  <2>1. PICK r \in req[s].list :
          \/ email[r].status = "NONE" /\ WriteEmail(r, NewEmail)
          \/ UNCHANGED email
    BY <1>4 DEF BatchCreate
  <2>2. r \in Row
    BY <1>1 DEF Requests
  <2>3. QED BY <1>3, <2>1, <2>2, NewEmailKeepsReceived
<1>5. CASE FailWrite(s)
  <2>1. <<req[s].who, req[s].step>> \in Row
    BY <1>1, <1>5 DEF FailWrite, At, HandlerInOrder, HoldsContact, HoldsStep, Row
  <2>2. WriteEmail(<<req[s].who, req[s].step>>,
                   [email[<<req[s].who, req[s].step>>] EXCEPT !.status = req[s].status])
    BY <1>5 DEF FailWrite
  <2>3. [email[<<req[s].who, req[s].step>>] EXCEPT !.status = req[s].status].sent
          = email[<<req[s].who, req[s].step>>].sent
    BY <1>2, <2>1 DEF Emails
  <2>4. QED BY <2>1, <2>2, <2>3, UpdateKeepsReceived
<1>6. CASE CancelRow(s)
  <2>1. PICK r \in req[s].rows : WriteEmail(r, [email[r] EXCEPT !.status = "CANCELLED"])
    BY <1>6 DEF CancelRow
  <2>2. r \in Row
    BY <1>1 DEF Requests
  <2>3. [email[r] EXCEPT !.status = "CANCELLED"].sent = email[r].sent
    BY <1>2, <2>2 DEF Emails
  <2>4. QED BY <2>1, <2>2, <2>3, UpdateKeepsReceived
<1>7. CASE FirstCreate(s)
  <2>1. <<req[s].who, req[s].step>> \in Row
    BY <1>1, <1>7 DEF FirstCreate, At, HandlerInOrder, HoldsContact, HoldsStep, Row
  <2>2. \/ /\ email[<<req[s].who, req[s].step>>].status = "NONE"
           /\ WriteEmail(<<req[s].who, req[s].step>>, NewEmail)
        \/ UNCHANGED email
    BY <1>7 DEF FirstCreate
  <2>3. QED BY <1>3, <2>1, <2>2, NewEmailKeepsReceived
<1>8. QED BY <1>4, <1>5, <1>6, <1>7

\* Nothing but a simulated send gives a contact anything to receive.
LEMMA OnlySendsAreReceived ==
    ASSUME IInv, [Next]_vars, \A s \in Slots : ~SendWrite(s) PROVE UNCHANGED Received
<1>1. UNCHANGED email => UNCHANGED Received
  BY DEF Received
<1>2. CASE UNCHANGED vars
  BY <1>1, <1>2 DEF vars, businessVars
<1>3. ASSUME NEW s \in Slots,
             \/ BeginBatch(s) \/ BatchCheck(s) \/ BatchCap(s) \/ BatchMark(s)
             \/ BeginSend(s) \/ SendRead(s) \/ SendAdvance(s)
             \/ BeginCancelAll(s) \/ BeginCompany(s) \/ BeginDoNotContact(s) \/ BeginRefer(s)
      PROVE UNCHANGED email
  BY <1>3 DEF BeginBatch, BatchCheck, BatchCap, BatchMark, BeginSend, SendRead, SendAdvance,
              BeginCancelAll, BeginCompany, BeginDoNotContact, BeginRefer, businessVars
<1>4. ASSUME NEW s \in Slots,
             \/ BeginReply(s) \/ ReadEnrollments(s) \/ CancelRead(s)
             \/ StopContact(s) \/ Suppress(s) \/ Converse(s) \/ CompanyRead(s) \/ CompanyWrite(s)
             \/ ReferRead(s) \/ ReferEnrol(s) \/ HandlerFails(s)
      PROVE UNCHANGED email
  BY <1>4 DEF BeginReply, ReadEnrollments, CancelRead, StopContact, Suppress, Converse,
              CompanyRead, CompanyWrite, ReferRead, ReferEnrol, HandlerFails, businessVars
<1>5. CASE ConfirmImport
  BY <1>1, <1>5 DEF ConfirmImport
<1>6. CASE RemoveContact \/ RemoveCompany \/ UnlinkMailbox
  BY <1>6, CancelWhereKeepsReceived
  DEF RemoveContact, RemoveCompany, Remove, UnlinkMailbox
<1>7. QED BY <1>1, <1>2, <1>3, <1>4, <1>5, <1>6, WritesKeepReceived DEF Next

\* What overlapped, and what was simulated again, is not forgotten.
Grown == overlapped \subseteq overlapped' /\ resent \subseteq resent'

LEMMA ExceptionsGrow == ASSUME [Next]_vars PROVE Grown
<1>1. ASSUME NEW s \in Slots, NEW r, Handle(s, r)
      PROVE overlapped \subseteq overlapped'
  BY <1>1 DEF Handle
<1>2. ASSUME NEW s \in Slots, NEW r, Continue(s, r) PROVE Grown
  BY <1>1, <1>2 DEF Continue, Grown
<1>3. ASSUME NEW s \in Slots, Finish(s) \/ \E p \in Points : Goto(s, p)
      PROVE Grown
  BY <1>2, <1>3 DEF Finish, Goto
<1>4. ASSUME NEW s \in Slots, NEW r, NEW again, Begin(s, r, again)
      PROVE Grown
  BY <1>1, <1>4 DEF Begin, Grown
<1>5. ASSUME NEW C, Transaction(C) PROVE Grown
  BY <1>5 DEF Transaction, Grown
<1>6. CASE UNCHANGED vars
  BY <1>6 DEF vars, handlerVars, Grown
<1>7. ASSUME NEW s \in Slots,
             BeginBatch(s) \/ BeginSend(s) \/ BeginCancelAll(s) \/ BeginCompany(s)
               \/ BeginDoNotContact(s) \/ BeginRefer(s) \/ BeginReply(s)
      PROVE Grown
  BY <1>4, <1>7 DEF BeginBatch, BeginSend, BeginCancelAll, BeginCompany, BeginDoNotContact,
                    BeginRefer, BeginReply
<1>8. ASSUME NEW s \in Slots,
             BatchCheck(s) \/ BatchCap(s) \/ BatchCreate(s) \/ BatchMark(s) \/ FailWrite(s)
               \/ SendRead(s) \/ SendWrite(s) \/ SendAdvance(s) \/ CancelRead(s) \/ CancelRow(s)
      PROVE Grown
  BY <1>2, <1>8 DEF BatchCheck, BatchCap, BatchCreate, BatchMark, FailWrite, SendRead, SendWrite,
                    SendAdvance, CancelRead, CancelRow, Finish, Goto
<1>9. ASSUME NEW s \in Slots,
             ReadEnrollments(s) \/ StopContact(s) \/ Suppress(s) \/ Converse(s)
               \/ CompanyRead(s) \/ CompanyWrite(s) \/ ReferRead(s) \/ ReferEnrol(s)
               \/ FirstCreate(s) \/ HandlerFails(s)
      PROVE Grown
  BY <1>2, <1>9 DEF ReadEnrollments, StopContact, Suppress, Converse, CompanyRead, CompanyWrite,
                    ReferRead, ReferEnrol, FirstCreate, HandlerFails, Finish, Goto
<1>10. CASE ConfirmImport \/ RemoveContact \/ RemoveCompany \/ UnlinkMailbox
  BY <1>5, <1>10 DEF ConfirmImport, RemoveContact, RemoveCompany, Remove, UnlinkMailbox
<1>11. QED BY <1>6, <1>7, <1>8, <1>9, <1>10 DEF Next

\* What is sent is received in its turn, and by a contact that still takes part.
LEMMA SendIsReceived ==
    ASSUME IInv, RegularInv, NEW s \in Slots, SendWrite(s)
    PROVE UNCHANGED Received \/ \E c \in Contacts, k \in Steps : Sequence!Receive(c, k)
<1>1. /\ req[s] \in Requests /\ Scoped(req[s]) /\ HoldsContact(req[s]) /\ req[s].pc = "write"
      /\ HandlerInOrder(email, overwritten, req[s])
  BY RegularFacts, HandlerFacts DEF SendWrite, At, HoldsContact
<1>2. PICK c \in Contacts, k \in Steps : c = req[s].who /\ k = req[s].step
  BY <1>1, WhoFacts DEF Scoped, HoldsStep
<1>3. email \in [Row -> Emails] /\ <<c, k>> \in Row
  BY DEF IInv, TypeOK, Row
<1>4. email' = [email EXCEPT ![<<c, k>>] =
                  [status |-> "SENT", sent |-> TRUE, reply |-> req[s].reply]]
  BY <1>2 DEF SendWrite, WriteEmail
<1>5. /\ email'[<<c, k>>].sent
      /\ \A d \in Contacts, j \in Steps :
           d # c \/ j # k => email'[<<d, j>>].sent = email[<<d, j>>].sent
  BY <1>3, <1>4 DEF Row
<1>6. CASE email[<<c, k>>].sent
  <2>1. \A d \in Contacts, j \in Steps : email'[<<d, j>>].sent <=> email[<<d, j>>].sent
    BY <1>5, <1>6
  <2>2. QED BY <2>1 DEF Received
<1>7. CASE ~email[<<c, k>>].sent
  <2>1. k \notin Received[c]
    BY <1>7 DEF Received
  <2>2. {j \in Course : j < k} \subseteq Received[c]
    BY <1>1, <1>2, StepsFacts DEF HandlerInOrder, HoldsStep, Earlier, Received
  <2>3. c \in WithStatus(Stopped) => c \in overlapped \cup Resent
    <3>1. SUFFICES ASSUME c \notin overlapped, c \notin Resent
                   PROVE contact[c].status \notin Stopped
      BY DEF WithStatus
    <3>2. Sound(c) /\ Fits(contact[c], email, resent, req[s], c)
      BY <1>1, <1>2, <3>1, WhoFacts
    <3>3. <<c, k>> \notin resent
      BY <3>1 DEF Resent
    <3>4. Waits(email, c, k)
      BY <1>1, <1>2, <3>2, <3>3 DEF Fits, WhoFits
    <3>5. QED BY <3>2, <3>3, <3>4 DEF Sound, Stopped
  <2>4. Received' = [Received EXCEPT ![c] = @ \cup {k}]
    <3>1. Received'[c] = Received[c] \cup {k}
      BY <1>5 DEF Received
    <3>2. \A d \in Contacts : d # c => Received'[d] = Received[d]
      BY <1>5 DEF Received
    <3>3. QED BY <3>1, <3>2 DEF Received
  <2>5. UNCHANGED <<WithStatus(Stopped), WithStatus({"COMPLETED"}), overlapped \cup Resent>>
    <3>1. contact' = contact /\ resent' = resent /\ Handle(s, [req[s] EXCEPT !.pc = "advance"])
      BY DEF SendWrite, Goto, Continue
    <3>2. [req[s] EXCEPT !.pc = "advance"].scope = req[s].scope
      BY <1>1 DEF Requests
    <3>3. req[s].scope \cap InHand(s) \subseteq overlapped
      BY DEF InHand, RegularInv
    <3>4. QED BY <3>1, <3>2, <3>3 DEF WithStatus, Handle, Resent
  <2>6. Sequence!Receive(c, k)
    BY <2>1, <2>2, <2>3, <2>4, <2>5 DEF Sequence!Receive
  <2>7. QED BY <2>6
<1>8. QED BY <1>6, <1>7

\* Every other step moves contacts and handlers only.
LEMMA StepMoves ==
    ASSUME IInv', Steady, [Next]_vars, UNCHANGED Received PROVE Sequence!Move
<1>1. overlapped \cup Resent \subseteq (overlapped \cup Resent)'
  BY ExceptionsGrow DEF Grown, Resent
<1>2. WithStatus(Stopped) \subseteq WithStatus(Stopped)' \cup (overlapped \cup Resent)'
  <2>1. SUFFICES ASSUME NEW c \in Contacts \ overlapped', contact[c].status \in Stopped
                 PROVE contact'[c].status \in Stopped \/ c \in Resent'
    BY DEF WithStatus
  <2>2. Kept(c)
    BY <2>1 DEF Steady
  <2>3. ASSUME NEW k \in Steps, <<c, k>> \in resent' PROVE c \in Resent'
    <3>1. <<c, k>>[1] = c
      OBVIOUS
    <3>2. QED BY <2>3, <3>1 DEF Resent
  <2>4. QED BY <2>1, <2>2, <2>3 DEF Kept, AnyOf
<1>3. WithStatus({"COMPLETED"})' \subseteq WithStatus(Stopped)'
  BY DEF WithStatus, Stopped, ContactStatus
<1>4. \A c \in WithStatus({"COMPLETED"})' : Course \subseteq Received[c]
  <2>1. SUFFICES ASSUME NEW c \in Contacts, contact'[c].status = "COMPLETED", NEW j \in Course
                 PROVE j \in Received'[c]
    BY DEF WithStatus
  <2>2. email'[<<c, j>>].sent
    BY <2>1 DEF IInv, ContactInOrder
  <2>3. QED BY <2>2, StepsFacts DEF Received
<1>5. QED BY <1>1, <1>2, <1>3, <1>4 DEF Sequence!Move

\* Whatever handlers interleave, fail and repeat, the emails of a sequence and its
\* contacts behave as a course: in order, and whole once COMPLETED; and over once
\* stopped, but for the contacts about which requests overlapped and those that a
\* simulateSend, alone or not, took an email of that no longer waited.
THEOREM ImplementsSequenceCourse == Spec => ImplementsCourse
<1>1. Init => Sequence!Init
  BY DEF Init, Sequence!Init, Received, Resent, WithStatus, Stopped, ContactStatus, Row
<1>2. IInv /\ RegularInv /\ IInv' /\ [Next]_vars /\ Steady => [Sequence!Next]_Sequence!cvars
  <2>1. SUFFICES ASSUME IInv, RegularInv, IInv', [Next]_vars, Steady PROVE Sequence!Next
    OBVIOUS
  <2>2. CASE \E s \in Slots : SendWrite(s)
    BY <2>1, <2>2, SendIsReceived, StepMoves DEF Sequence!Next
  <2>3. CASE \A s \in Slots : ~SendWrite(s)
    BY <2>1, <2>3, OnlySendsAreReceived, StepMoves DEF Sequence!Next
  <2>4. QED BY <2>2, <2>3
<1>3. IInv /\ RegularInv /\ [Next]_vars => IInv' /\ RegularInv' /\ Steady
  BY NextPreserves, NextKeeps
<1>4. QED
  BY <1>1, <1>2, <1>3, RegularThroughout, PTL DEF Spec, ImplementsCourse, Sequence!Spec
=============================================================================

------------------------ MODULE TemplatePublication ------------------------
(***************************************************************************)
(* One Plantilla (SequenceTemplate row with its three envios), its         *)
(* versions and the remote template motor they are published to.  As in    *)
(* GestionSubmission, slots serve requests concurrently, one action per    *)
(* database statement or motor call.  The motor answers an idempotency key *)
(* once and replays that answer, so the serverTemplateId created for a key *)
(* is named by the key.  The content (subject, header and envios) is       *)
(* abstracted to whether validateForPublish finds it valid.                *)
(***************************************************************************)
EXTENDS Naturals, Sequences, FiniteSets

CONSTANTS
    Slots,        \* requests that can be in progress at once
    Keys,         \* Idempotency-Key header values
    None,         \* SQL NULL
    Ops,          \* the operations clients call
    Faults,       \* what may go wrong besides a motor that does not answer
    MaxVersions   \* bound on the versions a template gets

ASSUME ConstantsAssumption ==
    /\ None \notin Keys \cup Nat
    /\ Ops \subseteq {"publish", "republish", "edit", "archive", "reopen", "delete"}
    /\ Faults \subseteq {"crash", "db"}
    /\ MaxVersions \in Nat \ {0}

VARIABLES
    tpl,          \* the sequence_templates row and its envios
    versions,     \* its sequence_template_versions, by versionNumber
    req,          \* what each slot is doing
    net,          \* keys of the publish calls on their way to the motor
    answers,      \* the motor's answer to each key
    interrupted   \* auxiliary: a restart, or a failure of the catch's own write

vars == <<tpl, versions, req, net, answers, interrupted>>
motorVars == <<net, answers>>

-----------------------------------------------------------------------------
Statuses == {"DRAFT", "PUBLISHING", "PUBLISHED", "PUBLISH_FAILED", "ARCHIVED"}

Templates == [exists: BOOLEAN, hidden: BOOLEAN, status: Statuses,
              steps: {"none", "invalid", "valid"}]

\* hidden is deletedAt # NULL; steps is the content: "none" once its envios are
\* deleted, else whether it is valid.

VersionRows == [status: {"REQUESTED", "ACCEPTED", "FAILED"}, serverId: Keys \cup {None},
                previous: Nat \cup {None}]

\* Between the claim and the last write of a publication.
Claimed == {"steps", "number", "create", "send", "calling", "save", "final", "catch"}
Points == Claimed \cup
          {"idle", "latest", "validate", "claim", "audit", "edit", "archive", "reopen",
           "dropSteps", "dropRow", "hide", "retire"}

Requests == [pc: Points, kind: {"publish", "republish"}, key: Keys \cup {None},
             previous: Nat \cup {None}, number: Nat, accepted: BOOLEAN]

Idle == [pc |-> "idle", kind |-> "publish", key |-> None, previous |-> None,
         number |-> 0, accepted |-> FALSE]

Init ==
    /\ \E steps \in {"invalid", "valid"} :
         tpl = [exists |-> TRUE, hidden |-> FALSE, status |-> "DRAFT", steps |-> steps]
    /\ versions = <<>>
    /\ req = [s \in Slots |-> Idle]
    /\ net = {}
    /\ answers = [k \in Keys |-> "NONE"]
    /\ interrupted = FALSE

Goto(s, p) == req' = [req EXCEPT ![s].pc = p]
Finish(s) == req' = [req EXCEPT ![s] = Idle]
\* requireOwned: a logically deleted template is not found.
Found(s, op) == op \in Ops /\ req[s].pc = "idle" /\ tpl.exists /\ ~tpl.hidden

AcceptedVersions == {i \in DOMAIN versions : versions[i].status = "ACCEPTED"}
IsLatestAccepted(i) == i \in AcceptedVersions /\ \A j \in AcceptedVersions : j <= i

\* The bound MaxVersions counts the publications that may still add a version.
RoomForVersion ==
    Len(versions) + Cardinality({s \in Slots : req[s].pc \in
        {"latest", "validate", "claim", "steps", "number", "create"}}) < MaxVersions

-----------------------------------------------------------------------------
(* PublishSequenceTemplateUseCase and UpdateSequenceTemplateUseCase: the    *)
(* second ("republish") asks for PUBLISHED and an accepted version first,   *)
(* and gives the template back as PUBLISHED whatever happens.               *)

PublishRead(s) ==
    /\ Found(s, "publish") /\ RoomForVersion
    /\ \E k \in Keys :
         req' = [req EXCEPT ![s] = [Idle EXCEPT !.pc = "validate", !.kind = "publish", !.key = k]]
    /\ UNCHANGED <<tpl, versions, motorVars, interrupted>>

RepublishRead(s) ==
    /\ Found(s, "republish") /\ RoomForVersion
    /\ tpl.status = "PUBLISHED"
    /\ \E k \in Keys :
         req' = [req EXCEPT ![s] = [Idle EXCEPT !.pc = "latest", !.kind = "republish", !.key = k]]
    /\ UNCHANGED <<tpl, versions, motorVars, interrupted>>

RepublishReadsLatest(s) ==
    /\ req[s].pc = "latest"
    /\ \/ AcceptedVersions = {} /\ Finish(s)
       \/ \E i \in DOMAIN versions :
            /\ IsLatestAccepted(i)
            /\ req' = [req EXCEPT ![s].previous = i, ![s].pc = "validate"]
    /\ UNCHANGED <<tpl, versions, motorVars, interrupted>>

\* validateForPublish reads the template and its envios anew.
PublishValidate(s) ==
    /\ req[s].pc = "validate"
    /\ IF tpl.exists /\ ~tpl.hidden /\ tpl.steps = "valid"
       THEN Goto(s, "claim")
       ELSE Finish(s)
    /\ UNCHANGED <<tpl, versions, motorVars, interrupted>>

ClaimBlocked == {"PUBLISHING"}

\* conditionalUpdateStatus: UPDATE ... WHERE status NOT IN (PUBLISHING).
PublishClaim(s) ==
    /\ req[s].pc = "claim"
    /\ IF tpl.exists /\ tpl.status \notin ClaimBlocked
       THEN tpl' = [tpl EXCEPT !.status = "PUBLISHING"] /\ Goto(s, "steps")
       ELSE UNCHANGED tpl /\ Finish(s)
    /\ UNCHANGED <<versions, motorVars, interrupted>>

\* The mailbox is still eligible; the envios are read.
PublishReadSteps(s) ==
    /\ req[s].pc = "steps"
    /\ Goto(s, "number")
    /\ UNCHANGED <<tpl, versions, motorVars, interrupted>>

\* The mailbox is no longer eligible (checked again after the claim).
PublishNotEligible(s) ==
    /\ req[s].pc = "steps"
    /\ Goto(s, "catch")
    /\ UNCHANGED <<tpl, versions, motorVars, interrupted>>

PublishNumber(s) ==
    /\ req[s].pc = "number"
    /\ req' = [req EXCEPT ![s].number = Len(versions) + 1, ![s].pc = "create"]
    /\ UNCHANGED <<tpl, versions, motorVars, interrupted>>

\* (templateId, versionNumber) is unique, and a version needs its template.
PublishCreate(s) ==
    /\ req[s].pc = "create"
    /\ IF tpl.exists /\ req[s].number = Len(versions) + 1
       THEN /\ versions' = Append(versions, [status |-> "REQUESTED", serverId |-> None,
                                             previous |-> req[s].previous])
            /\ Goto(s, "send")
       ELSE UNCHANGED versions /\ Goto(s, "catch")
    /\ UNCHANGED <<tpl, motorVars, interrupted>>

PublishCallMotor(s) ==
    /\ req[s].pc = "send"
    /\ net' = net \cup {req[s].key}
    /\ Goto(s, "calling")
    /\ UNCHANGED <<tpl, versions, answers, interrupted>>

PublishAnswered(s) ==
    /\ req[s].pc = "calling"
    /\ answers[req[s].key] # "NONE"
    /\ req' = [req EXCEPT ![s].accepted = answers[req[s].key] = "ACCEPTED", ![s].pc = "save"]
    /\ UNCHANGED <<tpl, versions, motorVars, interrupted>>

PublishTimesOut(s) ==
    /\ req[s].pc = "calling"
    /\ Goto(s, "catch")
    /\ UNCHANGED <<tpl, versions, motorVars, interrupted>>

\* A mutant of the next definition.
NewestVersion(s) == Len(versions)

SavedVersion(s) == req[s].number

\* A mutant of the next definition.
AcceptedAnyway(s) == "ACCEPTED"

SavedStatus(s) == IF req[s].accepted THEN "ACCEPTED" ELSE "FAILED"
SavedServerId(s) == IF req[s].accepted THEN req[s].key ELSE None

KeyTaken(k) == \E i \in DOMAIN versions : versions[i].serverId = k

\* serverTemplateId is unique: a key that was answered before cannot give its
\* serverTemplateId to a second version.
PublishSaveVersion(s) ==
    /\ req[s].pc = "save"
    /\ IF req[s].accepted /\ KeyTaken(req[s].key)
       THEN UNCHANGED versions /\ Goto(s, "catch")
       ELSE /\ versions' = [versions EXCEPT ![SavedVersion(s)] =
                 [@ EXCEPT !.status = SavedStatus(s), !.serverId = SavedServerId(s)]]
            /\ Goto(s, "final")
    /\ UNCHANGED <<tpl, motorVars, interrupted>>

\* A mutant of the next definition.
VersionStatus(s) == IF req[s].accepted THEN "ACCEPTED" ELSE "FAILED"

FinalStatus(s) ==
    IF req[s].kind = "republish" \/ req[s].accepted THEN "PUBLISHED" ELSE "PUBLISH_FAILED"

\* Unconditional; it throws if the row is gone.
PublishFinal(s) ==
    /\ req[s].pc = "final"
    /\ IF tpl.exists
       THEN tpl' = [tpl EXCEPT !.status = FinalStatus(s)] /\ Goto(s, "audit")
       ELSE UNCHANGED tpl /\ Goto(s, "catch")
    /\ UNCHANGED <<versions, motorVars, interrupted>>

PublishAudit(s) ==
    /\ req[s].pc = "audit"
    /\ Finish(s)
    /\ UNCHANGED <<tpl, versions, motorVars, interrupted>>

\* Mutants of the next definition.
StillPublishing(s) == "PUBLISHING"
AlwaysPublished(s) == "PUBLISHED"

StatusAfterError(s) == IF req[s].kind = "republish" THEN "PUBLISHED" ELSE "PUBLISH_FAILED"

PublishCatch(s) ==
    /\ req[s].pc = "catch"
    /\ tpl' = IF tpl.exists THEN [tpl EXCEPT !.status = StatusAfterError(s)] ELSE tpl
    /\ Finish(s)
    /\ UNCHANGED <<versions, motorVars, interrupted>>

\* The motor is idempotent by key.
MotorHandle(k) ==
    /\ k \in net
    /\ net' = net \ {k}
    /\ IF answers[k] # "NONE"
       THEN UNCHANGED answers
       ELSE \E a \in {"ACCEPTED", "REJECTED"} : answers' = [answers EXCEPT ![k] = a]
    /\ UNCHANGED <<tpl, versions, req, interrupted>>

-----------------------------------------------------------------------------
(* SequenceTemplatesService *)

\* update and updateStep refuse an ARCHIVED template, not a PUBLISHING one.
EditRead(s) ==
    /\ Found(s, "edit") /\ tpl.status # "ARCHIVED"
    /\ Goto(s, "edit")
    /\ UNCHANGED <<tpl, versions, motorVars, interrupted>>

EditWrite(s) ==
    /\ req[s].pc = "edit"
    /\ \E steps \in {"invalid", "valid"} :
         tpl' = IF tpl.steps = "none" THEN tpl ELSE [tpl EXCEPT !.steps = steps]
    /\ Finish(s)
    /\ UNCHANGED <<versions, motorVars, interrupted>>

ArchiveRead(s) ==
    /\ Found(s, "archive")
    /\ tpl.status # "ARCHIVED"
    /\ Goto(s, "archive")
    /\ UNCHANGED <<tpl, versions, motorVars, interrupted>>

ReopenRead(s) ==
    /\ Found(s, "reopen")
    /\ tpl.status = "ARCHIVED"
    /\ Goto(s, "reopen")
    /\ UNCHANGED <<tpl, versions, motorVars, interrupted>>

\* A PUBLISHED template is retired only if no Gestion of it is active, a
\* PUBLISHING one is never deleted.
DeleteRead(s) ==
    /\ Found(s, "delete")
    /\ \/ tpl.status \in {"DRAFT", "PUBLISH_FAILED"} /\ Goto(s, "dropSteps")
       \/ tpl.status = "ARCHIVED" /\ Goto(s, "hide")
       \/ tpl.status = "PUBLISHED" /\ Goto(s, "retire")
    /\ UNCHANGED <<tpl, versions, motorVars, interrupted>>

\* The writes that follow are unconditional updates of the row.
RowAfter(p) ==
    CASE p = "archive" -> [tpl EXCEPT !.status = "ARCHIVED"]
      [] p = "reopen"  -> [tpl EXCEPT !.status = "DRAFT"]
      [] p = "hide"    -> [tpl EXCEPT !.hidden = TRUE]
      [] p = "retire"  -> [tpl EXCEPT !.status = "ARCHIVED", !.hidden = TRUE]

WriteRow(s) ==
    /\ req[s].pc \in {"archive", "reopen", "hide", "retire"}
    /\ tpl' = IF tpl.exists THEN RowAfter(req[s].pc) ELSE tpl
    /\ Finish(s)
    /\ UNCHANGED <<versions, motorVars, interrupted>>

DropSteps(s) ==
    /\ req[s].pc = "dropSteps"
    /\ tpl' = [tpl EXCEPT !.steps = "none"]
    /\ Goto(s, "dropRow")
    /\ UNCHANGED <<versions, motorVars, interrupted>>

\* The foreign key of the versions refuses the delete if there is one.
DropRow(s) ==
    /\ req[s].pc = "dropRow"
    /\ tpl' = [tpl EXCEPT !.exists = tpl.exists /\ versions # <<>>]
    /\ Finish(s)
    /\ UNCHANGED <<versions, motorVars, interrupted>>

-----------------------------------------------------------------------------
(* Faults *)

\* Inside the try block a failed statement leads to the catch, elsewhere (the
\* catch itself included) it ends the handler.
StatementFails(s) ==
    /\ "db" \in Faults
    /\ req[s].pc # "idle"
    /\ IF req[s].pc \in (Claimed \ {"catch"}) \cup {"audit"}
       THEN Goto(s, "catch")
       ELSE Finish(s)
    /\ interrupted' = (interrupted \/ req[s].pc = "catch")
    /\ UNCHANGED <<tpl, versions, motorVars>>

Crash ==
    /\ "crash" \in Faults
    /\ req' = [s \in Slots |-> Idle]
    /\ interrupted' = TRUE
    /\ UNCHANGED <<tpl, versions, motorVars>>

-----------------------------------------------------------------------------
Publish(s) ==
    \/ PublishRead(s) \/ RepublishRead(s) \/ RepublishReadsLatest(s) \/ PublishValidate(s)
    \/ PublishClaim(s) \/ PublishReadSteps(s) \/ PublishNotEligible(s) \/ PublishNumber(s) \/ PublishCreate(s)
    \/ PublishCallMotor(s) \/ PublishAnswered(s) \/ PublishTimesOut(s)
    \/ PublishSaveVersion(s) \/ PublishFinal(s) \/ PublishAudit(s) \/ PublishCatch(s)

Edit(s) == EditRead(s) \/ EditWrite(s)

Retire(s) ==
    \/ ArchiveRead(s) \/ ReopenRead(s) \/ DeleteRead(s) \/ WriteRow(s)
    \/ DropSteps(s) \/ DropRow(s)

Next ==
    \/ \E s \in Slots : Publish(s) \/ Edit(s) \/ Retire(s) \/ StatementFails(s)
    \/ \E k \in Keys : MotorHandle(k)
    \/ Crash

Spec == Init /\ [][Next]_vars

-----------------------------------------------------------------------------
TypeOK ==
    /\ tpl \in Templates
    /\ versions \in Seq(VersionRows)
    /\ req \in [Slots -> Requests]
    /\ net \subseteq Keys
    /\ answers \in [Keys -> {"NONE", "ACCEPTED", "REJECTED"}]
    /\ interrupted \in BOOLEAN

\* A template offered to executives for new Gestiones has a version the motor
\* accepted, whatever publications, archivings, failures and restarts overlap.
PublishedIsUsable == tpl.exists /\ tpl.status = "PUBLISHED" => AcceptedVersions # {}

\* A version is ACCEPTED only under a serverTemplateId of its own that the
\* motor handed out, also when a client repeats an idempotency key.
AcceptedIsRemote ==
    \A i \in AcceptedVersions :
        /\ versions[i].serverId # None
        /\ answers[versions[i].serverId] = "ACCEPTED"
        /\ \A j \in AcceptedVersions : versions[j].serverId = versions[i].serverId => i = j

\* "The template must never be left stuck in PUBLISHING": a handler that will
\* give the status up is at work on it, whatever statement failed, unless it was
\* that very write or a restart.
NeverStuckPublishing ==
    tpl.exists /\ tpl.status = "PUBLISHING" /\ ~interrupted
        => \E s \in Slots : req[s].pc \in Claimed

\* deleteTemplate: in DRAFT or PUBLISH_FAILED "nothing references it yet, so
\* the row and its envios are removed outright".
DeletedOutright ==
    tpl.exists /\ tpl.steps = "none" => \E s \in Slots : req[s].pc = "dropRow"

\* PUBLISH_FAILED "means never successfully published at all".
FailedIsNeverPublished == tpl.status = "PUBLISH_FAILED" => AcceptedVersions = {}

\* A new version "always carries previousVersionNumber so history reads as an
\* explicit chain": no version is followed by two accepted ones.
HistoryIsAChain ==
    \A i, j \in AcceptedVersions :
        versions[i].previous = versions[j].previous /\ versions[i].previous # None => i = j

-----------------------------------------------------------------------------
(* What template, versions and motor amount to, as VersionHistory has it.    *)

Offered == tpl.exists /\ tpl.status = "PUBLISHED"
Granted == {k \in Keys : answers[k] = "ACCEPTED"}

History == INSTANCE VersionHistory WITH
    history <- versions,
    granted <- Granted,
    offered <- Offered

\* Publications, updates, archivings and deletions with all that fails in them keep the
\* history that Gestiones refer to: what is decided of a version never changes, it is
\* accepted under a serverTemplateId of its own, and it follows one accepted before.
ImplementsVersionHistory == History!Spec

-----------------------------------------------------------------------------
(* What PublishedIsUsable, AcceptedIsRemote and the history rest             *)
(* on: what a handler knows at each point, and whose version it completes.  *)

Holding == {"send", "calling", "save"}
Publishing == Claimed \cup {"latest", "validate", "claim", "audit"}

RequestAgrees(s) ==
    /\ req[s].pc \in Publishing => req[s].key \in Keys
    /\ req[s].pc \in Publishing \ {"latest"} /\ req[s].kind = "republish"
         => AcceptedVersions # {}
    /\ req[s].pc \in Holding
         => /\ req[s].number \in DOMAIN versions
            /\ versions[req[s].number].status = "REQUESTED"
    /\ req[s].pc = "save" /\ req[s].accepted => answers[req[s].key] = "ACCEPTED"
    /\ req[s].pc = "final" /\ req[s].accepted => AcceptedVersions # {}

RequestsAgree == \A s \in Slots : RequestAgrees(s)

\* No two handlers complete the same version.
HoldersDiffer ==
    \A s, t \in Slots :
        req[s].pc \in Holding /\ req[t].pc \in Holding /\ s # t
            => req[s].number # req[t].number

PublicationInv ==
    /\ TypeOK
    /\ RequestsAgree
    /\ HoldersDiffer
    /\ AcceptedIsRemote
    /\ PublishedIsUsable
    /\ NeverStuckPublishing
=============================================================================

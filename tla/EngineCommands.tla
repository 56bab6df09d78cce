--------------------------- MODULE EngineCommands ---------------------------
(***************************************************************************)
(* Commands to the mail engine whose plan is several events: the            *)
(* publication of one sequence (PublishSequenceUseCase), the provisioning   *)
(* of one mailbox (ConfigureMailbox-, UpdateMailboxConfigurationUseCase and  *)
(* MailboxProvisioningService) and the confirmation of one import           *)
(* (ConfirmProspectImportUseCase), over IntegrationService and the          *)
(* simulated engine, beside administrators who advance any command.         *)
(*                                                                         *)
(* The engine plans a command's events from a scenario kept in memory; an   *)
(* advance records those that are missing, one statement at a time, and     *)
(* only its caller applies what it recorded.  A repeated Idempotency-Key    *)
(* changes nothing and is left out, as are an event's own processing status *)
(* (SequenceRemoval has it) and the mailbox's connectionStatus.             *)
(***************************************************************************)
EXTENDS Naturals, Sequences, FiniteSets

CONSTANTS
    Commands,     \* integration_commands that may come to exist
    Slots,        \* handlers that may run at once
    MaxRequests,  \* bound: requests and restarts admitted in a behaviour
    None          \* absent

VARIABLES
    publishStatus,       \* of the sequence, "NONE" before its first publication
    sequenceVersion,     \* the sequence's published version
    provisioningStatus,  \* of the mailbox
    importStatus,        \* of the import
    rawRows,             \* whether the import's parsed file is still in memory
    last,                \* the command id each of the three rows names
    command,             \* integration_commands, their events and their plans
    req,                 \* what each handler holds and does next
    requests,            \* how many requests and restarts were admitted
    lost,                \* auxiliary: commands cut short, or advanced by a monitor
    overlap,             \* auxiliary: two handlers have been about the mailbox at once
    mappings             \* auxiliary: how often the import was mapped

rows == <<publishStatus, sequenceVersion, provisioningStatus, importStatus, rawRows, last>>
auxiliary == <<lost, overlap, mappings>>
vars == <<rows, command, req, requests, auxiliary>>

-----------------------------------------------------------------------------
Aggregates == {"sequence", "mailbox", "import"}
BLOCKED_PUBLISH_STATUSES == {"REQUESTED", "ACCEPTED", "PROCESSING", "SCHEDULED"}
PublishStatus == BLOCKED_PUBLISH_STATUSES \cup {"NONE", "ACTIVE", "FAILED"}
ProvisioningStatus ==
    {"NOT_PROVISIONED", "PROVISION_REQUESTED", "PROVISIONING", "PROVISIONED", "PROVISION_FAILED"}
ImportStatus == {"MAPPING_REQUIRED", "READY", "COMPLETED"}
CommandStatus == {"NONE", "REQUESTED", "ACCEPTED", "PROCESSING", "COMPLETED", "FAILED"}
EventType == {"ACCEPTED", "STARTED", "VALIDATED", "BATCH_COMPLETED", "COMPLETED", "FAILED"}

\* planEvents: what the engine reports of a command, by scenario, the default first.
SuccessPlan(a) ==
    CASE a = "sequence" -> <<"ACCEPTED", "COMPLETED">>
      [] a = "mailbox"  -> <<"ACCEPTED", "STARTED", "VALIDATED", "VALIDATED", "COMPLETED">>
      [] a = "import"   -> <<"ACCEPTED", "STARTED", "BATCH_COMPLETED", "COMPLETED">>

FailurePlans(a) ==
    CASE a = "sequence" -> {<<"ACCEPTED", "FAILED">>}
      [] a = "mailbox"  -> {<<"ACCEPTED", "STARTED", "FAILED">>,
                            <<"ACCEPTED", "STARTED", "VALIDATED", "FAILED">>}
      [] a = "import"   -> {<<"ACCEPTED", "STARTED", "FAILED">>}

Plans(a) == {SuccessPlan(a)} \cup FailurePlans(a)
AllPlans == UNION {Plans(a) : a \in Aggregates}

\* events: how many were recorded, at the first positions; types: which.
CommandRows ==
    [on: Aggregates, status: CommandStatus, events: 0 .. 5, types: SUBSET EventType,
     plan: AllPlans]

NoCommand == [on |-> "sequence", status |-> "NONE", events |-> 0, types |-> {},
              plan |-> SuccessPlan("sequence")]

Points == {"idle", "claim", "mapping", "dispatch", "request", "read", "record", "mark", "apply"}
Callers == {"nobody", "publish", "configure", "request", "provision", "confirm", "map",
            "monitor"}
OnMailbox == {"configure", "request", "provision"}

\* version: the number a publication will give; plan, first, upto: the events that an
\* advance means to record; at: the one it is at.
Requests ==
    [pc: Points, by: Callers, command: Commands \cup {None}, version: Nat,
     plan: AllPlans, first: 1 .. 5, upto: 1 .. 5, at: 1 .. 5]

Idle == [pc |-> "idle", by |-> "nobody", command |-> None, version |-> 0,
         plan |-> SuccessPlan("sequence"), first |-> 1, upto |-> 1, at |-> 1]

Init ==
    /\ publishStatus = "NONE"
    /\ sequenceVersion = 0
    /\ provisioningStatus = "NOT_PROVISIONED"
    /\ importStatus = "MAPPING_REQUIRED"
    /\ rawRows = TRUE
    /\ last = [a \in Aggregates |-> None]
    /\ command = [c \in Commands |-> NoCommand]
    /\ req = [s \in Slots |-> Idle]
    /\ requests = 0
    /\ lost = {}
    /\ overlap = FALSE
    /\ mappings = 0

-----------------------------------------------------------------------------
(* Handlers in general.                                                     *)

At(s, p) == req[s].pc = p
Continue(s, r) == req' = [req EXCEPT ![s] = r]
Goto(s, p) == Continue(s, [req[s] EXCEPT !.pc = p])
Finish(s) == Continue(s, Idle)

Admit ==
    /\ requests < MaxRequests
    /\ requests' = requests + 1

Begin(s, r) ==
    /\ At(s, "idle")
    /\ Admit
    /\ Continue(s, r)
    /\ overlap' = (overlap \/ (/\ r.by \in OnMailbox
                               /\ \E t \in Slots \ {s} : req[t].by \in OnMailbox))

\* A command is inserted as REQUESTED; the engine has no scenario for it yet.
Create(c, a) ==
    /\ command[c].status = "NONE"
    /\ command' = [command EXCEPT ![c] = [NoCommand EXCEPT !.on = a, !.status = "REQUESTED",
                                                           !.plan = SuccessPlan(a)]]

Held(s) == {req[s].command} \ {None}

\* A statement throws or the handler is lost; what it has written stays.
HandlerFails(s) ==
    /\ ~At(s, "idle")
    /\ Finish(s)
    /\ lost' = lost \cup Held(s)
    /\ UNCHANGED <<rows, command, requests, overlap, mappings>>

\* The process restarts: scenarios and parsed files were in memory.
Restart ==
    /\ Admit
    /\ req' = [s \in Slots |-> Idle]
    /\ lost' = lost \cup UNION {Held(s) : s \in Slots}
    /\ command' = [c \in Commands |-> [command[c] EXCEPT !.plan = SuccessPlan(command[c].on)]]
    /\ rawRows' = FALSE
    /\ UNCHANGED <<publishStatus, sequenceVersion, provisioningStatus, importStatus, last,
                   overlap, mappings>>

-----------------------------------------------------------------------------
(* PublishSequenceUseCase, up to its commit.                                *)

\* The number is read long before the claim.
BeginPublish(s) ==
    /\ Begin(s, [Idle EXCEPT !.pc = "claim", !.by = "publish", !.version = sequenceVersion + 1])
    /\ UNCHANGED <<rows, command, lost, mappings>>

\* Mutant of the next definition: only a REQUESTED publication is in the way.
ClaimableUnlessRequested == publishStatus # "REQUESTED"
Claimable == publishStatus \notin BLOCKED_PUBLISH_STATUSES

\* conditionalUpdatePublishStatus and the command commit together.
Publish(s) ==
    /\ At(s, "claim") /\ req[s].by = "publish"
    /\ Claimable
    /\ \E c \in Commands :
         /\ Create(c, "sequence")
         /\ last' = [last EXCEPT !["sequence"] = c]
         /\ Continue(s, [req[s] EXCEPT !.pc = "dispatch", !.command = c])
    /\ publishStatus' = "REQUESTED"
    /\ UNCHANGED <<sequenceVersion, provisioningStatus, importStatus, rawRows, requests,
                   auxiliary>>

\* The claim does not find its row: 409, and the transaction leaves nothing.
Refused(s) ==
    /\ At(s, "claim")
    /\ \/ req[s].by = "publish" /\ ~Claimable
       \/ req[s].by = "confirm" /\ importStatus # "READY"
    /\ Finish(s)
    /\ UNCHANGED <<rows, command, requests, auxiliary>>

-----------------------------------------------------------------------------
(* The mailbox.                                                             *)

\* Mutant of the next definition: the new command leaves the status as it was.
StatusOnceRequestedUnchanged == provisioningStatus
StatusOnceRequested == "PROVISION_REQUESTED"

\* The transaction of both configuration use cases.
Configure(s) ==
    /\ \E c \in Commands :
         /\ Create(c, "mailbox")
         /\ last' = [last EXCEPT !["mailbox"] = c]
         /\ Begin(s, [Idle EXCEPT !.pc = "dispatch", !.by = "configure", !.command = c])
    /\ provisioningStatus' = StatusOnceRequested
    /\ UNCHANGED <<publishStatus, sequenceVersion, importStatus, rawRows, lost, mappings>>

\* requestProvisioning: the command is submitted first...
BeginRequest(s) ==
    /\ \E c \in Commands :
         /\ Create(c, "mailbox")
         /\ Begin(s, [Idle EXCEPT !.pc = "dispatch", !.by = "request", !.command = c])
    /\ UNCHANGED <<rows, lost, mappings>>

\* ... and the mailbox names it afterwards.
Request(s) ==
    /\ At(s, "request")
    /\ provisioningStatus' = StatusOnceRequested
    /\ last' = [last EXCEPT !["mailbox"] = req[s].command]
    /\ Finish(s)
    /\ UNCHANGED <<publishStatus, sequenceVersion, importStatus, rawRows, command, requests,
                   auxiliary>>

\* MailboxProvisioningService.advance, of the command the mailbox names.
BeginProvision(s) ==
    /\ last["mailbox"] # None
    /\ Begin(s, [Idle EXCEPT !.pc = "read", !.by = "provision", !.command = last["mailbox"]])
    /\ UNCHANGED <<rows, command, lost, mappings>>

-----------------------------------------------------------------------------
(* The import.                                                              *)

\* setMappingAndValidate looks for the parsed file, at no status...
BeginMapping(s) ==
    /\ rawRows
    /\ Begin(s, [Idle EXCEPT !.pc = "mapping", !.by = "map"])
    /\ UNCHANGED <<rows, command, lost, mappings>>

\* ... and leaves the import READY, whatever happened to it meanwhile.
Map(s) ==
    /\ At(s, "mapping")
    /\ importStatus' = "READY"
    /\ mappings' = mappings + 1
    /\ Finish(s)
    /\ UNCHANGED <<publishStatus, sequenceVersion, provisioningStatus, rawRows, last, command,
                   requests, lost, overlap>>

BeginConfirm(s) ==
    /\ importStatus = "READY"
    /\ Begin(s, [Idle EXCEPT !.pc = "claim", !.by = "confirm"])
    /\ UNCHANGED <<rows, command, lost, mappings>>

\* Mutant of the next definition: the status read at the start is trusted.
ConfirmableAsRead == TRUE
Confirmable == importStatus = "READY"

\* The claim of READY, the enrolment (EmailScheduling has it), COMPLETED and the command.
Confirm(s) ==
    /\ At(s, "claim") /\ req[s].by = "confirm"
    /\ Confirmable
    /\ \E c \in Commands :
         /\ Create(c, "import")
         /\ last' = [last EXCEPT !["import"] = c]
         /\ Continue(s, [req[s] EXCEPT !.pc = "dispatch", !.command = c])
    /\ importStatus' = "COMPLETED"
    /\ UNCHANGED <<publishStatus, sequenceVersion, provisioningStatus, rawRows, requests,
                   auxiliary>>

-----------------------------------------------------------------------------
(* IntegrationService.                                                      *)

\* Where each caller goes on once its command was dispatched.
AfterDispatch(s) ==
    CASE req[s].by = "confirm" -> Idle
      [] req[s].by = "request" -> [req[s] EXCEPT !.pc = "request"]
      [] OTHER                 -> [req[s] EXCEPT !.pc = "read"]

\* dispatchExistingCommand; a publication may name its scenario, just before.
Dispatch(s) ==
    /\ At(s, "dispatch")
    /\ LET c == req[s].command
       IN  \E p \in IF req[s].by = "publish" THEN Plans("sequence") ELSE {command[c].plan} :
             command' = [command EXCEPT ![c].status = "ACCEPTED", ![c].plan = p]
    /\ Continue(s, AfterDispatch(s))
    /\ UNCHANGED <<rows, requests, auxiliary>>

\* An administrator advances a command from the monitor, and applies nothing.
BeginMonitor(s) ==
    /\ \E c \in Commands :
         /\ command[c].status # "NONE"
         /\ Begin(s, [Idle EXCEPT !.pc = "read", !.by = "monitor", !.command = c])
    /\ UNCHANGED <<rows, command, lost, mappings>>

\* advance: planned events whose position is not recorded are pending, one or all.
AdvanceRead(s) ==
    /\ At(s, "read")
    /\ LET c == command[req[s].command]
           first == c.events + 1
       IN  IF first > Len(c.plan) THEN Finish(s)
           ELSE \E upto \in {first, Len(c.plan)} :
                  /\ upto = Len(c.plan) \/ req[s].by \in {"provision", "monitor"}
                  /\ Continue(s, [req[s] EXCEPT !.pc = "record", !.plan = c.plan,
                                                !.first = first, !.upto = upto, !.at = first])
    /\ UNCHANGED <<rows, command, requests, auxiliary>>

Event(s) == req[s].plan[req[s].at]

\* Mutant of the next definition: a position that is taken is recorded anew.
FreeOrTaken(s) == command[req[s].command].events + 1 >= req[s].at
FreePosition(s) == command[req[s].command].events + 1 = req[s].at

Record(s) ==
    /\ At(s, "record")
    /\ FreePosition(s)
    /\ LET c == req[s].command
       IN  /\ command' = [command EXCEPT ![c].events = req[s].at,
                                         ![c].types = @ \cup {Event(s)}]
           /\ lost' = lost \cup (IF req[s].by = "monitor" THEN {c} ELSE {})
    /\ Goto(s, "mark")
    /\ UNCHANGED <<rows, requests, overlap, mappings>>

\* eventId is unique: advance throws, and nothing it recorded before is applied.
RecordTaken(s) ==
    /\ At(s, "record")
    /\ ~FreePosition(s)
    /\ Finish(s)
    /\ UNCHANGED <<rows, command, requests, auxiliary>>

\* Mutant of the next definition: any event that ends in _COMPLETED completes.
CommandStatusAfterAnyCompleted(event) ==
    CASE event \in {"COMPLETED", "BATCH_COMPLETED"} -> "COMPLETED"
      [] event \in {"STARTED", "VALIDATED"}         -> "PROCESSING"
      [] OTHER                                      -> event

\* deriveCommandStatus.
CommandStatusAfter(event) ==
    CASE event \in {"STARTED", "VALIDATED", "BATCH_COMPLETED"} -> "PROCESSING"
      [] OTHER                                                 -> event

Mark(s) ==
    /\ At(s, "mark")
    /\ command' = [command EXCEPT ![req[s].command].status = CommandStatusAfter(Event(s))]
    /\ Continue(s, IF req[s].at < req[s].upto
                   THEN [req[s] EXCEPT !.pc = "record", !.at = @ + 1]
                   ELSE IF req[s].by = "monitor" THEN Idle
                   ELSE [req[s] EXCEPT !.pc = "apply", !.at = req[s].first])
    /\ UNCHANGED <<rows, requests, auxiliary>>

-----------------------------------------------------------------------------
(* What the caller does with the events its advance recorded.               *)

NextEvent(s) ==
    Continue(s, IF req[s].at < req[s].upto THEN [req[s] EXCEPT !.at = @ + 1] ELSE Idle)

PublishStatusAfter(event) == IF event = "COMPLETED" THEN "ACTIVE" ELSE event

\* Mutant of the next definition: every terminal event takes the number.
VersionAfterAnyEnd(s) ==
    IF Event(s) \in {"COMPLETED", "FAILED"} THEN req[s].version ELSE sequenceVersion

VersionAfter(s) == IF Event(s) = "COMPLETED" THEN req[s].version ELSE sequenceVersion

\* applyTerminalEvent.
ApplyToSequence(s) ==
    /\ At(s, "apply") /\ req[s].by = "publish"
    /\ publishStatus' = PublishStatusAfter(Event(s))
    /\ sequenceVersion' = VersionAfter(s)
    /\ NextEvent(s)
    /\ UNCHANGED <<provisioningStatus, importStatus, rawRows, last, command, requests,
                   auxiliary>>

ProvisioningStatusAfter(event) ==
    CASE event = "STARTED"   -> "PROVISIONING"
      [] event = "COMPLETED" -> "PROVISIONED"
      [] event = "FAILED"    -> "PROVISION_FAILED"
      [] OTHER               -> provisioningStatus

\* MailboxProvisioningEventApplier.apply, to the mailbox, of whichever command.
ApplyToMailbox(s) ==
    /\ At(s, "apply") /\ req[s].by \in OnMailbox
    /\ provisioningStatus' = ProvisioningStatusAfter(Event(s))
    /\ NextEvent(s)
    /\ UNCHANGED <<publishStatus, sequenceVersion, importStatus, rawRows, last, command,
                   requests, auxiliary>>

\* setScenario, of the command a mailbox or an import names.
SetScenario ==
    /\ Admit
    /\ \E a \in {"mailbox", "import"} :
         /\ last[a] \in Commands
         /\ \E p \in Plans(a) : command' = [command EXCEPT ![last[a]].plan = p]
    /\ UNCHANGED <<rows, req, auxiliary>>

-----------------------------------------------------------------------------
Next ==
    \/ Restart \/ SetScenario
    \/ \E s \in Slots :
         \/ HandlerFails(s)
         \/ BeginPublish(s) \/ Publish(s) \/ Refused(s)
         \/ Configure(s) \/ BeginRequest(s) \/ Request(s) \/ BeginProvision(s)
         \/ BeginMapping(s) \/ Map(s) \/ BeginConfirm(s) \/ Confirm(s)
         \/ BeginMonitor(s) \/ Dispatch(s)
         \/ AdvanceRead(s) \/ Record(s) \/ RecordTaken(s) \/ Mark(s)
         \/ ApplyToSequence(s) \/ ApplyToMailbox(s)

Spec == Init /\ [][Next]_vars

-----------------------------------------------------------------------------
(* Properties.                                                              *)

\* Every variable has the shape its table or handler gives it.
CommandsTypeOK ==
    /\ publishStatus \in PublishStatus
    /\ sequenceVersion \in Nat
    /\ provisioningStatus \in ProvisioningStatus
    /\ importStatus \in ImportStatus
    /\ rawRows \in BOOLEAN
    /\ last \in [Aggregates -> Commands \cup {None}]
    /\ command \in [Commands -> CommandRows]
    /\ req \in [Slots -> Requests]
    /\ requests \in Nat
    /\ lost \subseteq Commands
    /\ overlap \in BOOLEAN
    /\ mappings \in Nat

Recorded(a, event) ==
    last[a] \in Commands /\ command[last[a]].on = a /\ event \in command[last[a]].types

\* A sequence shows ACTIVE or FAILED only if the engine reported that of the command the
\* sequence names, whoever publishes, advances or fails meanwhile.
PublishedIsReported ==
    /\ publishStatus = "ACTIVE" => Recorded("sequence", "COMPLETED")
    /\ publishStatus = "FAILED" => Recorded("sequence", "FAILED")

InHand(c) == \E s \in Slots : req[s].command = c /\ req[s].by = "publish"

\* A publication that blocks the next one is in a handler's hands, unless its handler
\* was cut short or an administrator's advance took its events: nothing else ends it.
PublicationIsConcluded ==
    publishStatus \in BLOCKED_PUBLISH_STATUSES /\ last["sequence"] \notin lost =>
      InHand(last["sequence"])

Completed == {c \in Commands : command[c].on = "sequence" /\ "COMPLETED" \in command[c].types}

\* "incremented only when a publish actually changes something" (sequence.entity.ts:85):
\* the version never exceeds the number of completed publications, though each takes
\* its number from a version read before its claim.
VersionIsEarned == sequenceVersion <= Cardinality(Completed)

\* What a mailbox shows is about the command it names, not about an earlier one, unless
\* two handlers were about the mailbox at once.
ProvisioningOfLast ==
    ~overlap =>
      /\ provisioningStatus = "PROVISIONED" => Recorded("mailbox", "COMPLETED")
      /\ provisioningStatus = "PROVISION_FAILED" => Recorded("mailbox", "FAILED")

\* The positions that a handler recorded, to apply them or to leave them.
Mine(s) ==
    CASE At(s, "record") -> req[s].first .. req[s].at - 1
      [] At(s, "mark")   -> req[s].first .. req[s].at
      [] At(s, "apply")  -> req[s].first .. req[s].upto
      [] OTHER           -> {}

\* "Idempotent by construction" (mailbox-provisioning-event-applier.ts:21): an event of a
\* command is in one handler's hands, so that nobody applies what another one applies.
OneAppliesEachEvent ==
    \A s, t \in Slots :
      s # t /\ req[s].command = req[t].command => Mine(s) \cap Mine(t) = {}

\* A command is COMPLETED or FAILED only after the event that ends it, whatever batches
\* were completed before.
EndedByItsEvent ==
    \A c \in Commands :
      command[c].status \in {"COMPLETED", "FAILED"} => command[c].status \in command[c].types

Confirmations == {c \in Commands : command[c].on = "import" /\ command[c].status # "NONE"}

\* "Esta importación ya fue confirmada" (confirm-prospect-import.use-case.ts:176): an
\* import is confirmed no more often than it was mapped, under any number of keys.
ConfirmedOncePerMapping == Cardinality(Confirmations) <= mappings
=============================================================================

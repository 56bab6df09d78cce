# Mr. Outreach in TLA+

Models, model-checking runs and machine-checked proofs for the API of
Mr. Outreach (`src/apps/api`, NestJS over PostgreSQL with Prisma; the web client
is `src/apps/web`, Next.js). An executive writes a *Plantilla* (sequence
template), publishes it to a remote motor, creates a *Gestión* (sequence
execution) from it, uploads and maps a base of prospects, and starts it; the
motor sends the emails. The API is the only writer of its database and a client
of three remote motors (templates, executions, mailboxes).

All the difficulty is in what happens **between** statements. A handler is a
chain of awaited database statements and motor calls, almost never in one
transaction; any other request runs in between; motor calls time out although
the command arrives; the process may restart anywhere. The guards of the code
are conditional updates (`UPDATE ... WHERE status NOT IN (...)`), unique and
foreign keys, and idempotency keys that the motors honour.

## 1. Inventory

| Component | State | Operations | Hard behaviour | What makes it correct |
|---|---|---|---|---|
| Gestión: `application/sequence-executions` | `sequence_executions` row: status, stored idempotency key, serverExecutionId, version | create, updateDraft, deleteDraft, start, refresh-status | claim and key are separate writes; lost answers; retry or fresh submission; refresh overwrites the status | never two remote Gestiones; the status shown is the motor's; a lost answer is recoverable; SUBMITTING ends |
| Prospect import: `application/prospect-imports` | `prospect_imports`, `prospect_import_rows`, the uploaded file in process memory | uploadFile, setMapping, deleteForExecution, markAccepted | delete-then-insert without transaction; no status check in setMapping; file lost on restart | only what is READY and has valid rows is submitted |
| Plantilla: `application/sequence-templates` | `sequence_templates`, `..._steps`, `..._versions` | create, update, updateStep, publish, publish-update, archive, reopen, delete | claim on PUBLISHING that archive, reopen and catch blocks overwrite; version numbers from a read; replayed answers | a PUBLISHED template has an accepted version; accepted versions are genuine and immutable; nothing stays PUBLISHING |
| Motor clients: `infrastructure/*-motor` | none (the motors are remote) | startExecution, getExecutionStatus, publishTemplate | timeout races the late answer; a key is answered once and replayed | the adapters fail closed: no answer is an exception |
| Mailboxes: `application/mailboxes`, `executive-mailbox-eligibility.service.ts`, the wizard of `sequences.service.ts` | `mailboxes`, `mailbox_assignments`, `client_executive_assignments` | link, configure, unlink, reassign, setAssignees, requireEligible, the wizard's assignment | READ COMMITTED transactions; the eligibility check writes the link status | unlinked means unlinked; one PRIMARY executive |
| Idempotent operations: `application/idempotency` | `integration_commands` | checkExisting, claim, markCompleted, refreshResultSnapshot | two first requests with one key; a retry while the first is being answered | one effect, everybody is told it |
| Integration outbox and inbox: `application/integration`, the integration monitor | `integration_commands`, `integration_events` | submit, dispatchExistingCommand, advance, reprocessEvent | request and monitor advance one command; status written unconditionally | a command is COMPLETED after its event; the stored result is not ahead of it |
| Removals: `application/sequence-contacts` | `sequence_contacts`, `scheduled_emails`, the command | remove contact, remove company | transaction, then statements that may be lost one by one | what commits together stays together; a key removes once |
| Admin sequences: `application/sequences` | `sequences` | publish, pause, resume, archive | claim before the dispatch; version read before the claim; events applied by whoever recorded them | ACTIVE and FAILED were reported; a publication that blocks the next one is somebody's to end |
| Steps of a sequence: `sequence-steps.service.ts` | `sequence_steps`, `sequence_step_versions` | create, update, remove, duplicate, reorder | chains of single-row writes without transaction, from a list read before | a version is a snapshot; positions are 1, 2, ...; a FIXED_3 sequence has one subject |
| Mailbox provisioning and import confirmation: `mailbox-provisioning.service.ts`, `sequence-imports` | `mailboxes.provisioningStatus`, `prospect imports` | requestProvisioning, setScenario, setMapping, confirm | two commands for one row; a monitor takes the events | what is shown belongs to the command that is named; one confirmation per mapping |
| Scheduling: `application/scheduling`, `response-outcome`, `reply-simulation` | `scheduled_emails`, `sequence_contacts` | createBatch, simulateSend, cancel, classify a reply | a send races a cancellation or a removal; daily limit | nothing is sent after a removal; one email per contact and step |
| Conversations: `application/conversations` | threads, messages | syncMailbox, autoStopSequence | find, then create; a status read before | one conversation per contact; a stopped contact stays stopped |
| CRM, clients, domains, users, signatures, variables, auth, audit | single rows | create, read, update, delete | none beyond single statements | - |
| Web client: `apps/web` | browser state | calls the API | double clicks, reloads with a new key | - |

Interaction: start reads the import (`getImportForExecution`, `getValidRows`),
asks eligibility, claims its row, stores the key, calls the motor, writes the
answer and stamps the rows (`markAccepted`). updateDraft and deleteDraft drop
the import first. A Gestión refers to the accepted version of a PUBLISHED
template that is the latest one when the draft is made; publish and
publish-update share the claim, the version table and the motor. A removal writes
contact, emails and command in one transaction, then hands the command to the
integration service; an administrator may advance any command from the monitor.

`PROJECT.json` lists every component with its status and every hazard at the
line where it bites.

## 2. Modules

| Module | Models |
|---|---|
| `RemoteSubmission` | abstract: what submitting to a motor promises, answers lost or late |
| `GestionSubmission` | one Gestión, its import, the execution motor; implements `RemoteSubmission` |
| `GestionSubmissionProofs` | theorems about it, the implementation among them |
| `MCGestionSubmission` | model values and operation sets for its runs |
| `VersionHistory` | abstract: what those who refer to the versions of a Plantilla rely on |
| `TemplatePublication` | one Plantilla, its versions, the template motor; implements `VersionHistory` |
| `TemplatePublicationProofs` | theorems about it, the implementation among them |
| `MCTemplatePublication` | model values for its runs |
| `KeyedOperation` | abstract: what an Idempotency-Key promises |
| `SequenceRemoval` | the removals over idempotent operations and integration; implements `KeyedOperation` |
| `SequenceRemovalProofs` | theorems about it, the implementation among them |
| `MCSequenceRemoval` | model values for its runs |
| `SequenceCourse` | abstract: what a sequence promises of the emails its contacts receive |
| `EmailScheduling` | the emails and contacts of one sequence: batches, sends, cancellations, reply outcomes, import confirmation, removals, unlink; implements `SequenceCourse` |
| `EmailSchedulingProofs`, `MCEmailScheduling` | theorems about it, model values for its run |
| `MailboxLink` | one token-linked account: link, unlink, status checks, executives and the visibility of the client |
| `MailboxLinkProofs` | theorems about it |
| `EngineCommands` | commands whose plan is several events: publication, provisioning, confirmation of an import |
| `EngineCommandsProofs` | theorems about it |
| `SequenceSteps` | the steps of one sequence and their versions |
| `SequenceStepsProofs` | theorems about it |
| `Administration` | composes `MailboxLink`, `EngineCommands` and `SequenceSteps` |
| `AdministrationProofs` | what is proved of the parts, as theorems of the whole |
| `MCAdministration` | model values for its run |

The conventions of the first two models:

* A **slot** is a request in progress. `req[s].pc` names the next statement, the
  other fields what the handler holds in local variables. One action is one
  database statement or motor call with the code up to the next await. There is
  no other lock: PostgreSQL statements are atomic, handlers are not.
* A **key** is a value of the `Idempotency-Key` header. The motor answers a key
  once and replays the answer (`docs/railway-integration-contract-v1.md` and both
  simulated adapters), so the remote object created for a key is named by the
  key: `serverExecutionId = k` reads "the execution the motor made for `k`".
* A motor call puts its key in `net`; `MotorHandle` takes it out, at once, late
  or never. The handler's wait ends with the answer or with the timeout, whatever
  the motor has done: a lost request, a lost answer and a late request are all
  behaviours.
* `Faults` says what else may go wrong: `"db"` (a statement fails and the handler
  takes its error path), `"crash"` (the API process restarts: all requests and the
  uploaded file are gone), `"remote"` (the motor fails or rejects a Gestión it had
  accepted).
* A definition preceded by "Mutant of the next definition" models no code: it is
  the form a plausible bug would give the next definition, and the run of the
  property it is listed with in `PROJECT.json` finds it.

### GestionSubmission

| Model | Code |
|---|---|
| `row` | `SequenceExecution` (`key` = lastSubmissionIdempotencyKey, `serverId` = serverExecutionId, `version` = templateVersionId) |
| `imp`, `raw` | the import with "has rows / has valid rows / stamped", and `rawRowsByStorageKey` |
| `StartRead` ... `StartCatch` | `StartSequenceExecutionUseCase.execute`, statement by statement: read and decide, import, rows, claim, key, motor, accepted or rejected, stamp, audit, catch |
| `RefreshRead` ... `RefreshApply` | `RefreshExecutionStatusUseCase.execute` |
| `UpdateRead`, `DeleteRead`, `DropRows`, `DropImport`, `UpdateWrite`, `DeleteRow` | `updateDraft`, `deleteDraft`, `deleteForExecution` with the foreign keys between the three tables |
| `UploadRead`, `UploadSave`, `MapRead`, `MapClear`, `MapRows`, `MapSave` | `uploadFile`, `setMapping` and the two statements of `replaceForImport` |
| `MotorHandle`, `MotorProgress`, `MotorFailure` | external |

The status VALIDATING exists in the type and is written nowhere; it is left out.
`create` is the initial state: a draft without import, or with one already mapped.
`StartRefused` at `"import"` covers every pre-flight refusal: a mailbox that is
not eligible, a version that is no longer accepted, a base that is not mapped.
`RemoteSubmission` sees the stored key, the motor, the serverExecutionId, how far the
Gestión is said to be (`Shown`) and whether it is calm; it has no requests, faults,
statuses of its own or import.
`mishaps` is a history variable that no action reads: `"overlap"` once two starts
were in progress together, `"remote"` once a remote Gestión failed. A Gestión is
*calm* while it is empty. The conditions are needed: the code excludes neither
case, and the run `gestion_duplicate` and the first hazard show what happens.

### TemplatePublication

| Model | Code |
|---|---|
| `tpl` | `SequenceTemplate`: `hidden` = deletedAt is set, `steps` = the content: deleted, invalid or valid |
| `versions` | `SequenceTemplateVersion` rows by versionNumber |
| `PublishRead` ... `PublishCatch` | `PublishSequenceTemplateUseCase` and, with `kind = "republish"`, `UpdateSequenceTemplateUseCase`, whose steps after the claim differ only in the status they leave behind (`FinalStatus`, `StatusAfterError`) and in the predecessor |
| `EditRead`, `EditWrite` | `update`, `updateStep` |
| `ArchiveRead`, `ReopenRead`, `DeleteRead`, `WriteRow`, `DropSteps`, `DropRow` | `archive`, `reopenArchived`, `deleteTemplate` |
| `MotorHandle` | external |

The pre-publication checks of content, variables and signature are the one value
`steps`; the mailbox may be found ineligible before the claim (the handler ends)
and again after it (`PublishNotEligible`). Whether Gestiones still use a PUBLISHED
template is not in this model: the deletion may be refused in any state, since no
client has to call. `VersionHistory` sees the versions, what the motor accepted and
whether the template is PUBLISHED; it has no claims, requests or deletions.

### SequenceRemoval

| Model | Code |
|---|---|
| `removed`, `waiting` | the `sequence_contacts` rows with status REMOVED, the `scheduled_emails` in a cancellable status |
| `command`, `event` | `integration_commands` by stored key (`target` = payloadHash, `snapshot` = resultSnapshot), the one planned event of each |
| `Begin` ... `RacedConflict` | the two `execute` methods up to and around the transaction: `checkExisting`, `conditionalRemove` or `bulkRemoveByCompany`, the cancellation, `claim`, and the catch that looks the key up again |
| `Dispatch`, `AdvanceRead` ... `AdvanceStatus`, `Refresh`, `Reply` | `dispatchExistingCommand`, `advance`, `refreshResultSnapshot`, statement by statement |
| `MonitorBegin`, `Reprocess` | the integration monitor's `advance` and `reprocess` |
| `FailWithError`, `FailAfterCommit`, `Crash` | a failing statement outside and inside the catch that logs; a lost process |
| `OtherEmailWrite`, `OtherStatusWrite` | `createBatch`, `simulateSend`, the reply outcomes: any change of an email or of a contact's status |

A `Request` is one HTTP call, so a retry is another request with the same key. The
transaction is one action: the unique key on (organization, idempotencyKey) makes
the second of two claims fail and roll back. The reason of a removal is part of its
`Target`. The engine is the simulated one, which accepts every command and plans
one event for a removal; the remote adapter throws, as a failing dispatch does.
`result` and `origin` are the answer a request holds. `effects` counts the
committed removals of each key; no action reads it.

`KeyedOperation` sees of this the questions (`Asked`), the outcome each key was
decided with (`Decided`: target and what the transaction did, not the command's
status, which goes on changing), the effects and the answers (`Told`).

The four models that follow keep the slots and the one-statement actions. Each request
admitted counts against a bound (`MaxRequests`, `MaxEdits`), and `HandlerFails` ends a
handler between any two of its statements: a statement that throws, or a lost process.
Transactions are one action. A repeated Idempotency-Key changes nothing there;
`SequenceRemoval` shows that.

### EmailScheduling

| Model | Code |
|---|---|
| `contact`, `email` | `sequence_contacts` (status, currentStepId as a position), `scheduled_emails` by contact and step (`sent`: sentAt is set; `reply`: it has an inReplyTo) |
| `suppressed`, `conversation` | suppressions and conversations, as facts about a contact |
| `BeginBatch` ... `BatchMark` | `createBatch` |
| `BeginSend` ... `SendAdvance`, `FailWrite` | `simulateSend` with its outcomes |
| `BeginCancelAll`, `CancelRead`, `CancelRow` | the `cancelFutureJobs` family and the monitor's `cancelPendingSends` |
| `BeginDoNotContact`, `BeginCompany`, `BeginRefer`, `BeginReply`, `StopContact`, `Suppress`, `Converse`, `CompanyRead`, `CompanyWrite`, `ReferRead`, `ReferEnrol` | `ResponseOutcomeService` and `ReplySimulationService` |
| `FirstCreate` | `sendFirstStepNow` |
| `ConfirmImport`, `RemoveContact`, `RemoveCompany`, `UnlinkMailbox` | the four transactions that write the same tables |

Steps and their statuses are fixed; a mailbox's daily limit is one number. Three history
variables that no action reads: `overwritten`, the emails that lost a SENT; `overlapped`,
the contacts that two handlers worked on at once; and `resent`, the emails that
`simulateSend` was asked for although they no longer waited, having been sent, failed or
cancelled. The code excludes neither an overlap nor a resend, and a resend needs no
second request to do what the properties speak of: alone, it takes a stopped contact's
cancelled email to RETRY_SCHEDULED or SENT, the second with the contact back in the
sequence, and a SENT one to FAILED. So the promises are stated with exceptions of two kinds:

| Property | Not of contacts that requests overlapped on, and not of |
|---|---|
| `QuietOnceStopped`, stopped | an email that is itself in `resent` |
| `QuietOnceStopped`, suppressed | a contact one of whose emails is in `resent` |
| `ScheduledHasItsEmail` | (nothing else) |
| `SentIsFinal` | an email that is itself in `resent` |
| `ImplementsCourse`, the half about stopped contacts | a contact one of whose emails is in `resent` |

`InOrder`, `CompletedWentThrough`, `FollowUpsReply` and the other half of
`ImplementsCourse` have neither exception. `SequenceCourse` sees
of the two tables which steps were sent (`Received`), who is stopped and who of them went
through every step; it has no batches, due dates, cancellations or handlers.

### MailboxLink

| Model | Code |
|---|---|
| `link`, `role`, `visible`, `command` | `mailboxes.linkStatus`, `mailbox_assignments`, `client_executive_assignments`, `integration_commands` |
| `BeginLink`, `Link` | `LinkMailboxUseCase` (redeeming the token answers the same on every retry) |
| `BeginUnlink` ... `RevokeDerived`, `BeginRetry` | `UnlinkMailboxUseCase.execute` and `retryConfirmation` |
| `BeginRefresh`, `BeginRequireEligible`, `BeginAssertEligible`, `WriteStatus` | the three places that ask the motor and write its answer |
| `BeginReassign` ... `Configure` | reassignment and the two configuration use cases |
| `BeginSetAssignees` ... `SetSecondary` | `MailboxesService.setAssignees` |
| `BeginWizard`, `WizardVerify`, `WizardRead`, `WizardAssign` | the assignment that `SequencesService.createFromWizardForExecutive` makes: who sees the client and who is assigned (`verify()`), the list for the role, the upsert, without transaction or grant |
| `MotorRevokes` | external: the motor revokes, whether we asked it to or not |

`happened` names what the properties except: a status check beside or after an unlink
(`"check"`), one about to write when the revocation was (`"race"`), two handlers that
change assignments (`"overlap"`), a setAssignees (`"assignees"`) or one that was cut
short (`"cut"`), and a use of `ConfigureMailboxUseCase` (`"configure"`). No action reads it.

`Elsewhere` are the executives who see the client whatever becomes of this account:
another mailbox of the client is theirs, or an administrator made them its executives
(a MANUAL grant, which `removeDerivedVisibilityIfPresent` does not touch). It is fixed:
`ClientsService.setAssignees`, which rewrites the executives of a client and may remove
anybody's visibility, is not in the model, so what `SeesClientWhileAssigned` says of
derived visibility it says between such changes.

### EngineCommands

| Model | Code |
|---|---|
| `publishStatus`, `sequenceVersion`, `provisioningStatus`, `importStatus`, `last` | the columns of the sequence, the mailbox and the import; `last` is the command each names |
| `rawRows` | the parsed file in memory, lost by `Restart` |
| `command` | `integration_commands` with the types of their events, and the plan the engine has for them |
| `BeginPublish`, `Publish`, `Refused` | `PublishSequenceUseCase` up to its claim |
| `Configure`, `BeginRequest`, `Request`, `BeginProvision`, `SetScenario` | the configuration use cases and `MailboxProvisioningService` |
| `BeginMapping`, `Map`, `BeginConfirm`, `Confirm` | `setMappingAndValidate`, `ConfirmProspectImportUseCase` |
| `Dispatch`, `AdvanceRead`, `Record`, `RecordTaken`, `Mark` | `IntegrationService`: dispatch, and advance event by event |
| `ApplyToSequence`, `ApplyToMailbox` | `applyTerminalEvent`, `MailboxProvisioningEventApplier.apply` |
| `BeginMonitor` | the integration monitor |

Auxiliary are `lost` (commands cut short, or whose events a monitor took), `overlap`
(two handlers were about the mailbox at once) and `mappings`.

### SequenceSteps

| Model | Code |
|---|---|
| `stepPolicy`, `step`, `versions` | `sequences.stepPolicy`, `sequence_steps`, `sequence_step_versions` by versionNumber |
| `BeginCreate`, `InsertStep`, `CountVersions`, `CreateVersion` | `SequenceStepsService.create` and the version it records; the last three are duplicate's and update's too |
| `BeginUpdate`, `UpdateStep` | `update`; the row answers with what it holds by then |
| `BeginRemove`, `RemoveStep`, `BeginDuplicate`, `BeginReorder` | `remove`, `duplicate`, `reorder` |
| `ReadSiblings`, `WriteSibling` | the cascade of the subject, `renormalizePositions`, the shift behind a copy, the reorder: a list of siblings, then one update each |

`held` collects every content a step has had. `disturbed` is set once two
*rearrangements* (a creation, removal, copy or reorder, or an update of a FIXED_3
subject) meet or one is cut short; between others the two properties about subject and
positions hold, and beside updates of contents they always do. A FIXED_3 sequence
begins with the three steps of the wizard, another one with none or with steps that a
copy brought without versions.

### Administration

The three parts share no column, so `Administration` interleaves them and its theorems
are those of the parts. `ConfigureMailboxUseCase` is the one handler in two parts, and
each part has what it writes to that part's columns. No property relates two parts,
so `MCAdministration` explores one part at a time from every initial state of the
steps: interleaving them would multiply states and show nothing. Commands are created
in a fixed order there (`InTurn`), a cheaper way to say that they are interchangeable than
a symmetry. The proofs are about the unrestricted composition.

## 3. Runs

| Run | Instance | Checks | Result |
|---|---|---|---|
| `gestion_safety` | 2 slots, 2 keys, 2 versions, every operation, every fault, 2 starts at once, symmetry | `TypeOK`, `ReportedGestionIsRemote`, `OneRemoteGestion`, `OrphanIsAdoptable`, `NeverAheadOfServer`, `ImplementsRemoteSubmission` | holds; 5.4 million states |
| `gestion_live` | 2 slots, 2 keys, 1 version, start and delete, no faults, fairness | `SubmittingEnds` | holds; 354 thousand states |
| `gestion_duplicate` | 1 slot, 3 keys, start and refresh, remote failures | `NoSecondRemoteGestion` | violated |
| `gestion_delete` | 2 slots, 2 keys, start, delete, upload, map | `SubmittedIsNeverDeleted` | violated |
| `template_safety` | 2 slots, 2 keys, at most 3 versions, every operation, every fault, symmetry | `TypeOK`, `PublishedIsUsable`, `AcceptedIsRemote`, `NeverStuckPublishing`, `ImplementsVersionHistory` | holds; 954 thousand states |
| `template_delete` | 1 slot | `DeletedOutright` | violated |
| `template_failed` | 1 slot | `FailedIsNeverPublished` | violated |
| `template_chain` | 2 slots, 3 keys, publish and publish-update | `HistoryIsAChain` | violated |
| `removal_safety` | 1 contact, its company and one without contacts, 1 key under both scopes, 2 requests, 1 monitor, every fault, symmetry | `TypeOK`, `CompletedHasItsEvent`, `ShownStatusIsReal`, `ImplementsKeyedOperation` | holds; 1.2 million states |
| `removal_status` | 2 contacts, 2 requests, 1 monitor, no faults | `RetrySeesOriginalStatus` | violated |
| `scheduling_safety` | 2 contacts of one company, 3 steps of which the second is ARCHIVED, 2 slots, 7 requests, daily limit 1, symmetry | `TypeOK`, `InOrder`, `CompletedWentThrough`, `FollowUpsReply`, `QuietOnceStopped`, `ScheduledHasItsEmail`, `ImplementsCourse`, `SentIsFinal` | holds; 2.2 million states |
| `administration_safety` | 2 executives, 2 keys, 3 commands, 2 slots, 2 texts, 3 steps; 4 requests about the account, or 3 about the commands, or 2 edits; symmetry | `AdministrationTypeOK`; of the account `RevokedIsConfirmed`, `UnlinkStands`, `RevokedIsFinal`, `OnePrimary`, `SeesClientWhileAssigned`; of the commands `PublishedIsReported`, `PublicationIsConcluded`, `VersionIsEarned`, `ProvisioningOfLast`, `OneAppliesEachEvent`, `EndedByItsEvent`, `ConfirmedOncePerMapping`; of the steps `RecordedWasHeld`, `SubjectIsShared`, `PositionsAreContiguous` | holds; 1.6 million states |

What the violated runs show, each against a sentence of a comment of the code:

* **`gestion_duplicate`.** "It never re-creates a second remote Gestión." One
  request at a time is enough. The first Gestión is accepted and fails at the
  motor; a refresh shows FAILED; the second start gets no answer in time:
  SUBMISSION_UNKNOWN; a refresh asks for the *first* serverExecutionId, the only
  one stored, and writes FAILED over it; the third start is not a retry any more
  and sends a new key; the second command arrives after all.
* **`gestion_delete`.** "A Gestión already submitted/queued cannot be deleted
  here." deleteDraft reads DRAFT, start claims, deleteDraft drops import and row.
* **`template_delete`.** "Nothing references it yet, so the row and its envíos are
  removed outright." A failed publication has left a version; the envíos go, the
  row stays.
* **`template_failed`.** PUBLISH_FAILED "means never successfully published at
  all". publish takes a PUBLISHED template and leaves PUBLISH_FAILED when it fails.
* **`template_chain`.** "History reads as an explicit chain." The predecessor is
  read before the claim.
* **`removal_status`.** The stored result is refreshed "so a future idempotent retry
  sees the same commandStatus the original caller did". The request dispatches:
  ACCEPTED. A monitor records the planned event between the read and the insert of
  the request's own advance, which throws; the refresh is skipped, the caller is
  told ACCEPTED and every retry REQUESTED. Nothing has failed.

**Bounds.** Two slots: every hazard listed is a race of two handlers or of one
handler with the motor, and a restart replaces a handler by a new one. Two keys
are a first attempt and one that differs from it; `gestion_duplicate` and
`template_chain` need a third. Two template versions tell "changed" from
"unchanged". `MaxStarts` bounds the starts in progress (2 is every slot);
`MaxVersions` bounds the version numbers and counts the publications that may
still add one (`RoomForVersion`), so that it is enforced where a request is
admitted and never stops one half-way. Nothing else is bounded: the histories are
as long as they get. Symmetry is used in runs without temporal formulas other
than action properties and refinements without fairness; no definition, of the abstract
specifications either, names a slot or a key. In the removals two
requests are an original and its retry, or two removals that meet; one contact is
enough for them to meet (a removal of the contact against one of its company), the
company without contacts is the other payload a key may be reused with, and one
header value under two scopes is two stored keys. Nothing is counted, so nothing
else is bounded; the proofs cover any sets.

In the other runs `MaxRequests`, `EngineRequests` and `MaxEdits` bound the requests
(and restarts) of a behaviour. Seven requests take a contact through enrolment, two
batches and two sends with two requests left to disturb them; four link an account,
begin an unlink, repeat or check it and change its executives meanwhile, with the motor
free to revoke at any moment; three are a
publication, the one that follows it and a monitor beside them, or the same of a
mailbox or an import; two edits are the two that meet, and a copy of the first of two
steps moves the second. A daily limit of 1 is reached by the second email. The
steps were also checked once with three edits (5.5 million states) and with four steps.
Each mutant in `PROJECT.json` is found within these bounds, so the cases the
properties are about do occur; the theorems hold without them.

**Deadlock** is not checked where the configuration says so: a system without requests
may stop, clients are not assumed to call.

**Fairness** is assumed in `gestion_live` only, as `WF_vars(HandlerSteps(s))`: a
handler in progress takes its next step. The event loop resumes every await, the
database answers and the motor adapter aborts its call after
`sequenceMotorTimeoutMs`. Nothing is assumed of the motor (it may never answer)
or of clients (they may never call again). That is why the property is that
SUBMITTING ends and not that the Gestión is accepted. Restarts and failed
statements are left out of that run: each can end a handler in SUBMITTING, where
the Gestión stays until somebody starts it again.

## 4. Proofs

Checked by TLAPS for any number of slots, keys and versions and any set of
operations and faults, from the assumptions on constants
(`ConstantsAssumption`: NULL is not a key, a version or a slot; operations and
faults are known ones; the bounds are positive). For the removals: contacts and
steps are finitely many, contacts are no companies, monitors make no requests, and
`NoneAssumption`, that the value for "absent" is no record of the model. The emails and
the account have a `ConstantsAssumption` of the same kind. `EngineCommandsProofs` and
`SequenceStepsProofs` have no assumption of their modules; each theorem states its
hypothesis (`None \notin Commands`, for the two that count commands a finite set of
them, and `MaxSteps \in Nat`). No theorem bounds the requests.

| Theorem | States |
|---|---|
| `GestionSubmissionProofs!RemoteInvariant` | `Spec => []RemoteInv` |
| `...!TypeCorrect`, `...!ReportedIsRemote` | `[]TypeOK`, `[]ReportedGestionIsRemote` |
| `...!StoredKeyInvariant` | `Spec => []StoredKeyInv` |
| `...!OneRemote`, `...!OrphanAdoptable` | `[]OneRemoteGestion`, `[]OrphanIsAdoptable` |
| `...!NeverAhead` | `[]NeverAheadOfServer` |
| `...!ImplementsSubmission` | `Spec => ImplementsRemoteSubmission`, a refinement |
| `...!SubmittingConcludes` | `Spec => []SubmittingIsHeld /\ SubmittingIsWorkedOff` |
| `...!SequentialDeletesAreOfDrafts` | with one slot, `Spec => SubmittedIsNeverDeleted` |
| `TemplatePublicationProofs!PublicationInvariant` | `Spec => []PublicationInv` |
| `...!TypeCorrect`, `...!PublishedUsable`, `...!AcceptedRemote`, `...!NeverStuck` | `[]TypeOK`, `[]PublishedIsUsable`, `[]AcceptedIsRemote`, `[]NeverStuckPublishing` |
| `...!ImplementsHistory` | `Spec => ImplementsVersionHistory`, a refinement |
| `...!AcceptedImmutable` | an accepted version is never changed (an action property) |
| `...!SequentialHistoryIsAChain` | with one slot, `Spec => []HistoryIsAChain` |
| `SequenceRemovalProofs!RemovalInvariant` | `Spec => []RemovalInv` |
| `...!TypeCorrect`, `...!CompletedAfterEvent`, `...!ShownStatusWasReached` | `[]TypeOK`, `[]CompletedHasItsEvent`, `[]ShownStatusIsReal` |
| `...!ImplementsPromise` | `Spec => ImplementsKeyedOperation`, a refinement |
| `...!UndisturbedRetriesSeeTheStatus` | without monitors and failing statements, `Spec => []RetrySeesOriginalStatus` |
| `EmailSchedulingProofs!TypeCorrect`, `...!EmailsGoInOrder`, `...!CompletionIsEarned`, `...!FollowUpsAreThreaded` | `[]TypeOK`, `[]InOrder`, `[]CompletedWentThrough`, `[]FollowUpsReply` |
| `...!RegularThroughout` | `Spec => [](IInv /\ RegularInv) /\ [][Steady]_vars` |
| `...!StoppedIsQuiet`, `...!ScheduledIsBacked` | `[]QuietOnceStopped`, `[]ScheduledHasItsEmail` |
| `...!SentStaysSent` | `SentIsFinal` (an action property) |
| `...!ImplementsSequenceCourse` | `Spec => ImplementsCourse`, a refinement |
| `MailboxLinkProofs!LinkInvariant`, `...!TypeCorrect`, `...!RevokedConfirmed` | `Spec => []LinkInv`, `[]TypeOK`, `[]RevokedIsConfirmed` |
| `...!UnlinkHolds`, `...!RevocationIsFinal` | `[]UnlinkStands`, `RevokedIsFinal` (an action property) |
| `...!AtMostOnePrimary`, `...!VisibilityFollows` | `[]OnePrimary`, `[]SeesClientWhileAssigned` |
| `EngineCommandsProofs!EngineInvariant`, `...!CommandsTypeCorrect`, `...!OneApplies`, `...!EndsByItsEvent` | `Spec => []EngineInv`, `[]CommandsTypeOK`, `[]OneAppliesEachEvent`, `[]EndedByItsEvent` |
| `...!PublishedWasReported`, `...!PublicationConcludes` | `[]PublishedIsReported`, `[]PublicationIsConcluded` |
| `...!VersionEarned`, `...!ConfirmedOnce`, `...!ProvisioningIsOfLast` | `[]VersionIsEarned`, `[]ConfirmedOncePerMapping`, `[]ProvisioningOfLast` |
| `SequenceStepsProofs!HistoryInvariant`, `...!StepsTypeCorrect`, `...!VersionsAreSnapshots` | `Spec => []HistoryInv`, `[]StepsTypeOK`, `[]RecordedWasHeld` |
| `...!SubjectStaysShared`, `...!PositionsStayContiguous` | `[]SubjectIsShared`, `[]PositionsAreContiguous` |
| `AdministrationProofs!ImplementsParts` | `AdministrationSpec` implies the specification of each part |
| `...!AllTypesCorrect`, `...!LinkPromisesHold` | `[]AdministrationTypeOK`; the five properties of the account |
| `...!OneApplies` to `...!PositionsStayContiguous` | the properties of the commands and of the steps, of the whole |

**Gestión.** `ReportedGestionIsRemote` speaks of the row and the motor, and is not
inductive: an answer or a refresh that is on its way must already agree with the
motor. `RemoteInv` adds what every request holds at each point of its handler
(`RequestsAgree`) and that a key is answered ACCEPTED exactly if its remote
Gestión exists (`MotorAgrees`). `StoredKeyInv` is the argument for one remote
Gestión: while calm there is one start (`OneStart`); every key under which a
remote Gestión exists *or may still come to exist* (`Open`: accepted, in `net`
unanswered, or about to be sent) is the stored one and the status refuses a fresh
submission (`OpenIsStored`); and a start knows, between claim and answer, that
its key is the stored one or that no key is open (`StartKnows`). `Healthy` keeps a
refresh from leading back to a status that admits a fresh submission. The two
corollaries read the invariant with `Open` weakened to "accepted". `LagInv` adds an
order on what the motor reports (`StageOf`): while calm neither the row nor a snapshot
that a refresh is about to write is at a later stage than the remote Gestión named,
which only goes forward; so refreshes that overtake each other may set the status back
but never ahead. The refinement (`ImplementsSubmission`) follows from these three
invariants: storing a key is a `Store`, the motor's answer a `Create`, an accepted
answer a `Learn`, and what a refresh, an error or a deletion shows a `Show`, allowed
because the invariants say which keys are open and how late the status is.
`SubmittingConcludes` is the part of the liveness property that needs no fairness: without
restarts and failed statements SUBMITTING is in the hands of a start (`SubmittingIsHeld`),
and no step of anybody, overlapping starts and deletions included, does more to that start
than bring it nearer to its answer (`SubmittingIsWorkedOff`, by the measure `StepsLeft`).
Weak fairness of that start does the rest, which TLC shows in `gestion_live`.
`SequentialDeletesAreOfDrafts` says that what `gestion_delete` shows takes an overlap: a
lone handler that edits finds the DRAFT it has read.

**Plantilla.** What makes accepted versions immutable, although archive and reopen
let publications overlap, is not the claim: it is that two handlers never hold
the same version row (`HoldersDiffer`), which the unique version number gives, and
that the row a handler holds is still REQUESTED (part of `RequestsAgree`).
`PublishedIsUsable` needs that the update flow starts only from a template with an
accepted version and that accepted versions never go away. The refinement adds that
the predecessor a handler names is an accepted version from the moment it is read on
(`PreviousAccepted`), and that the identity a version is accepted under is one the motor
granted and no other version has. It does not say that the history is a chain, for it is
not (`template_chain`). `SequentialHistoryIsAChain` says why: a handler that nobody
overtakes between the read and the insert names the last accepted version (`Follows`),
and this is so through any failures, timeouts and restarts.

**Removals.** `RemovalInv` says what survives between the commit and the answer.
A request past its commit, or answered, holds what its key was decided with
(`RequestAgrees`); a worker about to complete a command has seen its event processed
(`WorkerAgrees`); a claim stands for one effect (`OneEffectPerClaim`). Commands are
rewritten by requests and monitors alike, so the proof first shows what no step
undoes (`CommandsKept`: a command keeps its target and outcome and never goes back to
REQUESTED, a processed event stays processed) and that this keeps every bystander's
conjunct (`OthersAgree`). The refinement maps `Begin` to a question, `Commit` to the
decision with its effect, the three ways to a 201 to an answer, and every other step
to a stutter. `UndisturbedRetriesSeeTheStatus` says what it takes to make
`RetrySeesOriginalStatus` fail, which `removal_status` shows: with no monitor and no
failing statement nobody but the request records its event (`AsTold`), so its advance does
not throw and the refresh is reached, also among requests that meet and handlers that are
lost.

**Emails.** No handler excludes another, so the argument cannot be about locks: it is
that an email is never deleted and sentAt never cleared. "Every earlier step was sent"
(`Earlier`) is therefore stable, and `IInv` says that the emails that exist, the step a
contact is at and the step a handler is about to create an email for all have it
(`EmailsInOrder`, `ContactInOrder`, `HandlerInOrder`). What is promised of stopped
contacts and of SENT is about contacts outside `overlapped`, and there exclusion does the
work: `RegularInv` says that two handlers' scopes meet in overlapped contacts only, that
what a handler has in hand lies in its scope (`Scoped`), how the two tables agree about
any other contact (`Sound`: an email waits only at the step of a contact still ACTIVE or
SCHEDULED, unless it is in `resent`), and
what its one handler relies on (`Fits`: a cancellation knows exactly the emails that
wait, one about to stop the contact has none left). A step writes inside its scope, so it
leaves the `Fits` of every other handler alone (`HandlerStep`); `Steady` says what every
step leaves a contact that was not overlapped on, a resend told apart; and what holds between
any two statements holds after a failure there, which only forgets the handler. The
refinement takes both halves: a step that marks an email sent is a `Receive`, in order by
`IInv` and of a contact that is not stopped by `RegularInv`, and every other step is a
`Move` or a stutter. A resend that does not overlap stays inside the invariant: what it
may undo is exactly what `Sound` and `Steady` allow of `resent`.

**The account.** The motor's revocation is guarded by nothing, so what makes REVOKED mean
the motor's REVOKED is only that the motor never takes it back and that no handler writes
REVOKED without an answer that says so. `LinkInv` says what a handler carries through its statements
(`Carries`: the confirmation it holds is the motor's, the unlink it is about was
claimed). `StandInv` adds, unless a status check ran, that nobody holds an ACTIVE it is
to write. `AssignInv` says, unless two handlers changed assignments at once, that one
handler changes them, what it read is still so (`Rests`), and for the visibility, which
executives' visibility is still to be taken away (`Watches`); the wizard's list is one
more thing that `Rests`, and that its executive sees the client without the account one
more that `Watches`. `VisibilityFollows` ends with the revocation, as the property does.

**Commands.** `EngineInv` relates a handler to its command (`Fits`): the events before
its position are recorded, those it holds were recorded by it. On it rest
`PublicationInv` (the claim is refused while a publication is in progress, so at most
one handler publishes, and it holds the command the sequence names), `VersionInv` (the
number a publication holds is at most one more than the completed publications but its
own), `ConfirmationInv` (confirmations and the one that is still possible are at most
the mappings) and `ProvisioningInv`.

**Steps.** `HistoryInv` says that what a handler is to record was held by its step; an
update rests on what the row answers, not on what it read. The other two properties
need how far a rearrangement has come. `OneRearranges` says that undisturbed there is
one; `FixedInv` that the siblings it has no more to write to have the new subject;
`PositionInv` that those not to be written any more have their place in some order of
the live steps, or, beside a copy, that place with one left free (`Renumbering`,
`Shifting`). When nothing is left to write the positions are those of an order, which
takes every place from 1 to the number of steps (`OrderIsOnto`).

Each proof has one step per action. The strengthenings are checked by the
instances as well, since their consequences are.

**Administration.** The specification of the whole implies that of each part, with the
other parts' steps as stutters (`ImplementsParts`), so that every theorem of a part is
one of the whole.

**Model-checked only.** `SubmittingEnds` (liveness under fairness is out of the
prover's reach; its safety half is `SubmittingConcludes`) and the violated properties,
of which three are theorems under the hypothesis that rules their counterexample out.
`NoSecondRemoteGestion`, `DeletedOutright` and `FailedIsNeverPublished` fail with one
request at a time; there is no such hypothesis. Every other property of a passing run is
a theorem.

## 5. Where the code departs from its documents, without a run

Met while modelling. Where a property of section 3 would be broken by one of these, it
excepts it by name, and the entry says which; the others are outside what the properties
speak of.

* A status check rewrites ACTIVE over UNLINK_REQUESTED, also when it asked the motor
  before the unlink reached it. `unlink-mailbox.use-case.ts:278-280` and
  `docs/motor-mailbox-link-contract-v1.md:134-135` say an account is never
  reactivated. The transaction of an unlink can also overwrite a REVOKED. Excepted in
  `UnlinkStands` (`"check"`) and `RevokedIsFinal` (`"race"`).
* `unlink-mailbox.use-case.ts:246-248` says a revoked account no longer counts as a
  mailbox of the client and its executives lose the visibility derived from it. It still
  counts: an unlink leaves assignments and client of the account in place, and
  `client-mailbox-visibility.service.ts:56-64` looks at these and not at the link, so the
  step finds nothing to revoke. `SeesClientWhileAssigned` takes neither side: it speaks
  of accounts that are not REVOKED.
* A configuration, or two concurrent reassignments, can leave two PRIMARY executives
  (excepted in `OnePrimary`); setAssignees grants no visibility, although
  `client-mailbox-visibility.service.ts:15-17` derives it from any assignment (excepted in
  `SeesClientWhileAssigned`).
* The wizard for an executive gives the account by an upsert whose role rests on a list
  read before it (`sequences.service.ts:177-190`): beside another change of the
  assignments it makes a second PRIMARY, or takes a PRIMARY down to SECONDARY
  (`"overlap"`). It derives no visibility either; its executive had it when asked.
* The repository's README says (606-607) that the snapshot of a SENT email is never
  touched again. `simulateSend` does not look at the status (`scheduling.service.ts:203`):
  asked again for a SENT email, alone, it writes a new snapshot from the step as it is by
  then (lines 247-258), or replaces SENT by FAILED or RETRY_SCHEDULED. Excepted in
  `SentIsFinal` (`resent`).
* In the same way a simulateSend of a CANCELLED email brings a stopped contact back to
  ACTIVE at its next step, or leaves the email waiting, although "a SENT/FAILED/CANCELLED
  job is never touched" (`scheduled-email.entity.ts:14`, of the removals) and a stop cancels
  what is to come. Excepted in `QuietOnceStopped` and `ImplementsCourse` (`resent`). Whether
  the contact is suppressed is not looked at either.
* A publication whose dispatch fails, whose process is lost, or whose events a monitor
  records stays REQUESTED or ACCEPTED and blocks the next one (excepted in
  `PublicationIsConcluded`, `lost`). Two publications that follow closely may take the same
  version number; `VersionIsEarned` bounds the number only from above.
* setMapping makes a COMPLETED import READY again; `ConfirmedOncePerMapping` counts by
  mappings for that reason.
* The cascade of a FIXED_3 subject and the copy of a sequence record no version, though
  `sequence-step-version.entity.ts` says one is created whenever a step is saved.
  No property speaks of that: `RecordedWasHeld` is about the versions there are.
  Rearrangements that meet or are cut short leave positions with gaps or duplicates
  (excepted in `PositionsAreContiguous`, `disturbed`).
  The PostgreSQL repository always answers FLEXIBLE (`prisma-sequence.repository.ts:38-41`),
  so that FIXED_3 exists with the memory driver only.

## 6. Not modelled, and what is left

Worth modelling next:

1. The synchronisation of inboxes (`conversations.service.ts`): a conversation is looked
   up before it is created, a contact's sequence is stopped from a status read earlier,
   and messages are recorded last, so that a restart loses the stop.
2. A composition of `GestionSubmission` and `TemplatePublication`: a Gestión's version
   stays accepted and frozen from its acceptance on, against updateDraft and
   deleteTemplate.

Worth proving next: what an abstract specification of an account's access (linked,
asked back, revoked) and one of a publication's life (claimed, reported, concluded) would
promise, implemented by `MailboxLink` and `EngineCommands`, whose properties are stated
one by one so far.

Left out of the modules above: more than one sequence, mailbox or import at a time, and
so a suppression that another sequence's reply brings about
(`reply-simulation.service.ts:169-175`), which stops nothing in this one: `suppressed` of
`EmailScheduling` is what the requests about its own sequence did; the removal of a step
while contacts are on their way through the sequence, after which a send finds no next step
(`scheduling.service.ts:263-264`); the executives of a client set by hand
(`clients.service.ts:250-300`), as MANUAL grants are part of the constant `Elsewhere`;
the membership of contacts in companies and the publication of steps while a sequence
runs; mailboxes linked by hand; the older confirm and advance of an import; the
connection status of a mailbox and the processing status of an event of several (in
`SequenceRemoval` it is there); recordDirectEvent; signatures and credentials; the
pause, resume, archive and restore of a sequence, each a check and a write of one row.
Of the wizard, the account's assignment is in `MailboxLink`; its steps, and the copy of
a sequence, appear as initial states of `SequenceSteps`; a wizard that was cut
short, or raced by a creation, leaves a FIXED_3 sequence without its three steps and is
not among them.

Left out for good: rendering and sanitising of HTML, parsing of uploaded files,
names and timestamps, audit records (kept only as a statement that may fail), single
row CRUD, authentication and the web client. Two HTTP processes at once are covered
as far as the database goes; the file memory of `uploadFile` is modelled for one
process, as the code assumes. Re-uploading a base stores NULL for its mapping, as
the repository interface says.

The definitions are mapped to about a tenth of the implementation's lines. Most of the
rest is the web client, single-row CRUD, seeds, DTOs and types, which keep no protocol
between statements that a model could be about.

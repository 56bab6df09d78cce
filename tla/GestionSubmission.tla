------------------------- MODULE GestionSubmission -------------------------
(***************************************************************************)
(* One Gestion (SequenceExecution row), its prospect import, and the       *)
(* remote execution motor it is submitted to.  HTTP requests are served    *)
(* concurrently by slots; a slot takes one action per database statement   *)
(* or motor call of its handler, so any other request may run in between.  *)
(* A start carries an idempotency key; the motor answers a key once and    *)
(* replays that answer, so the remote execution created for a key (its     *)
(* serverExecutionId) is named here by the key itself.                     *)
(***************************************************************************)
EXTENDS Naturals, FiniteSets

CONSTANTS
    Slots,      \* requests that can be in progress at once
    Keys,       \* Idempotency-Key header values
    Versions,   \* accepted template versions (each belongs to one mailbox)
    None,       \* SQL NULL
    Ops,        \* the operations clients call
    Faults,     \* what may go wrong besides a motor that does not answer
    MaxStarts   \* bound: start requests in progress at once

ASSUME ConstantsAssumption ==
    /\ None \notin Keys \cup Versions \cup Slots
    /\ Ops \subseteq {"start", "refresh", "update", "delete", "upload", "map"}
    /\ Faults \subseteq {"crash", "db", "remote"}
    /\ MaxStarts \in Nat \ {0}

VARIABLES
    row,        \* the sequence_executions row
    imp,        \* its prospect_imports row with the rows that hang from it
    raw,        \* whether the uploaded file is still in process memory
    req,        \* what each slot is doing
    net,        \* keys of the start calls on their way to the motor
    answers,    \* the motor's answer to each key
    remote,     \* the state of the remote Gestion of each key
    mishaps     \* auxiliary: whether starts overlapped, or a remote Gestion failed
                \* (no action reads it)

vars == <<row, imp, raw, req, net, answers, remote, mishaps>>
motorVars == <<net, answers, remote>>

-----------------------------------------------------------------------------
RetryStatuses == {"SUBMITTING", "SUBMISSION_UNKNOWN"}
SubmittedStatuses == {"ACCEPTED", "RUNNING", "COMPLETED"}
FreshSubmitBlocked == RetryStatuses \cup SubmittedStatuses
Statuses == FreshSubmitBlocked \cup {"DRAFT", "FAILED", "REJECTED"}
ServerStatuses == {"QUEUED", "RUNNING", "COMPLETED", "FAILED", "REJECTED"}

\* Mutants of the next definition.
QueuedKeptAsIs(s) == s
QueuedShownAsRunning(s) == IF s = "QUEUED" THEN "RUNNING" ELSE s

LocalStatusForServerStatus(s) == IF s = "QUEUED" THEN "ACCEPTED" ELSE s

Rows == [exists: BOOLEAN, status: Statuses, key: Keys \cup {None},
         serverId: Keys \cup {None}, version: Versions]

\* rows: whether the import has rows, and among them one that is VALID.
NoImport == [status |-> "NONE", rows |-> "none", stamped |-> FALSE]
Imports == [status: {"NONE", "MAPPING_REQUIRED", "READY"},
            rows: {"none", "invalid", "valid"}, stamped: BOOLEAN]

StartPoints == {"import", "rows", "claim", "key", "send", "calling", "mark", "audit"}
Points == StartPoints \cup
          {"idle", "ask", "apply", "dropRows", "dropImport", "write", "delete",
           "upload", "mapClear", "mapRows", "mapSave"}

Requests == [pc: Points, key: Keys \cup {None}, fresh: BOOLEAN,
             version: Versions \cup {None}, snapshot: ServerStatuses \cup {None}]

Idle == [pc |-> "idle", key |-> None, fresh |-> FALSE, version |-> None,
         snapshot |-> None]

Init ==
    /\ \E v \in Versions :
         row = [exists |-> TRUE, status |-> "DRAFT", key |-> None,
                serverId |-> None, version |-> v]
    /\ \/ imp = NoImport /\ raw = FALSE
       \/ imp = [status |-> "READY", rows |-> "valid", stamped |-> FALSE] /\ raw \in BOOLEAN
    /\ req = [s \in Slots |-> Idle]
    /\ net = {}
    /\ answers = [k \in Keys |-> "NONE"]
    /\ remote = [k \in Keys |-> "NONE"]
    /\ mishaps = {}

Goto(s, p) == req' = [req EXCEPT ![s].pc = p]
Finish(s) == req' = [req EXCEPT ![s] = Idle]
Idling(s, op) == op \in Ops /\ req[s].pc = "idle" /\ row.exists

-----------------------------------------------------------------------------
(* StartSequenceExecutionUseCase.execute *)

StartsInProgress == {s \in Slots : req[s].pc \in StartPoints}

IsRetry == row.status \in RetryStatuses

\* Mutants of the next definition: a retry under the key it came with; the stored key
\* kept only where no answer was awaited in vain.
RequestKey(k) == k
StoredKeyWhileSubmitting(k) ==
    IF row.status = "SUBMITTING" /\ row.key # None THEN row.key ELSE k

\* A retry prefers the stored key over the one k that the request carries.
KeyToUse(k) == IF IsRetry /\ row.key # None THEN row.key ELSE k

\* Reads the row and decides: fresh submission or retry, and with which key.
StartRead(s) ==
    /\ Idling(s, "start")
    /\ Cardinality(StartsInProgress) < MaxStarts
    /\ row.status \notin SubmittedStatuses
    /\ \E k \in Keys :
         req' = [req EXCEPT ![s] = [Idle EXCEPT !.pc = "import", !.key = KeyToUse(k),
                                                !.fresh = ~IsRetry]]
    /\ mishaps' = mishaps \cup (IF StartsInProgress = {} THEN {} ELSE {"overlap"})
    /\ UNCHANGED <<row, imp, raw, motorVars>>

StartCheckImport(s) ==
    /\ req[s].pc = "import"
    /\ imp.status = "READY"
    /\ Goto(s, "rows")
    /\ UNCHANGED <<row, imp, raw, motorVars, mishaps>>

StartReadRows(s) ==
    /\ req[s].pc = "rows"
    /\ imp.rows = "valid"
    /\ Goto(s, IF req[s].fresh THEN "claim" ELSE "key")
    /\ UNCHANGED <<row, imp, raw, motorVars, mishaps>>

\* A pre-flight check fails: mailbox not eligible, base not mapped, no valid row.
StartRefused(s) ==
    /\ \/ req[s].pc = "import"
       \/ req[s].pc = "rows" /\ imp.rows # "valid"
    /\ Finish(s)
    /\ UNCHANGED <<row, imp, raw, motorVars, mishaps>>

\* conditionalUpdateStatus: UPDATE ... WHERE status NOT IN (blocked).
StartClaim(s) ==
    /\ req[s].pc = "claim"
    /\ row.exists
    /\ row.status \notin FreshSubmitBlocked
    /\ row' = [row EXCEPT !.status = "SUBMITTING"]
    /\ Goto(s, "key")
    /\ UNCHANGED <<imp, raw, motorVars, mishaps>>

StartLosesClaim(s) ==
    /\ req[s].pc = "claim"
    /\ ~row.exists \/ row.status \in FreshSubmitBlocked
    /\ Finish(s)
    /\ UNCHANGED <<row, imp, raw, motorVars, mishaps>>

\* The second statement: the key is stored after, and apart from, the claim.
\* It throws, outside the try block, if the row was deleted meanwhile.
StartStoreKey(s) ==
    /\ req[s].pc = "key"
    /\ IF row.exists
       THEN row' = [row EXCEPT !.key = req[s].key] /\ Goto(s, "send")
       ELSE UNCHANGED row /\ Finish(s)
    /\ UNCHANGED <<imp, raw, motorVars, mishaps>>

StartCallMotor(s) ==
    /\ req[s].pc = "send"
    /\ net' = net \cup {req[s].key}
    /\ Goto(s, "calling")
    /\ UNCHANGED <<row, imp, raw, answers, remote, mishaps>>

\* Mutant of the next definition: serverExecutionId forgotten.
AcceptedRowWithoutId(k) == [row EXCEPT !.status = "ACCEPTED"]

AcceptedRow(k) == [row EXCEPT !.status = "ACCEPTED", !.serverId = k]

StartAccepted(s) ==
    /\ req[s].pc = "calling"
    /\ answers[req[s].key] = "ACCEPTED"
    /\ row.exists
    /\ row' = AcceptedRow(req[s].key)
    /\ Goto(s, "mark")
    /\ UNCHANGED <<imp, raw, motorVars, mishaps>>

StartRejected(s) ==
    /\ req[s].pc = "calling"
    /\ answers[req[s].key] = "REJECTED"
    /\ row.exists
    /\ row' = [row EXCEPT !.status = "REJECTED"]
    /\ Goto(s, "audit")
    /\ UNCHANGED <<imp, raw, motorVars, mishaps>>

\* markAccepted: stamps the rows the import has now.
StartMark(s) ==
    /\ req[s].pc = "mark"
    /\ imp' = [imp EXCEPT !.stamped = imp.rows = "valid"]
    /\ Goto(s, "audit")
    /\ UNCHANGED <<row, raw, motorVars, mishaps>>

\* The audit record and the final read; a failed audit is caught as well.
StartAudit(s) ==
    /\ req[s].pc = "audit"
    /\ Finish(s)
    /\ UNCHANGED <<row, imp, raw, motorVars, mishaps>>

\* Mutants of the next definition: back to an editable draft; left as it was.
BackToDraft == "DRAFT"
StillSubmitting == "SUBMITTING"

StatusAfterFailedCall == "SUBMISSION_UNKNOWN"

\* catch: no answer in time, or a statement after the answer failed.
StartCatch(s) ==
    /\ \/ req[s].pc = "calling"
       \/ req[s].pc \in {"mark", "audit"} /\ "db" \in Faults
    /\ row' = IF row.exists THEN [row EXCEPT !.status = StatusAfterFailedCall] ELSE row
    /\ Finish(s)
    /\ UNCHANGED <<imp, raw, motorVars, mishaps>>

-----------------------------------------------------------------------------
(* The motor: idempotent by key; it runs what it accepts. *)

MotorHandle(k) ==
    /\ k \in net
    /\ net' = net \ {k}
    /\ IF answers[k] # "NONE"
       THEN UNCHANGED <<answers, remote>>
       ELSE \/ /\ answers' = [answers EXCEPT ![k] = "ACCEPTED"]
               /\ remote' = [remote EXCEPT ![k] = "QUEUED"]
            \/ /\ answers' = [answers EXCEPT ![k] = "REJECTED"]
               /\ UNCHANGED remote
    /\ UNCHANGED <<row, imp, raw, req, mishaps>>

MotorProgress(k) ==
    /\ \/ remote[k] = "QUEUED" /\ remote' = [remote EXCEPT ![k] = "RUNNING"]
       \/ remote[k] = "RUNNING" /\ remote' = [remote EXCEPT ![k] = "COMPLETED"]
    /\ UNCHANGED <<row, imp, raw, req, net, answers, mishaps>>

MotorFailure(k) ==
    /\ "remote" \in Faults
    /\ \/ remote[k] \in {"QUEUED", "RUNNING"} /\ remote' = [remote EXCEPT ![k] = "FAILED"]
       \/ remote[k] = "QUEUED" /\ remote' = [remote EXCEPT ![k] = "REJECTED"]
    /\ mishaps' = mishaps \cup {"remote"}
    /\ UNCHANGED <<row, imp, raw, req, net, answers>>

-----------------------------------------------------------------------------
(* RefreshExecutionStatusUseCase.execute *)

RefreshRead(s) ==
    /\ Idling(s, "refresh")
    /\ row.serverId # None
    /\ req' = [req EXCEPT ![s] = [Idle EXCEPT !.pc = "ask", !.key = row.serverId]]
    /\ UNCHANGED <<row, imp, raw, motorVars, mishaps>>

RefreshAsk(s) ==
    /\ req[s].pc = "ask"
    /\ req' = [req EXCEPT ![s].snapshot = remote[req[s].key], ![s].pc = "apply"]
    /\ UNCHANGED <<row, imp, raw, motorVars, mishaps>>

RefreshUnanswered(s) ==
    /\ req[s].pc = "ask"
    /\ Finish(s)
    /\ UNCHANGED <<row, imp, raw, motorVars, mishaps>>

\* Unconditional write of what the motor said.
RefreshApply(s) ==
    /\ req[s].pc = "apply"
    /\ row' = IF row.exists
              THEN [row EXCEPT !.status = LocalStatusForServerStatus(req[s].snapshot)]
              ELSE row
    /\ Finish(s)
    /\ UNCHANGED <<imp, raw, motorVars, mishaps>>

-----------------------------------------------------------------------------
(* SequenceExecutionsService.updateDraft and deleteDraft *)

\* The DRAFT check is made on what was read; changing template or mailbox
\* drops the import first.
UpdateRead(s) ==
    /\ Idling(s, "update")
    /\ row.status = "DRAFT"
    /\ \E v \in Versions, changed \in BOOLEAN :
         /\ changed => v # row.version
         /\ req' = [req EXCEPT ![s] = [Idle EXCEPT !.pc = IF changed THEN "dropRows" ELSE "write",
                                                   !.version = v]]
    /\ UNCHANGED <<row, imp, raw, motorVars, mishaps>>

DeleteRead(s) ==
    /\ Idling(s, "delete")
    /\ row.status = "DRAFT"
    /\ req' = [req EXCEPT ![s] = [Idle EXCEPT !.pc = "dropRows"]]
    /\ UNCHANGED <<row, imp, raw, motorVars, mishaps>>

AfterDrop(s) == IF req[s].version = None THEN "delete" ELSE "write"

\* deleteForExecution: the memory entry and the rows, then the import.
DropRows(s) ==
    /\ req[s].pc = "dropRows"
    /\ IF imp.status = "NONE"
       THEN /\ Goto(s, AfterDrop(s))
            /\ UNCHANGED <<imp, raw>>
       ELSE /\ Goto(s, "dropImport")
            /\ imp' = [imp EXCEPT !.rows = "none", !.stamped = FALSE]
            /\ raw' = FALSE
    /\ UNCHANGED <<row, motorVars, mishaps>>

\* The handlers that hold the import's id.
HoldsImport(t) == req[t].pc \in {"dropImport", "mapClear", "mapRows", "mapSave"}

\* The foreign key of the rows refuses the delete if rows came back.  Other
\* handlers that hold the deleted import's id fail at their next statement,
\* which changes nothing: they end here.
DropImport(s) ==
    /\ req[s].pc = "dropImport"
    /\ IF imp.rows = "none"
       THEN /\ imp' = NoImport
            /\ req' = [t \in Slots |-> IF t = s THEN [req[s] EXCEPT !.pc = AfterDrop(s)]
                                      ELSE IF HoldsImport(t) THEN Idle ELSE req[t]]
       ELSE Finish(s) /\ UNCHANGED imp
    /\ UNCHANGED <<row, raw, motorVars, mishaps>>

UpdateWrite(s) ==
    /\ req[s].pc = "write"
    /\ row' = IF row.exists THEN [row EXCEPT !.version = req[s].version] ELSE row
    /\ Finish(s)
    /\ UNCHANGED <<imp, raw, motorVars, mishaps>>

\* executions.delete carries no status condition; the foreign key of the
\* import refuses it while an import exists.
DeleteRow(s) ==
    /\ req[s].pc = "delete"
    /\ row' = [row EXCEPT !.exists = row.exists /\ imp.status # "NONE"]
    /\ Finish(s)
    /\ UNCHANGED <<imp, raw, motorVars, mishaps>>

-----------------------------------------------------------------------------
(* ProspectImportsService.uploadFile and setMapping *)

UploadRead(s) ==
    /\ Idling(s, "upload")
    /\ row.status = "DRAFT"
    /\ Goto(s, "upload")
    /\ UNCHANGED <<row, imp, raw, motorVars, mishaps>>

\* A re-upload keeps the rows of the previous mapping; a first upload needs
\* the Gestion's row to exist (foreign key).
UploadSave(s) ==
    /\ req[s].pc = "upload"
    /\ IF imp.status # "NONE" \/ row.exists
       THEN imp' = [imp EXCEPT !.status = "MAPPING_REQUIRED"] /\ raw' = TRUE
       ELSE UNCHANGED <<imp, raw>>
    /\ Finish(s)
    /\ UNCHANGED <<row, motorVars, mishaps>>

\* No check of the Gestion's status here.
MapRead(s) ==
    /\ Idling(s, "map")
    /\ imp.status # "NONE"
    /\ raw
    /\ Goto(s, "mapClear")
    /\ UNCHANGED <<row, imp, raw, motorVars, mishaps>>

\* replaceForImport, in two statements.  The mapping decides which rows are
\* valid; (importId, rowNumber) is unique, so rows inserted meanwhile by
\* another mapping make this one fail.
MapClear(s) ==
    /\ req[s].pc = "mapClear"
    /\ imp' = [imp EXCEPT !.rows = "none", !.stamped = FALSE]
    /\ Goto(s, "mapRows")
    /\ UNCHANGED <<row, raw, motorVars, mishaps>>

MapRows(s) ==
    /\ req[s].pc = "mapRows"
    /\ IF imp.rows = "none"
       THEN (\E rows \in {"invalid", "valid"} : imp' = [imp EXCEPT !.rows = rows]) /\ Goto(s, "mapSave")
       ELSE UNCHANGED imp /\ Finish(s)
    /\ UNCHANGED <<row, raw, motorVars, mishaps>>

MapSave(s) ==
    /\ req[s].pc = "mapSave"
    /\ \E st \in {"READY", "MAPPING_REQUIRED"} : imp' = [imp EXCEPT !.status = st]
    /\ Finish(s)
    /\ UNCHANGED <<row, raw, motorVars, mishaps>>

-----------------------------------------------------------------------------
(* Faults *)

\* A statement fails and the handler ends where it stood.
StatementFails(s) ==
    /\ "db" \in Faults
    /\ req[s].pc # "idle"
    /\ Finish(s)
    /\ UNCHANGED <<row, imp, raw, motorVars, mishaps>>

\* The API process restarts: requests and uploaded files are forgotten.
Crash ==
    /\ "crash" \in Faults
    /\ req' = [s \in Slots |-> Idle]
    /\ raw' = FALSE
    /\ UNCHANGED <<row, imp, motorVars, mishaps>>

-----------------------------------------------------------------------------
Start(s) ==
    \/ StartRead(s) \/ StartCheckImport(s) \/ StartReadRows(s) \/ StartRefused(s)
    \/ StartClaim(s) \/ StartLosesClaim(s) \/ StartStoreKey(s) \/ StartCallMotor(s)
    \/ StartAccepted(s) \/ StartRejected(s) \/ StartMark(s) \/ StartAudit(s)
    \/ StartCatch(s)

Refresh(s) == RefreshRead(s) \/ RefreshAsk(s) \/ RefreshUnanswered(s) \/ RefreshApply(s)

EditDraft(s) ==
    \/ UpdateRead(s) \/ DeleteRead(s) \/ DropRows(s) \/ DropImport(s)
    \/ UpdateWrite(s) \/ DeleteRow(s)

EditImport(s) == UploadRead(s) \/ UploadSave(s) \/ MapRead(s) \/ MapClear(s) \/ MapRows(s) \/ MapSave(s)

Motor == \E k \in Keys : MotorHandle(k) \/ MotorProgress(k) \/ MotorFailure(k)

Next ==
    \/ \E s \in Slots : Start(s) \/ Refresh(s) \/ EditDraft(s) \/ EditImport(s)
                        \/ StatementFails(s)
    \/ Motor
    \/ Crash

Spec == Init /\ [][Next]_vars

\* The event loop runs every handler to its end: each await returns, if only
\* because the motor call times out.  No client is assumed to call again.
HandlerSteps(s) == Next /\ req[s].pc # "idle" /\ req'[s] # req[s]
FairSpec == Spec /\ \A s \in Slots : WF_vars(HandlerSteps(s))

-----------------------------------------------------------------------------
TypeOK ==
    /\ row \in Rows
    /\ imp \in Imports
    /\ raw \in BOOLEAN
    /\ req \in [Slots -> Requests]
    /\ net \subseteq Keys
    /\ answers \in [Keys -> {"NONE", "ACCEPTED", "REJECTED"}]
    /\ remote \in [Keys -> ServerStatuses \cup {"NONE"}]
    /\ mishaps \subseteq {"overlap", "remote"}

\* A Gestion shown as accepted, running or completed exists at the motor
\* under the serverExecutionId the row holds, whatever starts, refreshes,
\* edits, restarts and lost answers came between.
ReportedGestionIsRemote ==
    row.exists /\ row.status \in SubmittedStatuses =>
        row.serverId # None /\ remote[row.serverId] # "NONE"

Calm == mishaps = {}

\* A retry after a lost answer, a restart or a failed statement never creates
\* a second remote Gestion, as long as starts do not overlap and the remote
\* one has not failed: the reason the key is stored before the motor call.
OneRemoteGestion ==
    Calm => \A j, k \in Keys : answers[j] = "ACCEPTED" /\ answers[k] = "ACCEPTED" => j = k

\* Under the same conditions a remote Gestion the row does not know of (its
\* answer was lost) is the one of the stored key, so the next start adopts it.
OrphanIsAdoptable ==
    Calm /\ row.exists => \A k \in Keys : answers[k] = "ACCEPTED" =>
        row.key = k /\ row.status \in FreshSubmitBlocked

StageOf == [ACCEPTED |-> 1, QUEUED |-> 1, RUNNING |-> 2, COMPLETED |-> 3]

\* Under the same conditions the status shown may lag behind the motor (two
\* refreshes may even apply their snapshots out of order) but never leads it.
NeverAheadOfServer ==
    Calm /\ row.exists /\ row.status \in SubmittedStatuses =>
        StageOf[row.status] <= StageOf[remote[row.serverId]]

\* How far the row says the Gestion is; a deleted row says nothing.
Shown == IF row.exists /\ row.status \in SubmittedStatuses THEN row.status ELSE "PENDING"

Submission == INSTANCE RemoteSubmission
    WITH stored <- row.key, known <- row.serverId, shown <- Shown, disturbed <- ~Calm

\* All of this in one: the requests, the motor, the timeouts, retries, restarts and
\* deletions together are one submission with a stored key (RemoteSubmission), at most
\* one remote Gestion, adopted by whoever asks again, and a status that only lags.
ImplementsRemoteSubmission == Submission!Spec

\* The promise of the use case's comment and of the retry button, without
\* conditions: the motor never has two Gestiones of this row that go on.
NoSecondRemoteGestion ==
    Cardinality({k \in Keys : remote[k] \in {"QUEUED", "RUNNING", "COMPLETED"}}) <= 1

\* deleteDraft: "a Gestion already submitted/queued cannot be deleted here".
SubmittedIsNeverDeleted ==
    [][row.exists /\ ~row'.exists => row.status = "DRAFT"]_vars

\* While no restart and no failed statement interrupts a handler, SUBMITTING
\* is never where a Gestion stays.
SubmittingEnds == row.exists /\ row.status = "SUBMITTING" ~> row.status # "SUBMITTING" \/ ~row.exists

\* The two facts SubmittingEnds rests on beside fairness.  While no restart and no failed
\* statement interrupts handlers, a Gestion that is SUBMITTING is in the hands of a start.
Submitting == row.exists /\ row.status = "SUBMITTING"
Submits(s) == req[s].pc \in {"key", "send", "calling"}
Uninterrupted == Faults \cap {"crash", "db"} = {}

SubmittingIsHeld == Uninterrupted /\ Submitting => \E s \in Slots : Submits(s)

\* And each such start is only ever replaced by itself with less left to do: whatever
\* others do meanwhile, its own steps bring it nearer to its end or end SUBMITTING.
StepsLeft == [key |-> 3, send |-> 2, calling |-> 1]

SubmittingIsWorkedOff ==
    [][Uninterrupted /\ Submitting /\ Submitting' =>
         \A s \in Slots : Submits(s) =>
           \/ req'[s] = req[s]
           \/ Submits(s)' /\ StepsLeft[req'[s].pc] < StepsLeft[req[s].pc]]_vars

-----------------------------------------------------------------------------
(* The strengthening under which the safety properties are inductive. *)

\* What each request holds at each point of its handler.
RequestAgrees(s) ==
    /\ req[s].pc \in StartPoints => req[s].key \in Keys
    /\ req[s].pc \in {"ask", "apply"} =>
         req[s].key \in Keys /\ remote[req[s].key] # "NONE" /\ row.serverId # None
    /\ req[s].pc = "apply" => req[s].snapshot \in ServerStatuses
    /\ req[s].pc = "write" => req[s].version # None

RequestsAgree == \A s \in Slots : RequestAgrees(s)

MotorAgrees ==
    /\ \A k \in Keys : answers[k] = "ACCEPTED" <=> remote[k] # "NONE"
    /\ row.serverId # None => answers[row.serverId] = "ACCEPTED"
    /\ row.status \in SubmittedStatuses => row.serverId # None

RemoteInv == TypeOK /\ RequestsAgree /\ MotorAgrees

\* A remote Gestion exists, or may still come to exist, under key k.
Open(k) ==
    \/ answers[k] = "ACCEPTED"
    \/ answers[k] = "NONE" /\ k \in net
    \/ answers[k] = "NONE" /\ \E s \in Slots : req[s].pc \in {"send", "calling"} /\ req[s].key = k

OneStart == \A s, t \in Slots : req[s].pc \in StartPoints /\ req[t].pc \in StartPoints => s = t

OpenIsStored == \A k \in Keys : Open(k) => row.key = k /\ row.status \in FreshSubmitBlocked

\* What a start knows between its claim, or its decision to retry, and the answer.
StartKnows(s) ==
    /\ req[s].pc = "claim" => req[s].fresh
    /\ req[s].pc \in {"key", "send", "calling"} => row.status \in FreshSubmitBlocked
    /\ req[s].pc = "key" /\ req[s].fresh => \A k \in Keys : ~Open(k)
    /\ req[s].pc \in {"import", "rows", "key"} /\ ~req[s].fresh =>
         /\ row.status \in FreshSubmitBlocked
         /\ row.key # None => req[s].key = row.key
    /\ req[s].pc \in {"send", "calling"} => row.key = req[s].key

CalmStatuses == {"QUEUED", "RUNNING", "COMPLETED"}

Healthy ==
    /\ \A k \in Keys : remote[k] \in CalmStatuses \cup {"NONE"}
    /\ \A s \in Slots : req[s].pc = "apply" => req[s].snapshot \in CalmStatuses

\* The stored key is the only one under which a remote Gestion exists or may
\* come to exist, while starts do not overlap and no remote Gestion fails.
StoredKeyParts == OneStart /\ OpenIsStored /\ (\A s \in Slots : StartKnows(s)) /\ Healthy
StoredKeyInv == Calm => StoredKeyParts
=============================================================================

-------------------------- MODULE SequenceRemoval --------------------------
(***************************************************************************)
(* Removal of a contact, or of every contact of a company, from a          *)
(* sequence: RemoveContactFromSequenceUseCase and its company twin over     *)
(* IdempotentOperationService and IntegrationService.  The contact's        *)
(* removal, the cancellation of its emails and the claim of the            *)
(* Idempotency-Key (the integration_commands row) commit together; the     *)
(* command is then dispatched and its one planned event recorded, one      *)
(* statement at a time, beside an administrator's monitor that may advance  *)
(* the same command.  A request's reason is part of its target; the port   *)
(* is the simulated engine, which accepts every command (the remote one     *)
(* throws, as a failing Dispatch does).                                     *)
(***************************************************************************)
EXTENDS Naturals, FiniteSets

CONSTANTS
    Contact,      \* the sequence's contacts
    Company,      \* the companies they may belong to
    CompanyOf,    \* the company of each contact
    RawKey,       \* Idempotency-Key header values
    Request,      \* removal requests, each made once
    Monitor,      \* administrators who advance commands from the monitor
    None,         \* absent
    Step,         \* the sequence's steps: an email is for a contact and a step
    Faults        \* "fail": a statement fails; "crash": a handler is lost

ASSUME ConstantsAssumption ==
    /\ CompanyOf \in [Contact -> Company]
    /\ Contact \cap Company = {}
    /\ IsFiniteSet(Contact) /\ IsFiniteSet(Step)
    /\ Request \cap Monitor = {}
    /\ Faults \subseteq {"fail", "crash"}

VARIABLES
    removed,      \* which sequence_contacts rows are REMOVED
    waiting,      \* the scheduled_emails that can still be cancelled
    command,      \* integration_commands, by stored idempotency key
    event,        \* the integration_events row of each command
    pc,           \* what each request and monitor does next
    ask,          \* the stored key it is about and, for a request, its target
    result,       \* the result a request has made or replays
    origin,       \* whether that answer is its own, a replay, or a refusal
    effects       \* auxiliary: committed removals of each key

vars == <<removed, waiting, command, event, pc, ask, result, origin, effects>>
businessVars == <<removed, waiting, effects>>
answerVars == <<result, origin>>
requestVars == <<ask, answerVars>>

-----------------------------------------------------------------------------
Scopes == {"sequence.contact.remove", "sequence.company.remove"}
Worker == Request \cup Monitor
Target == Contact \cup Company

\* buildIdempotencyStorageKey: the scope keeps operations of two kinds apart.
StorageKey == Scopes \X RawKey
StoredUnscoped(scope, raw) == raw
StoredUnder(scope, raw) == <<scope, raw>>

Targets(scope) == IF scope = "sequence.contact.remove" THEN Contact ELSE Company
Affects(target) == IF target \in Company THEN {c \in Contact : CompanyOf[c] = target}
                                          ELSE {target}

Outcomes == [cancelled: 0 .. Cardinality(Contact \X Step), affected: 0 .. Cardinality(Contact)]
CommandStatus == {"REQUESTED", "ACCEPTED", "COMPLETED"}

\* The result a use case returns: what it did, and the command's status as it knows it.
Results == [did: Outcomes, commandStatus: CommandStatus]

\* A command with its payloadHash (target) and resultSnapshot (snapshot).
Commands == [target: Target, status: CommandStatus, snapshot: Results]

Points == {"idle", "check", "transaction", "raced", "dispatch", "events", "record",
           "process", "status", "refresh", "reply", "done"}

\* Past the commit: what fails is logged, and the removal stands.
Committed == {"dispatch", "events", "record", "process", "status", "refresh", "reply"}

Asks == [key: StorageKey, target: Target]

ASSUME NoneAssumption ==
    /\ None \notin Commands \cup Results \cup Asks
    /\ None \notin [key: StorageKey, payload: Target] \cup [payload: Target, result: Outcomes]

Init ==
    /\ removed = {}
    /\ waiting = {}
    /\ command = [k \in StorageKey |-> None]
    /\ event = [k \in StorageKey |-> "NONE"]
    /\ pc = [w \in Worker |-> "idle"]
    /\ ask = [w \in Worker |-> None]
    /\ result = [r \in Request |-> None]
    /\ origin = [r \in Request |-> "none"]
    /\ effects = [k \in StorageKey |-> 0]

Goto(w, p) == pc' = [pc EXCEPT ![w] = p]

\* Likewise, but a monitor that is through is idle again.
Continue(w, p) ==
    /\ Goto(w, p)
    /\ ask' = IF p = "idle" THEN [ask EXCEPT ![w] = None] ELSE ask
KeyOf(w) == ask[w].key

-----------------------------------------------------------------------------
(* The request, up to its commit.                                           *)

Begin(r) ==
    /\ pc[r] = "idle"
    /\ \E scope \in Scopes, raw \in RawKey : \E t \in Targets(scope) :
         ask' = [ask EXCEPT ![r] = [key |-> StoredUnder(scope, raw), target |-> t]]
    /\ Goto(r, "check")
    /\ UNCHANGED <<businessVars, command, event, result, origin>>

Replay(r) ==
    /\ command[KeyOf(r)].target = ask[r].target
    /\ result' = [result EXCEPT ![r] = command[KeyOf(r)].snapshot]
    /\ origin' = [origin EXCEPT ![r] = "replay"]

Refuse(r) ==
    /\ origin' = [origin EXCEPT ![r] = "refused"]
    /\ UNCHANGED result

\* checkExisting: the key is known with this payload, with another, or not at all.
CheckExisting(r) ==
    /\ pc[r] = "check"
    /\ command[KeyOf(r)] # None
    /\ \/ Replay(r)
       \/ command[KeyOf(r)].target # ask[r].target /\ Refuse(r)
    /\ Goto(r, "done")
    /\ UNCHANGED <<businessVars, command, event, ask>>

CheckUnknown(r) ==
    /\ pc[r] = "check"
    /\ command[KeyOf(r)] = None
    /\ Goto(r, "transaction")
    /\ UNCHANGED <<businessVars, command, event, requestVars>>

\* conditionalRemove takes a contact that is not REMOVED; a company's removal
\* takes those that are left, which may be none.
CanRemove(target) == target \in Contact => target \notin removed
ClaimUnchecked(k) == TRUE
ClaimIsFree(k) == command[k] = None

\* The transaction: conditionalRemove or bulkRemoveByCompany, the cancellation of
\* the waiting emails and the claim commit together.
Commit(r) ==
    LET contacts == Affects(ask[r].target)
        mine == {e \in waiting : e[1] \in contacts}
        made == [did |-> [cancelled |-> Cardinality(mine),
                          affected |-> Cardinality(contacts \ removed)],
                 commandStatus |-> "REQUESTED"]
    IN  /\ pc[r] = "transaction"
        /\ CanRemove(ask[r].target)
        /\ ClaimIsFree(KeyOf(r))
        /\ removed' = removed \cup contacts
        /\ waiting' = waiting \ mine
        /\ effects' = [effects EXCEPT ![KeyOf(r)] = @ + 1]
        /\ command' = [command EXCEPT ![KeyOf(r)] =
                         [target |-> ask[r].target, status |-> "REQUESTED", snapshot |-> made]]
        /\ result' = [result EXCEPT ![r] = made]
        /\ origin' = [origin EXCEPT ![r] = "own"]
        /\ Goto(r, "dispatch")
        /\ UNCHANGED <<event, ask>>

\* Already removed, or the key was claimed in the meantime: all of it rolls back.
RollBack(r) ==
    /\ pc[r] = "transaction"
    /\ ~CanRemove(ask[r].target) \/ ~ClaimIsFree(KeyOf(r))
    /\ Goto(r, "raced")
    /\ UNCHANGED <<businessVars, command, event, requestVars>>

\* The catch looks the key up again: the winner's result, or the conflict.
RacedReplay(r) ==
    /\ pc[r] = "raced"
    /\ command[KeyOf(r)] # None
    /\ Replay(r)
    /\ Goto(r, "done")
    /\ UNCHANGED <<businessVars, command, event, ask>>

RacedConflict(r) ==
    /\ pc[r] = "raced"
    /\ command[KeyOf(r)] # None => command[KeyOf(r)].target # ask[r].target
    /\ Refuse(r)
    /\ Goto(r, "done")
    /\ UNCHANGED <<businessVars, command, event, ask>>

-----------------------------------------------------------------------------
(* After the commit: the dispatch, then advance, of requests and monitors.  *)

\* Between its commit and its reply a request is inside a catch that logs.
AfterError(w) == IF w \in Request THEN "reply" ELSE "idle"

DispatchUnsaved(r) ==
    /\ pc[r] = "dispatch"
    /\ result' = [result EXCEPT ![r].commandStatus = "ACCEPTED"]
    /\ Goto(r, "events")
    /\ UNCHANGED <<businessVars, command, event, ask, origin>>

\* The command is stored ACCEPTED; the request knows unless the audit record fails.
Dispatch(r) ==
    /\ pc[r] = "dispatch"
    /\ command' = [command EXCEPT ![KeyOf(r)].status = "ACCEPTED"]
    /\ \/ /\ result' = [result EXCEPT ![r].commandStatus = "ACCEPTED"]
          /\ Goto(r, "events")
       \/ /\ "fail" \in Faults
          /\ UNCHANGED result
          /\ Goto(r, "reply")
    /\ UNCHANGED <<businessVars, event, ask, origin>>

\* POST commands/:commandId/advance.
MonitorBegin(m) ==
    /\ pc[m] = "idle"
    /\ \E k \in StorageKey :
         /\ command[k] # None
         /\ ask' = [ask EXCEPT ![m] = [key |-> k, target |-> command[k].target]]
    /\ Goto(m, "events")
    /\ UNCHANGED <<businessVars, command, event, result, origin>>

AfterAdvance(w) == IF w \in Request THEN "refresh" ELSE "idle"

\* The planned event, unless it is recorded already.
AdvanceRead(w) ==
    /\ pc[w] = "events"
    /\ Continue(w, IF event[KeyOf(w)] = "NONE" THEN "record" ELSE AfterAdvance(w))
    /\ UNCHANGED <<businessVars, command, event, answerVars>>

AdvanceRecordOnly(w) ==
    /\ pc[w] = "record"
    /\ event[KeyOf(w)] = "NONE"
    /\ event' = [event EXCEPT ![KeyOf(w)] = "RECEIVED"]
    /\ Continue(w, "status")
    /\ UNCHANGED <<businessVars, command, answerVars>>

AdvanceRecord(w) ==
    /\ pc[w] = "record"
    /\ event[KeyOf(w)] = "NONE"
    /\ event' = [event EXCEPT ![KeyOf(w)] = "RECEIVED"]
    /\ Continue(w, "process")
    /\ UNCHANGED <<businessVars, command, answerVars>>

\* The unique key on (eventId, origin) refuses a second row: advance throws.
AdvanceDuplicate(w) ==
    /\ pc[w] = "record"
    /\ event[KeyOf(w)] # "NONE"
    /\ Continue(w, AfterError(w))
    /\ UNCHANGED <<businessVars, command, event, answerVars>>

AdvanceProcess(w) ==
    /\ pc[w] = "process"
    /\ event' = [event EXCEPT ![KeyOf(w)] = "PROCESSED"]
    /\ Continue(w, "status")
    /\ UNCHANGED <<businessVars, command, answerVars>>

AdvanceStatus(w) ==
    /\ pc[w] = "status"
    /\ command' = [command EXCEPT ![KeyOf(w)].status = "COMPLETED"]
    /\ Continue(w, AfterAdvance(w))
    /\ UNCHANGED <<businessVars, event, answerVars>>

\* refreshResultSnapshot.
Refresh(r) ==
    /\ pc[r] = "refresh"
    /\ command' = [command EXCEPT ![KeyOf(r)].snapshot = result[r]]
    /\ Goto(r, "reply")
    /\ UNCHANGED <<businessVars, event, requestVars>>

Reply(r) ==
    /\ pc[r] = "reply"
    /\ Goto(r, "done")
    /\ UNCHANGED <<businessVars, command, event, requestVars>>

\* reprocessEvent only marks the event again.
Reprocess(k) ==
    /\ event[k] # "NONE"
    /\ event' = [event EXCEPT ![k] = "PROCESSED"]
    /\ UNCHANGED <<businessVars, command, pc, requestVars>>

-----------------------------------------------------------------------------
(* Faults, and the other writers of the same rows.                          *)

\* Outside the catch that logs: before the commit, or, after it, the controller's read
\* of the command it answers with.
FailWithError(r) ==
    /\ "fail" \in Faults
    /\ pc[r] \in {"check", "transaction", "raced", "reply"}
    /\ Refuse(r)
    /\ Goto(r, "done")
    /\ UNCHANGED <<businessVars, command, event, ask>>

FailAfterCommit(w) ==
    /\ "fail" \in Faults
    /\ pc[w] \in Committed \ {"reply"}
    /\ Continue(w, AfterError(w))
    /\ UNCHANGED <<businessVars, command, event, answerVars>>

\* The handler is lost with its answer: the client knows nothing.
Crash(w) ==
    /\ "crash" \in Faults
    /\ pc[w] \notin {"idle", "done"}
    /\ Continue(w, IF w \in Request THEN "done" ELSE "idle")
    /\ origin' = [r \in Request |-> IF r = w THEN "lost" ELSE origin[r]]
    /\ result' = [r \in Request |-> IF r = w THEN None ELSE result[r]]
    /\ UNCHANGED <<businessVars, command, event>>

\* createBatch gives a contact an email; simulateSend and the cancellations take it.
OtherEmailWrite(c) ==
    /\ \E i \in Step :
         waiting' = IF <<c, i>> \in waiting THEN waiting \ {<<c, i>>} ELSE waiting \cup {<<c, i>>}
    /\ UNCHANGED <<removed, command, event, pc, requestVars, effects>>

\* Their unconditional status writes, and a reply outcome's REMOVED.
OtherStatusWrite(c) ==
    /\ removed' = IF c \in removed THEN removed \ {c} ELSE removed \cup {c}
    /\ UNCHANGED <<waiting, command, event, pc, requestVars, effects>>

RequestStep(r) ==
    \/ Begin(r) \/ CheckExisting(r) \/ CheckUnknown(r) \/ Commit(r) \/ RollBack(r)
    \/ RacedReplay(r) \/ RacedConflict(r) \/ Dispatch(r) \/ Refresh(r) \/ Reply(r)
    \/ FailWithError(r)

AdvanceStep(w) ==
    \/ AdvanceRead(w) \/ AdvanceRecord(w) \/ AdvanceDuplicate(w) \/ AdvanceProcess(w)
    \/ AdvanceStatus(w) \/ FailAfterCommit(w) \/ Crash(w)

Next ==
    \/ \E r \in Request : RequestStep(r)
    \/ \E m \in Monitor : MonitorBegin(m)
    \/ \E w \in Worker : AdvanceStep(w)
    \/ \E k \in StorageKey : Reprocess(k)
    \/ \E c \in Contact : OtherEmailWrite(c) \/ OtherStatusWrite(c)

Spec == Init /\ [][Next]_vars

-----------------------------------------------------------------------------
(* Properties                                                               *)

TypeOK ==
    /\ removed \subseteq Contact
    /\ waiting \subseteq Contact \X Step
    /\ command \in [StorageKey -> Commands \cup {None}]
    /\ event \in [StorageKey -> {"NONE", "RECEIVED", "PROCESSED"}]
    /\ pc \in [Worker -> Points]
    /\ ask \in [Worker -> Asks \cup {None}]
    /\ result \in [Request -> Results \cup {None}]
    /\ origin \in [Request -> {"none", "own", "replay", "refused", "lost"}]
    /\ effects \in [StorageKey -> Nat]

Answered(r) == pc[r] = "done" /\ origin[r] \in {"own", "replay"}

\* What the abstract specification sees.
Asked == [r \in Request |->
            IF ask[r] = None THEN None ELSE [key |-> ask[r].key, payload |-> ask[r].target]]
Decided == [k \in StorageKey |->
              IF command[k] = None THEN None
              ELSE [payload |-> command[k].target, result |-> command[k].snapshot.did]]
Told == [r \in Request |->
           IF Answered(r) THEN [payload |-> ask[r].target, result |-> result[r].did] ELSE None]

\* A key is applied once, by a request that asked for it, and every request answered
\* 201 under it asked for the same removal and is told what that one transaction did:
\* the promise of checkExisting and claim, across races, failures and lost answers.
Promise == INSTANCE KeyedOperation WITH
    Key <- StorageKey, Payload <- Target, Result <- Outcomes,
    asked <- Asked, outcome <- Decided, answered <- Told

ImplementsKeyedOperation == Promise!Spec

\* A command is COMPLETED only once its event has been received and processed,
\* whichever of the request and the monitors advanced it.
CompletedHasItsEvent ==
    \A k \in StorageKey :
        command[k] # None /\ command[k].status = "COMPLETED" => event[k] = "PROCESSED"

\* No replay shows a dispatch that never happened: the stored result says ACCEPTED
\* only of a command that left REQUESTED.
ShownStatusIsReal ==
    \A k \in StorageKey :
        command[k] # None /\ command[k].snapshot.commandStatus # "REQUESTED"
            => command[k].status # "REQUESTED"

\* The strengthening the proofs need.

\* A monitor only advances; past a commit the command is there; a worker that is to
\* complete a command has seen to its event.
WorkerAgrees(w) ==
    /\ pc[w] = "idle" <=> ask[w] = None
    /\ w \in Monitor => pc[w] \in {"idle", "events", "record", "process", "status"}
    /\ pc[w] \in Committed => command[KeyOf(w)] # None
    /\ pc[w] = "status" => event[KeyOf(w)] = "PROCESSED"

\* What a request holds to answer with is what its key was decided with.
RequestAgrees(r) ==
    /\ pc[r] \in {"idle", "check", "transaction", "raced"} => origin[r] = "none"
    /\ pc[r] \in Committed => origin[r] = "own"
    /\ origin[r] \in {"own", "replay"} =>
         /\ command[KeyOf(r)] # None
         /\ command[KeyOf(r)].target = ask[r].target
         /\ result[r] # None
         /\ result[r].did = command[KeyOf(r)].snapshot.did
         /\ result[r].commandStatus # "REQUESTED" => command[KeyOf(r)].status # "REQUESTED"

OneEffectPerClaim ==
    \A k \in StorageKey : effects[k] = IF command[k] = None THEN 0 ELSE 1

RemovalInv ==
    /\ TypeOK
    /\ \A w \in Worker : WorkerAgrees(w)
    /\ \A r \in Request : RequestAgrees(r)
    /\ OneEffectPerClaim
    /\ CompletedHasItsEvent
    /\ ShownStatusIsReal

\* What the comment of refreshResultSnapshot says: once the original caller is
\* answered, a retry sees the commandStatus it was told.
RetrySeesOriginalStatus ==
    \A r \in Request :
        pc[r] = "done" /\ origin[r] = "own" => command[KeyOf(r)].snapshot = result[r]
=============================================================================

--------------------------- MODULE Administration ---------------------------
(***************************************************************************)
(* The administration of mailboxes and sequences beside the engine's        *)
(* commands: a mailbox is linked, assigned and unlinked (MailboxLink) and   *)
(* the steps of a sequence are edited (SequenceSteps) while publications,   *)
(* provisionings and confirmations are under way (EngineCommands).  The     *)
(* parts share no column.  ConfigureMailboxUseCase is the one handler in    *)
(* two of them: each part has what it writes to the columns of that part,   *)
(* and no property relates them.                                            *)
(***************************************************************************)
EXTENDS MailboxLink

CONSTANTS
    Commands,        \* of EngineCommands
    EngineRequests,  \* bound: MaxRequests of EngineCommands
    Texts,           \* of SequenceSteps
    MaxSteps,        \* bound of SequenceSteps
    MaxEdits         \* bound of SequenceSteps

\* The variables of EngineCommands; three of them have a name that MailboxLink has too.
VARIABLES publishStatus, sequenceVersion, provisioningStatus, importStatus, rawRows, last,
          engineCommand, engineReq, engineRequests, lost, overlap, mappings

engineVars == <<publishStatus, sequenceVersion, provisioningStatus, importStatus, rawRows, last,
                engineCommand, engineReq, engineRequests, lost, overlap, mappings>>

VARIABLES stepPolicy, step, versions, edit, edits, held, disturbed

stepVars == <<stepPolicy, step, versions, edit, edits, held, disturbed>>

\* EngineCommands, with what is proved of it.
Engine == INSTANCE EngineCommandsProofs
    WITH MaxRequests <- EngineRequests,
         command <- engineCommand, req <- engineReq, requests <- engineRequests

\* SequenceSteps, with what is proved of it.
Editing == INSTANCE SequenceStepsProofs

LinkStep == Next /\ UNCHANGED <<engineVars, stepVars>>
EngineStep == Engine!Next /\ UNCHANGED <<vars, stepVars>>
EditingStep == Editing!Next /\ UNCHANGED <<vars, engineVars>>

AdministrationInit == Init /\ Engine!Init /\ Editing!Init

AdministrationSpec ==
    /\ AdministrationInit
    /\ [][LinkStep \/ EngineStep \/ EditingStep]_<<vars, engineVars, stepVars>>

-----------------------------------------------------------------------------
\* Every variable of the three parts has the shape its table or handler gives it.
AdministrationTypeOK == TypeOK /\ Engine!CommandsTypeOK /\ Editing!StepsTypeOK

-----------------------------------------------------------------------------
(* What EngineCommands promises, of the whole.                              *)

\* A sequence shows ACTIVE or FAILED only if the engine reported that.
PublishedIsReported == Engine!PublishedIsReported

\* A publication that blocks the next one is in a handler's hands, unless cut short.
PublicationIsConcluded == Engine!PublicationIsConcluded

\* The version never exceeds the number of completed publications.
VersionIsEarned == Engine!VersionIsEarned

\* What a mailbox shows of its provisioning is about the command it names.
ProvisioningOfLast == Engine!ProvisioningOfLast

\* An event of a command is in one handler's hands.
OneAppliesEachEvent == Engine!OneAppliesEachEvent

\* A command is COMPLETED or FAILED only after the event that ends it.
EndedByItsEvent == Engine!EndedByItsEvent

\* An import is confirmed no more often than it was mapped.
ConfirmedOncePerMapping == Engine!ConfirmedOncePerMapping

-----------------------------------------------------------------------------
(* What SequenceSteps promises, of the whole.                               *)

\* A recorded version of a step is a content the step really had.
RecordedWasHeld == Editing!RecordedWasHeld

\* The steps of a FIXED_3 sequence hold one subject between updates that did not meet.
SubjectIsShared == Editing!SubjectIsShared

\* Positions are 1, 2, ... between rearrangements that did not meet.
PositionsAreContiguous == Editing!PositionsAreContiguous
=============================================================================

------------------------ MODULE AdministrationProofs ------------------------
(***************************************************************************)
(* The whole administration keeps what was proved of MailboxLink, of        *)
(* EngineCommands and of SequenceSteps alone: every step of it is a step of *)
(* that part or leaves the part as it is.  None \notin Commands: NULL is no *)
(* command id.                                                              *)
(***************************************************************************)
EXTENDS Administration, MailboxLinkProofs

LEMMA WholeIsLink == AdministrationSpec => Spec
<1>1. AdministrationInit => Init
  BY DEF AdministrationInit
<1>2. [LinkStep \/ EngineStep \/ EditingStep]_<<vars, engineVars, stepVars>> => [Next]_vars
  BY DEF LinkStep, EngineStep, EditingStep
<1> QED
  BY <1>1, <1>2, PTL DEF AdministrationSpec, Spec

LEMMA WholeIsEngine == AdministrationSpec => Engine!Spec
<1>1. AdministrationInit => Engine!Init
  BY DEF AdministrationInit
<1>2. [LinkStep \/ EngineStep \/ EditingStep]_<<vars, engineVars, stepVars>>
          => [Engine!Next]_Engine!vars
  BY DEF LinkStep, EngineStep, EditingStep, engineVars, Engine!vars, Engine!rows,
         Engine!auxiliary
<1> QED
  BY <1>1, <1>2, PTL DEF AdministrationSpec, Engine!Spec

LEMMA WholeIsEditing == AdministrationSpec => Editing!Spec
<1>1. AdministrationInit => Editing!Init
  BY DEF AdministrationInit
<1>2. [LinkStep \/ EngineStep \/ EditingStep]_<<vars, engineVars, stepVars>>
          => [Editing!Next]_Editing!vars
  BY DEF LinkStep, EngineStep, EditingStep, stepVars, Editing!vars, Editing!rows
<1> QED
  BY <1>1, <1>2, PTL DEF AdministrationSpec, Editing!Spec

\* Whatever the administration does, each of its three parts runs as it would alone.
THEOREM ImplementsParts ==
    AdministrationSpec => Spec /\ Engine!Spec /\ Editing!Spec
  BY WholeIsLink, WholeIsEngine, WholeIsEditing

\* Every variable of the three parts keeps the shape its table or handler gives it.
THEOREM AllTypesCorrect ==
    ASSUME None \notin Commands, MaxSteps \in Nat
    PROVE  AdministrationSpec => []AdministrationTypeOK
<1>1. Spec => []TypeOK
  BY TypeCorrect
<1>2. Engine!Spec => []Engine!CommandsTypeOK
  BY Engine!CommandsTypeCorrect
<1>3. Editing!Spec => []Editing!StepsTypeOK
  BY Editing!StepsTypeCorrect
<1> QED
  BY <1>1, <1>2, <1>3, ImplementsParts, PTL DEF AdministrationTypeOK

\* In the whole as in MailboxLink: what shows as REVOKED or as a COMPLETED unlink is
\* revoked at the motor; an accepted unlink stands, but for status checks beside it or
\* after it; one executive at most is PRIMARY, but for overlaps, cuts and configurations;
\* until the account is REVOKED its executives see the client, but for setAssignees and
\* overlaps; and REVOKED is final but for handlers that read the account before.
THEOREM LinkPromisesHold ==
    AdministrationSpec =>
      /\ [](RevokedIsConfirmed /\ UnlinkStands /\ OnePrimary /\ SeesClientWhileAssigned)
      /\ RevokedIsFinal
  BY RevokedConfirmed, UnlinkHolds, AtMostOnePrimary, VisibilityFollows, RevocationIsFinal,
     WholeIsLink, PTL

\* An event of a command is in one handler's hands.
THEOREM OneApplies ==
    ASSUME None \notin Commands
    PROVE  AdministrationSpec => []OneAppliesEachEvent
<1>1. Engine!Spec => []Engine!OneAppliesEachEvent
  BY Engine!OneApplies
<1> QED
  BY <1>1, WholeIsEngine, PTL DEF OneAppliesEachEvent

\* A command is COMPLETED or FAILED only after the event that ends it.
THEOREM EndsByItsEvent ==
    ASSUME None \notin Commands
    PROVE  AdministrationSpec => []EndedByItsEvent
<1>1. Engine!Spec => []Engine!EndedByItsEvent
  BY Engine!EndsByItsEvent
<1> QED
  BY <1>1, WholeIsEngine, PTL DEF EndedByItsEvent

\* A sequence shows ACTIVE or FAILED only if the engine reported that.
THEOREM PublishedWasReported ==
    ASSUME None \notin Commands
    PROVE  AdministrationSpec => []PublishedIsReported
<1>1. Engine!Spec => []Engine!PublishedIsReported
  BY Engine!PublishedWasReported
<1> QED
  BY <1>1, WholeIsEngine, PTL DEF PublishedIsReported

\* A publication that blocks the next one is in a handler's hands, unless cut short.
THEOREM PublicationConcludes ==
    ASSUME None \notin Commands
    PROVE  AdministrationSpec => []PublicationIsConcluded
<1>1. Engine!Spec => []Engine!PublicationIsConcluded
  BY Engine!PublicationConcludes
<1> QED
  BY <1>1, WholeIsEngine, PTL DEF PublicationIsConcluded

\* The version never exceeds the number of completed publications.
THEOREM VersionEarned ==
    ASSUME None \notin Commands, IsFiniteSet(Commands)
    PROVE  AdministrationSpec => []VersionIsEarned
<1>1. Engine!Spec => []Engine!VersionIsEarned
  BY Engine!VersionEarned DEF IsFiniteSet, Engine!IsFiniteSet
<1> QED
  BY <1>1, WholeIsEngine, PTL DEF VersionIsEarned

\* An import is confirmed no more often than it was mapped.
THEOREM ConfirmedOnce ==
    ASSUME None \notin Commands, IsFiniteSet(Commands)
    PROVE  AdministrationSpec => []ConfirmedOncePerMapping
<1>1. Engine!Spec => []Engine!ConfirmedOncePerMapping
  BY Engine!ConfirmedOnce DEF IsFiniteSet, Engine!IsFiniteSet
<1> QED
  BY <1>1, WholeIsEngine, PTL DEF ConfirmedOncePerMapping

\* What a mailbox shows of its provisioning is about the command it names.
THEOREM ProvisioningIsOfLast ==
    ASSUME None \notin Commands
    PROVE  AdministrationSpec => []ProvisioningOfLast
<1>1. Engine!Spec => []Engine!ProvisioningOfLast
  BY Engine!ProvisioningIsOfLast
<1> QED
  BY <1>1, WholeIsEngine, PTL DEF ProvisioningOfLast

\* A version is a snapshot of its step, however updates of it interleave.
THEOREM VersionsAreSnapshots ==
    ASSUME MaxSteps \in Nat
    PROVE  AdministrationSpec => []RecordedWasHeld
<1>1. Editing!Spec => []Editing!RecordedWasHeld
  BY Editing!VersionsAreSnapshots
<1> QED
  BY <1>1, WholeIsEditing, PTL DEF RecordedWasHeld

\* The three steps of a FIXED_3 sequence hold one subject between updates of it that did not
\* meet and were not cut short.
THEOREM SubjectStaysShared ==
    ASSUME MaxSteps \in Nat
    PROVE  AdministrationSpec => []SubjectIsShared
<1>1. Editing!Spec => []Editing!SubjectIsShared
  BY Editing!SubjectStaysShared
<1> QED
  BY <1>1, WholeIsEditing, PTL DEF SubjectIsShared

\* Positions are contiguous between rearrangements that did not meet and were not cut short.
THEOREM PositionsStayContiguous ==
    ASSUME MaxSteps \in Nat
    PROVE  AdministrationSpec => []PositionsAreContiguous
<1>1. Editing!Spec => []Editing!PositionsAreContiguous
  BY Editing!PositionsStayContiguous
<1> QED
  BY <1>1, WholeIsEditing, PTL DEF PositionsAreContiguous
=============================================================================

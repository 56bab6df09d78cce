SPECIFICATION MCSpec
CONSTANTS
    e1 = e1
    e2 = e2
    k1 = k1
    k2 = k2
    c1 = c1
    c2 = c2
    c3 = c3
    s1 = s1
    s2 = s2
    t1 = t1
    t2 = t2
    None = None
    Executives <- TwoExecutives
    Elsewhere <- TheSecond
    Keys <- TwoKeys
    Slots <- TwoSlots
    Commands <- ThreeCommands
    MaxRequests = 4
    EngineRequests = 3
    Texts <- TwoTexts
    MaxSteps = 3
    MaxEdits = 2
SYMMETRY Symmetry
CHECK_DEADLOCK FALSE
INVARIANTS
    AdministrationTypeOK
    RevokedIsConfirmed
    UnlinkStands
    OnePrimary
    SeesClientWhileAssigned
    PublishedIsReported
    PublicationIsConcluded
    VersionIsEarned
    ProvisioningOfLast
    OneAppliesEachEvent
    EndedByItsEvent
    ConfirmedOncePerMapping
    RecordedWasHeld
    SubjectIsShared
    PositionsAreContiguous
PROPERTIES
    RevokedIsFinal

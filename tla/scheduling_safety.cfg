SPECIFICATION Spec
CONSTANTS
    c1 = c1
    c2 = c2
    s1 = s1
    s2 = s2
    None = None
    Contacts <- TwoContacts
    Company <- TwoContacts
    Steps <- ThreeSteps
    Published <- FirstAndThird
    Archived <- Second
    DailyLimit = 1
    Slots <- TwoSlots
    MaxRequests = 7
SYMMETRY Symmetry
CHECK_DEADLOCK FALSE
INVARIANTS
    TypeOK
    InOrder
    CompletedWentThrough
    FollowUpsReply
    QuietOnceStopped
    ScheduledHasItsEmail
PROPERTIES
    ImplementsCourse
    SentIsFinal

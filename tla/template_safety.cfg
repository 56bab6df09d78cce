SPECIFICATION Spec
CONSTANTS
    s1 = s1
    s2 = s2
    k1 = k1
    k2 = k2
    k3 = k3
    None = None
    Slots <- TwoSlots
    Keys <- TwoKeys
    Ops <- AllOps
    Faults <- AllFaults
    MaxVersions = 3
CHECK_DEADLOCK FALSE
INVARIANTS
    TypeOK
    PublishedIsUsable
    AcceptedIsRemote
    NeverStuckPublishing
PROPERTIES
    ImplementsVersionHistory
SYMMETRY Symmetry

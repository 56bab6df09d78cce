SPECIFICATION FairSpec
CONSTANTS
    s1 = s1
    s2 = s2
    s3 = s3
    k1 = k1
    k2 = k2
    k3 = k3
    v1 = v1
    v2 = v2
    None = None
    Slots <- TwoSlots
    Keys <- TwoKeys
    Versions <- OneVersion
    Ops <- LiveOps
    Faults <- NoFault
    MaxStarts = 2
CHECK_DEADLOCK FALSE
PROPERTIES
    SubmittingEnds

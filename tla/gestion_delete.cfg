SPECIFICATION Spec
CONSTANTS
    s1 = s1
    s2 = s2
    s3 = s3
    k1 = k1
    k2 = k2
    k3 = k3
    v1 = v1
    v2 = v2
    None = None
    Slots <- TwoSlots
    Keys <- TwoKeys
    Versions <- OneVersion
    Ops <- DeleteOps
    Faults <- NoFault
    MaxStarts = 1
CHECK_DEADLOCK FALSE
PROPERTIES
    SubmittedIsNeverDeleted

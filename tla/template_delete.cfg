SPECIFICATION Spec
CONSTANTS
    s1 = s1
    s2 = s2
    k1 = k1
    k2 = k2
    k3 = k3
    None = None
    Slots <- OneSlot
    Keys <- TwoKeys
    Ops <- PublishOps
    Faults <- NoFault
    MaxVersions = 2
CHECK_DEADLOCK FALSE
INVARIANTS
    DeletedOutright

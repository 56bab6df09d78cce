SPECIFICATION Spec
CONSTANTS
    c1 = c1
    c2 = c2
    company = company
    empty = empty
    k1 = k1
    r1 = r1
    r2 = r2
    m1 = m1
    step1 = step1
    None = None
    Contact <- TwoContacts
    Company <- MCCompany
    CompanyOf <- BothAtCompany
    RawKey <- OneKey
    Request <- MCRequest
    Monitor <- MCMonitor
    Step <- OneStep
    Faults <- NoFault
INVARIANTS
    RetrySeesOriginalStatus

SPECIFICATION FairSpec
CONSTANTS
    k1 = k1
    k2 = k2
    Callers = {p1, p2}
    Keys = {k1, k2}
    Blank = Blank
    Nobody = Nobody
    Calls <- SomeCalls
    Lease = 3
    MaxSection = 2
    Failures <- AllFailures
INVARIANTS MutualExclusion
PROPERTIES ImplementsLock EveryCallReturns OrphanExpires

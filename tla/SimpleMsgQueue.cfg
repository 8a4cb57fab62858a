SPECIFICATION FairSpec
CONSTANTS
    m1 = m1
    m2 = m2
    k1 = k1
    Nodes = {n1, n2}
    Msgs = {m1, m2}
    Keys = {k1}
    KeyOf <- SameKey
    Prefetch = 2
    MaxFaults = 1
    MaxCount = 6
    None = None
INVARIANTS AckedWasHandled BoundedRedelivery
PROPERTIES EventuallyAcked
CHECK_DEADLOCK FALSE

SPECIFICATION DelayFairSpec
CONSTANTS
    m1 = m1
    m2 = m2
    m3 = m3
    m4 = m4
    DelayMsgs = {m1, m2, m3, m4}
    DelayOf <- Mixed
    MaxAge = 5
    MaxCrashes = 1
INVARIANTS OnTime
PROPERTIES EventuallyConsumed
CHECK_DEADLOCK FALSE

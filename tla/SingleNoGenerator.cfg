SPECIFICATION Spec
CONSTANTS
    Threads = {t1, t2, t3}
    maxInteger = 1
    MaxCalls = 6
    None = None
INVARIANTS EqualOnlyALapApart
CHECK_DEADLOCK FALSE

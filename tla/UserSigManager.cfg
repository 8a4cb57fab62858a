SPECIFICATION SigSpec
CONSTANTS
    Threads = {t1, t2}
    a1 = a1
    a2 = a2
    i1 = i1
    i2 = i2
    Apps = {a1, a2}
    Identifiers = {i1, i2}
    Requests <- SharedIdentifier
    Lifetime = 3
    Margin = 2
    IntMax = 3
    MaxTime = 4
    Null = Null
SYMMETRY Symmetry
INVARIANTS RefusedForTwoReasonsOnly
CHECK_DEADLOCK FALSE

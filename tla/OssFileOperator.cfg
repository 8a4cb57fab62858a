SPECIFICATION OssSpec
CONSTANTS
    u1 = u1
    u2 = u2
    u3 = u3
    r1 = r1
    r2 = r2
    Null = Null
    Uploads <- MCUploads
    Randoms <- MCRandoms
    Requests <- MCRequests
    Endpoints = {"plain", "bare"}
    MaxRetry = 2
    Minute = 10
    Word = 256
    ExpireTimes = {0, 1, 12, 13, 26}
    MaxDay = 1
SYMMETRY Symmetry
INVARIANTS AddressKept
CHECK_DEADLOCK FALSE

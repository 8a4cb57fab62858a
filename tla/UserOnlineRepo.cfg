SPECIFICATION FairSpec
CONSTANTS
    u1 = u1
    s1 = s1
    s2 = s2
    Users = {u1}
    Sessions = {s1, s2}
    Senders = {d1}
    UserOf <- TwoTabs
    None = None
INVARIANTS NoGhost LostOnlyByOverwrite SendsOnlyToLive
PROPERTIES DisconnectCleansUp
CHECK_DEADLOCK FALSE

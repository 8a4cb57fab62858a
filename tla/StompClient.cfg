SPECIFICATION Spec
CONSTANTS
    Clients = {1, 2}
    Bodies <- MCBodies
    Offers <- MCOffers
    MultiByte = {"e'"}
    MaxPiece = 7
    Outgoing = 1
    Incoming = 1
    MaxDelay = 1
    MaxSends = 1
    MaxMessages = 1
INVARIANTS Conversation TimersEnd NoticedInTime PageFollowsClient
PROPERTIES FramesSurvive
CHECK_DEADLOCK FALSE

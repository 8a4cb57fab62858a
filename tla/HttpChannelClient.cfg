SPECIFICATION ChannelSpec
CONSTANTS
    NoClient = NoClient
    Calls = {c1, c2, c3, c4}
    Dispatched = {c1, c2, c3}
    PoolMax = 1
PROPERTIES ImplementsCall
CHECK_DEADLOCK FALSE

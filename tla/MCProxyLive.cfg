SPECIFICATION FairSpec
CONSTANTS
    p1 = p1  p2 = p2  k1 = k1  k2 = k2
    None = None
    Pid = {p1}
    Key = {k1, k2}
    BadKey = {k2}
    MaxId = 2
    CLIENT_TIMEOUT = 0
    SHUTDOWN_DELAY = 1
PROPERTIES
    Terminates
    ClosingSocketsGo
    QuietClientsReleased
    SignalStops
CHECK_DEADLOCK FALSE

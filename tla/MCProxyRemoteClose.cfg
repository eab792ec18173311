SPECIFICATION FairSpec
CONSTANTS
    p1 = p1  p2 = p2  k1 = k1  k2 = k2
    None = None
    Pid = {p1}
    Key = {k1}
    BadKey = {}
    MaxId = 1
    CLIENT_TIMEOUT = 1
    SHUTDOWN_DELAY = 1
PROPERTIES
    RemoteCloseAnnounced
CHECK_DEADLOCK FALSE

SPECIFICATION Spec
CONSTANTS
    p1 = p1  p2 = p2  k1 = k1  k2 = k2
    None = None
    Pid = {p1, p2}
    Key = {k1}
    BadKey = {}
    MaxId = 2
    CLIENT_TIMEOUT = 0
    SHUTDOWN_DELAY = 1
SYMMETRY Symm
INVARIANTS
    TypeOK
    IndexSound
    TableTracksSockets
    SocketsAreUsed
    UsersRegistered
    IdleShutdownOnly
    SharedUnlessRaced
PROPERTIES
    SharedSocketSurvives
    SharesConnections
CHECK_DEADLOCK FALSE

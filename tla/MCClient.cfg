SPECIFICATION Spec
CONSTANTS
    HEARTBEAT_TIMEOUT = 2
    HEARTBEAT_INTERVAL = 1
    WORD = 16
    SetAhead = {}
    SetBack = {}
    MaxBack = 0
    MaxStall = 1
    MaxServers = 2
    MaxId = 1
    MaxQueue = 2
INVARIANTS TypeOK LostSocketsAnnounced
PROPERTIES NoFalseAlarm QueueReplacedSafely
CHECK_DEADLOCK FALSE

SPECIFICATION FairSpec
CONSTANTS
    HEARTBEAT_TIMEOUT = 2
    HEARTBEAT_INTERVAL = 1
    WORD = 16
    SetAhead = {}
    SetBack = {1}
    MaxBack = 1
    MaxStall = 1
    MaxServers = 1
    MaxId = 1
    MaxQueue = 1
PROPERTIES LostServerNoticed DestructorReturns NoFalseAlarm
CHECK_DEADLOCK FALSE

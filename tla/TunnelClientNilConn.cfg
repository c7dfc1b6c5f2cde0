SPECIFICATION Spec
CONSTANTS
    r1 = r1
    r2 = r2
    r3 = r3
    free = free
    infoMsg = infoMsg
    Free <- free
    Info <- infoMsg
    Requests <- OneRequest
    maxConcurrentRequests = 1
    maxRetries = 2
    MaxSessions = 1
    SocketCap = 1
INVARIANT
    ServesAConnection

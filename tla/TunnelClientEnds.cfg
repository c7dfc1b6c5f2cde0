SPECIFICATION FairSpec
CONSTANTS
    r1 = r1
    r2 = r2
    r3 = r3
    free = free
    infoMsg = infoMsg
    Free <- free
    Info <- infoMsg
    Requests <- ThreeRequests
    maxConcurrentRequests = 2
    maxRetries = 1
    MaxSessions = 1
    SocketCap = 1
INVARIANTS
    TypeOK
    NoWorkOutlivesSession
    SlotsMatchHandlers
    AnswersAreLogged
PROPERTIES
    ImplementsForwarding
    Reconnects
    HandlersEnd
    ShutdownCompletes

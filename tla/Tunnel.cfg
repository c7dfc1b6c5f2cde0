SPECIFICATION FlowSpec
CONSTANTS
    r1 = r1
    r2 = r2
    r3 = r3
    r4 = r4
    Requests = {r1, r2, r3, r4}
    maxConcurrentRequests = 1
    SocketCap = 1
    Free = Free
    Info = Info
INVARIANTS OnlyInfoCloses
PROPERTIES ImplementsForwarding FlowsOncePumping PumpStarts

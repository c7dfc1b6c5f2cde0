SPECIFICATION Spec
CONSTANTS
    c1 = c1
    c2 = c2
    alice = alice
    Conns = {c1, c2}
    Requests = {}
    Labels <- AB
    lower <- ABLower
    Pool <- NoPool
    Words = {"a", "b"}
    HasDomain = FALSE
    Users = {alice}
    UserOf <- OneOwner
    SocketCap = 1
    recentRequestCap = 1
    Absent = Absent
    Nil = Nil
    Info = Info
    Noise = Noise
PROPERTIES RequestedElseRandom

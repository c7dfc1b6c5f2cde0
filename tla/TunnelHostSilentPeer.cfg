SPECIFICATION FairSpec
CONSTANTS
    c1 = c1
    c2 = c2
    alice = alice
    Conns = {c1}
    Requests = {r1, r2}
    Labels <- OneLabel
    lower <- OneLower
    Pool <- OnePool
    Words = {"a"}
    HasDomain = TRUE
    Users = {alice}
    UserOf <- OneOwner
    SocketCap = 1
    recentRequestCap = 1
    Absent = Absent
    Nil = Nil
    Info = Info
    Noise = Noise
PROPERTIES RequestsFinish

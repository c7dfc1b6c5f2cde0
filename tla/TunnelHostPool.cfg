SPECIFICATION Spec
CONSTANTS
    c1 = c1
    c2 = c2
    alice = alice
    Conns = {c1, c2, c3}
    Requests = {}
    Labels <- MCLabels
    lower <- MCLower
    Pool <- MixedPool
    Words = {"b"}
    HasDomain = FALSE
    Users = {alice}
    UserOf <- OneOwner
    SocketCap = 1
    recentRequestCap = 1
    Absent = Absent
    Nil = Nil
    Info = Info
    Noise = Noise
SYMMETRY ConnSymmetry
INVARIANTS NameExclusive RegistryMatchesHandlers
PROPERTIES RefusedOnlyWhenExhausted

SPECIFICATION Spec
CONSTANTS
    k1 = k1
    k2 = k2
    k3 = k3
    Commands = {k1, k2, k3}
    Addresses <- MCAddresses
    PortalUrl = "http://h1:8002"
    Keys = {"h1", "h2"}
    HostKey <- MCHostKey
    Configs <- MCConfigs
    NoAddress = NoAddress
    None = None
    Missing = Missing
    Torn = Torn
SYMMETRY Symmetric
INVARIANTS FileIsLastWord TokensStayHome
PROPERTIES RunFindsLogins

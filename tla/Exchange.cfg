SPECIFICATION Spec
CONSTANTS
    r1 = r1
    r2 = r2
    Requests = {r1,r2}
    Urls = {"u1", "u2"}
    Localhost = "localhost"
    MaxSessions = 2
    HasDomain = TRUE
    BlackList = {"x-secret"}
    WildListed = {"x-amz-id"}
    ipHeaderName = "x-forwarded-for"
    HostHeader = TRUE
    CustomHeader <- MCCustom
    rewriteEnabled = TRUE
    Spellings <- MCSpellings
    lower <- MCLower
    Asks <- MCAsks
    Pages <- MCPages
    Garbled = "garbled"
    Nothing = Nothing
SYMMETRY Symmetric
INVARIANTS HiddenStayHidden BodyMatchesEncoding LinksLeadBack InspectorTells

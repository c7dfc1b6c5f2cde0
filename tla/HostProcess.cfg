SPECIFICATION FairSpec
CONSTANTS
    j1 = j1
    j2 = j2
    Jobs = {j1, j2}
    Names = {"admin", "root"}
    AdminUser = "admin"
    SslEnabled = TRUE
    MaxStarts = 3
    Missing = Missing
    Torn = Torn
INVARIANTS TypeOK SomebodyCanSignIn PairOutlivesProcess FilesLoadUnlessDamaged
PROPERTIES StopEnds

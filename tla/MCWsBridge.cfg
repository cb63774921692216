CONSTANTS
    Storages = {s1}
    None = None
    MaxLinks = 3
    Sockets = {f1, f2}
    MaxClients = 2
    RefreshRetries = 2
    LingerSeconds = 15
    DialSeconds = 10
SPECIFICATION FairSpec
INVARIANTS
    TypeOK
    BooksMatchStack
    ConnectingIsUnderWay
    IdleLinkIsCycled
    ShownConnectedIsUp
    ClockOnlyWhenUnwatched
PROPERTIES
    KeepsPromise
    ConnectingEnds

CONSTANTS
    Storages = {s1, s2}
    None = None
    MaxLinks = 3
    Sockets = {f1}
    MaxClients = 1
    RefreshRetries = 3
    LingerSeconds = 15
    DialSeconds = 10
SPECIFICATION Spec
INVARIANT NameIsOfTheLink

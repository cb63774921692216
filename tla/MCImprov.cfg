CONSTANTS
    Width = 8
    Bytes = {0, 1, 2, 3, 4, 6, 7}
    Header <- MCHeader
    TypeRpc = 2
    Commands <- MCCommands
    MaxPayload = 6
    SsidMax = 3
    PasswordMax = 2
SPECIFICATION ImprovSpec
CONSTRAINT MCBound
INVARIANTS
    ImprovTypeOK
    HuntsForHeader
    TriesWhatWasSent

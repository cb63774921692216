CONSTANTS
    Storages = {s1, s2, s3}
    None = None
    MaxLinks = 2
SPECIFICATION BleSpec
SYMMETRY Symmetry
INVARIANTS
    BleTypeOK
    KnownLinkIsUp
    NothingLeftOver

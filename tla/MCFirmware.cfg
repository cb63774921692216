CONSTANTS
    Releases = {r1, r2}
    MaxCuts = 2
SPECIFICATION FwFairSpec
INVARIANTS
    FwTypeOK
    Lifeline
    NameIsOfTheWeb
PROPERTIES
    LeavesOnlyIfCut
    Recovers

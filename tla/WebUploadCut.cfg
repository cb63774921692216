CONSTANTS
    Releases = {r1}
    MaxCuts = 1
SPECIFICATION FwSpec
INVARIANT RetryAlwaysPossible

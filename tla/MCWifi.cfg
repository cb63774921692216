CONSTANTS
    Networks = {n1, n2}
    None = None
    BuiltIn = n1
    Callers = {improv, page}
    FastRetries = 1
    MaxEvents = 2
    MaxRestarts = 1
SPECIFICATION FairSpec
INVARIANTS
    WfTypeOK
    ConnectedIsTrue
    KeepsTrying
    StoredWorked
    ConfigIsShown
    LedIsTrue
CHECK_DEADLOCK FALSE
PROPERTY
    ReachableAfterStart

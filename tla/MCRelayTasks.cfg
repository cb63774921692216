CONSTANTS
    Sockets = {f1, f2}
    RefreshRetries = 1
SPECIFICATION Spec
SYMMETRY Symmetry
CONSTRAINT MCBound
INVARIANTS
    TasksTypeOK
    NoneHandedOverMute
    DialIsKnown
    
PROPERTY KeepsPromise

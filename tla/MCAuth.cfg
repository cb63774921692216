CONSTANTS
    Browsers = {b1, b2}
    Words = {w1, w2}
    Salts = {a1, a2, a3}
    None = None
    MaxFailed = 2
    MaxLogins = 2
    MaxRestarts = 1
SPECIFICATION AuthSpec
SYMMETRY Symmetry
INVARIANTS
    AuthTypeOK
    KeyFitsSalt
    RightWordFits
    SessionDiesWithPassword
PROPERTIES
    ClaimedForGood
    RestartKeepsLogin

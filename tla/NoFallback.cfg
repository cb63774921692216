CONSTANTS
    Networks = {n1}
    None = None
    BuiltIn = None
    Callers = {}
    FastRetries = 1
    MaxEvents = 2
    MaxRestarts = 0
SPECIFICATION AnsweringSpec
CHECK_DEADLOCK FALSE
PROPERTY FallbackOpens

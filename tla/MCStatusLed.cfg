CONSTANT MaxEvents = 4
SPECIFICATION FairSpec
INVARIANTS
    LedTypeOK
    OnePattern
PROPERTY KeepsBlinking

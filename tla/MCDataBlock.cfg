SPECIFICATION FairSpec
CONSTANTS
    Key <- KeyDef
    Value <- ValueDef
    Intervals = {0, 1, 2}
    MaxEntries = 3
    Rot = {0, 1, 2, 3, 6, 30}
    MaxDamage = 1
    Word = 32
INVARIANTS
    TypeOK
    ReadsInside
    KeyStillAhead
    KeysRebuilt
    GetExact
PROPERTY GetReturns
CHECK_DEADLOCK FALSE

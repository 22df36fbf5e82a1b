SPECIFICATION Spec
CONSTANTS
    Key = {k1, k2}
    WordBits = 5
    HashValue = {0, 11, 28}
    BitCounts = {0, 3, 8, 12}
    HashCounts = {0, 3}
    MaxDamage = 1
INVARIANTS
    TypeOK
    InBounds
    NoFalseNegatives
    ReloadAccepted
    PositionsSpread
CHECK_DEADLOCK FALSE

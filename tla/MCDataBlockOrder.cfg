SPECIFICATION Spec
CONSTANTS
    Key <- KeyDef
    Value <- ValueDef
    Intervals = {2}
    MaxEntries = 2
    Rot = {}
    MaxDamage = 0
    Word = 32
INVARIANT KeysIncrease
CHECK_DEADLOCK FALSE

SPECIFICATION Spec
CONSTANTS
    Key <- KeyDef
    Value <- ValueDef
    Intervals = {1}
    MaxEntries = 3
    Rot = {30}
    MaxDamage = 1
    Word = 32
INVARIANT BoundsValidated
CHECK_DEADLOCK FALSE

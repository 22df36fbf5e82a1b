SPECIFICATION FairSpec
CONSTANTS
    Divider <- DividerDef
    Handle <- HandleDef
    MaxEntries = 3
    MaxFinishes = 2
    Rot = {0, 2, 9}
    MaxDamage = 1
    Cont = 8
    Word = 32
INVARIANTS
    TypeOK
    FindExact
PROPERTY FindReturns
CHECK_DEADLOCK FALSE

SPECIFICATION FairSpec
CONSTANTS
    Key = {1, 2, 3}
    Val = {v1, v2}
    Node = {n1, n2, n3}
    HEAD = HEAD
    NULL = NULL
    BAD = BAD
    MaxLevelArg = 2
    PNumArg = 1
    PDenArg = 4
INVARIANTS
    TypeOK
    LinksExact
    KeysUnique
    SearchExact
    LevelExact
    SizeExact
    ClearExact
    IteratorAlive
PROPERTIES
    ImplementsMemtable
    CallsReturn
CHECK_DEADLOCK FALSE

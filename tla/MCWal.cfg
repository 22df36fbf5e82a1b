SPECIFICATION FairSpec
CONSTANTS
    ControlRecord = {BEGIN_TX}
    KeyRecord = {PUT, DELETE}
    GARBAGE = GARBAGE
    MaxRecords = 2
INVARIANTS
    TypeOK
    ReplayIsPrefix
    SyncedReplayed
    WrittenReplayed
PROPERTY RecoveryEnds
CHECK_DEADLOCK FALSE

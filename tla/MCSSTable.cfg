SPECIFICATION Spec
CONSTANTS
    MaxKey = 2
    MaxBlocks = 2
    MaxTorn = 1
INVARIANTS
    TypeOK
    LookupExact
    SyncedSurvives
    LossIsLocal

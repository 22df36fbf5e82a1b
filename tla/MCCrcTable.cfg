SPECIFICATION Spec
CONSTANTS
    Thread = {1, 2}
    Entry = {0, 1, 2}
    MaxBytes = 2
INVARIANT CrcExact
CHECK_DEADLOCK FALSE

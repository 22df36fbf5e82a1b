SPECIFICATION Spec
CONSTANTS
    MaxKey = 2
    MaxBlocks = 2
    MaxTorn = 1
INVARIANT TornRefused

SPECIFICATION Spec
CONSTANTS
    Writer = {1, 2}
    Reader = {3}
    Name = {a, b}
    NumFiles = 2
    NumFds = 2
    MaxCells = 1
    Platform = {"posix"}
    Released = {TRUE}
    NONE = NONE
PROPERTY WritesOwnFile
CHECK_DEADLOCK FALSE

SPECIFICATION Spec
CONSTANTS
    Writer = {1, 2}
    Reader = {3}
    Name = {a, b}
    NumFiles = 2
    NumFds = 2
    MaxCells = 2
    Platform = {"posix", "win32"}
    Released = {FALSE}
    NONE = NONE
INVARIANTS
    TypeOK
    DescriptorsOwned
    WrittenInOrder
    ReadsInOrder
    ExclusiveOnWindows
PROPERTY WritesOwnFile

SPECIFICATION Spec
CONSTANTS
    Threads = {1, 2, 3}
    Entries = {0, 1}
    Entry <- TwoShared
    Handles = {1}
    Sizes = {1}
    MaxExpandPoints = 2
    MaxNodes = 3
    MaxCommands = 2
INVARIANTS
    TypeOK
    OwnThreadOnly
    AloneIsExact
    ListsAreSound
CHECK_DEADLOCK FALSE

SPECIFICATION Spec
CONSTANTS
    Threads = {1, 2, 3}
    Entries = {0, 1}
    Entry <- Shared
    Handles = {1}
    Sizes = {1}
    MaxExpandPoints = 2
    MaxNodes = 4
    MaxCommands = 2
INVARIANTS
    OwnSizesOnly
CHECK_DEADLOCK FALSE

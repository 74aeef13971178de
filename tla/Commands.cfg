SPECIFICATION Spec
CONSTANTS
    World <- MCWorld
    Options <- MCOptions
    Functions = {"x"}
    Acceptable = {"r", "rf", "sf", "d"}
    Numbers <- MCNumbers
    Ids <- MCIds
    Clients = {a}
    Lines <- MCLines
    MaxLeftovers = 1
INVARIANTS
    TypeOK
    Survives
    
    PairsArrive
PROPERTIES
    OwnOperands
    CommitsAsAsked
    TasksClosed
    HistoryIndependent
CHECK_DEADLOCK FALSE

SPECIFICATION Spec
CONSTANTS
    World <- MCWorld
    Options <- MCOptions
    Functions = {"x"}
    Acceptable = {"r", "rf", "sf", "d"}
    Numbers <- MCNumbers
    Ids <- MCIds
    Clients = {a, b}
    Lines <- MCLines
    MaxLeftovers = 0
INVARIANT AnswerToAsker
CHECK_DEADLOCK FALSE

SPECIFICATION Spec
CONSTANTS
    l1 = l1
    l2 = l2
    n1 = n1
    n2 = n2
    n3 = n3
    Lists = {l1, l2}
    Nodes = {n1, n2, n3}
    NoNode = NoNode
    NoList = NoList
    Tags = {1, 2}
    Objects = {1, 2}
    Kinds <- MCKinds
    MaxVerdicts = 1
SYMMETRY Addresses
INVARIANTS
    TypeOK
    ListsAgree
    CursorInside

    

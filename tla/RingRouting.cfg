SPECIFICATION Spec
CONSTANTS
    n1 = n1
    n2 = n2
    n3 = n3
    Nodes = {n1, n2, n3}
    NoNode = NoNode
    VirtualNodes = 2
    Space = 7
INVARIANTS RingConsistent RoutesClockwise
PROPERTY MovesOnlyOwnKeys

SPECIFICATION Spec
CONSTANTS
    k1 = k1
    k2 = k2
    k3 = k3
    k4 = k4
    Key = {k1, k2, k3, k4}
    Value = {v1, v2}
    SetName = {a, b}
    MapName = m
    NULL = NULL
    Node = {n1, n2, n3, n4}
    Capacity = 4
    hash <- MCHash
    Uses <- Phases
SYMMETRY NodesAlike
INVARIANTS TypeOK OneOwner FindableInItsBucket
PROPERTY KeepsItsPromise

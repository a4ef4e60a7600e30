\* Every sequence of inserts and deletes over six nodes and three keys:
\* trees of black height 2, so every case of both fixups occurs.
CONSTANTS
    n1 = n1
    n2 = n2
    n3 = n3
    n4 = n4
    n5 = n5
    n6 = n6
    NIL = NIL
    NULL = NULL
    Nodes <- MCNodes
    Keys = {1, 2, 3}
SYMMETRY MCSymmetry
VIEW TreeView
SPECIFICATION Spec
INVARIANTS
    TreeShape
    TreeContents

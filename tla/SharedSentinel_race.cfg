\* Two workers insert and delete timers; the sentinel is shared.
CONSTANTS
    wa = wa  wb = wb
    a1 = a1  a2 = a2  a3 = a3  a4 = a4  b1 = b1  b2 = b2
    NIL = NIL
    NULL = NULL
    Workers <- MCWorkers
    Nodes <- MCNodes
    NodesOf <- MCNodesOf
    KeyOf <- MCKeyOf
SPECIFICATION Spec
INVARIANT TreesIntact

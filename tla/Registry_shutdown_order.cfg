\* Shutdown order: main closes the database before it stops the workers.
CONSTANTS
    N <- MCN
    Head = Head
    NULL = NULL
SPECIFICATION Spec
INVARIANT DbOpenWhileInUse
CHECK_DEADLOCK FALSE

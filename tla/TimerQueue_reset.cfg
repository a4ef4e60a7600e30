\* Three connections on one worker: enough for a timer node with two
\* children.  Deadlock is not checked: a worker stuck in run_timers takes
\* no further step, and the question here is the invariant.
CONSTANTS
    c1 = c1
    c2 = c2
    c3 = c3
    NIL = NIL
    NULL = NULL
    Conns <- MCConns3
    Timeout = 1
    MaxTime = 2
SYMMETRY MCSymmetry3
SPECIFICATION Spec
INVARIANT TimersOwnTheirNodes
CHECK_DEADLOCK FALSE

\* A fatal error the state worker reports while New is still starting up:
\* the watcher runs halt before s.state and the listeners are set.
CONSTANTS
    a1 = a1
    a2 = a2
    Addresses <- MCAddresses
    MaxFatal = 2
    EarlyFatal = TRUE
    WorkerSelects = TRUE
SPECIFICATION Spec
SYMMETRY MCSymmetry
INVARIANT StoppedWhenHalted
CHECK_DEADLOCK FALSE

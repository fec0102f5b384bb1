\* A fatal error the state worker reports while New is still starting up.
CONSTANTS
    a1 = a1
    a2 = a2
    Addresses <- MCAddresses
    MaxFatal = 2
    EarlyFatal = TRUE
    WorkerSelects = TRUE
SPECIFICATION Spec
SYMMETRY MCSymmetry
INVARIANT NoSendOnClosed
CHECK_DEADLOCK FALSE

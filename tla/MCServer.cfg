\* The server lifecycle once New has returned: Shutdown from the host,
\* fatal errors from the state worker, and New's own failure paths.
CONSTANTS
    a1 = a1
    a2 = a2
    Addresses <- MCAddresses
    MaxFatal = 2
    EarlyFatal = FALSE
    WorkerSelects = TRUE
SPECIFICATION FairSpec
SYMMETRY MCSymmetry
INVARIANT TypeOK
INVARIANT NoSendOnClosed
PROPERTY FatalErrorHalts
CHECK_DEADLOCK FALSE

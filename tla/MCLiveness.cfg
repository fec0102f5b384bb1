\* Two parties sharing a passphrase, one query fault, a's shutdownChan
\* closable; every Run goroutine weakly fair.
CONSTANTS
    a = a
    b = b
    c = c
    Parties = {a, b}
    Passphrase <- MCPassphrase
    MaxSessions = 1
    MaxFaults = 1
    MaxRestarts = 0
    Closable = {a}
    NoT1 = NoT1
    NoSnapshot = NoSnapshot
    Forger = Forger
    JunkT1s = 1
    MaxForged = 0
SPECIFICATION FairSpec
PROPERTY MutualCompletion
CHECK_DEADLOCK FALSE

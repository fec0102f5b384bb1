\* Three parties with the same passphrase, no faults, no restarts.
CONSTANTS
    a = a
    b = b
    c = c
    Parties = {a, b, c}
    Passphrase <- MCSamePassphrase
    MaxSessions = 1
    MaxFaults = 0
    MaxRestarts = 0
    Closable = {}
    NoT1 = NoT1
    NoSnapshot = NoSnapshot
    Forger = Forger
    JunkT1s = 0
    MaxForged = 0
SYMMETRY MCSymmetryAll
VIEW NoRestartView
SPECIFICATION Spec
INVARIANT AtMostOneResult
CHECK_DEADLOCK FALSE

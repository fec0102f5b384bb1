\* Two parties sharing a passphrase, one host restart from the last snapshot, no faults.
CONSTANTS
    a = a
    b = b
    c = c
    Parties = {a, b}
    Passphrase <- MCPassphrase
    MaxSessions = 1
    MaxFaults = 0
    MaxRestarts = 1
    Closable = {}
    NoT1 = NoT1
    NoSnapshot = NoSnapshot
    Forger = Forger
    JunkT1s = 0
    MaxForged = 0
SPECIFICATION Spec
INVARIANT AtMostOnceOkSend
CHECK_DEADLOCK FALSE

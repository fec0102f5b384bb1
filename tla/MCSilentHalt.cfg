\* Two parties sharing a passphrase, one query fault and no restarts.
CONSTANTS
    a = a
    b = b
    c = c
    Parties = {a, b}
    Passphrase <- MCPassphrase
    MaxSessions = 1
    MaxFaults = 1
    MaxRestarts = 0
    Closable = {}
    NoT1 = NoT1
    NoSnapshot = NoSnapshot
    Forger = Forger
    JunkT1s = 0
    MaxForged = 0
SPECIFICATION Spec
INVARIANT TerminalUpdate
CHECK_DEADLOCK FALSE

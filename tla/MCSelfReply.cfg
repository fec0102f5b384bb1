\* Two parties sharing a passphrase, one host restart, which re-creates the Exchange with a fresh Session when no snapshot was persisted.
CONSTANTS
    a = a
    b = b
    c = c
    Parties = {a, b}
    Passphrase <- MCPassphrase
    MaxSessions = 2
    MaxFaults = 0
    MaxRestarts = 1
    Closable = {}
    NoT1 = NoT1
    NoSnapshot = NoSnapshot
    Forger = Forger
    JunkT1s = 0
    MaxForged = 0
SPECIFICATION Spec
INVARIANT NoSelfReply
CHECK_DEADLOCK FALSE

\* Two parties sharing a passphrase, one query fault, one host restart
\* (from the last snapshot, or with a fresh Session when none was
\* persisted), shutdownChan closable for both.
CONSTANTS
    a = a
    b = b
    c = c
    Parties = {a, b}
    Passphrase <- MCPassphrase
    MaxSessions = 2
    MaxFaults = 1
    MaxRestarts = 1
    Closable = {a, b}
    NoT1 = NoT1
    NoSnapshot = NoSnapshot
    Forger = Forger
    JunkT1s = 0
    MaxForged = 0
SYMMETRY MCSymmetry
SPECIFICATION Spec
INVARIANT PartnerCanFinish
PROPERTY ImplementsAbstract
CHECK_DEADLOCK FALSE

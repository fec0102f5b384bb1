\* Scenario S1 on an untrusted board: a and b share a passphrase; the
\* Forger posts one malformed T1 and up to two forged T2/T3 messages.
\* No query faults, restarts or shutdowns: the adversary is the board.
CONSTANTS
    a = a
    b = b
    c = c
    Parties = {a, b}
    Passphrase <- MCPassphrase
    MaxSessions = 1
    MaxFaults = 0
    MaxRestarts = 0
    Closable = {}
    NoT1 = NoT1
    NoSnapshot = NoSnapshot
    Forger = Forger
    JunkT1s = 1
    MaxForged = 2
SYMMETRY MCSymmetry
VIEW NoRestartView
SPECIFICATION Spec
INVARIANT T3AnswersGenuineT2
PROPERTY ImplementsAbstract
CHECK_DEADLOCK FALSE

\* Three parties, one injected query fault, no shutdown, no restarts.
CONSTANTS
    a = a
    b = b
    c = c
    Parties = {a, b, c}
    Closable = {}
    Passphrase <- MCPassphrase
    MaxSessions = 1
    MaxFaults = 1
    MaxRestarts = 0
    NoT1 = NoT1
    NoSnapshot = NoSnapshot
    Forger = Forger
    JunkT1s = 0
    MaxForged = 0
SYMMETRY MCSymmetry
VIEW NoRestartView
SPECIFICATION Spec
INVARIANT TypeOK
INVARIANT AtMostOnceOkSend
INVARIANT PartnerCanFinish
INVARIANT ResultFromMatchingPeer
CHECK_DEADLOCK FALSE

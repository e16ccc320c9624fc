SPECIFICATION DaemonSpec
CONSTANTS
    s1 = s1
    s2 = s2
    Sessions = {s1, s2}
    NoSession = NoSession
    MaxListed = 2
    StaleNudges = TRUE
    MaxTurns = 3
    MaxSends = 2
SYMMETRY Symmetry
INVARIANT NudgedOnce
PROPERTY KeepsLedger
CHECK_DEADLOCK FALSE

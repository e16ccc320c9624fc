SPECIFICATION Spec
CONSTANTS
    a = a
    b = b
    i1 = i1
    i2 = i2
    Versions = {1, 2, 3}
    Artifacts <- Builds
    Installers = {i1, i2}
    Readers = {r1}
    Starts <- EmptyOrInstalled
    MaxRetained = 2
    MaxFaults = 1
    None = None
    Torn = Torn
SYMMETRY Symmetry
INVARIANTS TypeOK VerifiedIsWhole ServedIsVerified RollsBackToLast
CHECK_DEADLOCK FALSE

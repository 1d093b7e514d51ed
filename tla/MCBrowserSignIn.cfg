SPECIFICATION Spec
CONSTANTS
    Attempts = {a1, a2}
    NoAttempt = NoAttempt
    Installed = TRUE
    MaxThreads = 1
    MaxFaults = 1
SYMMETRY AttemptSymmetry
INVARIANTS
    TypeOK
    LeftIsIgnored
    OneIsHeard

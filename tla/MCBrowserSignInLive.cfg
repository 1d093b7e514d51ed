SPECIFICATION FairSpec
CONSTANTS
    Attempts = {a1}
    NoAttempt = NoAttempt
    Installed = FALSE
    MaxThreads = 1
    MaxFaults = 1
PROPERTIES
    WaitingEnds

SPECIFICATION FairSpec
CONSTANTS
    Procs = {p, q, r}
    NoProc = NoProc
    NoRecord = NoRecord
    MaxRelease = 2
    MaxCrashes = 2
    MaxFaults = 1
    MaxSetups = 1
INVARIANTS
    TypeOK
    RestartIsReady
    MetadataFits
PROPERTIES
    NoDowngrade
    HandoffSettles

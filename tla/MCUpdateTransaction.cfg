SPECIFICATION FairSpec
CONSTANTS
    Paths = {a, b}
    Contents = {v1, v2}
    NoFile = NoFile
    NoRecord = NoRecord
    MaxApplies = 2
    MaxFaults = 1
    MaxCrashes = 1
INVARIANTS
    TypeOK
    BackupsComplete
    SuccessIsVerified
PROPERTIES
    WriteAheadLog
    ImplementsAtomicUpdate
    EngineSettles

SPECIFICATION FairSpec
CONSTANTS
    v1 = v1
    v2 = v2
    v3 = v3
    Versions = {v1, v2, v3}
    Size <- TwoSizes
    None = None
    MaxAttempts = 4
    MaxCrashes = 2
    MaxFaults = 2
    MaxChanges = 2
INVARIANTS
    TypeOK
    SignedIsGenuine
    UnsignedIsWhole
PROPERTY
    Delivers

SPECIFICATION Spec
CONSTANTS
    LastRelease = 3
    MaxFaults = 4
INVARIANTS
    TypeOK
    GameKept
    SealCovers
PROPERTIES
    LaunchedNotBehind

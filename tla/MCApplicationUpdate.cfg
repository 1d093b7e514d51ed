SPECIFICATION Spec
CONSTANTS
    Last = 3
    MaxFaults = 3
    Losable = {"staged"}
INVARIANTS
    TypeOK
    GameIsKnown
PROPERTIES
    RecordedWhole

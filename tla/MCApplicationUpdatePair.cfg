SPECIFICATION Spec
CONSTANTS
    Last = 2
    MaxFaults = 1
    Losable = {}
PROPERTIES
    LaunchedPair

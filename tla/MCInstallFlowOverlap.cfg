\* Two threads beside the main one: an operation or a scan beside another.
SPECIFICATION Spec
CONSTANTS
    Threads = {t1, t2}
    Main = main
    LastRelease = 2
    LauncherStaged = TRUE
    MaxFaults = 1
SYMMETRY ThreadSymmetry
INVARIANTS
    OneOperation
PROPERTIES
    LaunchCoherent

\* What the guard is said to protect, against a second scan.
SPECIFICATION Spec
CONSTANTS
    Threads = {t1, t2}
    Main = main
    LastRelease = 2
    LauncherStaged = FALSE
    MaxFaults = 1
PROPERTIES
    ExclusiveAccess

\* One thread at a time beside the main thread.
SPECIFICATION FairSpec
CONSTANTS
    Threads = {t1}
    Main = main
    LastRelease = 2
    LauncherStaged = FALSE
    MaxFaults = 2
INVARIANTS
    TypeOK
    ContentFollowsGame
PROPERTIES
    ApprovalKept
    Answered
    Converges

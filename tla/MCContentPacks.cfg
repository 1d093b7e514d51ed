SPECIFICATION Spec
CONSTANTS
    Packs = {"base", "more"}
    Game = "game"
    BuiltIn = "classic"
    Releases <- MCReleases
    Files = {"xml", "data", "map"}
    Definition = "xml"
    Threads = {t1, t2}
    LastGame = 2
    MaxFaults = 3
    MaxChanges = 1
    Texts <- MCTexts
SYMMETRY ThreadSymmetry
INVARIANTS
    TypeOK
    FilesAreRecorded
    DependenciesPresent
    NeverStuck
    VersionsAgree
PROPERTIES
    OwnFilesKept
    ImplementsPackStore

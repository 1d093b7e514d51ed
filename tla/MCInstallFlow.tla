--------------------------- MODULE MCInstallFlow ---------------------------
EXTENDS InstallFlow, TLC

ThreadSymmetry == Permutations(Threads)
=============================================================================

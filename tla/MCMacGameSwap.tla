--------------------------- MODULE MCMacGameSwap ---------------------------
EXTENDS MacGameSwap, TLC
=============================================================================

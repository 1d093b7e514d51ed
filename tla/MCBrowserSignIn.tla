-------------------------- MODULE MCBrowserSignIn --------------------------
(* Two attempts are enough for one to be late for the other.  No property   *)
(* that is checked with the symmetry set is a liveness property.            *)
EXTENDS BrowserSignIn, TLC

AttemptSymmetry == Permutations(Attempts)
=============================================================================

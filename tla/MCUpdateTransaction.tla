------------------------ MODULE MCUpdateTransaction ------------------------
(* The instances of UpdateTransaction that TLC checks: paths and contents  *)
(* are interchangeable, so the safety runs may identify states that differ *)
(* by renaming them.                                                       *)
EXTENDS UpdateTransaction, TLC

Symmetry == Permutations(Paths) \cup Permutations(Contents)
=============================================================================

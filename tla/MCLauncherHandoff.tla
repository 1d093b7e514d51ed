------------------------- MODULE MCLauncherHandoff -------------------------
(* The instance of LauncherHandoff that TLC checks.  The slots of the       *)
(* processes are interchangeable, but the run has a liveness property, so  *)
(* no symmetry set is used.                                                *)
EXTENDS LauncherHandoff
=============================================================================

------------------------ MODULE MCResumableDownload ------------------------
(* The instances of ResumableDownload that TLC checks: two versions of one *)
(* length and one that is longer.                                          *)
EXTENDS ResumableDownload

CONSTANTS v1, v2, v3

TwoSizes == [v \in {v1, v2, v3} |-> IF v = v3 THEN 3 ELSE 2]
=============================================================================

------------------------ MODULE MCApplicationUpdate ------------------------
(* Three releases: an update can follow one that is not finished.           *)
EXTENDS ApplicationUpdate
=============================================================================

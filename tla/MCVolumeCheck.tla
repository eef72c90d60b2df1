--------------------------- MODULE MCVolumeCheck ---------------------------
(* The worker and one shell. *)
EXTENDS VolumeCheck
============================================================================

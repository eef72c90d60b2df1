---------------------------- MODULE MCSafeUpdate ----------------------------
(* Model values and bounds for SafeUpdate are given in the .cfg files. *)
EXTENDS SafeUpdate
==============================================================================

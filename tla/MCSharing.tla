----------------------------- MODULE MCSharing -----------------------------
(* The users and places of the instance are model values, given in Sharing.cfg. *)
EXTENDS Sharing
=============================================================================

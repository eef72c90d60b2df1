---------------------------- MODULE MCExpansions ----------------------------
(* Instances of Expansions for TLC. *)
EXTENDS Expansions
=============================================================================

---------------------------- MODULE MCDeliveries ----------------------------
(* Instance of Deliveries for TLC. *)
EXTENDS Deliveries

=============================================================================

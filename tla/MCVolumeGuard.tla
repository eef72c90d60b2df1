--------------------------- MODULE MCVolumeGuard ---------------------------
(* Every app bind-mounts a path on every volume. *)
EXTENDS VolumeGuard, TLC

UsesAll == [a \in Apps |-> Volumes]
============================================================================

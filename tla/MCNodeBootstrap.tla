-------------------------- MODULE MCNodeBootstrap --------------------------
(* One node of the cluster for TLC: the constants are in the .cfg files. *)
EXTENDS NodeBootstrap

=============================================================================

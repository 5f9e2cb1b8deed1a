-------------------------- MODULE MCClusterMonitor --------------------------
(* A head and two workers for TLC. *)
EXTENDS ClusterMonitor

CONSTANTS H, W1, W2     \* model values

MCNodes == {H, W1, W2}

=============================================================================

---------------------------- MODULE MCNodeMonitor ----------------------------
(* Values of the constants of NodeMonitor for TLC. *)
EXTENDS NodeMonitor

MCCpuLoads == {0, 40, 100}
MCMemLoads == {3, 7}

=============================================================================

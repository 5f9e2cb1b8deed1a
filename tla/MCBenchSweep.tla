---------------------------- MODULE MCBenchSweep ----------------------------
(* A sweep of one scale factor with both engines for TLC. *)
EXTENDS BenchSweep

MCEngines == <<"ray", "rayspark">>

=============================================================================

----------------------------- MODULE MCGenTpch -----------------------------
(* Two tables, one of them of weight 0, for TLC. *)
EXTENDS GenTpch

MCTables == {"lineitem", "nation"}
MCWeight == [t \in MCTables |-> IF t = "lineitem" THEN 100 ELSE 0]
MCScales == {50, 100}

=============================================================================

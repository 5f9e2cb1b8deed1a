---------------------------- MODULE MCComparison ----------------------------
(* An Intel and a Graviton family, and two scale factors, for TLC. *)
EXTENDS Comparison

MCArgs == {Text("", FALSE, 10), Text("sf", FALSE, 100)}
MCGenerated == {Text("sf", FALSE, 10), Text("", FALSE, 100)}

NoOverride == [k \in {} |-> 0]
Refreshed == [k \in {<<"m7i", "worker">>} |-> 70000]
MCEnvirons ==
  {[arch |-> "unset", prices |-> NoOverride], [arch |-> "unset", prices |-> Refreshed],
   [arch |-> "m9g", prices |-> NoOverride]}

=============================================================================

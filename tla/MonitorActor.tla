---------------------------- MODULE MonitorActor ----------------------------
(***************************************************************************)
(* What the driver and a NodeMonitor actor promise each other (the two     *)
(* classes of common/resource_monitor.py): the driver creates the actor    *)
(* with a call of start(), asks it to stop once and only after start() has *)
(* returned, and the actor answers once, or either call raises.  It may    *)
(* end at any time, and then stays ended.  NodeMonitor relies on the       *)
(* driver's half and implements the actor's; ClusterMonitor the other way  *)
(* round.                                                                  *)
(***************************************************************************)
VARIABLE state   \* of one actor, as the driver can know it

States == {"none", "starting", "sampling", "stopping", "stopped", "raised", "dead"}

Init == state = "none"

\* An actor pinned to a NodeID that is gone is dead from the beginning.
Create ==
  /\ state = "none"
  /\ state' \in {"starting", "dead"}

Start ==
  /\ state = "starting"
  /\ state' = "sampling"

Ask ==
  /\ state = "sampling"
  /\ state' = "stopping"

Answer ==
  /\ state = "stopping"
  /\ state' = "stopped"

\* After a call that raised the actor is still there, and asked nothing more.
Raise ==
  /\ state \in {"starting", "stopping"}
  /\ state' = "raised"

End ==
  /\ state \in States \ {"none", "dead"}
  /\ state' = "dead"

Next == Create \/ Start \/ Ask \/ Answer \/ Raise \/ End

Spec == Init /\ [][Next]_state

=============================================================================

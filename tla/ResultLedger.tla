---------------------------- MODULE ResultLedger ----------------------------
(***************************************************************************)
(* What persisting results promises (docstrings of common/metrics.py and   *)
(* scripts/report.py), without files, processes or failures: a result is   *)
(* recorded on the head node, a recorded result may be mirrored to S3, the *)
(* head node may be torn down, and what was mirrored survives it.          *)
(***************************************************************************)
CONSTANT Results     \* run ids

VARIABLES
  local,    \* results the head node has
  remote    \* results S3 has

vars == <<local, remote>>

Init == local = {} /\ remote = {}

\* A result is recorded once: run ids are not used twice.
Record(id) ==
  /\ id \notin local \union remote
  /\ local' = local \union {id}
  /\ UNCHANGED remote

Mirror(id) ==
  /\ id \in local
  /\ remote' = remote \union {id}
  /\ UNCHANGED local

TearDown ==
  /\ local' = {}
  /\ UNCHANGED remote

Next == (\E id \in Results : Record(id) \/ Mirror(id)) \/ TearDown

Spec == Init /\ [][Next]_vars

=============================================================================

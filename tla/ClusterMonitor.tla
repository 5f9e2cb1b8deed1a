---------------------------- MODULE ClusterMonitor ----------------------------
(***************************************************************************)
(* ClusterMonitor of common/resource_monitor.py as BenchmarkRun of         *)
(* common/runner.py drives it: the driver on the head node starts one      *)
(* NodeMonitor actor per alive node when it enters a run, stops all of     *)
(* them when it leaves the run, and enters the next run.  Nodes reboot and *)
(* actors die at any time.                                                 *)
(*                                                                         *)
(* What one actor does inside start() and stop() is module NodeMonitor;    *)
(* here each is one step.  Ray is modelled as the code uses it: a call on  *)
(* a dead actor raises, an actor pinned to a node that is gone is dead, an *)
(* actor nobody holds a handle of is terminated some time later.           *)
(***************************************************************************)
EXTENDS Integers, FiniteSets

CONSTANTS
  Nodes,      \* the nodes of the cluster
  Head,       \* the node the driver runs on: its end is the end of the model
  NoNode,     \* what is no node
  MaxRuns,    \* runs the driver enters: workloads times --repeat
  MaxFaults   \* bound of the model: node and actor failures

ASSUME NodesAssumption == Head \in Nodes /\ NoNode \notin Nodes
ASSUME BoundsAssumption == MaxRuns \in Nat \ {0} /\ MaxFaults \in Nat

Runs == 1..MaxRuns

VARIABLES
  enableMonitor, \* BenchmarkRun.enable_monitor, the same for all runs of a process
  alive,         \* nodes ray.nodes() reports as alive
  actor,         \* the NodeMonitor actor of each run on each node
  run,           \* number of the run the driver entered last
  phase,         \* where the driver is in that run
  targets,       \* the alive nodes start() saw
  todo,          \* those start() has not come to
  stale,         \* those that went down since, perhaps to come back with a new NodeID
  starting,      \* the node whose start() call the driver waits for
  monitors,      \* _monitors of the ClusterMonitor of each run
  monitorOn,     \* whether _monitor of this run is not None
  answers,       \* nodes whose stop() call has returned
  summary,       \* nodes of per_node in the summary of this run
  faults

world == <<enableMonitor, alive, faults>>
outcome == <<answers, summary>>
start == <<targets, todo, stale, starting>>
driver == <<run, phase, targets, todo, starting, monitors, monitorOn, summary>>
vars == <<world, actor, stale, answers, driver>>

-----------------------------------------------------------------------------

Phases == {"between", "entering", "running", "exiting", "leaving", "done"}
ActorStates == {"none", "starting", "sampling", "stopping", "stopped", "raised", "dead"}

Live(r, n) == actor[r][n] \notin {"none", "dead"}

\* A call ray.get raises for: the actor is dead, or the method itself raised.
Fails(r, n) == actor[r][n] \in {"raised", "dead"}

\* The actors the driver has a handle of: those of the run it is in, and while
\* it enters a run also those of the run before, which the variable `run` of
\* main() refers to until __enter__ returns.
Held_AllRuns(r, n) ==
  /\ phase # "done"
  /\ n \in monitors[r] \/ (r = run /\ n = starting)

Held(r, n) ==
  /\ phase # "done"
  /\ \/ r = run /\ n \in monitors[r] \union {starting}
     \/ r = run - 1 /\ phase = "entering" /\ n \in monitors[r]

Init ==
  /\ enableMonitor \in BOOLEAN
  /\ alive = Nodes
  /\ actor = [r \in Runs |-> [n \in Nodes |-> "none"]]
  /\ run = 0
  /\ phase = "between"
  /\ targets = {} /\ todo = {} /\ stale = {}
  /\ starting = NoNode
  /\ monitors = [r \in Runs |-> {}]
  /\ monitorOn = FALSE
  /\ answers = {} /\ summary = {}
  /\ faults = 0

-----------------------------------------------------------------------------
(* BenchmarkRun.__enter__ and ClusterMonitor.start().                      *)

BeginEnter ==
  /\ phase = "between"
  /\ run' = run + 1
  /\ monitorOn' = enableMonitor
  /\ phase' = IF enableMonitor THEN "entering" ELSE "running"
  /\ targets' = IF enableMonitor THEN alive ELSE {}
  /\ todo' = targets'
  /\ stale' = {} /\ answers' = {} /\ summary' = {}
  /\ UNCHANGED <<world, actor, starting, monitors>>

\* NodeMonitor.options(...).remote() and mon.start.remote() return at once; the
\* actor is pinned to the NodeID of the snapshot and dies if that is gone.
StartActor ==
  /\ phase = "entering" /\ starting = NoNode
  /\ \E n \in todo :
       /\ todo' = todo \ {n}
       /\ starting' = n
       /\ actor' = [actor EXCEPT ![run][n] = IF n \in stale THEN "dead" ELSE "starting"]
  /\ UNCHANGED <<world, outcome, targets, stale, run, phase, monitors, monitorOn>>

\* The call is not waited for.
Awaited_Not == ~Fails(run, starting)

Awaited == actor[run][starting] = "sampling"

\* ray.get(mon.start.remote()) returns once start() has run; an actor that dies
\* between the two dies, in this model, after this step.
StartReturned ==
  /\ phase = "entering" /\ starting # NoNode
  /\ Awaited
  /\ monitors' = [monitors EXCEPT ![run] = @ \union {starting}]
  /\ starting' = NoNode
  /\ UNCHANGED <<world, outcome, targets, stale, todo, actor, run, phase, monitorOn>>

\* The except branch of __enter__: the run goes on, without a monitor.
StartRaised ==
  /\ phase = "entering" /\ starting # NoNode
  /\ Fails(run, starting)
  /\ monitorOn' = FALSE
  /\ monitors' = [monitors EXCEPT ![run] = {}]
  /\ starting' = NoNode
  /\ todo' = {}
  /\ phase' = "running"
  /\ UNCHANGED <<world, outcome, targets, stale, actor, run>>

EnterDone ==
  /\ phase = "entering" /\ starting = NoNode /\ todo = {}
  /\ phase' = "running"
  /\ UNCHANGED <<world, start, outcome, actor, run, monitors, monitorOn>>

-----------------------------------------------------------------------------
(* BenchmarkRun.__exit__ and ClusterMonitor.stop().                        *)

\* The second actor is asked when the first has answered.
Asked_First == {CHOOSE n \in monitors[run] : TRUE}

Asked == monitors[run]

\* The workload is over.  stop() submits all the calls before it waits.
BeginStop ==
  /\ phase = "running"
  /\ \/ /\ ~monitorOn
        /\ phase' = "leaving"
        /\ UNCHANGED actor
     \/ /\ monitorOn
        /\ phase' = "exiting"
        /\ actor' = [actor EXCEPT ![run] = [n \in Nodes |->
             IF n \in Asked /\ @[n] = "sampling" THEN "stopping" ELSE @[n]]]
  /\ UNCHANGED <<world, start, outcome, run, monitors, monitorOn>>

\* Those that died are left out.
Answered_OrDead == \A n \in monitors[run] : n \in answers \/ Fails(run, n)

Answered == monitors[run] \subseteq answers

\* ray.get returned an answer of every actor: kill them all and aggregate.
StopReturned ==
  /\ phase = "exiting"
  /\ Answered
  /\ actor' = [actor EXCEPT ![run] = [n \in Nodes |->
       IF n \in monitors[run] THEN "dead" ELSE @[n]]]
  /\ monitors' = [monitors EXCEPT ![run] = {}]
  /\ summary' = monitors[run] \intersect answers
  /\ phase' = "leaving"
  /\ UNCHANGED <<world, start, answers, run, monitorOn>>

\* ray.get waits for the dead actor too.
Lost_Unnoticed == FALSE

Lost == \E n \in monitors[run] \ answers : Fails(run, n)

\* ray.get raised for an actor that died before it answered, or whose stop() raised,
\* whether or not the others have answered: nothing is killed and the handles stay in
\* _monitors.
StopRaised ==
  /\ phase = "exiting"
  /\ Lost
  /\ phase' = "leaving"
  /\ UNCHANGED <<world, start, outcome, actor, run, monitors, monitorOn>>

\* One iteration too many.
Another_OneMore == run <= MaxRuns

Another == run < MaxRuns

\* persist() and the rest of __exit__; the loop of main() goes on with the next
\* run, or the process ends: no run is left or a KeyboardInterrupt propagates.
Leave ==
  /\ phase = "leaving"
  /\ \/ phase' = "between" /\ Another
     \/ phase' = "done"
  /\ UNCHANGED <<world, start, outcome, actor, run, monitors, monitorOn>>

\* A KeyboardInterrupt inside start() or stop() is no Exception: neither
\* handler of runner.py catches it and the process ends.
Interrupt ==
  /\ phase \in {"entering", "exiting"}
  /\ phase' = "done"
  /\ UNCHANGED <<world, start, outcome, actor, run, monitors, monitorOn>>

-----------------------------------------------------------------------------
(* The actors and Ray.                                                     *)

ActorStarted(r, n) ==
  /\ actor[r][n] = "starting"
  /\ actor' = [actor EXCEPT ![r][n] = "sampling"]
  /\ UNCHANGED <<world, stale, answers, driver>>

ActorStopped(r, n) ==
  /\ actor[r][n] = "stopping"
  /\ actor' = [actor EXCEPT ![r][n] = "stopped"]
  /\ answers' = IF r = run /\ phase = "exiting" THEN answers \union {n} ELSE answers
  /\ UNCHANGED <<world, stale, driver>>

\* start() or stop() raises in the actor: module NodeMonitor says where.
ActorRaises(r, n) ==
  /\ faults < MaxFaults
  /\ actor[r][n] \in {"starting", "stopping"}
  /\ actor' = [actor EXCEPT ![r][n] = "raised"]
  /\ faults' = faults + 1
  /\ UNCHANGED <<enableMonitor, alive, stale, answers, driver>>

\* Ray terminates an actor when the last handle of it is gone.
Reap(r, n) ==
  /\ Live(r, n) /\ ~Held(r, n)
  /\ actor' = [actor EXCEPT ![r][n] = "dead"]
  /\ UNCHANGED <<world, stale, answers, driver>>

ActorDies(r, n) ==
  /\ faults < MaxFaults
  /\ Live(r, n)
  /\ actor' = [actor EXCEPT ![r][n] = "dead"]
  /\ faults' = faults + 1
  /\ UNCHANGED <<enableMonitor, alive, stale, answers, driver>>

\* A worker reboots or is terminated: its actors are gone, and its NodeID.
NodeDies(n) ==
  /\ faults < MaxFaults
  /\ n \in alive \ {Head}
  /\ alive' = alive \ {n}
  /\ stale' = stale \union {n}
  /\ actor' = [r \in Runs |-> [actor[r] EXCEPT ![n] = IF @ = "none" THEN @ ELSE "dead"]]
  /\ faults' = faults + 1
  /\ UNCHANGED <<enableMonitor, answers, driver>>

\* bench-ray.service starts Ray again, under a new NodeID.
NodeRejoins(n) ==
  /\ n \in Nodes \ alive
  /\ alive' = alive \union {n}
  /\ UNCHANGED <<enableMonitor, faults, actor, stale, answers, driver>>

-----------------------------------------------------------------------------

\* The steps of the driver that nothing but Ray can delay.
Handlers == \/ StartActor \/ StartReturned \/ StartRaised \/ EnterDone
            \/ StopReturned \/ StopRaised \/ Leave

RayStep(r, n) == ActorStarted(r, n) \/ ActorStopped(r, n) \/ Reap(r, n)

Next ==
  \/ BeginEnter \/ BeginStop \/ Interrupt \/ Handlers
  \/ \E r \in Runs, n \in Nodes : RayStep(r, n) \/ ActorRaises(r, n) \/ ActorDies(r, n)
  \/ \E n \in Nodes : NodeDies(n) \/ NodeRejoins(n)

\* The interpreter runs the handlers of the driver and Ray starts, answers and
\* reaps.  Nothing is assumed of the workload, which may take forever, nor of
\* nodes and actors coming back or failing.
Fairness ==
  /\ WF_vars(Handlers)
  /\ \A r \in Runs, n \in Nodes : WF_vars(RayStep(r, n))

Spec == Init /\ [][Next]_vars /\ Fairness

\* One actor, as module MonitorActor describes it.
Contract(r, n) == INSTANCE MonitorActor WITH state <- actor[r][n]

-----------------------------------------------------------------------------

\* The values each variable ranges over.
TypeOK ==
  /\ enableMonitor \in BOOLEAN
  /\ alive \subseteq Nodes
  /\ actor \in [Runs -> [Nodes -> ActorStates]]
  /\ run \in 0..MaxRuns
  /\ phase \in Phases
  /\ targets \subseteq Nodes /\ todo \subseteq Nodes /\ stale \subseteq Nodes
  /\ starting \in Nodes \union {NoNode}
  /\ monitors \in [Runs -> SUBSET Nodes]
  /\ monitorOn \in BOOLEAN
  /\ answers \subseteq Nodes /\ summary \subseteq Nodes
  /\ faults \in 0..MaxFaults

\* The cluster aggregate of a run (resource_monitor.py:102-119) is over every
\* node start() saw or there is none: a node that dies in the middle of a run
\* never makes it a total of the others.
SummaryAllOrNothing ==
  phase = "leaving" => summary \in {{}, targets}

\* While a workload runs under a monitor, every node start() saw is being
\* sampled since before the workload began, unless its actor died
\* (resource_monitor.py:86-90, runner.py:52-58).
WindowCovered ==
  (phase = "running" /\ monitorOn) =>
    /\ monitors[run] = targets
    /\ \A n \in targets : actor[run][n] \in {"sampling", "dead"}

\* An actor of an earlier run the driver still has a handle of has been told to
\* stop: a stop() that failed for one node has reached the others, so that none
\* of them samples into the next run (resource_monitor.py:96, runner.py:69-71).
KeptActorsToldToStop ==
  \A r \in Runs : \A n \in monitors[r] :
    (r < run \/ phase \in {"leaving", "between"}) => actor[r][n] \notin {"starting", "sampling"}

\* ray.get in start() and in stop() has no timeout, and still neither __enter__
\* nor __exit__ hangs on a node that is gone (runner.py:53, 69).
EnterAndExitReturn ==
  /\ phase = "entering" ~> phase \in {"running", "done"}
  /\ phase = "exiting" ~> phase \in {"between", "done"}

\* An actor left over by a run, because start() or stop() failed, is gone at
\* the latest some time after the next run was entered, and the actors of a
\* process that has ended are gone: a long sweep does not pile up actors.
LeftoversReaped ==
  \A r \in Runs, n \in Nodes :
    (Live(r, n) /\ (phase = "done" \/ (r < run /\ phase = "running"))) ~> ~Live(r, n)

=============================================================================

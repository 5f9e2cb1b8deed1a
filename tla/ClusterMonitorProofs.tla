------------------------- MODULE ClusterMonitorProofs -------------------------
(***************************************************************************)
(* Safety of the monitor for every cluster and any number of runs and      *)
(* faults.  IInv says, for each run the driver has entered, which nodes it *)
(* holds handles of and how far their actors have come; the properties of  *)
(* ClusterMonitor are what it says at three positions of the driver.       *)
(***************************************************************************)
EXTENDS ClusterMonitor, TLAPS

Started == {"sampling", "stopping", "stopped", "raised", "dead"}
Told == {"stopping", "stopped", "raised", "dead"}

\* start() goes through the snapshot: a node is done, waited for or to do.
Progress ==
  /\ phase = "entering" =>
       /\ targets = monitors[run] \union todo \union ({starting} \ {NoNode})
       /\ monitors[run] \intersect todo = {}
       /\ starting \notin monitors[run] \union todo
  /\ phase \in {"between", "running", "exiting", "leaving"} => starting = NoNode
  /\ (phase \in {"running", "exiting"} /\ monitorOn) => monitors[run] = targets

\* The handles of each run, and what their actors have done.
Handles ==
  /\ phase = "between" => run < MaxRuns
  /\ phase \in {"entering", "exiting"} => monitorOn
  /\ phase # "between" => run \in Runs
  /\ \A r \in Runs : r > run => monitors[r] = {}
  /\ \A r \in Runs : \A n \in monitors[r] :
       /\ actor[r][n] \in Started
       /\ (r < run \/ phase \in {"exiting", "leaving", "between"}) => actor[r][n] \in Told
  /\ phase \in {"entering", "running"} =>
       \A n \in monitors[run] : actor[run][n] \in {"sampling", "dead"}
  /\ (phase \in {"running", "leaving"} /\ ~monitorOn) => monitors[run] = {}

Summaries ==
  /\ phase \in {"entering", "running", "exiting"} => summary = {}
  /\ phase = "leaving" => summary \in {{}, targets}

IInv == TypeOK /\ Progress /\ Handles /\ Summaries

-----------------------------------------------------------------------------

\* A process that has entered no run satisfies the invariant.
LEMMA InitInv == Init => IInv
<1> SUFFICES ASSUME Init
             PROVE  IInv
  OBVIOUS
<1>1. 0 \in 0..MaxRuns /\ 0 < MaxRuns /\ 0 \in 0..MaxFaults
  BY BoundsAssumption
<1>2. TypeOK
  BY <1>1, NodesAssumption DEF Init, TypeOK, Phases, ActorStates
<1>3. Progress /\ Summaries
  BY DEF Init, Progress, Summaries
<1>4. Handles
  BY <1>1 DEF Init, Handles
<1> QED
  BY <1>2, <1>3, <1>4 DEF IInv

\* One lemma for each step of the driver, of Ray, of an actor and of a node.

\* A new run has no handle yet, and those of earlier runs were told to stop.
LEMMA BeginEnterInv == IInv /\ BeginEnter => IInv'
BY NodesAssumption, BoundsAssumption
   DEF BeginEnter, IInv, TypeOK, Progress, Handles, Summaries, Runs, Phases, ActorStates, Started,
       Told, world, outcome, start, driver, vars

\* The actor start() creates is not one the driver has a handle of yet.
LEMMA StartActorInv ==
  ASSUME IInv, StartActor
  PROVE  IInv'
<1>1. PICK n \in todo :
        /\ todo' = todo \ {n}
        /\ starting' = n
        /\ actor' = [actor EXCEPT ![run][n] = IF n \in stale THEN "dead" ELSE "starting"]
  BY DEF StartActor
<1>2. /\ phase = "entering" /\ starting = NoNode
      /\ UNCHANGED <<world, outcome, targets, stale, run, phase, monitors, monitorOn>>
  BY DEF StartActor
<1>3. run \in Runs /\ n \in Nodes
  BY <1>2 DEF IInv, TypeOK, Handles
<1>4. TypeOK'
  BY <1>1, <1>2, <1>3 DEF IInv, TypeOK, ActorStates, world, outcome
<1>5. Progress'
  BY <1>1, <1>2, <1>3, NodesAssumption DEF IInv, Progress
<1>6. n \notin monitors[run]
  BY <1>2 DEF IInv, Progress
<1>7. Handles'
  BY <1>1, <1>2, <1>3, <1>6 DEF IInv, TypeOK, Handles, Started, Told
<1>8. Summaries'
  BY <1>2 DEF IInv, Summaries, outcome
<1> QED
  BY <1>4, <1>5, <1>7, <1>8 DEF IInv

\* The handle start() appends is of an actor that samples.
LEMMA StartReturnedInv ==
  ASSUME IInv, StartReturned
  PROVE  IInv'
<1>1. /\ phase = "entering" /\ starting # NoNode /\ actor[run][starting] = "sampling"
      /\ monitors' = [monitors EXCEPT ![run] = @ \union {starting}]
      /\ starting' = NoNode
      /\ UNCHANGED <<world, outcome, targets, stale, todo, actor, run, phase, monitorOn>>
  BY DEF StartReturned, Awaited
<1>2. run \in Runs /\ starting \in Nodes /\ monitors \in [Runs -> SUBSET Nodes]
  BY <1>1 DEF IInv, TypeOK, Handles
<1>3. /\ monitors' \in [Runs -> SUBSET Nodes]
      /\ monitors'[run] = monitors[run] \union {starting}
      /\ \A r \in Runs : r # run => monitors'[r] = monitors[r]
  BY <1>1, <1>2
<1>4. TypeOK'
  BY <1>1, <1>3 DEF IInv, TypeOK, world, outcome
<1>5. Progress'
  BY <1>1, <1>2, <1>3, NodesAssumption DEF IInv, TypeOK, Progress
<1>6. Handles'
  <2>1. ASSUME NEW r \in Runs
        PROVE  /\ r > run => monitors'[r] = {}
               /\ \A n \in monitors'[r] : /\ actor[r][n] \in Started
                                          /\ r < run => actor[r][n] \in Told
    BY <1>1, <1>2, <1>3, BoundsAssumption DEF IInv, TypeOK, Handles, Started, Runs
  <2>2. \A n \in monitors'[run] : actor[run][n] \in {"sampling", "dead"}
    BY <1>1, <1>2, <1>3 DEF IInv, Handles
  <2>3. monitorOn
    BY <1>1 DEF IInv, Handles
  <2> QED
    BY <1>1, <1>2, <2>1, <2>2, <2>3 DEF Handles
<1>7. Summaries'
  BY <1>1 DEF IInv, Summaries, outcome
<1> QED
  BY <1>4, <1>5, <1>6, <1>7 DEF IInv

\* A start() that failed leaves no handle of this run.
LEMMA StartRaisedInv ==
  ASSUME IInv, StartRaised
  PROVE  IInv'
<1>1. /\ phase = "entering" /\ phase' = "running" /\ monitorOn' = FALSE
      /\ monitors' = [monitors EXCEPT ![run] = {}] /\ starting' = NoNode /\ todo' = {}
      /\ UNCHANGED <<world, outcome, targets, stale, actor, run>>
  BY DEF StartRaised
<1>2. run \in Runs /\ monitors \in [Runs -> SUBSET Nodes]
  BY <1>1 DEF IInv, TypeOK, Handles
<1>3. /\ monitors' \in [Runs -> SUBSET Nodes]
      /\ monitors'[run] = {}
      /\ \A r \in Runs : r # run => monitors'[r] = monitors[r]
  BY <1>1, <1>2
<1>4. TypeOK'
  BY <1>1, <1>3 DEF IInv, TypeOK, Phases, world, outcome
<1>5. Progress' /\ Summaries'
  BY <1>1 DEF IInv, Progress, Summaries, outcome
<1>6. Handles'
  BY <1>1, <1>2, <1>3, BoundsAssumption DEF IInv, TypeOK, Handles, Runs
<1> QED
  BY <1>4, <1>5, <1>6 DEF IInv

\* start() returns when no node is left: every target has its handle.
LEMMA EnterDoneInv ==
  ASSUME IInv, EnterDone
  PROVE  IInv'
<1>1. /\ phase = "entering" /\ starting = NoNode /\ todo = {} /\ phase' = "running"
      /\ UNCHANGED <<world, start, outcome, actor, run, monitors, monitorOn>>
  BY DEF EnterDone
<1>2. monitors[run] = targets
  BY <1>1 DEF IInv, Progress
<1>3. TypeOK'
  BY <1>1 DEF IInv, TypeOK, Phases, world, start, outcome
<1>4. Progress' /\ Summaries'
  BY <1>1, <1>2 DEF IInv, Progress, Summaries, start, outcome
<1>5. Handles'
  BY <1>1 DEF IInv, Handles
<1> QED
  BY <1>3, <1>4, <1>5 DEF IInv

\* stop() reaches every sampling actor of the run in one step.
LEMMA BeginStopInv ==
  ASSUME IInv, BeginStop
  PROVE  IInv'
<1>1. /\ phase = "running"
      /\ UNCHANGED <<world, start, outcome, run, monitors, monitorOn>>
  BY DEF BeginStop
<1>2. run \in Runs
  BY <1>1 DEF IInv, Handles
<1>3. CASE ~monitorOn
  <2>1. phase' = "leaving" /\ actor' = actor /\ monitors[run] = {} /\ summary = {}
    BY <1>1, <1>3 DEF BeginStop, IInv, Handles, Summaries
  <2>2. Progress' /\ Summaries' /\ TypeOK'
    BY <1>1, <1>3, <2>1 DEF IInv, Progress, Summaries, TypeOK, Phases, world, start, outcome
  <2>3. Handles'
    BY <1>1, <1>2, <1>3, <2>1 DEF IInv, TypeOK, Handles, Runs
  <2> QED
    BY <2>2, <2>3 DEF IInv
<1>4. CASE monitorOn
  <2>1. /\ phase' = "exiting"
        /\ actor' = [actor EXCEPT ![run] = [n \in Nodes |->
             IF n \in monitors[run] /\ @[n] = "sampling" THEN "stopping" ELSE @[n]]]
    BY <1>4 DEF BeginStop, Asked
  <2>2. /\ actor' \in [Runs -> [Nodes -> ActorStates]]
        /\ \A r \in Runs : r # run => actor'[r] = actor[r]
        /\ \A n \in Nodes : n \in monitors[run] =>
             (actor'[run][n] = IF actor[run][n] = "sampling" THEN "stopping" ELSE actor[run][n])
    BY <1>2, <2>1 DEF IInv, TypeOK, ActorStates
  <2>3. TypeOK'
    BY <1>1, <2>1, <2>2 DEF IInv, TypeOK, Phases, world, start, outcome
  <2>4. Progress' /\ Summaries'
    BY <1>1, <1>4, <2>1 DEF IInv, Progress, Summaries, start, outcome
  <2>5. \A n \in monitors[run] : actor'[run][n] \in {"stopping", "dead"}
    BY <1>1, <1>2, <2>2 DEF IInv, TypeOK, Handles
  <2>6. Handles'
    BY <1>1, <1>2, <1>4, <2>1, <2>2, <2>5 DEF IInv, TypeOK, Handles, Started, Told, Runs
  <2> QED
    BY <2>3, <2>4, <2>6 DEF IInv
<1> QED
  BY <1>3, <1>4

\* A stop() that returned kills what it held and sums up the targets.
LEMMA StopReturnedInv == IInv /\ StopReturned => IInv'
BY NodesAssumption, BoundsAssumption
   DEF StopReturned, Answered, IInv, TypeOK, Progress, Handles, Summaries, Runs, Phases, ActorStates, Started,
       Told, world, outcome, start, driver, vars

\* A stop() that raised leaves actors behind which are told to stop.
LEMMA StopRaisedInv == IInv /\ StopRaised => IInv'
BY NodesAssumption, BoundsAssumption
   DEF StopRaised, Lost, IInv, TypeOK, Progress, Handles, Summaries, Runs, Phases, ActorStates, Started,
       Told, world, outcome, start, driver, vars

\* Leaving a run touches no actor.
LEMMA LeaveInv == IInv /\ Leave => IInv'
BY NodesAssumption, BoundsAssumption
   DEF Leave, Another, IInv, TypeOK, Progress, Handles, Summaries, Runs, Phases, ActorStates, Started,
       Told, world, outcome, start, driver, vars

\* Ctrl-C ends the process in any state of its actors.
LEMMA InterruptInv == IInv /\ Interrupt => IInv'
BY NodesAssumption, BoundsAssumption
   DEF Interrupt, IInv, TypeOK, Progress, Handles, Summaries, Runs, Phases, ActorStates, Started,
       Told, world, outcome, start, driver, vars

\* An actor that begins to sample is of a start() still waited for.
LEMMA ActorStartedInv ==
  ASSUME NEW r \in Runs, NEW n \in Nodes, IInv, ActorStarted(r, n)
  PROVE  IInv'
BY NodesAssumption, BoundsAssumption
   DEF ActorStarted, Live, IInv, TypeOK, Progress, Handles, Summaries, Runs, Phases, ActorStates,
       Started, Told, world, outcome, start, driver, vars

\* An actor that answered does not sample again.
LEMMA ActorStoppedInv ==
  ASSUME NEW r \in Runs, NEW n \in Nodes, IInv, ActorStopped(r, n)
  PROVE  IInv'
BY NodesAssumption, BoundsAssumption
   DEF ActorStopped, Live, IInv, TypeOK, Progress, Handles, Summaries, Runs, Phases, ActorStates,
       Started, Told, world, outcome, start, driver, vars

\* Ray ends an actor nobody holds.
LEMMA ReapInv ==
  ASSUME NEW r \in Runs, NEW n \in Nodes, IInv, Reap(r, n)
  PROVE  IInv'
BY NodesAssumption, BoundsAssumption
   DEF Reap, Live, IInv, TypeOK, Progress, Handles, Summaries, Runs, Phases, ActorStates,
       Started, Told, world, outcome, start, driver, vars

\* An actor whose call raised does not sample, or has been told to stop.
LEMMA ActorRaisesInv ==
  ASSUME NEW r \in Runs, NEW n \in Nodes, IInv, ActorRaises(r, n)
  PROVE  IInv'
BY NodesAssumption, BoundsAssumption
   DEF ActorRaises, Live, IInv, TypeOK, Progress, Handles, Summaries, Runs, Phases, ActorStates,
       Started, Told, world, outcome, start, driver, vars

\* The death of an actor makes none sample.
LEMMA ActorDiesInv ==
  ASSUME NEW r \in Runs, NEW n \in Nodes, IInv, ActorDies(r, n)
  PROVE  IInv'
BY NodesAssumption, BoundsAssumption
   DEF ActorDies, Live, IInv, TypeOK, Progress, Handles, Summaries, Runs, Phases, ActorStates,
       Started, Told, world, outcome, start, driver, vars

\* The death of a node makes none of its actors sample.
LEMMA NodeDiesInv ==
  ASSUME NEW n \in Nodes, IInv, NodeDies(n)
  PROVE  IInv'
BY NodesAssumption, BoundsAssumption
   DEF NodeDies, IInv, TypeOK, Progress, Handles, Summaries, Runs, Phases, ActorStates, Started,
       Told, world, outcome, start, driver, vars

\* A node that comes back brings no actor.
LEMMA NodeRejoinsInv ==
  ASSUME NEW n \in Nodes, IInv, NodeRejoins(n)
  PROVE  IInv'
BY NodesAssumption, BoundsAssumption
   DEF NodeRejoins, IInv, TypeOK, Progress, Handles, Summaries, Runs, Phases, ActorStates, Started,
       Told, world, outcome, start, driver, vars

\* IInv is inductive.
LEMMA NextInv == IInv /\ [Next]_vars => IInv'
<1> SUFFICES ASSUME IInv, [Next]_vars
             PROVE  IInv'
  OBVIOUS
<1>1. CASE BeginEnter \/ BeginStop \/ Interrupt
  BY <1>1, BeginEnterInv, BeginStopInv, InterruptInv
<1>2. CASE Handlers
  BY <1>2, StartActorInv, StartReturnedInv, StartRaisedInv, EnterDoneInv, StopReturnedInv,
     StopRaisedInv, LeaveInv DEF Handlers
<1>3. CASE \E r \in Runs, n \in Nodes : RayStep(r, n) \/ ActorRaises(r, n) \/ ActorDies(r, n)
  BY <1>3, ActorStartedInv, ActorStoppedInv, ReapInv, ActorRaisesInv, ActorDiesInv DEF RayStep
<1>4. CASE \E n \in Nodes : NodeDies(n) \/ NodeRejoins(n)
  BY <1>4, NodeDiesInv, NodeRejoinsInv
<1>5. CASE UNCHANGED vars
  BY <1>5 DEF vars, world, outcome, start, driver, IInv, TypeOK, Progress, Handles, Summaries
<1> QED
  BY <1>1, <1>2, <1>3, <1>4, <1>5 DEF Next

\* What the driver holds handles of, and how far those actors have come, is what
\* IInv says in every reachable state (resource_monitor.py:84-100).
THEOREM Invariance == Spec => []IInv
<1>1. Init => IInv
  BY InitInv
<1>2. IInv /\ [Next]_vars => IInv'
  BY NextInv
<1> QED
  BY <1>1, <1>2, PTL DEF Spec

\* Every variable keeps its type, for any cluster and any number of runs.
THEOREM TypeCorrect == Spec => []TypeOK
<1>1. IInv => TypeOK
  BY DEF IInv
<1> QED
  BY <1>1, Invariance, PTL

\* A summary is of all nodes of the snapshot or empty, wherever nodes and actors
\* die while stop() waits.
THEOREM SummaryCorrect == Spec => []SummaryAllOrNothing
<1>1. IInv => SummaryAllOrNothing
  BY DEF IInv, Summaries, SummaryAllOrNothing
<1> QED
  BY <1>1, Invariance, PTL

\* A monitored workload runs with a sampling, or dead, actor on every node of
\* the snapshot.
THEOREM WindowCorrect == Spec => []WindowCovered
<1>1. IInv => WindowCovered
  BY DEF IInv, Progress, Handles, WindowCovered
<1> QED
  BY <1>1, Invariance, PTL

\* No actor of an earlier run that the driver still holds samples into a later
\* one, also after a stop() that raised.
THEOREM KeptActorsCorrect == Spec => []KeptActorsToldToStop
<1>1. IInv => KeptActorsToldToStop
  BY DEF IInv, Handles, Told, KeptActorsToldToStop
<1> QED
  BY <1>1, Invariance, PTL

-----------------------------------------------------------------------------
(* The driver's half of MonitorActor.                                      *)

\* A node start() has still to come to has no actor of this run, and a run to come
\* has none at all.
Unused ==
  /\ \A r \in Runs : r > run => \A n \in Nodes : actor[r][n] = "none"
  /\ phase = "entering" => \A n \in todo : actor[run][n] = "none"

\* No actor is created but for the node start() has come to.
LEMMA UnusedInv ==
  ASSUME IInv, Unused, [Next]_vars
  PROVE  Unused'
<1> USE DEF Unused
<1>0. actor \in [Runs -> [Nodes -> ActorStates]]
  BY DEF IInv, TypeOK
<1>1. CASE UNCHANGED vars
  BY <1>1 DEF vars, world, driver
<1>2. CASE BeginEnter
  <2>1. run' = run + 1 /\ run \in Nat /\ actor' = actor /\ phase = "between"
    BY <1>2 DEF BeginEnter, IInv, TypeOK
  <2>2. run' \in Runs /\ todo' \subseteq Nodes
    BY <1>2, <2>1, BoundsAssumption DEF BeginEnter, IInv, TypeOK, Handles, Runs
  <2>3. \A r \in Runs : r > run' => r > run
    BY <2>1 DEF Runs
  <2> QED
    BY <2>1, <2>2, <2>3
<1>3. CASE StartActor
  <2>1. PICK n \in todo :
          /\ todo' = todo \ {n}
          /\ actor' = [actor EXCEPT ![run][n] = IF n \in stale THEN "dead" ELSE "starting"]
    BY <1>3 DEF StartActor
  <2>2. run' = run /\ phase' = phase /\ run \in Runs
    BY <1>3 DEF StartActor, IInv, Handles
  <2> QED
    BY <1>3, <2>1, <2>2 DEF StartActor, IInv, TypeOK, Runs
<1>4. CASE StartReturned \/ StartRaised \/ EnterDone \/ StopRaised \/ Leave \/ Interrupt
  BY <1>4 DEF StartReturned, StartRaised, EnterDone, StopRaised, Leave, Interrupt, start
<1>5. CASE BeginStop \/ StopReturned
  <2>1. run' = run /\ phase' # "entering" /\ run \in Runs
    BY <1>5 DEF BeginStop, StopReturned, IInv, Handles
  <2>2. \A r \in Runs : r # run => actor'[r] = actor[r]
    BY <1>0, <1>5 DEF BeginStop, StopReturned
  <2> QED
    BY <2>1, <2>2 DEF Runs
<1>6. CASE \/ \E r \in Runs, n \in Nodes : RayStep(r, n) \/ ActorRaises(r, n) \/ ActorDies(r, n)
           \/ \E n \in Nodes : NodeDies(n) \/ NodeRejoins(n)
  <2>1. run' = run /\ phase' = phase /\ todo' = todo /\ todo \subseteq Nodes
    BY <1>6 DEF RayStep, ActorStarted, ActorStopped, Reap, ActorRaises, ActorDies, NodeDies, NodeRejoins,
                driver, IInv, TypeOK
  <2>2. \A r \in Runs, n \in Nodes : actor[r][n] = "none" => actor'[r][n] = "none"
    <3>1. CASE \E r \in Runs, n \in Nodes : RayStep(r, n) \/ ActorRaises(r, n) \/ ActorDies(r, n)
      BY <1>0, <3>1 DEF RayStep, ActorStarted, ActorStopped, Reap, ActorRaises, ActorDies, Live
    <3>2. CASE \E n \in Nodes : NodeDies(n) \/ NodeRejoins(n)
      BY <1>0, <3>2 DEF NodeDies, NodeRejoins
    <3> QED
      BY <1>6, <3>1, <3>2
  <2>3. phase = "entering" => run \in Runs
    BY DEF IInv, Handles
  <2> QED
    BY <2>1, <2>2, <2>3
<1> QED
  BY <1>1, <1>2, <1>3, <1>4, <1>5, <1>6 DEF Next, Handlers

\* Every step does to one actor what MonitorActor says, or nothing.
LEMMA ActorStep ==
  ASSUME NEW r \in Runs, NEW n \in Nodes, IInv, Unused, [Next]_vars
  PROVE  [Contract(r, n)!Next]_(actor[r][n])
<1> USE DEF Contract!Next, Contract!Create, Contract!Start, Contract!Ask, Contract!Answer,
            Contract!Raise, Contract!End, Contract!States
<1>0. actor \in [Runs -> [Nodes -> ActorStates]]
  BY DEF IInv, TypeOK
<1>1. CASE UNCHANGED actor
  BY <1>1
<1>2. CASE StartActor
  <2>1. PICK m \in todo :
          actor' = [actor EXCEPT ![run][m] = IF m \in stale THEN "dead" ELSE "starting"]
    BY <1>2 DEF StartActor
  <2>2. actor[run][m] = "none" /\ run \in Runs /\ m \in Nodes
    BY <1>2, <2>1 DEF StartActor, Unused, IInv, TypeOK, Handles
  <2> QED
    BY <1>0, <2>1, <2>2
<1>3. CASE BeginStop
  BY <1>0, <1>3 DEF BeginStop, Asked, IInv, Handles
<1>4. CASE StopReturned
  <2>1. /\ run \in Runs
        /\ actor' = [actor EXCEPT ![run] = [m \in Nodes |->
             IF m \in monitors[run] THEN "dead" ELSE @[m]]]
    BY <1>4 DEF StopReturned, IInv, Handles
  <2>2. \A m \in monitors[run] : actor[run][m] \in Started
    BY <2>1 DEF IInv, Handles
  <2> QED
    BY <1>0, <2>1, <2>2 DEF Started
<1>5. CASE \E q \in Runs, m \in Nodes : RayStep(q, m) \/ ActorRaises(q, m) \/ ActorDies(q, m)
  BY <1>0, <1>5 DEF RayStep, ActorStarted, ActorStopped, Reap, ActorRaises, ActorDies, Live,
                    ActorStates
<1>6. CASE \E m \in Nodes : NodeDies(m)
  BY <1>0, <1>6 DEF NodeDies, ActorStates
<1>7. CASE \/ BeginEnter \/ StartReturned \/ StartRaised \/ EnterDone \/ StopRaised
           \/ Leave \/ Interrupt \/ \E m \in Nodes : NodeRejoins(m)
  BY <1>1, <1>7 DEF BeginEnter, StartReturned, StartRaised, EnterDone, StopRaised, Leave,
                    Interrupt, NodeRejoins
<1>8. CASE UNCHANGED vars
  BY <1>1, <1>8 DEF vars
<1> QED
  BY <1>2, <1>3, <1>4, <1>5, <1>6, <1>7, <1>8 DEF Next, Handlers

\* The driver creates one actor for a node and a run, never asks one to stop that
\* does not sample, and none twice, wherever start() and stop() raise
\* (resource_monitor.py:84-100, runner.py:52-71).
THEOREM ContractCorrect ==
  ASSUME NEW r \in Runs, NEW n \in Nodes
  PROVE  Spec => Contract(r, n)!Spec
<1>1. Init => IInv /\ Unused /\ Contract(r, n)!Init
  BY InitInv, BoundsAssumption DEF Init, Unused, Contract!Init
<1>2. IInv /\ Unused /\ [Next]_vars => IInv' /\ Unused' /\ [Contract(r, n)!Next]_(actor[r][n])
  BY NextInv, UnusedInv, ActorStep
<1> QED
  BY <1>1, <1>2, PTL DEF Spec, Contract!Spec

=============================================================================

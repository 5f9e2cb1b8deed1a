----------------------------- MODULE NodeMonitor -----------------------------
(***************************************************************************)
(* One NodeMonitor actor of common/resource_monitor.py: the actor thread,  *)
(* which executes start() and stop(), and the daemon thread that executes  *)
(* _loop() and appends to two lists the actor thread reads in stop().      *)
(* Nothing locks the lists.  stop() waits for the daemon thread at most    *)
(* five seconds, so it may read the lists while they still grow; every     *)
(* Python expression that touches a list is one atomic step here.          *)
(*                                                                         *)
(* stop() uses a list only through len, sum and max, so a list is the      *)
(* record of these three numbers.  The disk and network figures are        *)
(* differences of two counters of the kernel and are left out.             *)
(***************************************************************************)
EXTENDS Integers

CONSTANTS
  CpuLoads,    \* values psutil.cpu_percent may return
  MemLoads,    \* values psutil.virtual_memory().used may return
  MaxSamples   \* bound of the model: iterations of _loop before it waits for stop

ASSUME LoadsAssumption == CpuLoads \subseteq Nat /\ MemLoads \subseteq Nat
ASSUME MaxSamplesAssumption == MaxSamples \in Nat

VARIABLES
  stopSet,    \* the threading.Event _stop
  sampler,    \* where the daemon thread is in _loop
  lists,      \* _cpu_samples and _mem_used_gb
  actor,      \* where the actor thread is
  joined,     \* whether the join in stop() saw the daemon thread finish
  fallback,   \* the lists stop() replaced by [0.0]
  report      \* the dictionary stop() returns

vars == <<stopSet, sampler, lists, actor, joined, fallback, report>>

-----------------------------------------------------------------------------

ListNames == {"cpu", "mem"}
Fields == {"samples", "cpuSum", "cpuLen", "cpuMax", "memSum", "memLen", "memMax"}

\* The maximum of nothing is a sentinel below every load.
EmptyList_Sentinel == [n |-> 0, sum |-> 0, max |-> -1]

EmptyList == [n |-> 0, sum |-> 0, max |-> 0]

Push(l, x) == [n   |-> l.n + 1,
               sum |-> l.sum + x,
               max |-> IF x > l.max THEN x ELSE l.max]

\* What a list looks like to stop(): `self._cpu_samples or [0.0]` is the list
\* itself, which may still grow, or a new list with the single element 0.0.
View(name) == IF name \in fallback THEN Push(EmptyList, 0) ELSE lists[name]

\* Evaluation order of the body of stop() after the join.
After_LenBeforeSum ==
  [bindCpu |-> "bindMem", bindMem |-> "samples", samples |-> "cpuLen",
   cpuLen |-> "cpuSum", cpuSum |-> "cpuMax", cpuMax |-> "memSum",
   memSum |-> "memLen", memLen |-> "memMax", memMax |-> "returned"]

After ==
  [bindCpu |-> "bindMem", bindMem |-> "samples", samples |-> "cpuSum",
   cpuSum |-> "cpuLen", cpuLen |-> "cpuMax", cpuMax |-> "memSum",
   memSum |-> "memLen", memLen |-> "memMax", memMax |-> "returned"]

ActorStates == {"built", "started", "joining", "returned", "raised"} \union DOMAIN After
SamplerStates == {"none", "check", "cpu", "mem", "wait", "exit", "died"}
Ended == {"exit", "died"}

-----------------------------------------------------------------------------

Init ==
  /\ stopSet = FALSE
  /\ sampler = "none"
  /\ lists = [name \in ListNames |-> EmptyList]
  /\ actor = "built"
  /\ joined = FALSE
  /\ fallback = {}
  /\ report = [f \in Fields |-> 0]

\* start(): create the daemon thread and start it.
Start ==
  /\ actor = "built"
  /\ actor' = "started"
  /\ sampler' = "check"
  /\ UNCHANGED <<stopSet, lists, joined, fallback, report>>

-----------------------------------------------------------------------------
(* The daemon thread, _loop().                                             *)

LoopCheck_Unconditional ==
  /\ sampler = "check"
  /\ sampler' = "cpu"
  /\ UNCHANGED <<stopSet, lists, actor, joined, fallback, report>>

LoopCheck ==
  /\ sampler = "check"
  /\ sampler' = IF stopSet THEN "exit" ELSE "cpu"
  /\ UNCHANGED <<stopSet, lists, actor, joined, fallback, report>>

Sample(name, loads, next) ==
  /\ sampler = name
  /\ \E x \in loads : lists' = [lists EXCEPT ![name] = Push(@, x)]
  /\ sampler' = next
  /\ UNCHANGED <<stopSet, actor, joined, fallback, report>>

\* _stop.wait(interval) returns when the event is set or the interval is over.
LoopWait ==
  /\ sampler = "wait"
  /\ stopSet \/ lists["cpu"].n < MaxSamples
  /\ sampler' = "check"
  /\ UNCHANGED <<stopSet, lists, actor, joined, fallback, report>>

\* psutil raises in the daemon thread, before either append: the thread is over,
\* and nobody is told.
SamplerRaises ==
  /\ sampler \in {"cpu", "mem"}
  /\ sampler' = "died"
  /\ UNCHANGED <<stopSet, lists, actor, joined, fallback, report>>

Sampler ==
  \/ LoopCheck
  \/ SamplerRaises
  \/ Sample("cpu", CpuLoads, "mem")
  \/ Sample("mem", MemLoads, "wait")
  \/ LoopWait

-----------------------------------------------------------------------------
(* The actor thread, stop().                                               *)

StopBegin ==
  /\ actor = "started"
  /\ stopSet' = TRUE
  /\ actor' = "joining"
  /\ UNCHANGED <<sampler, lists, joined, fallback, report>>

JoinDone ==
  /\ actor = "joining"
  /\ sampler \in Ended
  /\ joined' = TRUE
  /\ actor' = "bindCpu"
  /\ UNCHANGED <<stopSet, sampler, lists, fallback, report>>

\* A join without a timeout: it waits as long as the daemon thread lives.
JoinTimeout_Never ==
  /\ FALSE
  /\ UNCHANGED vars

\* Five seconds are over and the daemon thread has not finished: psutil or the
\* scheduler kept it, at any point of its loop.
JoinTimeout ==
  /\ actor = "joining"
  /\ sampler \notin Ended
  /\ actor' = "bindCpu"
  /\ UNCHANGED <<stopSet, sampler, lists, joined, fallback, report>>

Bind_NoFallback(pc, name) ==
  /\ actor = pc
  /\ actor' = After[pc]
  /\ UNCHANGED <<stopSet, sampler, lists, joined, fallback, report>>

\* `[0.0] or self._cpu_samples`
Bind_Swapped(pc, name) ==
  /\ actor = pc
  /\ fallback' = fallback \union {name}
  /\ actor' = After[pc]
  /\ UNCHANGED <<stopSet, sampler, lists, joined, report>>

Bind(pc, name) ==
  /\ actor = pc
  /\ fallback' = IF lists[name].n = 0 THEN fallback \union {name} ELSE fallback
  /\ actor' = After[pc]
  /\ UNCHANGED <<stopSet, sampler, lists, joined, report>>

Read(field, value) ==
  /\ actor = field
  /\ report' = [report EXCEPT ![field] = value]
  /\ actor' = After[field]
  /\ UNCHANGED <<stopSet, sampler, lists, joined, fallback>>

\* start() raises if no thread can be started; stop() if psutil does after the join,
\* or has no counters of a disk, which it finds when it builds the last items of the
\* report.
CallRaises ==
  /\ actor \in {"built", "bindCpu", "memMax"}
  /\ actor' = "raised"
  /\ UNCHANGED <<stopSet, sampler, lists, joined, fallback, report>>

Actor ==
  \/ Start
  \/ CallRaises
  \/ StopBegin
  \/ JoinDone
  \/ JoinTimeout
  \/ Bind("bindCpu", "cpu")
  \/ Bind("bindMem", "mem")
  \/ Read("samples", lists["cpu"].n)
  \/ Read("cpuSum", View("cpu").sum)
  \/ Read("cpuLen", View("cpu").n)
  \/ Read("cpuMax", View("cpu").max)
  \/ Read("memSum", View("mem").sum)
  \/ Read("memLen", View("mem").n)
  \/ Read("memMax", View("mem").max)

Next == Actor \/ Sampler

\* The interpreter keeps running the actor thread.  Nothing is assumed of the
\* daemon thread: psutil may block it, which is why the join has a timeout.
Spec == Init /\ [][Next]_vars /\ WF_vars(Actor /\ actor # "started")

-----------------------------------------------------------------------------
(* The actor as the driver sees it, once it is created.                    *)

Seen == IF actor = "built" THEN "starting"
        ELSE IF actor = "started" THEN "sampling"
        ELSE IF actor = "returned" THEN "stopped"
        ELSE IF actor = "raised" THEN "raised" ELSE "stopping"

Contract == INSTANCE MonitorActor WITH state <- Seen

-----------------------------------------------------------------------------

ListType == [n : Nat, sum : Nat, max : Nat]

\* The values each variable of the actor ranges over.
TypeOK ==
  /\ stopSet \in BOOLEAN
  /\ sampler \in SamplerStates
  /\ lists \in [ListNames -> ListType]
  /\ actor \in ActorStates
  /\ joined \in BOOLEAN
  /\ fallback \subseteq ListNames
  /\ report \in [Fields -> Nat]

\* No average stop() returns (resource_monitor.py:66-69) is above the maximum
\* it returns beside it, even when the daemon thread appended between the
\* evaluation of sum, len and max.
AvgWithinMax ==
  actor = "returned" =>
    /\ report["cpuSum"] <= report["cpuMax"] * report["cpuLen"]
    /\ report["memSum"] <= report["memMax"] * report["memLen"]

\* stop() never divides by zero and never takes the maximum of nothing, also
\* when it runs before the daemon thread took its first sample.
AveragesDefined ==
  actor = "returned" => report["cpuLen"] > 0 /\ report["memLen"] > 0

\* After a join that succeeded the report describes all that was sampled, and no
\* later append can falsify it; there is one memory sample for each CPU sample, but
\* for the last one of a daemon thread that died between the two.
JoinedReportExact ==
  (actor = "returned" /\ joined) =>
    /\ report["samples"] = lists["cpu"].n
    /\ report["samples"] - lists["mem"].n \in (IF sampler = "died" THEN 0..1 ELSE {0})
    /\ report["cpuSum"] = lists["cpu"].sum
    /\ report["cpuMax"] = lists["cpu"].max
    /\ report["memSum"] = lists["mem"].sum
    /\ report["memMax"] = lists["mem"].max

\* The number of samples an average is taken over differs by at most one from
\* the reported number of samples: once the event is set, _loop appends to
\* each list at most once more, however late the daemon thread gets to run.
SkewBounded ==
  actor = "returned" =>
    /\ report["cpuLen"] - report["samples"] \in 0..1
    /\ report["memLen"] - report["samples"] \in -1..1

\* stop() returns or raises although the daemon thread may never run again.
StopReturns == actor = "joining" ~> actor \in {"returned", "raised"}

=============================================================================

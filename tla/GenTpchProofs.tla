---------------------------- MODULE GenTpchProofs ----------------------------
(***************************************************************************)
(* The invariants of GenTpch, for any tables and weights, any scale factor *)
(* and parts scales, any number of nodes and CPUs, any batch and any number*)
(* of retries, runs and failures.                                          *)
(***************************************************************************)
EXTENDS GenTpch, SetLemmas

\* Main holds tasks while its loop runs.
Looping == pc \in {"wait", "get"}

BusyTasks == {t \in Tasks : work[t].st \in Busy}

\* The parts busy tasks may have on a disk, and what other tasks left there.
Live == {<<work[t].node, t>> : t \in BusyTasks}
Leftover == Files \ Live

Cpus == Slots * Cardinality(Nodes)

\* The driver will end over a task that raised.
Doomed == \E t \in Tasks : work[t].st = "error"

\* Ray holds tasks only for a driver that runs, and each on a node; the tasks the
\* driver has collected returned, those it was handed have ended.
WorkInv ==
  /\ \A t \in Tasks : work[t].st \in Busy => work[t].node \in Nodes
  /\ ~Looping => work = [t \in Tasks |-> Off("none")]
  /\ Looping =>
       \A t \in Tasks :
         /\ t \notin TasksOf(plan) => work[t].st = "none"
         /\ t \in ready => work[t].st \in {"ok", "error"}
         /\ t \in TasksOf(plan) \ (pending \union ready) => work[t].st = "ok"

\* The driver's lists: what is pending, what is ready, and what was counted.
DriverInv ==
  /\ pending \subseteq TasksOf(plan) /\ ready \subseteq TasksOf(plan)
  /\ pending \intersect ready = {}
  /\ ~Looping => pending = {}
  /\ pc # "get" => ready = {}

\* No run has cut a table into more parts than "most" says, and none is in S3
\* beyond them.
PlanInv ==
  /\ pc \in {"wait", "get", "done"} =>
       \A table \in Tables : 1 <= plan[table] /\ plan[table] <= most[table]
  /\ \A t \in Tasks : s3[t] # Absent => t[2] <= most[t[1]]

\* A part's object is there, and of this run's plan unless its task may have found
\* a file.
Sound(t) == s3[t] # Absent /\ (t \notin exposed => s3[t] = plan[t[1]])

\* What a task has uploaded is sound.
StoredInv ==
  /\ Looping => \A t \in Tasks : work[t].st \in {"uploaded", "ok"} => Sound(t)
  /\ pc = "done" => \A t \in TasksOf(plan) : Sound(t)

\* A task that cannot have found a file has none on any node until it has written one,
\* and what it has written is of this run's plan.
FreshInv ==
  /\ Looping =>
       \A t \in Tasks \ exposed : work[t].st \in {"queued", "running"} =>
         \A n \in Nodes : scratch[<<n, t>>] = Absent
  /\ \A t \in Tasks : work[t].st \in {"generated", "uploaded"} =>
       /\ scratch[Path(t)] # Absent
       /\ t \notin exposed => scratch[Path(t)] = plan[t[1]]

\* Each failure has paid for the parts it left, and, when the driver has still to
\* end over it, for those it will leave.
DiskInv ==
  Cardinality(Leftover) + (IF Doomed THEN Cpus ELSE 0) <= faults * (Cpus + 1)

IInv ==
  /\ TypeOK /\ WorkInv /\ DriverInv /\ PlanInv /\ StoredInv /\ FreshInv
  /\ CountedOnce /\ DiskInv

-----------------------------------------------------------------------------
(* The constants, and the sets they make.                                  *)

\* A table is cut into at least one part, whatever its weight and the scale.
LEMMA PartsForType ==
  ASSUME NEW table \in Tables, NEW scale \in Scales
  PROVE  PartsFor(table, scale) \in Nat \ {0}
<1> DEFINE x == Sf * Weight[table] * scale
           floor == x \div 10000
           up == x % 10000 > 5000 \/ (x % 10000 = 5000 /\ floor % 2 = 1)
           n == IF up THEN floor + 1 ELSE floor
<1>1. Sf \in Nat /\ Weight[table] \in Nat /\ scale \in Nat
  BY ConfigAssumption
<1>2. x \in Nat
  BY <1>1
<1>3. floor \in Nat
  <2> HIDE DEF x
  <2> QED
    BY <1>2
<1>4. n \in Nat
  <2> HIDE DEF floor, up
  <2> QED
    BY <1>3
<1>5. Max({1, n}) \in {1, n} /\ 1 <= Max({1, n})
  <2> HIDE DEF n
  <2> QED
    BY <1>4, MaxOfTwo
<1>6. Max({1, n}) \in Nat \ {0}
  <2> HIDE DEF n
  <2> QED
    BY <1>4, <1>5
<1> QED
  BY <1>6 DEF PartsFor

\* MaxParts is the most parts a table is ever cut into.
LEMMA MaxPartsBound ==
  /\ MaxParts \in Nat \ {0}
  /\ \A table \in Tables, scale \in Scales : PartsFor(table, scale) <= MaxParts
<1> DEFINE S == {PartsFor(t, s) : t \in Tables, s \in Scales}
           f == [c \in Tables \X Scales |-> PartsFor(c[1], c[2])]
<1>1. IsFiniteSet(Tables \X Scales)
  BY ConfigAssumption, FS_Product
<1>2. f \in Surjection(Tables \X Scales, S)
  <2>1. f \in [Tables \X Scales -> S]
    OBVIOUS
  <2>2. \A y \in S : \E c \in Tables \X Scales : f[c] = y
    <3> TAKE y \in S
    <3>1. PICK t \in Tables, s \in Scales : y = PartsFor(t, s)
      OBVIOUS
    <3>2. <<t, s>> \in Tables \X Scales /\ f[<<t, s>>] = y
      BY <3>1
    <3> QED
      BY <3>2
  <2> HIDE DEF f, S
  <2> QED
    BY <2>1, <2>2 DEF Surjection
<1>3. IsFiniteSet(S)
  <2> HIDE DEF f, S
  <2> QED
    BY <1>1, <1>2, FS_Surjection
<1>4. S \in SUBSET (Nat \ {0}) /\ S # {}
  <2>1. S \in SUBSET (Nat \ {0})
    BY PartsForType
  <2>2. PICK t \in Tables, s \in Scales : TRUE
    BY ConfigAssumption
  <2>3. PartsFor(t, s) \in S
    OBVIOUS
  <2> QED
    BY <2>1, <2>3
<1>5. Max(S) \in S /\ \A x \in S : x <= Max(S)
  <2> HIDE DEF S
  <2>1. S \in SUBSET Nat
    BY <1>4
  <2> QED
    BY <1>3, <1>4, <2>1, MaxOfNats
<1>6. MaxParts = Max(S)
  BY DEF MaxParts
<1>7. \A table \in Tables, scale \in Scales : PartsFor(table, scale) \in S
  OBVIOUS
<1> HIDE DEF S
<1> QED
  BY <1>4, <1>5, <1>6, <1>7

\* There are finitely many tasks, and those of a plan are among them.
LEMMA TasksFinite ==
  /\ IsFiniteSet(Tasks)
  /\ \A p : TasksOf(p) \subseteq Tasks
  /\ \A T \in SUBSET Tasks : IsFiniteSet(T) /\ Cardinality(T) \in Nat
<1>1. IsFiniteSet(Tasks)
  <2>1. IsFiniteSet(1..MaxParts)
    BY MaxPartsBound, FS_Interval
  <2> QED
    BY <2>1, ConfigAssumption, FS_Product DEF Tasks
<1>2. \A T \in SUBSET Tasks : IsFiniteSet(T) /\ Cardinality(T) \in Nat
  BY <1>1, FS_Subset, FS_CardinalityType
<1> QED
  BY <1>1, <1>2 DEF TasksOf

\* The CPUs of the cluster are a natural number.
LEMMA CpusType == Cpus \in Nat
BY ConfigAssumption, FS_CardinalityType DEF Cpus

\* Each part a busy task may have on a disk takes a CPU.
LEMMA LiveBound ==
  ASSUME TypeOK, WorkInv
  PROVE  IsFiniteSet(Live) /\ Cardinality(Live) \in Nat /\ Cardinality(Live) <= Cpus
<1>1. IsFiniteSet(BusyTasks) /\ Cardinality(BusyTasks) \in Nat
  BY TasksFinite DEF BusyTasks
<1>2. Cardinality(BusyTasks) <= Slots * Cardinality(Nodes)
  <2> DEFINE f == [t \in BusyTasks |-> work[t].node]
  <2>1. f \in [BusyTasks -> Nodes]
    BY DEF BusyTasks, WorkInv
  <2>2. \A n \in Nodes : {t \in BusyTasks : f[t] = n} = BusyOn(n)
    BY DEF BusyTasks, BusyOn
  <2>3. \A n \in Nodes : Cardinality({t \in BusyTasks : f[t] = n}) <= Slots
    BY <2>2 DEF TypeOK
  <2> HIDE DEF f
  <2> QED
    BY <1>1, <2>1, <2>3, ConfigAssumption, PensBound
<1>3. IsFiniteSet(Live) /\ Cardinality(Live) <= Cardinality(BusyTasks)
  <2> DEFINE g == [t \in BusyTasks |-> <<work[t].node, t>>]
  <2>1. g \in Surjection(BusyTasks, Live)
    BY DEF Surjection, Live
  <2> HIDE DEF g
  <2> QED
    BY <1>1, <2>1, FS_Surjection
<1>4. Cardinality(Live) \in Nat
  BY <1>3, FS_CardinalityType
<1> QED
  BY <1>1, <1>2, <1>3, <1>4, CpusType DEF Cpus

\* The disks hold finitely many parts.
LEMMA ScratchFinite ==
  ASSUME TypeOK
  PROVE  /\ IsFiniteSet(Files) /\ Cardinality(Files) \in Nat
         /\ IsFiniteSet(Leftover) /\ Cardinality(Leftover) \in Nat
<1>1. IsFiniteSet(Nodes \X Tasks)
  BY ConfigAssumption, TasksFinite, FS_Product
<1>2. Files \in SUBSET (Nodes \X Tasks) /\ Leftover \in SUBSET (Nodes \X Tasks)
  BY DEF Leftover, Files, Paths
<1> QED
  BY <1>1, <1>2, FS_Subset, FS_CardinalityType

\* Where no task runs tpchgen-cli, the end of tasks changes no file; where one does, it
\* changes no other than its own.
LEMMA LeaveFiles ==
  ASSUME TypeOK, WorkInv, NEW T \in SUBSET Tasks, Leave(T)
  PROVE  /\ scratch' \in [Paths -> Contents]
         /\ \A p \in Paths : p[2] \notin Running \intersect T => scratch'[p] = scratch[p]
         /\ Files' \subseteq Files \union {Path(t) : t \in Running \intersect T}
<1>1. PICK left \in [Running \intersect T -> Contents] :
        scratch' = [p \in Paths |-> IF p[2] \in Running \intersect T /\ p = Path(p[2])
                                    THEN left[p[2]] ELSE scratch[p]]
  BY DEF Leave
<1>2. scratch' \in [Paths -> Contents]
  BY <1>1 DEF TypeOK
<1>3. \A p \in Paths : p[2] \notin Running \intersect T => scratch'[p] = scratch[p]
  BY <1>1
<1>4. \A p \in Paths : scratch'[p] = scratch[p] \/ (p[2] \in Running \intersect T /\ p = Path(p[2]))
  BY <1>1
<1>5. Files' \subseteq Files \union {Path(t) : t \in Running \intersect T}
  <2> SUFFICES ASSUME NEW p \in Paths, scratch'[p] # Absent, scratch[p] = Absent
               PROVE  p \in {Path(t) : t \in Running \intersect T}
    BY DEF Files, Absent
  <2> QED
    BY <1>4
<1> QED
  BY <1>2, <1>3, <1>5

-----------------------------------------------------------------------------
(* The steps of the driver.                                                *)

\* Nothing has been generated at first.
LEMMA InitInv == Init => IInv
<1> SUFFICES ASSUME Init
             PROVE  IInv
  OBVIOUS
<1>1. BusyTasks = {} /\ Live = {} /\ Leftover = {} /\ ~Doomed
  BY DEF Init, Off, BusyTasks, Busy, Live, Leftover, Files, Doomed
<1>2. TypeOK
  <2>1. \A n \in Nodes : BusyOn(n) = {}
    BY DEF Init, Off, BusyOn, Busy
  <2>2. \A n \in Nodes : Cardinality(BusyOn(n)) <= Slots
    BY <2>1, FS_EmptySet, ConfigAssumption
  <2>3. 0 \in 0..MaxParts /\ 0 \in 0..Retries /\ 0 \in 0..MaxRuns /\ 0 \in 0..MaxFaults
    BY MaxPartsBound, ConfigAssumption, BoundsAssumption
  <2> QED
    BY <2>2, <2>3 DEF Init, TypeOK, Off, Contents, Absent
<1>3. WorkInv
  BY DEF Init, WorkInv, Looping, Off, Busy
<1>4. DriverInv /\ PlanInv /\ StoredInv /\ FreshInv /\ CountedOnce
  BY DEF Init, DriverInv, PlanInv, StoredInv, FreshInv, CountedOnce, Looping, Off
<1>5. DiskInv
  BY <1>1, FS_EmptySet, CpusType DEF Init, DiskInv
<1> QED
  BY <1>2, <1>3, <1>4, <1>5 DEF IInv

\* When no task runs, none is busy on a node or leaves a part to come.
LEMMA IdleTasks ==
  ASSUME \A t \in Tasks : work[t].st \notin Busy \union {"error"}
  PROVE  /\ Live = {} /\ Leftover = Files /\ ~Doomed
         /\ \A n \in Nodes : BusyOn(n) = {} /\ Cardinality(BusyOn(n)) <= Slots
<1>1. Live = {} /\ Leftover = Files /\ ~Doomed
  BY DEF BusyTasks, Live, Leftover, Doomed
<1>2. \A n \in Nodes : BusyOn(n) = {}
  BY DEF BusyOn
<1> QED
  BY <1>1, <1>2, FS_EmptySet, ConfigAssumption

\* A run starts with its plan, and none of its tasks has begun.
LEMMA StartInv ==
  ASSUME IInv, Start
  PROVE  IInv'
<1> USE DEF IInv
<1>1. /\ ~Looping
      /\ work = [t \in Tasks |-> Off("none")]
      /\ pending = {} /\ ready = {}
  BY DEF Start, Looping, WorkInv, DriverInv
<1>2. Live = {} /\ Leftover = Files /\ ~Doomed
  BY <1>1, IdleTasks DEF Off, Busy
<1>3. CASE pc' = "wait"
  <2>1. PICK s \in Scales :
          LET p == [t \in Tables |-> PartsFor(t, s)]
          IN  /\ plan' = p
              /\ pending' = TasksOf(p) /\ ready' = {} /\ done' = 0
              /\ work' = [t \in Tasks |-> Off(IF t \in TasksOf(p) THEN "queued" ELSE "none")]
              /\ most' = [t \in Tables |-> Max({most[t], p[t]})]
              /\ exposed' = {t \in Tasks : \E n \in Nodes : <<n, t>> \in Files}
              /\ UNCHANGED faults
    BY <1>3 DEF Start
  <2>2. /\ UNCHANGED <<s3, scratch, faults>> /\ ready' = {} /\ done' = 0
        /\ pending' = TasksOf(plan')
    BY <2>1 DEF Start, store
  <2>3. /\ plan' = [t \in Tables |-> PartsFor(t, s)]
        /\ \A t \in Tables : plan'[t] \in 1..MaxParts
    <3>1. \A t \in Tables : PartsFor(t, s) \in 1..MaxParts
      BY PartsForType, MaxPartsBound
    <3> QED
      BY <2>1, <3>1
  <2>4. /\ most' = [t \in Tables |-> Max({most[t], plan'[t]})]
        /\ \A t \in Tables : /\ most'[t] \in {most[t], plan'[t]}
                             /\ most[t] <= most'[t] /\ plan'[t] <= most'[t]
    <3>1. most' = [t \in Tables |-> Max({most[t], plan'[t]})]
      BY <2>1
    <3>2. \A t \in Tables : most[t] \in Nat /\ plan'[t] \in Nat
      BY <2>3, MaxPartsBound DEF TypeOK
    <3> QED
      BY <3>1, <3>2, MaxOfTwo
  <2>5. /\ work' = [t \in Tasks |-> Off(IF t \in TasksOf(plan') THEN "queued" ELSE "none")]
        /\ \A t \in Tasks : /\ work'[t].st \in {"queued", "none"}
                            /\ t \notin TasksOf(plan') => work'[t].st = "none"
    BY <2>1 DEF Off
  <2>6. /\ Live' = {} /\ Leftover' = Files' /\ ~Doomed'
        /\ \A n \in Nodes : BusyOn(n)' = {} /\ Cardinality(BusyOn(n)') <= Slots
    <3>1. \A t \in Tasks : work'[t].st \notin Busy \union {"error"}
      BY <2>5 DEF Busy
    <3>2. Live' = {} /\ Leftover' = Files' /\ ~Doomed'
      BY <3>1 DEF BusyTasks, Live, Leftover, Doomed
    <3>3. \A n \in Nodes : BusyOn(n)' = {}
      BY <3>1 DEF BusyOn
    <3> QED
      BY <3>2, <3>3, FS_EmptySet, ConfigAssumption
  <2>7. TypeOK'
    <3>1. plan' \in [Tables -> 0..MaxParts]
      BY <2>3
    <3>2. most' \in [Tables -> 0..MaxParts]
      BY <2>3, <2>4 DEF TypeOK
    <3>3. pending' \subseteq Tasks /\ ready' \subseteq Tasks /\ done' \in Nat
      BY <2>2, TasksFinite
    <3>4. work' \in [Tasks -> [st : {"none", "queued", "ok", "error"} \union Busy,
                               node : Nodes \union {"none"}, tries : 0..Retries]]
      BY <2>5, ConfigAssumption DEF Off
    <3>5. runs' \in 0..MaxRuns
      BY BoundsAssumption DEF Start, TypeOK
    <3>6. exposed' \subseteq Tasks
      BY <2>1
    <3> QED
      BY <1>3, <2>2, <2>6, <3>1, <3>2, <3>3, <3>4, <3>5, <3>6 DEF TypeOK
  <2>8. WorkInv'
    BY <1>3, <2>2, <2>5 DEF WorkInv, Looping, Busy
  <2>9. DriverInv' /\ StoredInv'
    BY <1>3, <2>2, <2>5 DEF DriverInv, StoredInv, Looping
  <2>10. PlanInv'
    <3>1. \A t \in Tasks : t[1] \in Tables /\ t[2] \in Nat
      BY DEF Tasks
    <3>2. \A t \in Tables : most[t] \in Nat /\ most'[t] \in Nat
      BY <2>7, MaxPartsBound DEF TypeOK
    <3>3. \A t \in Tasks : s3'[t] # Absent => t[2] <= most'[t[1]]
      BY <2>2, <2>4, <3>1, <3>2 DEF PlanInv
    <3>4. \A table \in Tables : 1 <= plan'[table] /\ plan'[table] <= most'[table]
      BY <2>3, <2>4, MaxPartsBound
    <3> QED
      BY <3>3, <3>4 DEF PlanInv
  <2>11. CountedOnce'
    BY <1>3, <2>2, FS_EmptySet, TasksFinite DEF CountedOnce
  <2>12. DiskInv'
    <3>1. Leftover' = Leftover
      BY <1>2, <2>2, <2>6 DEF Files
    <3> QED
      BY <1>2, <2>2, <2>6, <3>1 DEF DiskInv
  <2>13. FreshInv'
    <3>1. \A t \in Tasks \ exposed', n \in Nodes : scratch'[<<n, t>>] = Absent
      BY <2>1, <2>2 DEF Files, Paths
    <3> QED
      BY <2>5, <3>1 DEF FreshInv
  <2> QED
    BY <2>7, <2>8, <2>9, <2>10, <2>11, <2>12, <2>13
<1>4. CASE pc' = "failed"
  <2>1. /\ faults < MaxFaults /\ faults' = faults + 1 /\ runs < MaxRuns /\ runs' = runs + 1
        /\ UNCHANGED <<plan, pending, ready, done, work, most, exposed, scratch, s3>>
    BY <1>4 DEF Start, store, history
  <2>2. /\ Live' = Live /\ Leftover' = Leftover /\ Doomed' = Doomed
        /\ \A n \in Nodes : BusyOn(n)' = BusyOn(n)
    BY <2>1 DEF BusyTasks, Live, Leftover, Files, Doomed, BusyOn
  <2>3. TypeOK'
    <3>1. runs' \in 0..MaxRuns /\ faults' \in 0..MaxFaults
      BY <2>1, BoundsAssumption DEF TypeOK
    <3> QED
      BY <1>4, <2>1, <2>2, <3>1 DEF TypeOK
  <2>4. WorkInv' /\ DriverInv' /\ PlanInv' /\ StoredInv' /\ FreshInv' /\ CountedOnce'
    BY <1>1, <1>4, <2>1 DEF WorkInv, DriverInv, PlanInv, StoredInv, FreshInv, CountedOnce,
                            Looping, TasksOf, Busy, Off
  <2>5. DiskInv'
    <3> DEFINE c == Cpus + 1
    <3>1. c \in Nat /\ faults \in Nat
      BY CpusType DEF TypeOK
    <3>2. (faults + 1) * c = faults * c + c
      <4> HIDE DEF c
      <4> QED
        BY <3>1
    <3>3. Cardinality(Leftover) <= faults * c
      BY <1>2, ScratchFinite DEF DiskInv
    <3>4. faults * c \in Nat
      <4> HIDE DEF c
      <4> QED
        BY <3>1
    <3>5. Cardinality(Leftover') <= faults' * c /\ ~Doomed'
      <4> HIDE DEF c
      <4> QED
        BY <1>2, <2>1, <2>2, <3>1, <3>2, <3>3, <3>4, ScratchFinite
    <3> QED
      BY <3>5, <2>2, <1>2, ScratchFinite DEF DiskInv
  <2> QED
    BY <2>3, <2>4, <2>5
<1> QED
  BY <1>3, <1>4 DEF Start

\* ray.wait hands out tasks that have ended, and takes them from the list.
LEMMA WaitInv ==
  ASSUME IInv, Wait
  PROVE  IInv'
<1> USE DEF IInv
<1>1. /\ pc = "wait" /\ pc' = "get" /\ ready = {}
      /\ ready' \subseteq Finished /\ pending' = pending \ ready'
      /\ UNCHANGED <<plan, done, work, store, history, bounds>>
  BY DEF Wait, kSubset, DriverInv
<1>2. UNCHANGED <<plan, done, work, scratch, s3, most, exposed, runs, faults>>
  BY <1>1 DEF store, history, bounds
<1>3. ready' \subseteq pending /\ \A t \in ready' : work[t].st \in {"ok", "error"}
  BY <1>1 DEF Finished
<1>4. /\ Live' = Live /\ Leftover' = Leftover /\ Doomed' = Doomed
      /\ \A n \in Nodes : BusyOn(n)' = BusyOn(n)
  BY <1>2 DEF BusyTasks, Live, Leftover, Files, Doomed, BusyOn
<1>5. TypeOK'
  BY <1>1, <1>2, <1>3, <1>4 DEF TypeOK
<1>6. WorkInv' /\ DriverInv' /\ PlanInv' /\ StoredInv'
  BY <1>1, <1>2, <1>3 DEF WorkInv, DriverInv, PlanInv, StoredInv, Sound, Looping, TasksOf, Busy
<1>7. CountedOnce'
  <2>1. pending \in SUBSET Tasks /\ ready' \in SUBSET Tasks
    BY <1>3 DEF TypeOK
  <2>2. /\ IsFiniteSet(pending) /\ Cardinality(pending) \in Nat
        /\ IsFiniteSet(ready') /\ Cardinality(ready') \in Nat
    BY <2>1, TasksFinite
  <2>3. pending \intersect ready' = ready'
    BY <1>3
  <2>4. Cardinality(pending') = Cardinality(pending) - Cardinality(ready')
    <3>1. Cardinality(pending \ ready')
            = Cardinality(pending) - Cardinality(pending \intersect ready')
      BY <2>2, FS_Difference
    <3> QED
      BY <1>1, <2>3, <3>1
  <2>5. done + Cardinality(pending) = Cardinality(TasksOf(plan)) /\ done \in Nat
    BY <1>1, <2>2, FS_EmptySet DEF CountedOnce, TypeOK
  <2>6. TasksOf(plan)' = TasksOf(plan)
    BY <1>2 DEF TasksOf
  <2> QED
    BY <1>2, <2>2, <2>4, <2>5, <2>6 DEF CountedOnce
<1>8. DiskInv'
  BY <1>2, <1>4 DEF DiskInv
<1>9. FreshInv'
  BY <1>1, <1>2 DEF FreshInv, Looping, Path
<1> QED
  BY <1>5, <1>6, <1>7, <1>8, <1>9

\* When the driver ends, what its tasks had on the disks stays, whole or not: no more
\* than a part per CPU.
LEMMA EndLeaves ==
  ASSUME TypeOK, WorkInv, End
  PROVE  /\ scratch' \in [Paths -> Contents]
         /\ Live' = {} /\ ~Doomed' /\ \A n \in Nodes : Cardinality(BusyOn(n)') <= Slots
         /\ Cardinality(Leftover') \in Nat
         /\ Cardinality(Leftover') <= Cardinality(Leftover) + Cpus
<1>1. \A t \in Tasks : work'[t].st \notin Busy \union {"error"}
  BY DEF End, Off, Busy
<1>2. Live' = {} /\ Leftover' = Files' /\ ~Doomed'
  BY <1>1 DEF BusyTasks, Live, Leftover, Doomed
<1>3. \A n \in Nodes : BusyOn(n)' = {}
  BY <1>1 DEF BusyOn
<1>4. \A n \in Nodes : Cardinality(BusyOn(n)') <= Slots
  BY <1>3, FS_EmptySet, ConfigAssumption
<1>5. IsFiniteSet(Leftover) /\ Cardinality(Leftover) \in Nat
  BY ScratchFinite
<1>6. IsFiniteSet(Live) /\ Cardinality(Live) \in Nat /\ Cardinality(Live) <= Cpus
  BY LiveBound
<1>7. scratch' \in [Paths -> Contents] /\ Files' \in SUBSET (Leftover \union Live)
  <2>1. /\ scratch' \in [Paths -> Contents]
        /\ Files' \subseteq Files \union {Path(t) : t \in Running \intersect Tasks}
    BY LeaveFiles DEF End
  <2>2. {Path(t) : t \in Running \intersect Tasks} \subseteq Live
    BY DEF Path, Running, Live, BusyTasks, Busy
  <2> QED
    BY <2>1, <2>2 DEF Leftover
<1>8. /\ IsFiniteSet(Leftover \union Live) /\ Cardinality(Leftover \union Live) \in Nat
      /\ Cardinality(Leftover \union Live)
           = Cardinality(Leftover) + Cardinality(Live) - Cardinality(Leftover \intersect Live)
      /\ Cardinality(Leftover \intersect Live) \in Nat
  BY <1>5, <1>6, FS_Union, FS_Intersection, FS_CardinalityType
<1>9. Cardinality(Files') <= Cardinality(Leftover \union Live) /\ Cardinality(Files') \in Nat
  BY <1>7, <1>8, FS_Subset, FS_CardinalityType
<1>10. Cardinality(Files') <= Cardinality(Leftover) + Cpus
  BY <1>5, <1>6, <1>8, <1>9, CpusType
<1> QED
  BY <1>2, <1>4, <1>7, <1>9, <1>10

\* The driver counts a batch and goes on, or ends with all parts collected, or
\* with the exception of a task.
LEMMA GetInv ==
  ASSUME IInv, Get
  PROVE  IInv'
<1> USE DEF IInv
<1>1. /\ pc = "get" /\ UNCHANGED <<plan, s3, most, exposed, runs, faults>>
  BY DEF Get, history, bounds
<1>2. CASE Raises
  <2>1. pc' = "failed" /\ End /\ UNCHANGED done
    BY <1>2 DEF Get
  <2>2. /\ scratch' \in [Paths -> Contents]
        /\ Live' = {} /\ ~Doomed' /\ \A n \in Nodes : Cardinality(BusyOn(n)') <= Slots
        /\ Cardinality(Leftover') \in Nat
        /\ Cardinality(Leftover') <= Cardinality(Leftover) + Cpus
    BY <1>1, <2>1, EndLeaves
  <2>3. TypeOK'
    BY <1>1, <2>1, <2>2, ConfigAssumption DEF TypeOK, End, Off
  <2>4. WorkInv' /\ DriverInv' /\ PlanInv' /\ StoredInv' /\ FreshInv' /\ CountedOnce'
    BY <1>1, <2>1 DEF End, Off, WorkInv, DriverInv, PlanInv, StoredInv, FreshInv, CountedOnce,
                      Looping, Busy
  <2>5. Doomed
    BY <1>2 DEF Raises, Doomed, TypeOK
  <2>6. DiskInv'
    <3> DEFINE c == faults * (Cpus + 1)
    <3>1. c \in Int /\ Cpus \in Nat /\ Cardinality(Leftover) \in Nat
      BY CpusType, ScratchFinite DEF TypeOK
    <3>2. Cardinality(Leftover) + Cpus <= c
      BY <2>5 DEF DiskInv
    <3>3. Cardinality(Leftover') + 0 <= c
      <4> HIDE DEF c
      <4> QED
        BY <2>2, <3>1, <3>2
    <3>4. Cardinality(Leftover') + 0 <= faults' * (Cpus + 1)
      BY <1>1, <3>3
    <3> QED
      BY <2>2, <3>4 DEF DiskInv, Cpus
  <2> QED
    BY <2>3, <2>4, <2>6
<1>3. CASE ~Raises /\ pending = {}
  <2>1. pc' = "done" /\ End /\ done' = done + Cardinality(ready)
    BY <1>3 DEF Get, Counted
  <2>2. \A t \in TasksOf(plan) : work[t].st = "ok"
    BY <1>1, <1>3 DEF Raises, WorkInv, Looping, TasksOf
  <2>3. \A t \in Tasks : work[t].st \notin Busy \union {"error"}
    BY <1>1, <2>2 DEF WorkInv, Looping, Busy
  <2>4. Live = {} /\ Leftover = Files /\ ~Doomed
    BY <2>3, IdleTasks
  <2>5. /\ scratch' \in [Paths -> Contents]
        /\ Live' = {} /\ ~Doomed' /\ \A n \in Nodes : Cardinality(BusyOn(n)') <= Slots
    BY <2>1, EndLeaves
  <2>6. Leftover' = Leftover
    <3>1. Running = {}
      BY <2>3 DEF Running, Busy
    <3>2. \A p \in Paths : scratch'[p] = scratch[p]
      BY <2>1, <3>1, LeaveFiles DEF End
    <3> QED
      BY <2>4, <2>5, <3>2 DEF Leftover, Files
  <2>7. TypeOK'
    <3>1. done' \in Nat
      BY <2>1, TasksFinite DEF TypeOK
    <3> QED
      BY <1>1, <2>1, <2>5, <3>1, ConfigAssumption DEF TypeOK, End, Off
  <2>8. WorkInv' /\ DriverInv' /\ PlanInv'
    BY <1>1, <2>1 DEF End, Off, WorkInv, DriverInv, PlanInv, Looping, Busy
  <2>9. StoredInv' /\ FreshInv'
    <3>1. \A t \in TasksOf(plan) : Sound(t)
      BY <1>1, <2>2 DEF StoredInv, Looping, TasksOf
    <3>2. StoredInv'
      BY <1>1, <2>1, <3>1 DEF StoredInv, Sound, Looping, TasksOf
    <3> QED
      BY <2>1, <3>2 DEF FreshInv, End, Off, Looping
  <2>10. CountedOnce'
    <3>1. done + Cardinality(ready) + Cardinality(pending) = Cardinality(TasksOf(plan))
      BY <1>1 DEF CountedOnce
    <3>2. Cardinality(pending) = 0 /\ pending' = {} /\ ready' = {}
      BY <1>3, <2>1, FS_EmptySet DEF End
    <3>3. Cardinality(pending') = 0 /\ Cardinality(ready') = 0
      BY <3>2, FS_EmptySet
    <3>4. done \in Nat /\ Cardinality(ready) \in Nat
      BY TasksFinite DEF TypeOK
    <3>5. TasksOf(plan)' = TasksOf(plan)
      BY <1>1 DEF TasksOf
    <3> QED
      BY <2>1, <3>1, <3>2, <3>3, <3>4, <3>5 DEF CountedOnce
  <2>11. DiskInv'
    BY <1>1, <2>4, <2>5, <2>6 DEF DiskInv, Cpus
  <2> QED
    BY <2>7, <2>8, <2>9, <2>10, <2>11
<1>4. CASE ~Raises /\ pending # {}
  <2>1. /\ pc' = "wait" /\ done' = done + Cardinality(ready) /\ ready' = {}
        /\ UNCHANGED <<pending, work, scratch>>
    BY <1>4 DEF Get, Counted
  <2>2. /\ Live' = Live /\ Leftover' = Leftover /\ Doomed' = Doomed
        /\ \A n \in Nodes : BusyOn(n)' = BusyOn(n)
    BY <1>1, <2>1 DEF BusyTasks, Live, Leftover, Files, Doomed, BusyOn
  <2>3. TypeOK'
    <3>1. done' \in Nat
      BY <2>1, TasksFinite DEF TypeOK
    <3> QED
      BY <1>1, <2>1, <2>2, <3>1 DEF TypeOK
  <2>4. WorkInv'
    BY <1>1, <1>4, <2>1 DEF WorkInv, Looping, Raises, TasksOf, Busy
  <2>5. DriverInv' /\ PlanInv' /\ StoredInv' /\ FreshInv'
    BY <1>1, <2>1 DEF DriverInv, PlanInv, StoredInv, Sound, FreshInv, Looping, TasksOf, Path
  <2>6. CountedOnce'
    <3>1. done + Cardinality(ready) + Cardinality(pending) = Cardinality(TasksOf(plan))
      BY <1>1 DEF CountedOnce
    <3>2. Cardinality(ready') = 0
      BY <2>1, FS_EmptySet
    <3>3. done \in Nat /\ Cardinality(ready) \in Nat /\ Cardinality(pending) \in Nat
      BY TasksFinite DEF TypeOK
    <3>4. TasksOf(plan)' = TasksOf(plan)
      BY <1>1 DEF TasksOf
    <3> QED
      BY <2>1, <3>1, <3>2, <3>3, <3>4 DEF CountedOnce
  <2>7. DiskInv'
    BY <1>1, <2>2 DEF DiskInv
  <2> QED
    BY <2>3, <2>4, <2>5, <2>6, <2>7
<1> QED
  BY <1>2, <1>3, <1>4

\* A failure pays for a disk's worth of parts and one more.
LEMMA FaultPays ==
  ASSUME TypeOK, faults' = faults + 1
  PROVE  /\ faults * (Cpus + 1) \in Nat
         /\ faults' * (Cpus + 1) = faults * (Cpus + 1) + Cpus + 1
<1> DEFINE c == Cpus + 1
<1>1. c \in Nat /\ Cpus \in Nat /\ faults \in Nat
  BY CpusType DEF TypeOK
<1>2. faults * c \in Nat /\ faults' * c = faults * c + c
  <2> HIDE DEF c
  <2> QED
    BY <1>1
<1>3. faults' * c = faults * c + Cpus + 1
  <2> DEFINE d == faults * c
  <2> HIDE DEF d
  <2> QED
    BY <1>1, <1>2 DEF d
<1> QED
  BY <1>2, <1>3

\* The driver is interrupted: what its tasks had on the disks stays.
LEMMA InterruptInv ==
  ASSUME IInv, Interrupt
  PROVE  IInv'
<1> USE DEF IInv
<1>1. /\ pc' = "failed" /\ End /\ Looping
      /\ faults < MaxFaults /\ faults' = faults + 1
      /\ UNCHANGED <<plan, done, s3, most, exposed, runs>>
  BY DEF Interrupt, Fault, history, Looping
<1>2. /\ scratch' \in [Paths -> Contents]
      /\ Live' = {} /\ ~Doomed' /\ \A n \in Nodes : Cardinality(BusyOn(n)') <= Slots
      /\ Cardinality(Leftover') \in Nat
      /\ Cardinality(Leftover') <= Cardinality(Leftover) + Cpus
  BY <1>1, EndLeaves
<1>3. TypeOK'
  <2>1. faults' \in 0..MaxFaults
    BY <1>1, BoundsAssumption DEF TypeOK
  <2> QED
    BY <1>1, <1>2, <2>1, ConfigAssumption DEF TypeOK, End, Off
<1>4. WorkInv' /\ DriverInv' /\ PlanInv' /\ StoredInv' /\ FreshInv' /\ CountedOnce'
  BY <1>1 DEF End, Off, WorkInv, DriverInv, PlanInv, StoredInv, FreshInv, CountedOnce, Looping,
              Busy
<1>5. DiskInv'
  <2> DEFINE c == faults * (Cpus + 1)
             d == faults' * (Cpus + 1)
  <2>1. c \in Nat /\ d = c + Cpus + 1
    BY <1>1, FaultPays
  <2>2. Cpus \in Nat /\ Cardinality(Leftover) \in Nat
    BY CpusType, ScratchFinite
  <2>3. Cardinality(Leftover) + (IF Doomed THEN Cpus ELSE 0) <= c
    BY DEF DiskInv
  <2>4. Cardinality(Leftover') + 0 <= d
    <3> HIDE DEF c, d
    <3> QED
      BY <1>2, <2>1, <2>2, <2>3
  <2> QED
    BY <1>2, <2>4 DEF DiskInv, Cpus
<1> QED
  BY <1>3, <1>4, <1>5

-----------------------------------------------------------------------------
(* The steps of a task.                                                    *)

WorkStates == [st : {"none", "queued", "ok", "error"} \union Busy,
               node : Nodes \union {"none"}, tries : 0..Retries]

\* A task takes a step only while the driver runs, and is pending then: the driver's
\* lists, which it does not see, stay true of it.
LEMMA TaskStep ==
  ASSUME IInv, NEW t \in Tasks, NEW w \in WorkStates,
         work[t].st \in Busy \union {"queued"}, w.st # "none",
         w.st \in Busy => w.node \in Nodes,
         work' = [work EXCEPT ![t] = w], UNCHANGED driver
  PROVE  /\ Looping /\ t \in pending /\ t \in TasksOf(plan)
         /\ work' \in [Tasks -> WorkStates]
         /\ work'[t] = w /\ \A u \in Tasks \ {t} : work'[u] = work[u]
         /\ WorkInv' /\ DriverInv' /\ CountedOnce'
<1> USE DEF IInv
<1>1. /\ work \in [Tasks -> WorkStates] /\ work' \in [Tasks -> WorkStates]
      /\ work'[t] = w /\ \A u \in Tasks \ {t} : work'[u] = work[u]
  BY DEF TypeOK, WorkStates
<1>2. Looping
  BY DEF WorkInv, Off, Busy
<1>3. t \in pending /\ t \in TasksOf(plan)
  BY <1>2 DEF WorkInv, Busy
<1>4. UNCHANGED <<pc, plan, pending, ready, done>>
  BY DEF driver
<1>5. WorkInv'
  <2>1. \A u \in Tasks : work'[u].st \in Busy => work'[u].node \in Nodes
    BY <1>1 DEF WorkInv
  <2>2. t \notin ready
    BY <1>3 DEF DriverInv
  <2>3. \A u \in Tasks :
          /\ u \notin TasksOf(plan) => work'[u].st = "none"
          /\ u \in ready => work'[u].st \in {"ok", "error"}
          /\ u \in TasksOf(plan) \ (pending \union ready) => work'[u].st = "ok"
    BY <1>1, <1>2, <1>3, <2>2 DEF WorkInv
  <2> QED
    BY <1>2, <1>4, <2>1, <2>3 DEF WorkInv, Looping, TasksOf
<1>6. DriverInv' /\ CountedOnce'
  BY <1>4 DEF DriverInv, CountedOnce, Looping, TasksOf
<1> QED
  BY <1>1, <1>2, <1>3, <1>5, <1>6

\* A task that begins nowhere takes no CPU.
LEMMA SlotsKept ==
  ASSUME TypeOK, NEW t \in Tasks, NEW w, \A u \in Tasks \ {t} : work'[u] = work[u],
         work'[t] = w, w.st \in Busy => work[t].st \in Busy /\ w.node = work[t].node
  PROVE  \A n \in Nodes : Cardinality(BusyOn(n)') <= Slots
<1> TAKE n \in Nodes
<1>1. BusyOn(n)' \in SUBSET BusyOn(n)
  BY DEF BusyOn
<1>2. IsFiniteSet(BusyOn(n)) /\ Cardinality(BusyOn(n)) \in Nat
  BY TasksFinite DEF BusyOn
<1>3. /\ Cardinality(BusyOn(n)') <= Cardinality(BusyOn(n))
      /\ Cardinality(BusyOn(n)') \in Nat
  BY <1>1, <1>2, FS_Subset, FS_CardinalityType
<1> QED
  BY <1>2, <1>3, ConfigAssumption DEF TypeOK

\* The part a task leaves may be the only one the disks have more: another task is
\* as busy as it was.
LEMMA LeftoverStep ==
  ASSUME NEW t \in Tasks, \A u \in Tasks \ {t} : work'[u] = work[u],
         Files' \subseteq Files \union {Path(t)}
  PROVE  Leftover' \subseteq Leftover \union {<<work[t].node, t>>}
<1> SUFFICES ASSUME NEW x \in Leftover', x # <<work[t].node, t>>
             PROVE  x \in Leftover
  OBVIOUS
<1>1. x \in Files /\ x \notin Live'
  BY DEF Leftover, Path
<1>2. x \notin Live
  BY <1>1 DEF Live, BusyTasks
<1> QED
  BY <1>1, <1>2 DEF Leftover

\* A step that leaves nothing behind, and after which no other task has raised.
LEMMA DiskKept ==
  ASSUME TypeOK, DiskInv, Leftover' \subseteq Leftover, Doomed' => Doomed,
         faults' = faults
  PROVE  DiskInv'
<1>1. Leftover' \in SUBSET Leftover
  OBVIOUS
<1>2. /\ IsFiniteSet(Leftover) /\ Cardinality(Leftover) \in Nat
  BY ScratchFinite
<1>3. Cardinality(Leftover') <= Cardinality(Leftover) /\ Cardinality(Leftover') \in Nat
  BY <1>1, <1>2, FS_Subset, FS_CardinalityType
<1> DEFINE c == faults * (Cpus + 1)
<1>4. c \in Int /\ Cpus \in Nat
  BY CpusType DEF TypeOK
<1>5. Cardinality(Leftover) + (IF Doomed THEN Cpus ELSE 0) <= c
  BY DEF DiskInv
<1>6. Cardinality(Leftover') + (IF Doomed' THEN Cpus ELSE 0) <= c
  <2> HIDE DEF c
  <2> QED
    BY <1>2, <1>3, <1>4, <1>5
<1> QED
  BY <1>6 DEF DiskInv, Cpus

\* A failure that leaves one part behind, and may end the driver.
LEMMA DiskFault ==
  ASSUME TypeOK, DiskInv, NEW x, Leftover' \subseteq Leftover \union {x},
         faults' = faults + 1
  PROVE  DiskInv'
<1>1. Leftover' \in SUBSET (Leftover \union {x})
  OBVIOUS
<1>2. /\ IsFiniteSet(Leftover) /\ Cardinality(Leftover) \in Nat
  BY ScratchFinite
<1>3. /\ IsFiniteSet(Leftover \union {x})
      /\ Cardinality(Leftover \union {x}) <= Cardinality(Leftover) + 1
  <2>1. /\ IsFiniteSet(Leftover \union {x})
        /\ Cardinality(Leftover \union {x})
             = IF x \in Leftover THEN Cardinality(Leftover) ELSE Cardinality(Leftover) + 1
    BY <1>2, FS_AddElement
  <2> QED
    BY <1>2, <2>1
<1>4. Cardinality(Leftover') <= Cardinality(Leftover \union {x})
      /\ Cardinality(Leftover') \in Nat /\ Cardinality(Leftover \union {x}) \in Nat
  BY <1>1, <1>3, FS_Subset, FS_CardinalityType
<1> DEFINE c == faults * (Cpus + 1)
           d == faults' * (Cpus + 1)
<1>5. c \in Nat /\ d = c + Cpus + 1 /\ Cpus \in Nat
  BY FaultPays, CpusType
<1>6. Cardinality(Leftover) + (IF Doomed THEN Cpus ELSE 0) <= c
  BY DEF DiskInv
<1>7. Cardinality(Leftover') + (IF Doomed' THEN Cpus ELSE 0) <= d
  <2> HIDE DEF c, d
  <2> QED
    BY <1>2, <1>3, <1>4, <1>5, <1>6
<1> QED
  BY <1>7 DEF DiskInv, Cpus

\* A task begins where a CPU is free.
LEMMA BeginInv ==
  ASSUME IInv, NEW t \in Tasks, NEW n \in Nodes, Begin(t, n)
  PROVE  IInv'
<1> USE DEF IInv
<1> DEFINE w == [work[t] EXCEPT !.st = "running", !.node = n]
<1>1. /\ work[t].st = "queued" /\ UNCHANGED <<driver, store, history, bounds>>
      /\ UNCHANGED <<pc, plan, scratch, s3, faults, runs, pending, ready, done, most, exposed>>
  BY DEF Begin, driver, store, history, bounds
<1>2. work \in [Tasks -> WorkStates] /\ w \in WorkStates /\ w.st = "running" /\ w.node = n
      /\ work' = [work EXCEPT ![t] = w]
  BY DEF Begin, TypeOK, WorkStates, Busy
<1>3. /\ Looping /\ t \in pending /\ t \in TasksOf(plan)
      /\ work' \in [Tasks -> WorkStates]
      /\ work'[t] = w /\ \A u \in Tasks \ {t} : work'[u] = work[u]
      /\ WorkInv' /\ DriverInv' /\ CountedOnce'
  <2> HIDE DEF w
  <2> QED
    BY <1>1, <1>2, TaskStep DEF Busy
<1>4. \A m \in Nodes : Cardinality(BusyOn(m)') <= Slots
  <2> TAKE m \in Nodes
  <2>1. IsFiniteSet(BusyOn(m)) /\ Cardinality(BusyOn(m)) \in Nat
    BY TasksFinite DEF BusyOn
  <2>2. CASE m = n
    <3>1. BusyOn(n)' = BusyOn(n) \union {t}
      BY <1>2, <1>3 DEF BusyOn, Busy
    <3>2. Cardinality(BusyOn(n)') <= Cardinality(BusyOn(n)) + 1
      <4>1. Cardinality(BusyOn(n) \union {t}) = IF t \in BusyOn(n)
              THEN Cardinality(BusyOn(n)) ELSE Cardinality(BusyOn(n)) + 1
        BY <2>1, <2>2, FS_AddElement
      <4> QED
        BY <2>1, <2>2, <3>1, <4>1
    <3>3. IsFiniteSet(BusyOn(n)') /\ Cardinality(BusyOn(n)') \in Nat
      BY <2>1, <2>2, <3>1, FS_AddElement, FS_CardinalityType
    <3> QED
      BY <2>1, <2>2, <3>2, <3>3, ConfigAssumption DEF Begin
  <2>3. CASE m # n
    <3>1. BusyOn(m)' = BusyOn(m)
      BY <1>1, <1>2, <1>3, <2>3 DEF BusyOn, Busy
    <3> QED
      BY <3>1 DEF TypeOK
  <2> QED
    BY <2>2, <2>3
<1>5. TypeOK'
  BY <1>1, <1>3, <1>4 DEF TypeOK, WorkStates, bounds
<1>6. PlanInv' /\ StoredInv' /\ FreshInv'
  <2>1. PlanInv' /\ StoredInv'
    BY <1>1, <1>2, <1>3 DEF PlanInv, StoredInv, Sound, Looping, TasksOf
  <2>2. FreshInv'
    BY <1>1, <1>2, <1>3 DEF FreshInv, Looping, Path
  <2> QED
    BY <2>1, <2>2
<1>7. Leftover' \subseteq Leftover /\ (Doomed' => Doomed)
  BY <1>1, <1>2, <1>3 DEF Leftover, Files, Live, BusyTasks, Busy, Doomed
<1>8. DiskInv'
  BY <1>1, <1>7, DiskKept
<1> QED
  BY <1>3, <1>5, <1>6, <1>8

\* A task writes its part where it runs.
LEMMA GenerateInv ==
  ASSUME IInv, NEW t \in Tasks, Generate(t)
  PROVE  IInv'
<1> USE DEF IInv
<1> DEFINE w == [work[t] EXCEPT !.st = "generated"]
<1>1. /\ work[t].st = "running"
      /\ UNCHANGED driver
      /\ UNCHANGED <<pc, plan, pending, ready, done, s3, most, exposed, runs, faults>>
  BY DEF Generate, driver, history, bounds
<1>2. /\ work \in [Tasks -> WorkStates] /\ w \in WorkStates
      /\ w.st = "generated" /\ w.node = work[t].node /\ w.node \in Nodes
      /\ work' = [work EXCEPT ![t] = w]
  BY <1>1 DEF Generate, TypeOK, WorkInv, WorkStates, Busy
<1>3. /\ Looping /\ t \in pending /\ t \in TasksOf(plan)
      /\ work' \in [Tasks -> WorkStates]
      /\ work'[t] = w /\ \A u \in Tasks \ {t} : work'[u] = work[u]
      /\ WorkInv' /\ DriverInv' /\ CountedOnce'
  <2> HIDE DEF w
  <2> QED
    BY <1>1, <1>2, TaskStep DEF Busy
<1>4. \A n \in Nodes : Cardinality(BusyOn(n)') <= Slots
  <2> HIDE DEF w
  <2> QED
    BY <1>1, <1>2, <1>3, SlotsKept DEF Busy
<1>5. PICK c \in Contents \ {Absent} :
        /\ scratch' = [scratch EXCEPT ![Path(t)] = c]
        /\ c \in {plan[t[1]], scratch[Path(t)]}
  <2>1. plan[t[1]] \in Contents /\ scratch[Path(t)] \in Contents
    BY <1>2, MaxPartsBound DEF TypeOK, Tasks, Path, Paths, Contents, Absent
  <2> QED
    BY <2>1 DEF Generate, Written
<1>6. /\ Path(t) \in Paths /\ scratch' \in [Paths -> Contents] /\ scratch'[Path(t)] = c
      /\ \A p \in Paths \ {Path(t)} : scratch'[p] = scratch[p]
  BY <1>2, <1>5 DEF TypeOK, Path, Paths
<1>7. TypeOK'
  BY <1>1, <1>3, <1>4, <1>6 DEF TypeOK, WorkStates
<1>8. PlanInv' /\ StoredInv'
  BY <1>1, <1>2, <1>3 DEF PlanInv, StoredInv, Sound, Looping, TasksOf
<1>9. FreshInv'
  <2>1. Path(t)' = Path(t) /\ \A u \in Tasks \ {t} : Path(u)' = Path(u)
    BY <1>2, <1>3 DEF Path
  <2>2. t \notin exposed => c = plan[t[1]]
    <3>1. t \notin exposed => scratch[Path(t)] = Absent
      BY <1>1, <1>2, <1>3 DEF FreshInv, Path
    <3> QED
      BY <1>5, <3>1
  <2>3. \A u \in Tasks \ {t}, n \in Nodes :
          <<n, u>> \in Paths /\ <<n, u>> # Path(t) /\ scratch'[<<n, u>>] = scratch[<<n, u>>]
    BY <1>6 DEF Path, Paths
  <2>4. \A u \in Tasks \ {t} : work[u].st \in Busy => scratch'[Path(u)] = scratch[Path(u)]
    BY <2>3 DEF Path, WorkInv
  <2>5. \A u \in Tasks : work'[u].st \in {"generated", "uploaded"} =>
          scratch'[Path(u)'] # Absent /\ (u \notin exposed => scratch'[Path(u)'] = plan[u[1]])
    <3> SUFFICES ASSUME NEW u \in Tasks, work'[u].st \in {"generated", "uploaded"}
                 PROVE  scratch'[Path(u)'] # Absent
                        /\ (u \notin exposed => scratch'[Path(u)'] = plan[u[1]])
      OBVIOUS
    <3>1. CASE u = t
      BY <1>5, <1>6, <2>1, <2>2, <3>1
    <3>2. CASE u # t
      <4>1. work[u].st \in {"generated", "uploaded"} /\ work[u].st \in Busy
        BY <1>3, <3>2 DEF Busy
      <4> QED
        BY <2>1, <2>4, <3>2, <4>1 DEF FreshInv
    <3> QED
      BY <3>1, <3>2
  <2>6. \A u \in Tasks \ exposed : work'[u].st \in {"queued", "running"} =>
          \A n \in Nodes : scratch'[<<n, u>>] = Absent
    BY <1>2, <1>3, <2>3 DEF FreshInv
  <2> QED
    BY <1>1, <2>5, <2>6 DEF FreshInv, Path
<1>10. Leftover' \subseteq Leftover /\ (Doomed' => Doomed)
  <2>1. Path(t) \in Live'
    BY <1>2, <1>3 DEF Live, BusyTasks, Busy, Path
  <2>2. Files' \subseteq Files \union {Path(t)}
    BY <1>6 DEF Files
  <2>3. Leftover' \subseteq Leftover
    BY <1>3, <2>1, <2>2, LeftoverStep DEF Leftover, Path
  <2> QED
    BY <1>2, <1>3, <2>3 DEF Doomed
<1>11. DiskInv'
  BY <1>1, <1>10, DiskKept
<1> QED
  BY <1>3, <1>7, <1>8, <1>9, <1>11

\* A task has a file to upload, and "most" has seen a plan with its part.
LEMMA UploadInv ==
  ASSUME IInv, NEW t \in Tasks, Upload(t)
  PROVE  IInv'
<1> USE DEF IInv
<1> DEFINE w == [work[t] EXCEPT !.st = "uploaded"]
<1>1. /\ work[t].st = "generated" /\ s3' = [s3 EXCEPT ![t] = scratch[Path(t)]]
      /\ UNCHANGED driver
      /\ UNCHANGED <<pc, plan, pending, ready, done, scratch, most, exposed, runs, faults>>
  BY DEF Upload, Stored, driver, history, bounds
<1>2. /\ work \in [Tasks -> WorkStates] /\ w \in WorkStates
      /\ w.st = "uploaded" /\ w.node = work[t].node /\ w.node \in Nodes
      /\ work' = [work EXCEPT ![t] = w]
  BY <1>1 DEF Upload, TypeOK, WorkInv, WorkStates, Busy
<1>3. /\ Looping /\ t \in pending /\ t \in TasksOf(plan)
      /\ work' \in [Tasks -> WorkStates]
      /\ work'[t] = w /\ \A u \in Tasks \ {t} : work'[u] = work[u]
      /\ WorkInv' /\ DriverInv' /\ CountedOnce'
  <2> HIDE DEF w
  <2> QED
    BY <1>1, <1>2, TaskStep DEF Busy
<1>4. \A n \in Nodes : Cardinality(BusyOn(n)') <= Slots
  <2> HIDE DEF w
  <2> QED
    BY <1>1, <1>2, <1>3, SlotsKept DEF Busy
<1>5. s3' \in [Tasks -> Contents] /\ s3'[t] = scratch[Path(t)]
      /\ \A u \in Tasks \ {t} : s3'[u] = s3[u]
  <2>1. scratch[Path(t)] \in Contents
    BY <1>2 DEF TypeOK, Path, Paths
  <2> QED
    BY <1>1, <2>1 DEF TypeOK
<1>6. TypeOK'
  BY <1>1, <1>3, <1>4, <1>5 DEF TypeOK, WorkStates
<1>7. PlanInv'
  <2>1. t[1] \in Tables /\ t[2] <= plan[t[1]] /\ plan[t[1]] <= most[t[1]]
    BY <1>3 DEF TasksOf, Tasks, PlanInv, Looping
  <2>2. t[2] \in Nat /\ plan[t[1]] \in Nat /\ most[t[1]] \in Nat
    BY <2>1, MaxPartsBound DEF Tasks, TypeOK
  <2>3. t[2] <= most[t[1]]
    BY <2>1, <2>2
  <2>4. \A u \in Tasks : s3'[u] # Absent => u[2] <= most[u[1]]
    BY <1>5, <2>3 DEF PlanInv
  <2> QED
    BY <1>1, <2>4 DEF PlanInv
<1>8. StoredInv' /\ FreshInv'
  <2>1. scratch[Path(t)] # Absent /\ (t \notin exposed => scratch[Path(t)] = plan[t[1]])
    BY <1>1 DEF FreshInv
  <2>2. StoredInv'
    BY <1>1, <1>2, <1>3, <1>5, <2>1 DEF StoredInv, Sound, Looping, TasksOf
  <2>3. FreshInv'
    BY <1>1, <1>2, <1>3, <2>1 DEF FreshInv, Looping, Path
  <2> QED
    BY <2>2, <2>3
<1>9. Leftover' \subseteq Leftover /\ (Doomed' => Doomed)
  BY <1>1, <1>2, <1>3 DEF Leftover, Files, Live, BusyTasks, Busy, Doomed
<1>10. DiskInv'
  BY <1>1, <1>9, DiskKept
<1> QED
  BY <1>3, <1>6, <1>7, <1>8, <1>10

\* What a task removes is its own part.
LEMMA RemoveInv ==
  ASSUME IInv, NEW t \in Tasks, Remove(t)
  PROVE  IInv'
<1> USE DEF IInv
<1> DEFINE w == Off("ok")
<1>1. /\ work[t].st = "uploaded" /\ scratch' = [scratch EXCEPT ![Path(t)] = Absent]
      /\ UNCHANGED driver
      /\ UNCHANGED <<pc, plan, pending, ready, done, s3, most, exposed, runs, faults>>
  BY DEF Remove, Removed, driver, history, bounds
<1>2. /\ w \in WorkStates /\ w.st = "ok" /\ work' = [work EXCEPT ![t] = w]
  BY ConfigAssumption DEF Remove, WorkStates, Off
<1>3. /\ Looping /\ t \in pending /\ t \in TasksOf(plan)
      /\ work' \in [Tasks -> WorkStates]
      /\ work'[t] = w /\ \A u \in Tasks \ {t} : work'[u] = work[u]
      /\ WorkInv' /\ DriverInv' /\ CountedOnce'
  <2> HIDE DEF w
  <2> QED
    BY <1>1, <1>2, TaskStep DEF Busy
<1>4. \A n \in Nodes : Cardinality(BusyOn(n)') <= Slots
  <2> HIDE DEF w
  <2> QED
    BY <1>2, <1>3, SlotsKept DEF Busy
<1>5. /\ Path(t) \in Paths /\ scratch' \in [Paths -> Contents] /\ scratch'[Path(t)] = Absent
      /\ \A p \in Paths \ {Path(t)} : scratch'[p] = scratch[p]
  BY <1>1 DEF TypeOK, WorkInv, Busy, Path, Paths, Contents
<1>6. TypeOK'
  BY <1>1, <1>3, <1>4, <1>5 DEF TypeOK, WorkStates
<1>7. PlanInv' /\ StoredInv'
  BY <1>1, <1>2, <1>3 DEF PlanInv, StoredInv, Sound, Looping, TasksOf
<1>8. FreshInv'
  <2>1. \A u \in Tasks \ {t}, n \in Nodes : scratch'[<<n, u>>] = scratch[<<n, u>>]
    BY <1>5 DEF Path, Paths
  <2>2. \A u \in Tasks \ {t} : /\ Path(u)' = Path(u)
                               /\ work[u].st \in Busy => scratch'[Path(u)] = scratch[Path(u)]
    BY <1>3, <2>1 DEF Path, WorkInv
  <2>3. work'[t].st \notin {"generated", "uploaded"}
    BY <1>2, <1>3
  <2>4. \A u \in Tasks : work'[u].st \in {"generated", "uploaded"} =>
          scratch'[Path(u)'] # Absent /\ (u \notin exposed' => scratch'[Path(u)'] = plan[u[1]])
    <3> SUFFICES ASSUME NEW u \in Tasks, work'[u].st \in {"generated", "uploaded"}
                 PROVE  scratch'[Path(u)'] # Absent
                        /\ (u \notin exposed' => scratch'[Path(u)'] = plan[u[1]])
      OBVIOUS
    <3>1. u # t /\ work[u].st \in {"generated", "uploaded"} /\ work[u].st \in Busy
      BY <1>3, <2>3 DEF Busy
    <3>2. Path(u)' = Path(u) /\ scratch'[Path(u)] = scratch[Path(u)]
      BY <2>2, <3>1
    <3>3. scratch[Path(u)] # Absent /\ (u \notin exposed => scratch[Path(u)] = plan[u[1]])
      BY <3>1 DEF FreshInv
    <3> QED
      BY <1>1, <3>2, <3>3
  <2>5. \A u \in Tasks \ exposed' : work'[u].st \in {"queued", "running"} =>
          \A n \in Nodes : scratch'[<<n, u>>] = Absent
    BY <1>1, <1>2, <1>3, <2>1 DEF FreshInv
  <2> QED
    BY <1>1, <2>4, <2>5 DEF FreshInv, Path
<1>9. Leftover' \subseteq Leftover /\ (Doomed' => Doomed)
  <2>1. Path(t) \notin Leftover' /\ Files' \subseteq Files \union {Path(t)}
    BY <1>5 DEF Leftover, Files
  <2>2. Leftover' \subseteq Leftover \union {<<work[t].node, t>>}
    BY <1>3, <2>1, LeftoverStep
  <2>3. Leftover' \subseteq Leftover
    BY <2>1, <2>2 DEF Path
  <2> QED
    BY <1>2, <1>3, <2>3 DEF Doomed
<1>10. DiskInv'
  BY <1>1, <1>9, DiskKept
<1> QED
  BY <1>3, <1>6, <1>7, <1>8, <1>10

\* A task that raises, or whose worker dies, leaves at most its own part.
LEMMA FailureInv ==
  ASSUME IInv, NEW t \in Tasks, TaskRaises(t) \/ WorkerDies(t)
  PROVE  IInv'
<1> USE DEF IInv
<1>1. /\ work[t].st \in Busy /\ faults < MaxFaults /\ faults' = faults + 1
      /\ Leave({t}) /\ UNCHANGED driver
      /\ UNCHANGED <<pc, plan, pending, ready, done, s3, most, runs>>
      /\ exposed' \in {exposed, exposed \union {t}}
  BY DEF TaskRaises, WorkerDies, Fault, driver, history
<1>2. PICK w \in WorkStates :
        /\ w.st \in {"queued", "error"} /\ work' = [work EXCEPT ![t] = w]
        /\ w.st = "queued" => t \in exposed'
  <2>1. CASE TaskRaises(t)
    <3>1. Off("error") \in WorkStates /\ Off("error").st = "error"
      BY ConfigAssumption DEF WorkStates, Off
    <3> QED
      BY <2>1, <3>1 DEF TaskRaises
  <2>2. CASE WorkerDies(t)
    <3>1. Again(t) \in WorkStates /\ Again(t).st \in {"queued", "error"}
      BY ConfigAssumption DEF WorkStates, Off, Again, TypeOK
    <3> QED
      BY <2>2, <3>1 DEF WorkerDies
  <2> QED
    BY <2>1, <2>2
<1>3. /\ Looping /\ t \in pending /\ t \in TasksOf(plan)
      /\ work' \in [Tasks -> WorkStates]
      /\ work'[t] = w /\ \A u \in Tasks \ {t} : work'[u] = work[u]
      /\ WorkInv' /\ DriverInv' /\ CountedOnce'
  BY <1>1, <1>2, TaskStep DEF Busy
<1>4. \A n \in Nodes : Cardinality(BusyOn(n)') <= Slots
  BY <1>2, <1>3, SlotsKept DEF Busy
<1>5. /\ scratch' \in [Paths -> Contents]
      /\ \A p \in Paths : p[2] # t => scratch'[p] = scratch[p]
      /\ Files' \subseteq Files \union {Path(t)}
  <2>1. {t} \in SUBSET Tasks
    OBVIOUS
  <2>2. /\ scratch' \in [Paths -> Contents]
        /\ \A p \in Paths : p[2] \notin Running \intersect {t} => scratch'[p] = scratch[p]
        /\ Files' \subseteq Files \union {Path(u) : u \in Running \intersect {t}}
    BY <1>1, <2>1, LeaveFiles
  <2> QED
    BY <2>2
<1>6. TypeOK'
  <2>1. faults' \in 0..MaxFaults /\ exposed' \subseteq Tasks
    BY <1>1, BoundsAssumption DEF TypeOK
  <2> QED
    BY <1>1, <1>3, <1>4, <1>5, <2>1 DEF TypeOK, WorkStates
<1>7. PlanInv' /\ StoredInv'
  BY <1>1, <1>2, <1>3 DEF PlanInv, StoredInv, Sound, Looping, TasksOf
<1>8. FreshInv'
  <2>1. \A u \in Tasks \ {t}, n \in Nodes : scratch'[<<n, u>>] = scratch[<<n, u>>]
    BY <1>5 DEF Paths
  <2>2. \A u \in Tasks \ {t} : /\ Path(u)' = Path(u)
                               /\ work[u].st \in Busy => scratch'[Path(u)] = scratch[Path(u)]
    BY <1>3, <2>1 DEF Path, WorkInv
  <2>3. work'[t].st \notin {"generated", "uploaded"}
    BY <1>2, <1>3
  <2>4. \A u \in Tasks : work'[u].st \in {"generated", "uploaded"} =>
          scratch'[Path(u)'] # Absent /\ (u \notin exposed' => scratch'[Path(u)'] = plan[u[1]])
    <3> SUFFICES ASSUME NEW u \in Tasks, work'[u].st \in {"generated", "uploaded"}
                 PROVE  scratch'[Path(u)'] # Absent
                        /\ (u \notin exposed' => scratch'[Path(u)'] = plan[u[1]])
      OBVIOUS
    <3>1. u # t /\ work[u].st \in {"generated", "uploaded"} /\ work[u].st \in Busy
      BY <1>3, <2>3 DEF Busy
    <3>2. Path(u)' = Path(u) /\ scratch'[Path(u)] = scratch[Path(u)]
      BY <2>2, <3>1
    <3>3. scratch[Path(u)] # Absent /\ (u \notin exposed => scratch[Path(u)] = plan[u[1]])
      BY <3>1 DEF FreshInv
    <3> QED
      BY <1>1, <3>2, <3>3
  <2>5. \A u \in Tasks \ exposed' : work'[u].st \in {"queued", "running"} =>
          \A n \in Nodes : scratch'[<<n, u>>] = Absent
    BY <1>1, <1>2, <1>3, <2>1 DEF FreshInv
  <2> QED
    BY <1>1, <2>4, <2>5 DEF FreshInv, Path
<1>9. Leftover' \subseteq Leftover \union {<<work[t].node, t>>}
  BY <1>3, <1>5, LeftoverStep
<1>10. DiskInv'
  BY <1>1, <1>9, DiskFault
<1> QED
  BY <1>3, <1>6, <1>7, <1>8, <1>10

-----------------------------------------------------------------------------
(* The theorems.                                                           *)

\* Every step keeps the invariant, and so does a stutter.
LEMMA StepInv ==
  ASSUME IInv, [Next]_vars
  PROVE  IInv'
<1>1. CASE Start \/ Interrupt \/ DriverSteps
  BY <1>1, StartInv, InterruptInv, WaitInv, GetInv DEF DriverSteps
<1>2. CASE TaskSteps
  BY <1>2, GenerateInv, UploadInv, RemoveInv, BeginInv DEF TaskSteps
<1>3. CASE Failures
  BY <1>3, FailureInv DEF Failures
<1>4. CASE UNCHANGED vars
  <2>1. /\ UNCHANGED <<pc, plan, pending, ready, done, work, scratch, s3, most, exposed, runs, faults>>
    BY <1>4 DEF vars, driver, store, history, bounds
  <2>2. \A n \in Nodes : BusyOn(n)' = BusyOn(n)
    BY <2>1 DEF BusyOn
  <2>3. TypeOK'
    BY <2>1, <2>2 DEF IInv, TypeOK
  <2>4. WorkInv' /\ DriverInv' /\ PlanInv' /\ StoredInv' /\ FreshInv' /\ CountedOnce'
    BY <2>1 DEF IInv, WorkInv, DriverInv, PlanInv, StoredInv, Sound, FreshInv, CountedOnce,
                Looping, TasksOf, Path
  <2>5. DiskInv'
    BY <2>1 DEF IInv, DiskInv, Leftover, Files, Live, BusyTasks, Doomed, Cpus
  <2> QED
    BY <2>3, <2>4, <2>5 DEF IInv
<1> QED
  BY <1>1, <1>2, <1>3, <1>4 DEF Next

\* What the generator's properties follow from holds in every reachable state.
THEOREM Invariance == Spec => []IInv
BY InitInv, StepInv, PTL DEF Spec

\* TypeOK: the values of the variables, and no node runs more tasks than it has CPUs.
THEOREM TypeCorrect == Spec => []TypeOK
<1>1. IInv => TypeOK
  BY DEF IInv
<1> QED
  BY <1>1, Invariance, PTL

\* DoneMeansUploaded: DONE is only reported of a dataset whose every part is in S3,
\* cut by this run's plan if its task cannot have found a file, and in which no table
\* is without data.
THEOREM UploadedCorrect == Spec => []DoneMeansUploaded
<1>1. IInv => DoneMeansUploaded
  <2> SUFFICES ASSUME IInv, pc = "done", NEW table \in Tables
               PROVE  \E t \in TasksOf(plan) : t[1] = table
    BY DEF IInv, StoredInv, Sound, DoneMeansUploaded
  <2>1. <<table, 1>> \in Tasks
    BY MaxPartsBound DEF Tasks
  <2>2. 1 <= plan[table]
    BY DEF IInv, PlanInv
  <2>3. <<table, 1>> \in TasksOf(plan)
    BY <2>1, <2>2 DEF TasksOf
  <2> QED
    BY <2>3
<1> QED
  BY <1>1, Invariance, PTL

\* CountedOnce: no batch of ray.wait, however tasks end, is counted twice or missed.
THEOREM CountCorrect == Spec => []CountedOnce
<1>1. IInv => CountedOnce
  BY DEF IInv
<1> QED
  BY <1>1, Invariance, PTL

\* RerunRepairs: a run that uses at least as many parts as any before, and found the
\* disks clean, leaves a table's objects as its plan says, and no others.
THEOREM RepairCorrect == Spec => []RerunRepairs
<1>1. IInv => RerunRepairs
  <2> SUFFICES ASSUME IInv, pc = "done", exposed = {}, NEW t \in Tasks,
                      most[t[1]] = plan[t[1]]
               PROVE  s3[t] = IF t \in TasksOf(plan) THEN plan[t[1]] ELSE Absent
    BY DEF RerunRepairs
  <2>1. CASE t \in TasksOf(plan)
    BY <2>1 DEF IInv, StoredInv, Sound
  <2>2. CASE t \notin TasksOf(plan)
    BY <2>2 DEF IInv, PlanInv, TasksOf
  <2> QED
    BY <2>1, <2>2
<1> QED
  BY <1>1, Invariance, PTL

\* DiskBounded: the disks hold a part per CPU and what failures left, whatever
\* the size of the dataset.
THEOREM DiskCorrect == Spec => []DiskBounded
<1>1. IInv => DiskBounded
  <2> SUFFICES ASSUME IInv
               PROVE  Cardinality(Files) <= Cpus + faults * (Cpus + 1)
    BY DEF DiskBounded, Cpus
  <2>1. /\ IsFiniteSet(Files) /\ Cardinality(Files) \in Nat
        /\ IsFiniteSet(Leftover) /\ Cardinality(Leftover) \in Nat
    BY ScratchFinite DEF IInv
  <2>2. IsFiniteSet(Live) /\ Cardinality(Live) \in Nat /\ Cardinality(Live) <= Cpus
    BY LiveBound DEF IInv
  <2>3. Cardinality(Leftover) = Cardinality(Files) - Cardinality(Files \intersect Live)
    BY <2>1, FS_Difference DEF Leftover
  <2>4. /\ Cardinality(Files \intersect Live) \in Nat
        /\ Cardinality(Files \intersect Live) <= Cardinality(Live)
    BY <2>2, FS_Intersection, FS_CardinalityType
  <2> DEFINE c == faults * (Cpus + 1)
  <2>5. c \in Nat /\ Cpus \in Nat
    BY CpusType DEF IInv, TypeOK
  <2>6. Cardinality(Leftover) + (IF Doomed THEN Cpus ELSE 0) <= c
    BY DEF IInv, DiskInv
  <2> HIDE DEF c
  <2>7. Cardinality(Leftover) <= c
    BY <2>1, <2>5, <2>6
  <2>8. Cardinality(Files) <= Cpus + c
    BY <2>1, <2>2, <2>3, <2>4, <2>5, <2>7
  <2> QED
    BY <2>8 DEF c
<1> QED
  BY <1>1, Invariance, PTL

-----------------------------------------------------------------------------
(* When the dataset is what README.md:61 says it is.                       *)

\* All runs so far have cut the tables as this scale does.
CutBy(s) ==
  /\ \A table \in Tables : most[table] <= PartsFor(table, s)
  /\ pc \in {"wait", "get", "done"} => plan = [t \in Tables |-> PartsFor(t, s)]

\* The last run found the disks clean and lost no worker.
ExactIfClean == exposed = {} => DatasetExact

\* DatasetExact, which fails when a run uses fewer parts than one before, holds
\* if every run uses the same --parts-scale and the last one found the disks clean and
\* lost no worker: then nothing is left in S3 of another partition, however often the
\* generator failed before and was run again (gen_tpch.py:75-83, 104).
THEOREM ExactWithOneScale ==
  ASSUME NEW s \in Scales, Scales = {s}
  PROVE  Spec => []ExactIfClean
<1>1. Init => CutBy(s)
  BY PartsForType DEF Init, CutBy
<1>2. CutBy(s) /\ IInv /\ [Next]_vars => CutBy(s)'
  <2> SUFFICES ASSUME CutBy(s), IInv, [Next]_vars
               PROVE  CutBy(s)'
    OBVIOUS
  <2>1. CASE Start /\ pc' = "wait"
    <3>1. /\ plan' = [t \in Tables |-> PartsFor(t, s)]
          /\ most' = [t \in Tables |-> Max({most[t], PartsFor(t, s)})]
      BY <2>1 DEF Start
    <3>2. \A t \in Tables : most[t] \in Nat /\ PartsFor(t, s) \in Nat
      BY PartsForType, MaxPartsBound DEF IInv, TypeOK
    <3>3. \A t \in Tables : most'[t] <= PartsFor(t, s)
      <4> TAKE t \in Tables
      <4>1. most[t] <= PartsFor(t, s)
        BY DEF CutBy
      <4>2. Max({most[t], PartsFor(t, s)}) \in {most[t], PartsFor(t, s)}
        BY <3>2, MaxOfTwo
      <4> QED
        BY <3>1, <3>2, <4>1, <4>2
    <3> QED
      BY <3>1, <3>3 DEF CutBy
  <2>2. CASE Start /\ pc' = "failed"
    BY <2>2 DEF Start, CutBy, history
  <2>3. CASE UNCHANGED <<plan, most>> /\ (pc' \in {"wait", "get", "done"} => pc \in {"wait", "get"})
    BY <2>3 DEF CutBy
  <2>4. CASE UNCHANGED <<pc, plan, most>>
    BY <2>4 DEF CutBy
  <2>5. CASE Interrupt \/ DriverSteps
    <3>1. UNCHANGED <<plan, most>> /\ pc \in {"wait", "get"}
      BY <2>5 DEF Interrupt, DriverSteps, Wait, Get, history
    <3> QED
      BY <2>3, <3>1
  <2>6. CASE TaskSteps \/ Failures
    <3>1. UNCHANGED <<pc, plan, most>>
      BY <2>6 DEF TaskSteps, Failures, Generate, Upload, Remove, Begin, TaskRaises, WorkerDies,
                  driver, history
    <3> QED
      BY <2>4, <3>1
  <2>7. CASE UNCHANGED vars
    BY <2>4, <2>7 DEF vars, driver, history
  <2>8. Start => pc' \in {"wait", "failed"}
    BY DEF Start
  <2> QED
    BY <2>1, <2>2, <2>5, <2>6, <2>7, <2>8 DEF Next
<1>3. CutBy(s) /\ IInv /\ RerunRepairs => ExactIfClean
  <2> SUFFICES ASSUME CutBy(s), IInv, RerunRepairs, exposed = {}, pc = "done", NEW t \in Tasks
               PROVE  s3[t] = IF t \in TasksOf(plan) THEN plan[t[1]] ELSE Absent
    BY DEF DatasetExact, ExactIfClean
  <2>1. t[1] \in Tables
    BY DEF Tasks
  <2>2. most[t[1]] <= plan[t[1]] /\ plan[t[1]] <= most[t[1]]
    BY <2>1 DEF CutBy, IInv, PlanInv
  <2>3. most[t[1]] \in Nat /\ plan[t[1]] \in Nat
    BY <2>1, MaxPartsBound DEF IInv, TypeOK
  <2>4. most[t[1]] = plan[t[1]]
    BY <2>2, <2>3
  <2> QED
    BY <2>4 DEF RerunRepairs
<1> QED
  BY <1>1, <1>2, <1>3, Invariance, RepairCorrect, PTL DEF Spec

=============================================================================

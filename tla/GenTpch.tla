------------------------------- MODULE GenTpch -------------------------------
(***************************************************************************)
(* data/generators/gen_tpch.py: a driver fans the generation of a TPC-H    *)
(* dataset out as one Ray task per part of every table; a task writes its  *)
(* part to the scratch disk of its node, uploads it to S3 and deletes the  *)
(* local file.  The driver collects results in batches with ray.wait.      *)
(*                                                                         *)
(* A task may raise, its worker process may die (Ray runs it again, a      *)
(* bounded number of times), the driver may be interrupted; the generator  *)
(* may be run again, with another --parts-scale.  Ray itself is external:  *)
(* what the driver relies on is modelled.  So is tpchgen-cli: a file it    *)
(* finds under the name it writes to it may write again or leave as it is, *)
(* and if it is cut off while it writes it leaves any part of a file.      *)
(***************************************************************************)
EXTENDS Integers, FiniteSets, FiniteSetsExt

CONSTANTS
  Tables,      \* the tables of --tables
  Weight,      \* PART_WEIGHTS, in hundredths
  Sf,          \* the scale factor
  Scales,      \* values of --parts-scale, in hundredths
  Nodes,       \* nodes that run tasks
  Slots,       \* CPUs of a node: tasks it runs at a time
  Batch,       \* the 32 of ray.wait(num_returns=min(32, ...))
  Retries,     \* times Ray runs a task again whose worker died
  MaxRuns,     \* bound of the model: runs of the generator
  MaxFaults    \* bound of the model: failures and interruptions

ASSUME ConfigAssumption ==
  /\ IsFiniteSet(Tables) /\ Tables # {} /\ Weight \in [Tables -> Nat]
  /\ Sf \in Nat \ {0}
  /\ IsFiniteSet(Scales) /\ Scales # {} /\ Scales \subseteq Nat \ {0}
  /\ IsFiniteSet(Nodes)
  /\ Slots \in Nat \ {0} /\ Batch \in Nat \ {0} /\ Retries \in Nat
ASSUME BoundsAssumption == MaxRuns \in Nat /\ MaxFaults \in Nat

VARIABLES
  pc,       \* where the driver is
  plan,     \* parts of every table in this run
  pending,  \* tasks ray.wait has not handed out
  ready,    \* tasks it handed out last
  done,     \* the driver's counter of collected parts
  work,     \* what became of every task: its state, its node, its restarts
  scratch,  \* local files, one name per node and task
  s3,       \* objects, one key per task
  most,     \* history: the most parts any run has cut a table into
  exposed,  \* history: tasks of this run that may find a file under their name
  runs, faults

driver == <<pc, plan, pending, ready, done>>
store == <<scratch, s3>>
history == <<most, exposed>>
bounds == <<runs, faults>>
vars == <<driver, work, store, history, bounds>>

-----------------------------------------------------------------------------

\* parts_for(): max(1, round(...)), and Python rounds half to even.
PartsFor(table, scale) ==
  LET x == Sf * Weight[table] * scale
      floor == x \div 10000
      rest == x % 10000
      up == rest > 5000 \/ (rest = 5000 /\ floor % 2 = 1)
  IN  Max({1, IF up THEN floor + 1 ELSE floor})

MaxParts == Max({PartsFor(t, s) : t \in Tables, s \in Scales})
Tasks == Tables \X (1..MaxParts)
TasksOf(p) == {t \in Tasks : t[2] <= p[t[1]]}

\* A file or object holds one part of as many as its table was cut into, or is
\* not whole.  Neither its name nor its key says which (gen_tpch.py:75, 82).
Absent == 0
Torn == -1
Contents == {Torn, Absent} \union 1..MaxParts

Paths == Nodes \X Tasks
Files == {p \in Paths : scratch[p] # Absent}
Path(t) == <<work[t].node, t>>

\* A task that runs nowhere.
Off(state) == [st |-> state, node |-> "none", tries |-> 0]
Busy == {"running", "generated", "uploaded"}
BusyOn(n) == {t \in Tasks : work[t].st \in Busy /\ work[t].node = n}

Fault == faults < MaxFaults /\ faults' = faults + 1 /\ UNCHANGED runs

Init ==
  /\ pc = "idle" /\ plan = [t \in Tables |-> 0]
  /\ pending = {} /\ ready = {} /\ done = 0
  /\ work = [t \in Tasks |-> Off("none")]
  /\ scratch = [p \in Paths |-> Absent] /\ s3 = [t \in Tasks |-> Absent]
  /\ most = [t \in Tables |-> 0] /\ exposed = {}
  /\ runs = 0 /\ faults = 0

-----------------------------------------------------------------------------
(* The driver: main().                                                     *)

\* main() up to the loop: every task is submitted at once.  ray.init may raise.
Start ==
  /\ pc \in {"idle", "done", "failed"}
  /\ runs < MaxRuns
  /\ runs' = runs + 1
  /\ \/ \E s \in Scales :
          LET p == [t \in Tables |-> PartsFor(t, s)]
          IN  /\ pc' = "wait" /\ plan' = p
              /\ pending' = TasksOf(p) /\ ready' = {} /\ done' = 0
              /\ work' = [t \in Tasks |-> Off(IF t \in TasksOf(p) THEN "queued" ELSE "none")]
              /\ most' = [t \in Tables |-> Max({most[t], p[t]})]
              /\ exposed' = {t \in Tasks : \E n \in Nodes : <<n, t>> \in Files}
              /\ UNCHANGED faults
     \/ /\ pc' = "failed" /\ faults < MaxFaults /\ faults' = faults + 1
        /\ UNCHANGED <<plan, pending, ready, done, work, history>>
  /\ UNCHANGED store

Finished == {t \in pending : work[t].st \in {"ok", "error"}}

\* ray.wait: num_returns finished tasks, or the fewer there are after 30 s.
Wait ==
  /\ pc = "wait" /\ pending # {}
  /\ LET n == Min({Batch, Cardinality(pending)})
     IN  IF Cardinality(Finished) >= n
           THEN ready' \in kSubset(n, Finished)
           ELSE ready' = Finished
  /\ pending' = pending \ ready'
  /\ pc' = "get"
  /\ UNCHANGED <<plan, done, work, store, history, bounds>>

Running == {t \in Tasks : work[t].st = "running"}

\* What a task may leave that ends while tpchgen-cli runs.
Leavings(t) == {scratch[Path(t)], Torn, plan[t[1]]}

\* Tasks T end; those that run tpchgen-cli may leave a file cut off.
Leave(T) ==
  \E left \in [Running \intersect T -> Contents] :
    /\ \A t \in Running \intersect T : left[t] \in Leavings(t)
    /\ scratch' = [p \in Paths |->
                     IF p[2] \in Running \intersect T /\ p = Path(p[2])
                       THEN left[p[2]] ELSE scratch[p]]

\* The driver ends: Ray kills the tasks of its job, their files stay.
End ==
  /\ work' = [t \in Tasks |-> Off("none")]
  /\ pending' = {} /\ ready' = {}
  /\ Leave(Tasks)

\* The exception of a failed part is not raised again.
Raises_Never == FALSE

\* ray.get(ready) raises the exception of a failed task.
Raises == \E t \in ready : work[t].st = "error"

\* The counter misses the parts of a batch that ends the loop.
Counted_NotLast == IF pending = {} THEN done ELSE done + Cardinality(ready)

Counted == done + Cardinality(ready)

\* An exception ends main().
Get ==
  /\ pc = "get"
  /\ IF Raises
       THEN pc' = "failed" /\ End /\ UNCHANGED done
       ELSE /\ done' = Counted
            /\ IF pending = {}
                 THEN pc' = "done" /\ End
                 ELSE pc' = "wait" /\ ready' = {} /\ UNCHANGED <<pending, work, scratch>>
  /\ UNCHANGED <<plan, s3, history, bounds>>

\* Ctrl-C, or the death of the driver.
Interrupt ==
  /\ pc \in {"wait", "get"}
  /\ Fault
  /\ pc' = "failed" /\ End
  /\ UNCHANGED <<plan, done, s3, history>>

-----------------------------------------------------------------------------
(* A task: gen_part().                                                     *)

\* Ray starts a task on a node with a free CPU.
Begin(t, n) ==
  /\ work[t].st = "queued"
  /\ Cardinality(BusyOn(n)) < Slots
  /\ work' = [work EXCEPT ![t].st = "running", ![t].node = n]
  /\ UNCHANGED <<driver, store, history, bounds>>

\* tpchgen-cli writes the part to the scratch disk, or lets a file stand that it
\* finds there.
Written(t) == {plan[t[1]], scratch[Path(t)]} \ {Absent}

Generate(t) ==
  /\ work[t].st = "running"
  /\ \E c \in Written(t) : scratch' = [scratch EXCEPT ![Path(t)] = c]
  /\ work' = [work EXCEPT ![t].st = "generated"]
  /\ UNCHANGED <<driver, s3, history, bounds>>

\* An object that is there is not uploaded again.
Stored_KeepsExisting(t) == IF s3[t] = Absent THEN scratch[Path(t)] ELSE s3[t]

\* What is uploaded is the file of that name, whatever it holds.
Stored(t) == scratch[Path(t)]

Upload(t) ==
  /\ work[t].st = "generated"
  /\ s3' = [s3 EXCEPT ![t] = Stored(t)]
  /\ work' = [work EXCEPT ![t].st = "uploaded"]
  /\ UNCHANGED <<driver, scratch, history, bounds>>

\* The local file is not deleted.
Removed_Not(t) == scratch

Removed(t) == [scratch EXCEPT ![Path(t)] = Absent]

\* os.remove, and the task returns.
Remove(t) ==
  /\ work[t].st = "uploaded"
  /\ scratch' = Removed(t)
  /\ work' = [work EXCEPT ![t] = Off("ok")]
  /\ UNCHANGED <<driver, s3, history, bounds>>

\* tpchgen-cli, with or without a file left, the upload or os.remove fails: the
\* task raises, and Ray does not run it again.
TaskRaises(t) ==
  /\ work[t].st \in Busy
  /\ Fault
  /\ work' = [work EXCEPT ![t] = Off("error")]
  /\ Leave({t})
  /\ UNCHANGED <<driver, s3, history>>

\* A task whose worker died is lost.
Again_Lost(t) == Off("lost")

\* Ray queues the task again, from the start, or gives it up with an error.
Again(t) ==
  IF work[t].tries < Retries
    THEN [Off("queued") EXCEPT !.tries = work[t].tries + 1]
    ELSE Off("error")

\* The worker process of a task dies.
WorkerDies(t) ==
  /\ work[t].st \in Busy
  /\ Fault
  /\ work' = [work EXCEPT ![t] = Again(t)]
  /\ Leave({t})
  /\ exposed' = exposed \union {t}
  /\ UNCHANGED <<driver, s3, most>>

-----------------------------------------------------------------------------

DriverSteps == Wait \/ Get
TaskSteps ==
  \E t \in Tasks : Generate(t) \/ Upload(t) \/ Remove(t) \/ \E n \in Nodes : Begin(t, n)
Failures == \E t \in Tasks : TaskRaises(t) \/ WorkerDies(t)

Next == Start \/ Interrupt \/ DriverSteps \/ TaskSteps \/ Failures

\* The driver runs and the nodes work: ray.wait has a timeout, a task waits for
\* nothing but a CPU.
Spec == Init /\ [][Next]_vars /\ WF_vars(DriverSteps) /\ WF_vars(TaskSteps)

-----------------------------------------------------------------------------

\* The values each variable ranges over; a node runs no more tasks than it has
\* CPUs.
TypeOK ==
  /\ pc \in {"idle", "wait", "get", "done", "failed"}
  /\ plan \in [Tables -> 0..MaxParts] /\ most \in [Tables -> 0..MaxParts]
  /\ pending \subseteq Tasks /\ ready \subseteq Tasks /\ done \in Nat
  /\ work \in [Tasks -> [st : {"none", "queued", "ok", "error"} \union Busy,
                         node : Nodes \union {"none"}, tries : 0..Retries]]
  /\ scratch \in [Paths -> Contents] /\ s3 \in [Tasks -> Contents]
  /\ exposed \subseteq Tasks
  /\ runs \in 0..MaxRuns /\ faults \in 0..MaxFaults
  /\ \A n \in Nodes : Cardinality(BusyOn(n)) <= Slots

\* When the generator reports DONE, every part of this run's plan has an object in
\* S3, and one cut by this plan, whatever earlier runs left there, unless the part's
\* task may have found a file on its node's disk: one an earlier run left there, or
\* a worker of its own that died.  No table is without data, whatever its weight and
\* the scale (gen_tpch.py:50-51, 75-83, 132-144).
DoneMeansUploaded ==
  pc = "done" =>
    /\ \A t \in TasksOf(plan) :
         s3[t] # Absent /\ (t \notin exposed => s3[t] = plan[t[1]])
    /\ \A table \in Tables : \E t \in TasksOf(plan) : t[1] = table

\* Every task is counted once: while the loop runs, the parts counted, those
\* ready and those pending make up the plan, and DONE reports all
\* (gen_tpch.py:132-144).
CountedOnce ==
  pc \in {"wait", "get", "done"} =>
    done + Cardinality(ready) + Cardinality(pending) = Cardinality(TasksOf(plan))

\* When a run that found the disks clean, and none of whose workers died, reports
\* DONE, and no run used more parts for a table than it, the objects of the table are
\* those of its plan and no others: a run again, after a failure or with more parts,
\* repairs the dataset, if what failures left on the disks was removed
\* (gen_tpch.py:75-83).
RerunRepairs ==
  pc = "done" /\ exposed = {} =>
    \A t \in Tasks : most[t[1]] = plan[t[1]] =>
      s3[t] = IF t \in TasksOf(plan) THEN plan[t[1]] ELSE Absent

\* "Peak local disk stays tiny": beyond a part per CPU, a disk holds only what
\* failures left behind, for each failure at most the parts in work when the
\* driver ended over it, and one more (gen_tpch.py:3-7, 85).
DiskBounded ==
  LET cpus == Slots * Cardinality(Nodes)
  IN  Cardinality(Files) <= cpus + faults * (cpus + 1)

\* The generator ends: it reports DONE or fails, however tasks fail, and no
\* timeout of ray.wait makes it wait forever (gen_tpch.py:134-138).
GeneratorEnds == []<>(pc \in {"idle", "done", "failed"})

-----------------------------------------------------------------------------
(* What the documentation says of the program and the code does not do.    *)

\* "identical bytes for both architectures" (README.md:61), whatever multiplier
\* "on parts-per-table (more = smaller files)" (gen_tpch.py:105) is asked for:
\* the objects of a table are one partition of it.
DatasetExact ==
  pc = "done" =>
    \A t \in Tasks : s3[t] = IF t \in TasksOf(plan) THEN plan[t[1]] ELSE Absent

=============================================================================

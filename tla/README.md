# Verification of the Ray + Spark benchmark kit

TLA+ models of the parts of this repository that run concurrently, fail halfway
or are interrupted; TLC configurations that check them on small instances; and
proofs, checked by TLAPS, of the properties that matter most for instances of
any size. Paths below are relative to the repository (`src/`).

## 1. The system and its parts

A *head* node runs the benchmark drivers, *worker* nodes run Ray tasks, Ray
actors and Spark executors. Data and results live in S3; clusters come and go.

| part | state it keeps | operations | talks to |
|---|---|---|---|
| **NodeMonitor** actor (`common/resource_monitor.py:22-74`) | two lists of samples, an Event, a daemon thread | `start`, `stop`, the thread's `_loop` | called by ClusterMonitor over Ray |
| **ClusterMonitor** (`resource_monitor.py:77-119`) | `_monitors`, the handles of the actors | `start`, `stop`, `_aggregate` | one NodeMonitor per alive node; called by BenchmarkRun |
| **BenchmarkRun** (`common/runner.py`) | the run, its monitor, its result | `__enter__`, `set_metrics`, `__exit__` | ClusterMonitor, `persist` |
| **Persistence** (`common/metrics.py`) | `results.csv`, `raw/<run_id>.json`, their copies in S3 | `_append_csv`, `_write_json`, `_upload_s3`, `persist` | called by `__exit__`; read by the report |
| **Benchmark processes** (`benchmarks/*/run.py`, `spark_session.py`) | failure counter, Spark session | the loops of `main`, `init_spark`, `stop_spark` | one BenchmarkRun per attempt |
| **Sweep** (`scripts/run_all.sh`) | which process is next | start a process, ignore its exit code | the two processes |
| **TPC-H generator** (`data/generators/gen_tpch.py`) | pending tasks, counters; scratch files; S3 objects | `main`, `gen_part`, `parts_for` | Ray tasks, S3 |
| **Node bootstrap** (`infra/ray-cluster/node_setup.sh`, `ray_systemd.sh`, cluster YAML) | systemd units, packages, jars, the sentinel | the script over ssh and on boot, the two services | `ray up`, systemd, reboots |
| **Report** (`scripts/report.py`) | none | load, group, compare | raw results on disk and in S3 |
| **Configuration** (`common/config.py`) | none | architecture detection, prices, paths | the metadata service; everything |
| **IAM setup** (`scripts/setup_iam.sh`) | role, policy and instance profile of the account | create what is missing | IAM, from the control machine |
| **Launch, AMI** (`scripts/launch.sh`, `resolve_ami.sh`) | a rendered file | look up the AMI, `ray up` | the control machine |
| **Workloads and queries** (`benchmarks/*/workloads.py`, `tpch_queries.py`) | none | pipelines and SQL | Ray Data, Spark |

What is hard here, and what makes each part correct:

* **NodeMonitor**: two threads share lists without a lock, and `stop()` waits for
  the other thread at most five seconds. Correct: what `stop()` reports is
  consistent in itself, defined when there is no sample, exact when the thread
  has ended, be it by an exception, and `stop()` never hangs.
* **ClusterMonitor**: calls on several actors, any of which dies or raises. Correct: a
  summary is over all nodes or none, a workload is sampled from before its
  start, nothing hangs on a dead node, and actors do not pile up.
* **Runs, persistence and sweep**: a result is recorded by a sequence of steps
  inside an exception handler; writes, uploads and processes fail or are
  interrupted, and a full disk tears a row in the middle. Correct: each failure
  is counted once, success means recorded, files agree with each other but for
  what was torn, S3 agrees with the files, and nothing but Ctrl-C ends a sweep.
* **Generator**: tasks fail, are retried and outlive nothing; `ray.wait` times
  out; runs are repeated with other parameters, on disks that still hold files of
  earlier ones under the same names. Correct: DONE means uploaded, and where no
  such file was met the right part; parts are counted once, disks stay small, the
  generator ends.
* **Bootstrap**: reboots at any line, commands that fail, the same script started
  from two sides. Correct: the sentinel and a running Ray mean a complete node,
  and Ray comes back.
* **Report and configuration**: results of several clusters, tagged and priced by
  each process for itself, are compared while others are still recorded,
  uploaded or torn down. Correct: every successful run counts and no failed one
  does, a line never mixes CPUs, the baseline is 1, and the data has one name.
* **IAM setup**: a script of calls each of which may fail, repeated until it
  works. Correct: "ready" is true whatever was there before, and it converges.

## 2. The modules

| module | what it is |
|---|---|
| `NodeMonitor`, `MCNodeMonitor`, `NodeMonitorProofs` | one monitor actor: both threads, one step per Python expression on a list |
| `ClusterMonitor`, `MCClusterMonitor`, `ClusterMonitorProofs` | the driver's handling of all actors over several runs |
| `MonitorActor` | abstract: one monitor actor between the driver and itself; both modules above implement it |
| `ResultLedger` | abstract: results are recorded, mirrored, torn down with the head node, and survive in S3 |
| `BenchSweep`, `MCBenchSweep`, `BenchSweepProofs` | sweep, processes, `__exit__`, `persist`, the files and S3; implements `ResultLedger` |
| `GenTpch`, `MCGenTpch`, `GenTpchProofs` | the generator's driver, its tasks, scratch disks and S3 |
| `NodeBootstrap`, `MCNodeBootstrap`, `NodeBootstrapProofs` | the bootstrap of a node: the script twice, systemd, reboots |
| `Config` | definitions of `config.py` and of the two functions that normalise scale factors: detection, prices, labels |
| `Report` | definitions of `build_report`: from the loaded rows to the lines |
| `Comparison`, `MCComparison`, `ComparisonProofs` | clusters, attempts, uploads and a report at any moment; composes `Config`, `Report` and `ResultLedger` |
| `IamSetup`, `IamSetupProofs` | `setup_iam.sh` on any account, failing, interrupted and repeated |
| `SetLemmas` | facts about least, greatest and counted elements of finite sets, used by two of the proof modules |

The modules compose by abstraction: `ClusterMonitor` takes the two methods of
an actor as one step each. `MonitorActor` is the contract between them: created
once, started, asked to stop once, answering once or raising. `NodeMonitor` implements its
steps, from creation on, if it is called as the contract says, and `ClusterMonitor`
does them to each actor (both named `ContractCorrect`); that an answer or an
exception comes is `StopReturns`, that stop() is only called on an actor that samples, or is dead,
`WindowCovered`.
`BenchSweep` leaves the monitor out, which `ClusterMonitor` justifies by
`EnterAndExitReturn` (the handlers neither hang nor raise into the run).
`Comparison` keeps results in a `ResultLedger`, whose actions are its own
recording, uploading and tearing down, which is justified by `LedgerKept`:
`BenchSweep`, with all the steps and failures of `persist()`, implements it.

Definitions whose name has an underscore (`Bind_NoFallback`) are deliberate
faults, each a plausible bug of the definition it is named after; no
specification uses them. They show that a property can fail: replacing the
definition by its faulty form violates the property listed with it in
`PROJECT.json`. Where a fault concerns one expression of an action, the
expression has a name (`Another`, `Caught`, `Answered`), and the fault too.

### NodeMonitor

`lists` holds what `stop()` can see of a list: its length, sum and maximum.
`sampler` and `actor` are the program counters of `_loop` and `stop()`. `Bind`
is `x or [0.0]`: the list itself, which may still grow, or a fresh list
(`fallback`). The order of the reads is the order of the dictionary in
`stop()`, in `After`. The disk and network figures are differences of kernel
counters and are left out, but not that reading them may raise: `CallRaises` ends
`start()` or `stop()` with an exception, `SamplerRaises` the daemon thread, before
either of its appends. Nobody is told of the latter: `stop()` reports what there is.

### ClusterMonitor

`actor[r][n]` is the actor that run `r` created on node `n`. `StartActor` to
`StartReturned` is one round of the loop in `start()`; `StartRaised` is the
`except` branch of `__enter__`; `BeginStop` submits the calls of `stop()`;
`StopReturned` kills and aggregates; `StopRaised` is the `except` branch of
`__exit__`, which leaves `_monitors` as it was. `ActorRaises` is a call that raises in an actor that lives on:
`ray.get` raises for it as for a dead one (`Fails`). `Held` says which actors the
driver still refers to: those of the current run, and those of the run before
while the next one is entered, because the name `run` in `main()` is rebound
only when `__enter__` returns. Ray is external: a call on a dead actor raises,
an actor nobody refers to is ended some time later (`Reap`), a node that comes
back has a new NodeID (`stale`).

### BenchSweep and ResultLedger

`pc` walks through `run_all.sh`, `main()` and `__exit__`. A CSV or JSON file is
written when it is closed, so an open one is empty (JSON) or unchanged (CSV).
A failing or interrupted write leaves any prefix of the bytes: whole lines, and
then perhaps a torn one without its end (`ShortWrites`). The next row is appended
to that piece. It is in the file, at the end of a line that is not its own
(`Fused`), and a reader of the CSV does not find it: `InCsv` is about rows that
begin where a line begins. A row cut off exactly in front of its line feed is
counted among the torn, as the next row is fused to it all the same. `exc` is how
this attempt, or registering the views, ended; `code` how the process did, from
which `Exit` decides as `run_all.sh` and the shell do: after Ctrl-C the script ends
with the process, after anything else `|| echo` goes on. `stop_spark()` swallows
its own exception, and then Spark is `stuck` until the process is gone. `AfterExit`
is the interplay of `return False`, `except Exception` and an exception of
`__exit__` itself. `priced` says whether the cluster has a price: `BENCH_ARCH`
may name an architecture that is not in the tables, and then
`cluster_hourly_cost()` raises in `__exit__`. `RayDown` is a new cluster of the
same architecture, whose head node has no files. The refinement mapping takes
`local` to the complete JSON files and `remote` to the objects `raw/<id>.json`.

### GenTpch

`work[t]` follows a task through `gen_part`: running, file generated, uploaded,
local file removed. `scratch[<<n, t>>]` is the file of that name on a node and
`s3[t]` the object of that key, each by the number of parts its table was cut into,
`Torn` if it is not whole or `Absent`: neither name nor key says which. `Wait` is `ray.wait`: `num_returns` finished tasks, or all finished
ones when the 30 seconds are over first, possibly none. When the driver ends,
Ray ends its tasks (`End`), whose files stay on disk; this is taken to happen
before the generator is run again. `tpchgen-cli` is external, and nothing in the
repository says what it does with a file it finds under the name it is to write:
in `Generate` it may write it again or leave it, in `Leave`, when it is cut off, it
leaves what was there, a torn file or a whole one. `Upload` takes the file of the
name, whatever it holds (`produced[0]`). Two history variables: `most` for
`RerunRepairs`, and `exposed`, the tasks of the present run that may meet a file
because an earlier run left one on some node or a worker of their own died. What
the properties say of the content of a part exempts the exposed tasks and no
others; without the exemption they are false if `tpchgen-cli` leaves files alone.

### NodeBootstrap

`pc[r]` is where each of the two runs of `node_setup.sh` is: `ssh`, started by
`ray up`, and `boot`, started by `bench-setup.service`. The jar is followed by
inode, because renaming `<jar>.part` renames what another curl may be writing.
dnf and pip are one step, safe to interrupt and repeat; the two jars are one.
A unit whose `ConditionPathExists=` fails does not fail the unit that requires
it, so `bench-ray` starts when the sentinel exists. A reboot ends both runs, and the
boot after it knows nothing of how the boot service ended before (`Reboot`).

### Config and Report

Both are pure. `DetectArch` takes what the metadata service answered, the family
or `""`, and the CPU; `Price` the environment overrides. A scale factor as typed
is a prefix, leading zeros and a number, which is all `resolve_sf` and
`normalize_sf` look at. `Report` keeps the two parts of a load apart, the results
directory and S3, because `rows += ...` counts a run that is in both twice:
`Count`, and with it `Median`, is over both parts. `best` is a minimum and not
affected. `agg(hourly="first")` is the row listed first, in an order `glob` does
not define, so `Reports` is the set of all reports. Engine, workload and scale
factor are one field `sf`; a ratio is the pair of its two sides, before rounding.

### Comparison

`rows` is every result ever recorded, `local` and `remote` the run ids of the
complete JSON files on the head and in S3. `Attempt` is an attempt of a benchmark
process from the detection of its architecture to its row; `Upload` follows,
fails or never comes (the process was killed). `ReportStart` is `main()` up to
the download, or to the end without `--from-s3`; `Download` is one listing of
S3 and the objects in it, whose content never changes, so that the moment of the
listing is what counts. A report on the head sees the files of the head, one on
the control machine none, and it dies with the head. `machine`, `arg` and `forced` in
a row, and `before`, are history for the properties.

### IamSetup

`account` is what IAM has, `pc` the next call. `Ask` is a call whose failure the
script takes for "no" (`2>&1` in an `if`, `|| true`); `Call` one that changes the
account, and whose failure, with or without the effect, ends the script. The
first run meets any account. `found` remembers which role the profile held: one
whose name has this one as a word is taken for it by `grep -qw`.

## 3. What the runs check

Runs that pass:

| run | bounds | properties |
|---|---|---|
| `NodeMonitor.cfg` | 3 CPU and 2 memory values, 2 rounds of the loop before the stop | `TypeOK`, `AvgWithinMax`, `AveragesDefined`, `JoinedReportExact`, `SkewBounded`, `StopReturns` |
| `ClusterMonitor.cfg` | head and 2 workers, 2 runs, 2 failures | `TypeOK`, `SummaryAllOrNothing`, `WindowCovered`, `KeptActorsToldToStop`, `EnterAndExitReturn`, `LeftoversReaped` |
| `Comparison.cfg` | 2 families, 2 clusters, 2 results, 2 wall times, 2 price tables, 2 failures | `TypeOK`, `ReportComplete`, `CpuNeverMixed`, `BaselineIsOne`, `LabelsAgree` |
| `IamSetup.cfg` | 2 buckets, 3 failures, any number of runs | `TypeOK`, `ReadyMeansAttached`, `Converges` |
| `BenchSweep.cfg` | 2 processes, 2 attempts each, 2 clusters, 2 failures | `TypeOK`, `FailuresExact`, `ExitZeroMeansRecorded`, `CsvLosesOnlyAtTears`, `S3CsvIsSnapshot`, `SparkStopped`, `LedgerKept`, `SweepGoesOn` |
| `GenTpch.cfg` | 2 tables with up to 3 parts, 2 nodes of one CPU, batches of 2, one retry, 2 runs, 1 failure | `TypeOK`, `DoneMeansUploaded`, `CountedOnce`, `RerunRepairs`, `DiskBounded`, `GeneratorEnds` |
| `NodeBootstrap.cfg` | 3 reboots, 3 failing commands, no overlap | `TypeOK`, `SentinelMeansComplete`, `NoHalfWrittenJar`, `RayNeedsSetup`, `RayComesBack`, `SetupResumes` |

Why the bounds are enough:

* In `NodeMonitor` what matters is whether a list is empty, has one element or
  grows between two reads; two rounds and one late append per list give every
  case. The proofs remove the bound.
* In `ClusterMonitor` two workers give "one dead, one alive" and symmetric
  roles; two runs are enough because a handle reaches one run back at most.
  The proofs remove the bound for the safety properties.
* In `BenchSweep` two failures reach every pair of them, such as Ctrl-C in a
  workload followed by a failing write, or a row torn by one process and fused to
  by another; two attempts and two processes give a
  file that exists and one that does not; two clusters an S3 that is not empty.
  The proofs remove the bounds.
* In `GenTpch` three tasks with batches of two give a full batch, a rest and a
  timeout; the failure comes at any moment of either run, also as the last of
  the attempts a task has, and leaves a file of any kind for the other run to find; two values of `--parts-scale` give more and fewer parts than before,
  one of them a product with `.5` in it or below one half.
* In `Comparison` every property relates at most two runs, so two results, of one
  or of two clusters, give every case: same line or not, same price or not, one
  on disk and one in S3, one of the baseline and one of another scale factor.
* In `IamSetup` a failure leaves one of finitely many accounts, all of which are
  initial states as well; the proofs remove the bound of the safety properties.
* In `NodeBootstrap` every reboot sends the node to one of finitely many states
  of its disk; three reboots reach all of them, and the proofs remove the bound.

`CHECK_DEADLOCK FALSE` is set where the program ends: a driver that is done, a
sweep that is over, a monitor that has returned. The bootstrap, the IAM setup and
the report can always be run again, and are checked for deadlock.

Fairness, and why the code justifies it:

* `NodeMonitor`: the actor thread goes on once `stop()` was called (the Python
  interpreter schedules it). Nothing of the daemon thread.
* `ClusterMonitor`: the driver's handlers and each call Ray has accepted go on.
  Nothing of workloads, failures or nodes that return.
* `BenchSweep`: a process outside of a workload goes on. Nothing of the workload.
* `GenTpch`: the driver goes on, because `ray.wait` has a timeout; and so do the
  tasks, which wait for nothing but a CPU.
* `NodeBootstrap`: a script that runs, and systemd on boot, go on. Nobody need
  call `ray up`.
* `IamSetup`: a script that runs goes on. Nobody need start it.

## 4. Where the documentation and the code disagree

Each of these runs checks one statement of a docstring, a comment or the README,
and TLC finds a behaviour of the code against it.

| run | statement | what happens |
|---|---|---|
| `BenchSweepHeader.cfg` | "append, stable header" | a failed first write leaves a file that never gets a header |
| `BenchSweepInterrupt.cfg` | "never suppress exceptions" | an exception of `__exit__` replaces Ctrl-C and is caught |
| `GenTpchExact.cfg` | "identical bytes"; "more = smaller files" | fewer parts than before leave the surplus ones in the table |
| `ComparisonMedian.cfg` | "best / median wall-clock across `--repeat` iterations" | on a head, `--from-s3` counts uploaded runs twice, others once |
| `NodeBootstrapOverlap.cfg` | "never a half-written .jar on the classpath" | two runs of the script share the `.part` file |

What the models contain besides, without a run of its own: a `stop()` that
raises keeps its handles, so that for a while a node has the actor of two runs;
one dead actor discards the answers of all (`SummaryAllOrNothing` says that at
least no partial summary is reported); only uploads are guarded in `persist`, a
failing local write or an unknown price makes the attempt count as failed
(`FailuresExact` includes it); the CSV of an architecture in S3 is replaced by
that of the next cluster of the architecture (`S3CsvIsSnapshot` is about the
cluster that uploaded it), while the JSON files survive (`LedgerKept`); the cost
of a line of the report multiplies the best time with the price of another run,
if prices were refreshed in between (`ReportComplete`); an upload that failed is
missing from every report made elsewhere (`ReportComplete` is about what was
there); a slow metadata service moves runs to the line of the other family of
the same CPU (`CpuNeverMixed` is about CPUs); a profile with a namesake of the
role counts as ready, and one with another role never does (`ReadyMeansAttached`,
`Converges`); `SF10` is a scale factor for the generator and an error for the
runners, and `sf010` another label (`Documented`); a setup that systemd resumed and that fails
is not tried again before the next boot (`SetupResumes` demands a complete node of
every other boot, the second and third after an interrupted one included); a row
behind a torn one is lost in the CSV, and the process that wrote it exits with 0
(`ExitZeroMeansRecorded` allows it for the first row of a process, `CsvLosesOnlyAtTears`
bounds the loss); and a part may be uploaded from a file that was left on a disk
(`DoneMeansUploaded` and `RerunRepairs` exempt it).

## 5. What is proved

All theorems hold for every value of the constants: any loads, nodes, numbers
of runs, failures, reboots. They rest on the named `ASSUME`s of the modules,
which say only of what kind the parameters are: bounds and loads are natural
numbers, the head is a node, a sweep is a sequence of the two engines, prices and
spellings are those a configuration can have; the tables (`--tables`, of which
`split` makes at least one), the values of `--parts-scale` and the nodes are
finitely many. TLC evaluates them in every run. Every safety invariant that a
passing run checks is stated by one of these theorems, and so is the action
property `LedgerKept`.

* **`NodeMonitorProofs`**: `TypeCorrect`, `AveragesSound` (`AvgWithinMax`),
  `AveragesCorrect` (`AveragesDefined`), `SkewCorrect`, `JoinedReportCorrect`. The invariant `IInv`
  says of each list that its sum is at most its length times its maximum
  (kept by appending, `PushFacts`, which needs a product: `TimesMonotone`), and
  relates every field already read to the list as it is now: sums, maxima and
  lengths only grow, so a sum read before a length and a maximum is bounded by
  their product, whatever was appended in between. `AvgWithinMax` alone is not
  inductive because it speaks only of the state after the last read. For
  `SkewBounded` the invariant counts how many appends the daemon thread can
  still make once the event is set. A daemon thread that died between its appends
  leaves the CPU list one longer, which `JoinedReportExact` allows and no other. `ContractCorrect` is the refinement of
  `MonitorActor`, under the mapping `Seen`.
* **`ClusterMonitorProofs`**: `TypeCorrect`, `SummaryCorrect`, `WindowCorrect`,
  `KeptActorsCorrect`. The invariant ties the phase of the driver to the sets of
  `start()` (`Progress`: targets are those done, the one waited for and those to
  come), to the state of the actors behind its handles (`Handles`) and to the
  summary (`Summaries`). One lemma per action. `ContractCorrect`, the refinement of
  `MonitorActor` by each actor, needs that a node `start()` has still to come to
  has no actor of this run (`Unused`).
* **`BenchSweepProofs`**: `TypeCorrect`, `FailuresCorrect`, `ExitCorrect`,
  `RowsCorrect`, `SnapshotCorrect`, `SparkCorrect`, and `LedgerCorrect`: `Spec`
  implements `ResultLedger`. The invariant says that run ids are counted up
  within what the sweeps can make (`Numbered`, with a product of the constants:
  `MadeBeforeFacts`), that numbers to come have no file and no object yet
  (`Fresh`, without which a result could be recorded twice), that the row is
  there before the JSON file, fused or not (`RowFirst`), and what the loops know of
  their attempts (`Accounted`): while no failure was counted the CSV ends with a line
  that is not torn (`Whole`) once the first attempt is over, so that no later row of
  the process is fused. That is why `ExitZeroMeansRecorded` needs its exception for
  the first row only. `RowsCorrect` counts: a complete result the CSV lacks has its
  row directly behind a torn line, and no two results share one
  (`LossesAreTears`). For the counter the invariant adds that it is the number of
  attempts lost also in the middle of the next one (`CountExact`), where
  `FailuresExact` says nothing. `CsvKept` and `CsvWhole` are the lemmas about closing
  the CSV, whole or cut short. `HeaderCorrect` says what is true of the stable header
  that `BenchSweepHeader.cfg` refutes: a header is never anywhere but first. Its
  invariant `HeaderInv` is about the gap between looking whether the file is there
  and closing it (`newFile` means that it is still empty).
* **`NodeBootstrapProofs`**: `TypeCorrect`, `SentinelCorrect`, `JarCorrect`, `RayCorrect`, under
  the assumption `Overlap = FALSE` that `ray up` is not repeated while the boot
  service runs the script. The invariant adds that one run is active at a time
  (`Alone`) and what a run has achieved when it comes to a stage (`Reached`):
  without the latter a jar renamed at `mv` could be anything. With overlap
  `NoHalfWrittenJar` is false, as `NodeBootstrapOverlap.cfg` shows.
* **`ComparisonProofs`**, two invariants. `CpuCorrect` and `LabelsCorrect` rest on
  `IInv`, which says of every
  row that its label is `NormalizeSf` of what was typed and that its tag, unless
  forced, is of the CPU of the machine (`RowSound`), and that a report loads
  recorded rows only. `DetectedCpu` is the fact about `_detect_arch`.
  `TypeCorrect`, `CompleteCorrect` (`ReportComplete`), `BaselineCorrect`,
  `MedianSound` and `MedianExact` rest on `LInv`. It says that the run ids are
  1 to the number of rows (`IdsInv`), so that a new row never takes the id of a
  file; and that, while a report downloads, every row it could have used when it
  was started is loaded or still in S3 (`LoadInv`), which is what survives
  uploads and teardowns in between: `ReportComplete` itself only speaks of a
  report that is done. What the lines of a report are then follows from the
  definitions of `Report`: `BestOfRuns` (the best is the time of one run and at most
  that of every other), `LinesOf` (a line for every group with a successful run, and for
  no other), `CountOnce` and `KthIsOfRun` (the k-th smallest of the times is the
  time of a run, whether or not runs count twice). `MedianSound`: a median lies between two runs' times
  and is not below the best, always. `MedianExact`: it is the median of the runs
  in every report that has no run from both places, which is what is true of the
  statement `ComparisonMedian.cfg` refutes.
* **`GenTpchProofs`**: `TypeCorrect`, `UploadedCorrect` (`DoneMeansUploaded`),
  `CountCorrect` (`CountedOnce`), `RepairCorrect` (`RerunRepairs`), `DiskCorrect`
  (`DiskBounded`) and `ExactWithOneScale`. The invariant has a part for each kind
  of state. `WorkInv` says what a task has come to when the driver holds it as
  ready, as collected or not at all; `DriverInv` that the driver's lists are
  disjoint, without which a part could be counted twice; `FreshInv` that a task
  that is not exposed has no file on any node before it writes one, and then one cut
  by this run's plan; `StoredInv` that what it uploaded is there, likewise; `PlanInv` that no
  object of S3 lies beyond the most parts any run has used. None of the properties
  is inductive without them. `DiskBounded` bounds all files, those of running tasks and
  those left over; the invariant `DiskInv` only counts the left-over ones and charges them
  to the failures: a failing attempt leaves one file, and a driver that ends over
  a failure leaves at most one per CPU, *when* it ends. Until then (`Doomed`) the
  amount is already charged, because a second failure may come before.
  The files of running tasks are at most one per CPU. `ExactWithOneScale`
  is what is true of the statement `GenTpchExact.cfg` refutes: if every run uses
  the same `--parts-scale`, the dataset is exact after every DONE of a run that
  found the disks clean and lost no worker.
* **`IamSetupProofs`**: `TypeCorrect`, `ReadyCorrect`. The invariant adds that the
  policy has been put when the script is past it (`PolicyPut`), and that the role
  in the profile is the one found there or was added to an empty one
  (`HolderKept`), without which a namesake could have come from nowhere.

Only model-checked: all liveness (`StopReturns`, `EnterAndExitReturn`,
`LeftoversReaped`, `SweepGoesOn`, `GeneratorEnds`, `RayComesBack`, `SetupResumes`,
`Converges`), which TLAPS 1.4.5 cannot treat under fairness. The inductive
invariants themselves were checked by TLC on the instances of the runs before they
were proved. That the modules fit together as section 2 says is proved where it
is a refinement (`LedgerCorrect`, `ContractCorrect`) and argued where a module leaves
another one out (`BenchSweep` the monitor).

## 6. What is not modelled

* The workloads and queries: stateless; their outcome (returns, raises, is
  interrupted) is all that the rest of the program sees.
* `resolve_ami.sh`, the substitution in `launch.sh`, the YAML files: text and data.
  `Launch` takes the family of the cluster to be the one asked for.
* The numbers in a result row (throughput, disk and network figures), the rounding
  and the layout of the report's files.
* Two clusters up at the same time, and two benchmark processes on one head:
  the scripts start one after the other. A generator that writes while benchmarks
  read: nothing in the scripts or documents does it.
* A wall time or cost of 0 in the report, which `build_report` guards against.
* Ray, Spark, S3, IAM, systemd, dnf, pip: external, modelled as the code relies on
  them; that a listing of S3 may take several pages is left out, as is the time a
  new instance profile takes to reach EC2.
* Which of the two `tpchgen-cli` does with a file it finds: both are modelled.

## 7. Plan

Built: the modules above. Left, in order:

1. What `BenchSweep` takes a monitor to be, as an abstract module that
   `ClusterMonitor` implements, and the two composed.
2. `GenTpch`: tasks that outlive their driver for a while.
3. `Comparison`: that the ratios of a line are those of its best times, as a theorem.

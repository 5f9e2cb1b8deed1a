----------------------------- MODULE Comparison -----------------------------
(***************************************************************************)
(* The whole experiment: clusters of several families come up one after    *)
(* the other, benchmark processes on their heads tag and price what they   *)
(* record (Config), results are kept in files and in S3 (ResultLedger,     *)
(* which BenchSweep implements), and scripts/report.py (Report) compares   *)
(* the families while all this goes on.                                    *)
(*                                                                         *)
(* The report may be made on the control machine, whose results directory  *)
(* has no results, or on the head of the cluster that is up.  A workload   *)
(* may fail, the metadata service be too slow, an upload or a download     *)
(* fail.  An incomplete JSON file is skipped by the report; it is not a    *)
(* recorded result of the ledger.                                          *)
(***************************************************************************)
EXTENDS Config, Report

CONSTANTS
  Machines,     \* families of the clusters
  Baseline,     \* --baseline
  Args,         \* spellings of the scale factor, for the runners
  Generated,    \* and those with which the data was beforehand
  Environs,     \* environments of a process: BENCH_ARCH ("unset" for none) and prices
  Walls,        \* wall times
  MaxResults, MaxClusters, MaxFaults   \* bounds of the model

ASSUME ConfigurationAssumption ==
  /\ Machines \subseteq Families /\ Baseline \in Families
  /\ \A env \in Environs :
       /\ env.arch \in Families \union {"unset"}
       /\ \A f \in Families : ClusterHourlyCost(f, env.prices) \in Nat
  /\ \A arg \in Args \union Generated : arg \in Texts({arg.n})
  /\ Walls \subseteq Nat \ {0}
ASSUME BoundsAssumption ==
  {MaxResults, MaxClusters, MaxFaults} \subseteq Nat

VARIABLES
  cluster,    \* the family of the cluster that is up, or "none"
  upload,     \* the run ids whose upload comes next: at most one
  rows,       \* every result row ever recorded
  local,      \* run ids the head has
  remote,     \* run ids S3 has
  pc,         \* where the report is
  host,       \* where it is made: "head" or "control"
  load,       \* the rows it has loaded
  out,        \* its lines
  before,     \* history: the run ids it could have used when it was started
  clusters, faults

world == <<cluster, upload, rows, local, remote>>
report == <<pc, host, load, out, before>>
bounds == <<clusters, faults>>
vars == <<world, report, bounds>>

Ids == 1..MaxResults
Ledger == INSTANCE ResultLedger WITH Results <- Ids

\* The rows of a set of run ids.
RowsOf(ids) == {r \in rows : r.id \in ids}

Fault == faults < MaxFaults /\ faults' = faults + 1 /\ UNCHANGED clusters

NoLoad == [here |-> {}, s3 |-> {}]

Init ==
  /\ cluster = "none" /\ upload = {}
  /\ rows = {} /\ Ledger!Init
  /\ pc = "idle" /\ host = "control" /\ load = NoLoad /\ out = <<>> /\ before = {}
  /\ clusters = 0 /\ faults = 0

-----------------------------------------------------------------------------
(* Clusters, the generator and the benchmark processes.                    *)

\* scripts/launch.sh: the AMI and the template are those of the family.
Launch(family) ==
  /\ cluster = "none" /\ clusters < MaxClusters
  /\ cluster' = family /\ clusters' = clusters + 1
  /\ UNCHANGED <<upload, rows, local, remote, report, faults>>

\* `ray down`.  A report made on the head ends with it.
TearDown ==
  /\ cluster # "none"
  /\ cluster' = "none" /\ upload' = {}
  /\ Ledger!TearDown
  /\ IF host = "head" /\ pc # "idle"
       THEN pc' = "idle" /\ host' = "control" /\ load' = NoLoad /\ out' = <<>> /\ before' = {}
       ELSE UNCHANGED report
  /\ UNCHANGED <<rows, bounds>>

\* What the generator has written (GenTpch).
Labels == {ResolveSf(arg) : arg \in Generated}

\* Runs are numbered by the files of the head.
NextId_OfCluster == Cardinality(local) + 1

\* A fresh run_id: uuid4.
NextId == Cardinality(rows) + 1

\* An attempt of a benchmark process and its row, as BenchmarkRun.__exit__
\* records it.  The metadata service named the family of the machine, or was too
\* slow.  Without data under its label the workload raises.  The attempts of a
\* process share its configuration; here each may have its own.
Attempt(arg, env, status, wall) ==
  /\ cluster # "none" /\ upload = {} /\ NextId \in Ids /\ ~Rejected(arg)
  /\ status = "ok" => NormalizeSf(arg) \in Labels
  /\ \E answer \in ImdsFamily(cluster) :
       LET arch == ArchTag(env.arch, answer, Cpu[cluster])
       IN  /\ rows' = rows \union
                {[id |-> NextId, sf |-> NormalizeSf(arg), arch |-> arch, status |-> status,
                  wall |-> wall, hourly |-> ClusterHourlyCost(arch, env.prices),
                  machine |-> cluster, arg |-> arg, forced |-> env.arch # "unset"]}
           /\ IF answer = "" \/ (status = "error" /\ NormalizeSf(arg) \in Labels)
                THEN Fault ELSE UNCHANGED bounds
  /\ Ledger!Record(NextId)
  /\ upload' = {NextId}
  /\ UNCHANGED <<cluster, report>>

\* The upload of the JSON file; what failed, or was not
\* reached because the process was killed, is not tried again.
Upload ==
  /\ upload # {}
  /\ upload' = {}
  /\ \/ (\E id \in upload : Ledger!Mirror(id)) /\ UNCHANGED bounds
     \/ Fault /\ UNCHANGED <<local, remote>>
  /\ UNCHANGED <<cluster, rows, report>>

-----------------------------------------------------------------------------
(* scripts/report.py: main().                                              *)

\* The rows of the directory are not loaded with --from-s3.
LoadLocal_UnlessS3(fromS3) == IF host' = "head" /\ ~fromS3 THEN RowsOf(local) ELSE {}

\* _load_local(args.results_dir): all complete JSON files.
LoadLocal(fromS3) == IF host' = "head" THEN RowsOf(local) ELSE {}

\* build_report, or SystemExit without a successful run: nothing but the load
\* is read.
Build ==
  IF Ok(Rows(load')) = {}
    THEN pc' = "failed" /\ out' = <<>>
    ELSE pc' = "done" /\ out' \in Reports(load', Baseline)

ReportStart(fromS3) ==
  /\ pc \in {"idle", "done", "failed"}
  /\ host' \in {"control"} \union IF cluster = "none" THEN {} ELSE {"head"}
  /\ load' = [here |-> LoadLocal(fromS3), s3 |-> {}]
  /\ before' = (IF host' = "head" THEN local ELSE {}) \union (IF fromS3 THEN remote ELSE {})
  /\ IF fromS3 THEN pc' = "download" /\ out' = <<>> ELSE Build
  /\ UNCHANGED <<world, bounds>>

\* _download_s3_raw and _load_local of what was downloaded: the objects of one
\* listing, whose content never changes.  An error is not caught.
Download ==
  /\ pc = "download"
  /\ \/ load' = [load EXCEPT !.s3 = RowsOf(remote)] /\ Build /\ UNCHANGED bounds
     \/ pc' = "failed" /\ Fault /\ UNCHANGED <<load, out>>
  /\ UNCHANGED <<world, host, before>>

-----------------------------------------------------------------------------

Next ==
  \/ \E family \in Machines : Launch(family)
  \/ TearDown
  \/ \E arg \in Args, env \in Environs, status \in {"ok", "error"}, wall \in Walls :
       Attempt(arg, env, status, wall)
  \/ Upload
  \/ \E fromS3 \in BOOLEAN : ReportStart(fromS3)
  \/ Download

Spec == Init /\ [][Next]_vars

-----------------------------------------------------------------------------

ResultRow(r) ==
  /\ r.id \in Ids /\ r.sf \in Texts({arg.n : arg \in Args}) /\ r.arch \in Families
  /\ r.arg \in Args /\ r.status \in {"ok", "error"} /\ r.wall \in Walls /\ r.hourly \in Nat
  /\ r.machine \in Machines /\ r.forced \in BOOLEAN

\* The values each variable ranges over; a run id has one row.
TypeOK ==
  /\ cluster \in Machines \union {"none"}
  /\ \A r \in rows : ResultRow(r) /\ \A q \in rows : r.id = q.id => r = q
  /\ upload \subseteq local /\ local \union remote \subseteq {r.id : r \in rows}
  /\ pc \in {"idle", "download", "done", "failed"}
  /\ host \in {"control", "head"} /\ (host = "head" /\ pc # "idle" => cluster # "none")
  /\ load.here \subseteq rows /\ load.s3 \subseteq rows /\ before \subseteq Ids
  /\ clusters \in 0..MaxClusters /\ faults \in 0..MaxFaults

\* Whatever is recorded, uploaded or torn down while the report is made: a
\* successful run it could use when it was started has its line and is not
\* faster than the best there; the best of a line is the time of a successful
\* run of this line, never of a failed one, and its cost is at the price of such
\* a run, though not always of the same one (report.py:59-75, 143-149).
ReportComplete ==
  pc = "done" =>
    /\ \A r \in Ok(RowsOf(before)) : Key(r) \in DOMAIN out /\ out[Key(r)].best <= r.wall
    /\ \A key \in DOMAIN out : \E r, q \in {p \in rows : p.status = "ok" /\ Key(p) = key} :
         out[key].best = r.wall /\ out[key].cost = q.hourly * r.wall

\* However slow the metadata service is, and unless BENCH_ARCH is set: no line
\* holds runs on x86_64 and runs on arm64 (config.py:83-93, 138).
CpuNeverMixed ==
  pc = "done" => \A r, q \in {p \in Rows(load) : ~p.forced} :
    Key(r) = Key(q) => Cpu[r.machine] = Cpu[q.machine]

\* "The baseline's own rows have speedup=1.0 and priceperf=1.0" (report.py:12), and
\* a line has ratios if its own group has a run of the baseline, from whatever
\* clusters the runs come (report.py:85-101).
BaselineIsOne ==
  pc = "done" => \A key \in DOMAIN out :
    /\ out[key].speedup # {} <=> <<key[1], Baseline>> \in DOMAIN out
    /\ key[2] = Baseline =>
         \A ratio \in out[key].speedup \union out[key].priceperf : ratio[1] = ratio[2]

\* The spellings of the help texts, "sf10 | sf100 | sf600 | <integer>".
Documented(arg) == arg.prefix # "SF" /\ ~arg.zeros

\* A runner finds the data of the generator, however each of them was given the
\* scale factor (gen_tpch.py:89-95, ray_only/run.py:31-36).
LabelsAgree ==
  \A r \in rows, arg \in Generated :
    Documented(arg) /\ Documented(r.arg) /\ arg.n = r.arg.n => r.sf \in Labels

-----------------------------------------------------------------------------
(* What the documentation says of the program and the code does not do.    *)

\* "best / median wall-clock across `--repeat` iterations" (README.md:229): the
\* median of a line is that of its runs, each counted once.
MedianOfRuns ==
  pc = "done" => \A key \in DOMAIN out :
    LET S == Group(Rows(load), key)
    IN  out[key].median = Median(S, [here |-> S, s3 |-> {}])

=============================================================================

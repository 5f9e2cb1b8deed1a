----------------------------- MODULE BenchSweep -----------------------------
(***************************************************************************)
(* A benchmark sweep: scripts/run_all.sh starts the processes of           *)
(* benchmarks/ray_only/run.py and benchmarks/ray_spark/run.py one after    *)
(* the other; each makes its attempts (workloads times --repeat), and      *)
(* BenchmarkRun.__exit__ of common/runner.py records every attempt through *)
(* persist() of common/metrics.py in a CSV and a JSON file, then uploads   *)
(* both to S3.                                                             *)
(*                                                                         *)
(* What fails: a workload, the start of Ray or Spark, a write (disk full), *)
(* an upload, the price table; what interrupts: Ctrl-C, the death of the   *)
(* process, `ray down`.  A file is written when it is closed: an open file *)
(* is empty (CSV: unchanged) until then.  Of a write that fails any prefix *)
(* of its bytes may have reached the disk: some lines and then, perhaps, a *)
(* torn one without its end, which the next row is appended to.  The       *)
(* monitor is module ClusterMonitor: it neither fails a run nor changes    *)
(* what is recorded.                                                       *)
(***************************************************************************)
EXTENDS Integers, Sequences, FiniteSets, SequencesExt

CONSTANTS
  Engines,    \* the processes of the sweep, e.g. <<"ray", "rayspark">>
  Attempts,   \* attempts of one process: workloads times --repeat
  MaxLives,   \* bound of the model: clusters launched one after the other
  MaxFaults   \* bound of the model: failures and interruptions

ASSUME EnginesAssumption == Engines \in Seq({"ray", "rayspark"})
ASSUME BoundsAssumption ==
  Attempts \in Nat /\ MaxLives \in Nat \ {0} /\ MaxFaults \in Nat

VARIABLES
  proc,        \* the process run_all.sh runs, or comes to next
  pc,          \* where it is
  made,        \* its attempts so far
  failures,    \* its counter of failures
  lastId,      \* run_id of the attempt last made
  exc,         \* how the workload of this attempt ended
  newFile,     \* new_file in _append_csv
  spark,       \* RayDP: "down", "up", or "stuck" when stop_spark() failed
  code,        \* how the process that ended last, or is at "exit", ended
  begun,       \* lastId when this process was started
  interrupted, \* whether a workload of this sweep was interrupted
  csv,         \* results/results.csv: does it exist, and its lines, torn ones too
  raw,         \* results/raw/<run_id>.json: "none", "partial" or its status
  s3raw,       \* raw/<run_id>.json in S3
  s3csv,       \* results-<arch>.csv in S3
  mirrored,    \* whether this cluster has uploaded its CSV
  lives, faults, priced

process == <<proc, made, failures, spark, code, begun>>
attempt == <<lastId, exc, newFile, interrupted>>
files == <<csv, raw>>
s3 == <<s3raw, s3csv, mirrored>>
env == <<lives, faults, priced>>
vars == <<pc, process, attempt, files, s3, env>>

-----------------------------------------------------------------------------

RunIds == 1..(Len(Engines) * Attempts * MaxLives)
Header == [id |-> 0, status |-> "header"]
Row(id, status) == [id |-> id, status |-> status]
Lines == [id : 0..(Len(Engines) * Attempts * MaxLives),
          status : {"header", "ok", "error", "torn"}]

InSpark == proc <= Len(Engines) /\ Engines[proc] = "rayspark"

\* Where a process is inside BenchmarkRun.__exit__.
Exiting == {"cost", "csvOpen", "csvClose", "jsonOpen", "jsonClose", "s3raw", "s3csv",
            "returned", "raised"}
Running == {"init", "spark", "views", "loop", "body", "finish", "unwind", "exit"}
             \union Exiting
Labels == {"launch", "over"} \union Running

Fault == faults < MaxFaults /\ faults' = faults + 1 /\ UNCHANGED <<lives, priced>>
Goto(label) == pc' = label

Init ==
  /\ proc = 1 /\ pc = "launch" /\ made = 0 /\ failures = 0 /\ lastId = 0
  /\ exc = "none" /\ newFile = FALSE /\ spark = "down" /\ code = "none" /\ begun = 0
  /\ interrupted = FALSE
  /\ csv = [exists |-> FALSE, lines |-> <<>>]
  /\ raw = [id \in RunIds |-> "none"]
  /\ s3raw = {} /\ s3csv = <<>> /\ mirrored = FALSE
  /\ lives = 1 /\ faults = 0
  /\ priced \in BOOLEAN

-----------------------------------------------------------------------------
(* run_all.sh and the main() of the two run.py.                            *)

\* The next process of the sweep, if there is one.
Launch ==
  /\ pc = "launch"
  /\ IF proc <= Len(Engines)
       THEN Goto("init") /\ made' = 0 /\ failures' = 0 /\ begun' = lastId
       ELSE Goto("over") /\ UNCHANGED <<made, failures, begun>>
  /\ UNCHANGED <<proc, spark, code, attempt, files, s3, env>>

\* Without `|| echo` a process that fails ends the sweep: set -e.
EndProcess_SetE(c) ==
  /\ code' = c
  /\ proc' = proc + 1
  /\ Goto(IF c = "zero" THEN "launch" ELSE "over")

\* The process ends with an exit code and the sweep goes on: `|| echo`.
EndProcess(c) ==
  /\ code' = c
  /\ proc' = proc + 1
  /\ Goto("launch")

RayInit ==
  /\ pc = "init"
  /\ \/ Goto(IF InSpark THEN "spark" ELSE "loop") /\ UNCHANGED <<process, env>>
     \/ Fault /\ EndProcess("failed") /\ UNCHANGED <<made, failures, spark, begun>>
  /\ UNCHANGED <<attempt, files, s3>>

\* init_spark() is in front of the try whose finally stops Spark.
InitSpark ==
  /\ pc = "spark"
  /\ \/ /\ spark' = "up" /\ Goto("views")
        /\ UNCHANGED <<proc, made, failures, code, begun, env>>
     \/ Fault /\ EndProcess("failed") /\ UNCHANGED <<made, failures, spark, begun>>
  /\ UNCHANGED <<attempt, files, s3>>

RegisterViews ==
  /\ pc = "views"
  /\ \/ Goto("loop") /\ UNCHANGED <<exc, env>>
     \/ Goto("unwind") /\ exc' = "Exception" /\ Fault
  /\ UNCHANGED <<lastId, newFile, interrupted, process, files, s3>>

\* The loops run once too often.
Another_OneMore == made <= Attempts

\* The two nested loops have an attempt left.
Another == made < Attempts

\* The head of the loops, and __enter__.
NextAttempt ==
  /\ pc = "loop"
  /\ IF Another
       THEN Goto("body") /\ made' = made + 1 /\ lastId' = lastId + 1
       ELSE Goto("finish") /\ UNCHANGED <<made, lastId>>
  /\ UNCHANGED <<proc, failures, spark, code, begun, exc, newFile, interrupted, files, s3, env>>

\* The workload returns, raises an Exception or is interrupted by Ctrl-C.
Workload ==
  /\ pc = "body"
  /\ \/ exc' = "none" /\ UNCHANGED <<interrupted, env>>
     \/ exc' = "Exception" /\ Fault /\ UNCHANGED interrupted
     \/ exc' = "KeyboardInterrupt" /\ Fault /\ interrupted' = TRUE
  /\ Goto("cost")
  /\ UNCHANGED <<lastId, newFile, process, files, s3>>

\* The ways out of __exit__: it returns False, or raises.
Left == {"returned", "raised"}

\* The exception that leaves the with statement: that of the workload, unless
\* one of __exit__ itself takes its place.
Propagating == IF pc = "raised" THEN "Exception" ELSE exc

\* An error of the workload is printed and not counted.
Caught_OnlyOfExit == pc = "raised"

\* `except Exception` catches all but KeyboardInterrupt.
Caught == Propagating = "Exception"

AfterExit ==
  /\ pc \in Left
  /\ Goto(IF Propagating = "KeyboardInterrupt" THEN "unwind" ELSE "loop")
  /\ failures' = IF Caught THEN failures + 1 ELSE failures
  /\ UNCHANGED <<proc, made, spark, code, begun, attempt, files, s3, env>>

\* No finally clause around the loops.
Finally_Missing == UNCHANGED <<spark, env>>

\* stop_spark() in the finally clause swallows its own errors.
Finally ==
  \/ spark' = (IF spark = "up" THEN "down" ELSE spark) /\ UNCHANGED env
  \/ spark = "up" /\ spark' = "stuck" /\ Fault

\* The end of main().
Finish ==
  /\ pc = "finish"
  /\ Finally
  /\ code' = IF failures > 0 THEN "failed" ELSE "zero"
  /\ Goto("exit")
  /\ UNCHANGED <<proc, made, failures, begun, attempt, files, s3>>

\* An exception main() does not catch passes the finally clause.
Unwind ==
  /\ pc = "unwind"
  /\ Finally
  /\ code' = IF exc = "KeyboardInterrupt" THEN "interrupted" ELSE "failed"
  /\ Goto("exit")
  /\ UNCHANGED <<proc, made, failures, begun, attempt, files, s3>>

\* The process is gone, and with its Ray job all of its actors, the Spark
\* executors among them.  After Ctrl-C run_all.sh ends with it.
Exit ==
  /\ pc = "exit"
  /\ spark' = "down"
  /\ IF code = "interrupted" THEN Goto("over") /\ UNCHANGED <<proc, code>>
                             ELSE EndProcess(code)
  /\ UNCHANGED <<made, failures, begun, attempt, files, s3, env>>

-----------------------------------------------------------------------------
(* BenchmarkRun.__exit__ and persist().                                    *)

Status == IF exc = "none" THEN "ok" ELSE "error"

\* The price of the cluster: BENCH_ARCH or BENCH_PRICE_* no one can look up
\* or parse raises here, before anything is recorded.
Cost ==
  /\ pc = "cost"
  /\ Goto(IF priced THEN "csvOpen" ELSE "raised")
  /\ UNCHANGED <<process, attempt, files, s3, env>>

\* The file is opened with mode "w".
Opened_Truncated == [exists |-> TRUE, lines |-> <<>>]

\* open(path, "a") creates the file.
Opened == [csv EXCEPT !.exists = TRUE]

\* os.path.exists, then open().
CsvOpen ==
  /\ pc = "csvOpen"
  /\ newFile' = ~csv.exists
  /\ csv' = Opened
  /\ Goto("csvClose")
  /\ UNCHANGED <<process, lastId, exc, interrupted, raw, s3, env>>

CsvLines == (IF newFile THEN <<Header>> ELSE <<>>) \o <<Row(lastId, Status)>>

\* The error of a write is printed and recording goes on.
WriteFails_Swallowed == Goto(IF pc = "csvClose" THEN "jsonOpen" ELSE "s3raw") /\ Fault

\* The disk is full: OSError leaves __exit__.
WriteFails == Goto("raised") /\ Fault

\* What a write of lines may leave when it fails: some of them, and then perhaps
\* a piece of the next.
ShortWrites(lines) ==
  {SubSeq(lines, 1, k) : k \in 0..(Len(lines) - 1)}
    \union {Append(SubSeq(lines, 1, k), [lines[k + 1] EXCEPT !.status = "torn"]) :
              k \in 0..(Len(lines) - 1)}

\* The with statement closes the file: the lines are written, or part of them.
CsvClose ==
  /\ pc = "csvClose"
  /\ \/ /\ csv' = [csv EXCEPT !.lines = @ \o CsvLines]
        /\ Goto("jsonOpen") /\ UNCHANGED env
     \/ /\ \E e \in ShortWrites(CsvLines) : csv' = [csv EXCEPT !.lines = @ \o e]
        /\ WriteFails
  /\ UNCHANGED <<process, attempt, raw, s3>>

JsonOpen ==
  /\ pc = "jsonOpen"
  /\ raw' = [raw EXCEPT ![lastId] = "partial"]
  /\ Goto("jsonClose")
  /\ UNCHANGED <<process, attempt, csv, s3, env>>

JsonClose ==
  /\ pc = "jsonClose"
  /\ \/ raw' = [raw EXCEPT ![lastId] = Status] /\ Goto("s3raw") /\ UNCHANGED env
     \/ WriteFails /\ UNCHANGED raw
  /\ UNCHANGED <<process, attempt, csv, s3>>

\* _upload_s3 of the JSON file; a failure, or no bucket, is only printed.
UploadRaw ==
  /\ pc = "s3raw"
  /\ \/ s3raw' = s3raw \union {lastId} /\ UNCHANGED env
     \/ Fault /\ UNCHANGED s3raw
  /\ Goto("s3csv")
  /\ UNCHANGED <<process, attempt, files, s3csv, mirrored>>

\* _upload_s3 of the CSV file: the whole file takes the place of the object.
UploadCsv ==
  /\ pc = "s3csv"
  /\ \/ s3csv' = csv.lines /\ mirrored' = TRUE /\ UNCHANGED env
     \/ Fault /\ UNCHANGED <<s3csv, mirrored>>
  /\ Goto("returned")
  /\ UNCHANGED <<process, attempt, files, s3raw>>

-----------------------------------------------------------------------------
(* What happens to a process.                                              *)

\* Ctrl-C outside of a workload: no handler catches KeyboardInterrupt, but the
\* finally clause runs, and an open CSV file is closed with what it was given.
Interrupt ==
  /\ pc \in Running \ {"body", "unwind"}
  /\ Fault
  /\ exc' = "KeyboardInterrupt"
  /\ Goto("unwind")
  /\ IF pc = "csvClose"
       THEN \E e \in ShortWrites(CsvLines) \union {CsvLines} :
              csv' = [csv EXCEPT !.lines = @ \o e]
       ELSE UNCHANGED csv
  /\ UNCHANGED <<lastId, newFile, interrupted, process, raw, s3>>

\* The process is killed.  What was not written is lost, Ray ends the actors
\* and the Spark executors of the process, run_all.sh goes on.
Crash ==
  /\ pc \in Running
  /\ Fault
  /\ spark' = "down"
  /\ EndProcess("killed")
  /\ UNCHANGED <<made, failures, begun, attempt, files, s3>>

\* `ray down`, and a new cluster of the same architecture with its own sweep.
RayDown ==
  /\ lives < MaxLives
  /\ lives' = lives + 1
  /\ proc' = 1 /\ Goto("launch") /\ spark' = "down" /\ code' = "none"
  /\ exc' = "none" /\ interrupted' = FALSE /\ mirrored' = FALSE
  /\ csv' = [exists |-> FALSE, lines |-> <<>>]
  /\ raw' = [id \in RunIds |-> "none"]
  /\ UNCHANGED <<made, failures, begun, lastId, newFile, s3raw, s3csv, faults, priced>>

-----------------------------------------------------------------------------

Steps ==
  \/ Launch \/ RayInit \/ InitSpark \/ RegisterViews \/ NextAttempt \/ AfterExit \/ Finish
  \/ Unwind \/ Exit \/ Cost \/ CsvOpen \/ CsvClose \/ JsonOpen \/ JsonClose \/ UploadRaw \/ UploadCsv

Next == Steps \/ Workload \/ Interrupt \/ Crash \/ RayDown

\* A process that is not waiting for its workload goes on.
Spec == Init /\ [][Next]_vars /\ WF_vars(Steps)

-----------------------------------------------------------------------------

\* The values each variable ranges over.
TypeOK ==
  /\ proc \in 1..(Len(Engines) + 1) /\ pc \in Labels
  /\ made \in 0..Attempts /\ failures \in 0..Attempts
  /\ lastId \in Nat /\ begun \in Nat
  /\ exc \in {"none", "Exception", "KeyboardInterrupt"}
  /\ newFile \in BOOLEAN /\ interrupted \in BOOLEAN
  /\ spark \in {"down", "up", "stuck"}
  /\ code \in {"none", "zero", "failed", "killed", "interrupted"}
  /\ csv \in [exists : BOOLEAN, lines : Seq(Lines)]
  /\ raw \in [RunIds -> {"none", "partial", "ok", "error"}]
  /\ s3raw \subseteq RunIds /\ s3csv \in Seq(Lines) /\ mirrored \in BOOLEAN
  /\ lives \in 1..MaxLives /\ faults \in 0..MaxFaults /\ priced \in BOOLEAN

\* The attempts of the process that runs, or ended last.
MyIds == (begun + 1)..lastId

\* The JSON file of the attempt is complete.
Complete(id) == raw[id] \in {"ok", "error"}

Torn(line) == line.status = "torn"

\* What a reader of the CSV finds of an attempt: its row, on a line of its own or
\* at the end of one that was torn.
InCsv(id, status) ==
  \E i \in 1..Len(csv.lines) :
    csv.lines[i] = Row(id, status) /\ (i > 1 => ~Torn(csv.lines[i - 1]))
Fused(id, status) ==
  \E i \in 2..Len(csv.lines) : csv.lines[i] = Row(id, status) /\ Torn(csv.lines[i - 1])

\* Between two attempts the counter of failures is the number of attempts that
\* did not leave a complete JSON file, the source of truth, that says "ok":
\* whatever failed, in the workload or in recording it, is counted once
\* (run.py:72-81, runner.py:63-102, metrics.py:106-112).
FailuresExact ==
  pc \in {"loop", "finish"} =>
    failures = Cardinality({id \in MyIds : raw[id] # "ok"})

\* A process that exits with 0 made every attempt and recorded each as "ok" in its
\* JSON file and in the CSV, where only the row of its first attempt may be lost
\* at the end of a line that an earlier process left torn (run.py:69-84,
\* metrics.py:68-81).
ExitZeroMeansRecorded ==
  (pc \in {"exit", "launch"} /\ code = "zero") =>
    /\ lastId = begun + Attempts
    /\ \A id \in MyIds :
         /\ raw[id] = "ok"
         /\ InCsv(id, "ok") \/ (id = begun + 1 /\ Fused(id, "ok"))

\* However often writing fails or is interrupted, the CSV lacks at most one of the
\* complete results for every line torn: the row is written before the JSON file,
\* and an attempt whose row is torn leaves no JSON file (metrics.py:68-75, 106-107).
CsvLosesOnlyAtTears ==
  Cardinality({id \in RunIds : Complete(id) /\ ~InCsv(id, raw[id])})
    <= Cardinality({i \in 1..Len(csv.lines) : Torn(csv.lines[i])})

\* The CSV in S3 is an earlier state of the CSV of the cluster that uploaded
\* it, also when later uploads fail (metrics.py:114-118).
S3CsvIsSnapshot == mirrored => IsPrefix(s3csv, csv.lines)

\* Whichever way main() is left, stop_spark() has been called for a Spark that was
\* started: it is down, or the call failed and the end of the process takes it
\* down (ray_spark/run.py:67-91, spark_session.py:86-90).
SparkStopped ==
  /\ pc = "exit" => spark # "up"
  /\ pc \in {"launch", "over"} => spark = "down"

\* Whatever fails, the sweep goes on to the next attempt, the next process, the end
\* of the last: nothing but Ctrl-C ends it early, and it is stuck nowhere but in a
\* workload (run.py:79, run_all.sh:47, 52).
SweepGoesOn ==
  []<>(\/ pc = "body"
       \/ pc = "over" /\ (proc > Len(Engines) \/ code = "interrupted"))

\* The files of the head node and the objects of S3 are a ledger of results.
Ledger == INSTANCE ResultLedger WITH
  Results <- RunIds,
  local <- {id \in RunIds : Complete(id)},
  remote <- s3raw

\* Every failure and teardown included, only complete results are mirrored, none
\* is recorded twice, and what was mirrored survives (metrics.py:1-6, 112).
LedgerKept == Ledger!Spec

-----------------------------------------------------------------------------
(* What comments and docstrings say of the program and the code does not do. *)

\* "append, stable header" (metrics.py:4): the CSV begins with its header.
HeaderFirst == csv.lines # <<>> => csv.lines[1] = Header

\* "never suppress exceptions" (runner.py:102): after Ctrl-C in a workload no
\* other workload of the sweep is started.
InterruptEndsSweep == interrupted => pc # "body"

=============================================================================

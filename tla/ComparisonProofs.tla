-------------------------- MODULE ComparisonProofs --------------------------
(***************************************************************************)
(* The invariants of Comparison, for any families, scale factors, prices   *)
(* and wall times, and any number of clusters, results and failures.       *)
(***************************************************************************)
EXTENDS Comparison, SetLemmas

\* A row is labelled and tagged by Config: its tag, unless forced, is of the CPU of
\* the machine it was made on.
RowSound(r) ==
  /\ r.arg \in Args /\ r.sf = NormalizeSf(r.arg)
  /\ r.arch = r.machine \/ r.forced \/ Cpu[r.arch] = Cpu[r.machine]

IInv ==
  /\ cluster \in Machines \union {"none"}
  /\ \A r \in rows : RowSound(r)
  /\ load \in [here : SUBSET rows, s3 : SUBSET rows]

\* The names of the families, and what CPUs they have.
LEMMA FamiliesFacts ==
  /\ Families = {"m7i", "m8i", "m8g", "m9g"}
  /\ Cpu["m7i"] = "x86_64" /\ Cpu["m8i"] = "x86_64"
  /\ Cpu["m8g"] = "arm64" /\ Cpu["m9g"] = "arm64"
BY DEF Families, DefaultPrice, Cpu

\* Whatever the metadata service answers in time, the detected family has the CPU
\* of the machine.
LEMMA DetectedCpu ==
  ASSUME NEW family \in Families, NEW answer \in ImdsFamily(family)
  PROVE  Cpu[DetectArch(answer, Cpu[family])] = Cpu[family]
BY FamiliesFacts DEF DetectArch, ImdsFamily

\* A new row is sound, and the others are those there were.
LEMMA AttemptInv ==
  ASSUME IInv, NEW arg \in Args, NEW env \in Environs, NEW status \in {"ok", "error"},
         NEW wall \in Walls, Attempt(arg, env, status, wall)
  PROVE  IInv'
<1>1. PICK answer \in ImdsFamily(cluster) :
        LET arch == ArchTag(env.arch, answer, Cpu[cluster])
        IN  rows' = rows \union
              {[id |-> NextId, sf |-> NormalizeSf(arg), arch |-> arch, status |-> status,
                wall |-> wall, hourly |-> ClusterHourlyCost(arch, env.prices),
                machine |-> cluster, arg |-> arg, forced |-> env.arch # "unset"]}
  BY DEF Attempt
<1> DEFINE arch == ArchTag(env.arch, answer, Cpu[cluster])
           row == [id |-> NextId, sf |-> NormalizeSf(arg), arch |-> arch, status |-> status,
                   wall |-> wall, hourly |-> ClusterHourlyCost(arch, env.prices),
                   machine |-> cluster, arg |-> arg, forced |-> env.arch # "unset"]
<1>2. /\ cluster \in Families
      /\ UNCHANGED <<cluster, load>>
  BY ConfigurationAssumption DEF Attempt, IInv, report
<1>3. env.arch # "unset" \/ Cpu[arch] = Cpu[cluster]
  BY <1>2, DetectedCpu DEF ArchTag
<1>4. /\ row.sf = NormalizeSf(arg) /\ row.arg = arg /\ row.arch = arch
      /\ row.machine = cluster /\ row.forced = (env.arch # "unset")
  OBVIOUS
<1>5. RowSound(row)
  BY <1>2, <1>3, <1>4 DEF RowSound
<1>6. rows' = rows \union {row}
  BY <1>1
<1> QED
  BY <1>2, <1>5, <1>6 DEF IInv

\* A report loads rows that were recorded, and records none.
LEMMA ReportInv ==
  ASSUME IInv, Download \/ \E fromS3 \in BOOLEAN : ReportStart(fromS3)
  PROVE  IInv'
<1>1. UNCHANGED <<cluster, rows>>
  BY DEF Download, ReportStart, world
<1>2. load' \in [here : SUBSET rows, s3 : SUBSET rows]
  <2>1. CASE Download
    BY <2>1 DEF Download, RowsOf, IInv
  <2>2. CASE \E fromS3 \in BOOLEAN : ReportStart(fromS3)
    BY <2>2 DEF ReportStart, LoadLocal, RowsOf
  <2> QED
    BY <2>1, <2>2
<1> QED
  BY <1>1, <1>2 DEF IInv

\* Clusters and uploads add no row, and the end of a report leaves it empty.
LEMMA OthersInv ==
  ASSUME IInv, TearDown \/ Upload \/ \E family \in Machines : Launch(family)
  PROVE  IInv'
<1>1. CASE TearDown
  BY <1>1 DEF TearDown, IInv, NoLoad, report
<1>2. CASE Upload
  BY <1>2 DEF Upload, IInv, report
<1>3. CASE \E family \in Machines : Launch(family)
  BY <1>3 DEF Launch, IInv, report
<1> QED
  BY <1>1, <1>2, <1>3

\* What is recorded and loaded is sound in every reachable state
\* (config.py:83-138, report.py:30-56).
THEOREM Invariance == Spec => []IInv
<1>1. Init => IInv
  BY DEF Init, IInv, NoLoad
<1>2. IInv /\ [Next]_vars => IInv'
  <2> SUFFICES ASSUME IInv, [Next]_vars
               PROVE  IInv'
    OBVIOUS
  <2>1. CASE \E arg \in Args, env \in Environs, status \in {"ok", "error"}, wall \in Walls :
               Attempt(arg, env, status, wall)
    BY <2>1, AttemptInv
  <2>2. CASE Download \/ \E fromS3 \in BOOLEAN : ReportStart(fromS3)
    BY <2>2, ReportInv
  <2>3. CASE TearDown \/ Upload \/ \E family \in Machines : Launch(family)
    BY <2>3, OthersInv
  <2>4. CASE UNCHANGED vars
    BY <2>4 DEF vars, world, report, IInv
  <2> QED
    BY <2>1, <2>2, <2>3, <2>4 DEF Next
<1> QED
  BY <1>1, <1>2, PTL DEF Spec

\* No line of a report holds runs on both kinds of CPU, unless BENCH_ARCH was set,
\* however slow the metadata service was in any of the runs.
THEOREM CpuCorrect == Spec => []CpuNeverMixed
<1>1. IInv => CpuNeverMixed
  BY DEF IInv, RowSound, CpuNeverMixed, Rows, Key
<1> QED
  BY <1>1, Invariance, PTL

\* Every documented spelling of a scale factor names the same data for the runners
\* as for the generator.
THEOREM LabelsCorrect == Spec => []LabelsAgree
<1>1. IInv => LabelsAgree
  <2> SUFFICES ASSUME IInv, NEW r \in rows, NEW arg \in Generated,
                      Documented(arg), Documented(r.arg), arg.n = r.arg.n
               PROVE  r.sf \in Labels
    BY DEF LabelsAgree
  <2>1. r.sf = NormalizeSf(r.arg)
    BY DEF IInv, RowSound
  <2>2. /\ r.arg.prefix \in {"", "sf"} /\ r.arg.zeros = FALSE
        /\ r.arg = [prefix |-> r.arg.prefix, zeros |-> FALSE, n |-> r.arg.n]
    BY ConfigurationAssumption DEF IInv, RowSound, Texts, Documented
  <2>3. r.sf = Text("sf", FALSE, arg.n)
    BY <2>1, <2>2 DEF NormalizeSf, Text
  <2> QED
    BY <2>3 DEF ResolveSf, Labels
<1> QED
  BY <1>1, Invariance, PTL

-----------------------------------------------------------------------------
(* Run ids, and what a report has loaded of what there was when it began.  *)

RowIds == {r.id : r \in rows}

\* Rows are numbered, and no number is used twice.
IdsInv == IsFiniteSet(rows) /\ RowIds = 1..Cardinality(rows)

\* While a report downloads, a row it could have used when it began is loaded or
\* still in S3; when it is done all these are loaded, and its lines are theirs.
LoadInv ==
  /\ load \in [here : SUBSET rows, s3 : SUBSET rows]
  /\ before \subseteq RowIds
  /\ pc = "download" => \A r \in RowsOf(before) : r \in load.here \/ r.id \in remote
  /\ pc = "done" => RowsOf(before) \subseteq Rows(load) /\ out \in Reports(load, Baseline)

LInv == TypeOK /\ IdsInv /\ LoadInv

\* The number of rows is a natural number, and the next run id is a new one.
LEMMA NextIdFresh ==
  ASSUME IdsInv
  PROVE  /\ NextId \in Nat \ {0} /\ NextId \notin RowIds
         /\ 1..NextId = RowIds \union {NextId}
<1>1. Cardinality(rows) \in Nat
  BY FS_CardinalityType DEF IdsInv
<1> QED
  BY <1>1 DEF IdsInv, NextId

\* A scale factor is still one when a runner has normalised it.
LEMMA NormalizedType ==
  ASSUME NEW arg \in Args
  PROVE  NormalizeSf(arg) \in Texts({a.n : a \in Args})
<1>1. arg \in Texts({arg.n})
  BY ConfigurationAssumption
<1>2. arg.n \in {a.n : a \in Args}
  OBVIOUS
<1> QED
  BY <1>1, <1>2 DEF NormalizeSf, Texts, Text

\* No row, no report.
LEMMA InitLInv == Init => LInv
<1> SUFFICES ASSUME Init
             PROVE  LInv
  OBVIOUS
<1>1. /\ cluster = "none" /\ upload = {} /\ rows = {} /\ local = {} /\ remote = {}
      /\ pc = "idle" /\ host = "control" /\ load = NoLoad /\ before = {}
      /\ clusters = 0 /\ faults = 0
  BY DEF Init, Ledger!Init
<1>2. MaxClusters \in Nat /\ MaxFaults \in Nat
  BY BoundsAssumption
<1>3. TypeOK
  BY <1>1, <1>2 DEF TypeOK, NoLoad
<1>4. IdsInv
  <2>1. Cardinality(rows) = 0 /\ IsFiniteSet(rows) /\ RowIds = {}
    BY <1>1, FS_EmptySet DEF RowIds
  <2> QED
    BY <2>1 DEF IdsInv
<1>5. LoadInv
  BY <1>1 DEF LoadInv, NoLoad
<1> QED
  BY <1>3, <1>4, <1>5 DEF LInv

\* An attempt records one row, under an id no row has.
LEMMA AttemptLInv ==
  ASSUME LInv, NEW arg \in Args, NEW env \in Environs, NEW status \in {"ok", "error"},
         NEW wall \in Walls, Attempt(arg, env, status, wall)
  PROVE  LInv'
<1> USE DEF LInv
<1>1. PICK answer \in ImdsFamily(cluster) :
        LET arch == ArchTag(env.arch, answer, Cpu[cluster])
        IN  rows' = rows \union
              {[id |-> NextId, sf |-> NormalizeSf(arg), arch |-> arch, status |-> status,
                wall |-> wall, hourly |-> ClusterHourlyCost(arch, env.prices),
                machine |-> cluster, arg |-> arg, forced |-> env.arch # "unset"]}
  BY DEF Attempt
<1> DEFINE arch == ArchTag(env.arch, answer, Cpu[cluster])
           row == [id |-> NextId, sf |-> NormalizeSf(arg), arch |-> arch, status |-> status,
                   wall |-> wall, hourly |-> ClusterHourlyCost(arch, env.prices),
                   machine |-> cluster, arg |-> arg, forced |-> env.arch # "unset"]
<1>2. rows' = rows \union {row}
  BY <1>1
<1>3. /\ cluster \in Machines /\ NextId \in Ids
      /\ upload' = {NextId} /\ local' = local \union {NextId} /\ remote' = remote
      /\ UNCHANGED <<cluster, pc, host, load, out, before>>
  BY DEF Attempt, Ledger!Record, report, TypeOK
<1>4. arch \in Families
  <2>1. env.arch \in Families \union {"unset"}
    BY ConfigurationAssumption
  <2> QED
    BY <2>1, FamiliesFacts DEF ArchTag, DetectArch
<1>5. ClusterHourlyCost(arch, env.prices) \in Nat
  BY <1>4, ConfigurationAssumption
<1>6. ResultRow(row) /\ row.id = NextId
  <2> HIDE DEF arch
  <2> QED
    BY <1>3, <1>4, <1>5, NormalizedType DEF ResultRow
<1> HIDE DEF row
<1>7. /\ NextId \in Nat \ {0} /\ NextId \notin RowIds
      /\ 1..NextId = RowIds \union {NextId}
  BY NextIdFresh
<1>8. RowIds' = RowIds \union {NextId} /\ row \notin rows
  BY <1>2, <1>6, <1>7 DEF RowIds
<1>9. IdsInv'
  <2>1. IsFiniteSet(rows') /\ Cardinality(rows') = Cardinality(rows) + 1
    BY <1>2, <1>8, FS_AddElement DEF IdsInv
  <2>2. Cardinality(rows') = NextId
    BY <2>1 DEF NextId
  <2> QED
    BY <1>7, <1>8, <2>1, <2>2 DEF IdsInv
<1>10. TypeOK'
  <2>1. \A r \in rows' : ResultRow(r) /\ \A q \in rows' : r.id = q.id => r = q
    BY <1>2, <1>6, <1>7 DEF TypeOK, RowIds
  <2>2. upload' \subseteq local' /\ local' \union remote' \subseteq RowIds'
    BY <1>3, <1>8 DEF TypeOK, RowIds
  <2>3. clusters' \in 0..MaxClusters /\ faults' \in 0..MaxFaults
    <3>1. Fault \/ UNCHANGED bounds
      BY DEF Attempt
    <3> QED
      BY <3>1, BoundsAssumption DEF Fault, bounds, TypeOK
  <2>4. load.here \subseteq rows' /\ load.s3 \subseteq rows'
    BY <1>2 DEF TypeOK
  <2> QED
    BY <1>3, <2>1, <2>2, <2>3, <2>4 DEF TypeOK, RowIds
<1>11. RowsOf(before)' = RowsOf(before)
  BY <1>2, <1>3, <1>6, <1>7 DEF RowsOf, LoadInv
<1>12. LoadInv'
  <2>1. load' \in [here : SUBSET rows', s3 : SUBSET rows']
    BY <1>2, <1>3 DEF LoadInv
  <2> QED
    BY <1>3, <1>8, <1>11, <2>1 DEF LoadInv
<1> QED
  BY <1>9, <1>10, <1>12

\* Clusters come and go, results reach S3: no row is lost or added, and what S3
\* has it keeps.
LEMMA OthersLInv ==
  ASSUME LInv, TearDown \/ Upload \/ \E family \in Machines : Launch(family)
  PROVE  LInv'
<1> USE DEF LInv
<1>1. rows' = rows /\ RowIds' = RowIds /\ IdsInv'
  BY DEF TearDown, Upload, Launch, RowIds, IdsInv
<1>2. /\ remote \subseteq remote' /\ local' \union remote' \subseteq RowIds
      /\ upload' \subseteq local'
  <2>1. CASE TearDown
    BY <2>1 DEF TearDown, Ledger!TearDown, TypeOK, RowIds
  <2>2. CASE Upload
    BY <2>2 DEF Upload, Ledger!Mirror, TypeOK, RowIds
  <2>3. CASE \E family \in Machines : Launch(family)
    BY <2>3 DEF Launch, TypeOK, RowIds
  <2> QED
    BY <2>1, <2>2, <2>3
<1>3. \/ UNCHANGED <<pc, host, load, out, before>>
      \/ pc' = "idle" /\ host' = "control" /\ load' = NoLoad /\ before' = {}
  BY DEF TearDown, Upload, Launch, report
<1>4. LoadInv'
  BY <1>1, <1>2, <1>3 DEF LoadInv, NoLoad, RowsOf
<1>5. clusters' \in 0..MaxClusters /\ faults' \in 0..MaxFaults
  BY BoundsAssumption DEF TearDown, Upload, Launch, Fault, bounds, TypeOK
<1>6. cluster' \in Machines \union {"none"}
  BY DEF TearDown, Upload, Launch, TypeOK
<1>7. host' = "head" /\ pc' # "idle" => cluster' # "none"
  BY DEF TearDown, Upload, Launch, report, TypeOK
<1>8. TypeOK'
  BY <1>1, <1>2, <1>3, <1>5, <1>6, <1>7 DEF TypeOK, NoLoad, RowIds
<1> QED
  BY <1>1, <1>4, <1>8

\* A report without a download has loaded what it could use, and one with a
\* download what is not in S3.
LEMMA StartLInv ==
  ASSUME LInv, NEW fromS3 \in BOOLEAN, ReportStart(fromS3)
  PROVE  LInv'
<1> USE DEF LInv
<1>1. /\ UNCHANGED <<cluster, upload, rows, local, remote, clusters, faults>>
      /\ host' \in {"control", "head"} /\ (host' = "head" => cluster # "none")
      /\ load' = [here |-> LoadLocal(fromS3), s3 |-> {}]
      /\ before' = (IF host' = "head" THEN local ELSE {}) \union (IF fromS3 THEN remote ELSE {})
  BY DEF ReportStart, world, bounds
<1>2. RowIds' = RowIds /\ IdsInv'
  BY <1>1 DEF RowIds, IdsInv
<1>3. LoadLocal(fromS3) = (IF host' = "head" THEN RowsOf(local) ELSE {})
  BY DEF LoadLocal
<1>4. /\ load' \in [here : SUBSET rows, s3 : SUBSET rows] /\ before' \subseteq RowIds
      /\ load'.here = LoadLocal(fromS3) /\ load'.s3 = {}
  BY <1>1, <1>3 DEF RowsOf, TypeOK, RowIds
<1>5. pc' \in {"download", "failed", "done"}
  BY DEF ReportStart, Build
<1>6. TypeOK'
  <2>1. RowIds \subseteq Ids
    BY DEF TypeOK, RowIds, ResultRow
  <2>2. load'.here \subseteq rows' /\ load'.s3 \subseteq rows' /\ before' \subseteq Ids
    BY <1>1, <1>4, <2>1
  <2> QED
    BY <1>1, <1>5, <2>2 DEF TypeOK
<1>7. CASE fromS3
  <2>1. pc' = "download"
    BY <1>7 DEF ReportStart
  <2>2. \A r \in RowsOf(before)' : r \in load'.here \/ r.id \in remote
    BY <1>1, <1>3, <1>4 DEF RowsOf
  <2>3. LoadInv'
    BY <1>1, <1>2, <1>4, <2>1, <2>2 DEF LoadInv
  <2> QED
    BY <1>2, <1>6, <2>3
<1>8. CASE ~fromS3
  <2>1. Build /\ pc' # "download"
    BY <1>8 DEF ReportStart, Build
  <2>2. RowsOf(before)' \subseteq Rows(load')
    BY <1>1, <1>3, <1>4, <1>8 DEF RowsOf, Rows
  <2>3. pc' = "done" => out' \in Reports(load', Baseline)
    BY <2>1 DEF Build
  <2>4. LoadInv'
    BY <1>1, <1>2, <1>4, <2>1, <2>2, <2>3 DEF LoadInv
  <2> QED
    BY <1>2, <1>6, <2>4
<1> QED
  BY <1>7, <1>8

\* A download adds what S3 has by then.
LEMMA DownloadLInv ==
  ASSUME LInv, Download
  PROVE  LInv'
<1> USE DEF LInv
<1>1. /\ pc = "download"
      /\ UNCHANGED <<cluster, upload, rows, local, remote, host, before, clusters>>
  BY DEF Download, world, Fault, bounds
<1>2. RowIds' = RowIds /\ IdsInv' /\ RowsOf(before)' = RowsOf(before)
  BY <1>1 DEF RowIds, IdsInv, RowsOf
<1>3. faults' \in 0..MaxFaults
  BY BoundsAssumption DEF Download, Fault, bounds, TypeOK
<1>4. CASE load' = [load EXCEPT !.s3 = RowsOf(remote)] /\ Build
  <2>1. /\ load' \in [here : SUBSET rows, s3 : SUBSET rows]
        /\ load'.here = load.here /\ load'.s3 = RowsOf(remote)
    BY <1>4 DEF LoadInv, RowsOf
  <2>2. pc' \in {"failed", "done"}
    BY <1>4 DEF Build
  <2>3. TypeOK'
    BY <1>1, <1>3, <2>1, <2>2 DEF TypeOK
  <2>4. RowsOf(before) \subseteq Rows(load')
    BY <1>1, <2>1 DEF LoadInv, Rows, RowsOf
  <2>5. pc' = "done" => out' \in Reports(load', Baseline)
    BY <1>4 DEF Build
  <2>6. LoadInv'
    BY <1>1, <1>2, <2>1, <2>2, <2>4, <2>5 DEF LoadInv
  <2> QED
    BY <1>2, <2>3, <2>6
<1>5. CASE pc' = "failed" /\ load' = load
  BY <1>1, <1>2, <1>3, <1>5 DEF TypeOK, LoadInv
<1> QED
  BY <1>4, <1>5 DEF Download

\* Every step keeps the run ids unique and the reports complete (metrics.py:59,
\* report.py:131-149).
THEOREM LoadInvariance == Spec => []LInv
<1>1. LInv /\ [Next]_vars => LInv'
  <2> SUFFICES ASSUME LInv, [Next]_vars
               PROVE  LInv'
    OBVIOUS
  <2>1. CASE \E arg \in Args, env \in Environs, status \in {"ok", "error"}, wall \in Walls :
               Attempt(arg, env, status, wall)
    BY <2>1, AttemptLInv
  <2>2. CASE TearDown \/ Upload \/ \E family \in Machines : Launch(family)
    BY <2>2, OthersLInv
  <2>3. CASE \E fromS3 \in BOOLEAN : ReportStart(fromS3)
    BY <2>3, StartLInv
  <2>4. CASE Download
    BY <2>4, DownloadLInv
  <2>5. CASE UNCHANGED vars
    <3>1. UNCHANGED <<cluster, upload, rows, local, remote, pc, host, load, out, before,
                      clusters, faults>>
      BY <2>5 DEF vars, world, report, bounds
    <3> QED
      BY <3>1 DEF LInv, TypeOK, IdsInv, LoadInv, RowIds, RowsOf
  <2> QED
    BY <2>1, <2>2, <2>3, <2>4, <2>5 DEF Next
<1> QED
  BY <1>1, InitLInv, PTL DEF Spec

\* TypeOK: the values of the variables, one row for a run id, and no result in
\* a file or in S3 without a row.
THEOREM TypeCorrect == Spec => []TypeOK
<1>1. LInv => TypeOK
  BY DEF LInv
<1> QED
  BY <1>1, LoadInvariance, PTL

-----------------------------------------------------------------------------
(* The lines of a report.                                                  *)

\* The best time of a set of runs is that of one of them, and none is faster.
LEMMA BestOfRuns ==
  ASSUME NEW S, S # {}, \A r \in S : r.wall \in Nat
  PROVE  /\ \E r \in S : Best(S) = r.wall
         /\ \A r \in S : Best(S) <= r.wall
<1> DEFINE W == {r.wall : r \in S}
<1>1. W \in SUBSET Nat /\ W # {}
  OBVIOUS
<1>2. Min(W) \in W /\ \A x \in W : Min(W) <= x
  <2> HIDE DEF W
  <2> QED
    BY <1>1, MinOfNats
<1>3. Best(S) = Min(W)
  BY DEF Best
<1> QED
  BY <1>2, <1>3

\* A report has a line for every group of successful runs, with their best time and
\* the price of one of them; its ratios are to the line of the baseline of the
\* same group, where there is one.
LEMMA LinesOf ==
  ASSUME NEW L, NEW baseline, NEW o \in Reports(L, baseline),
         \A r \in Rows(L) : r.wall \in Nat \ {0}
  PROVE  /\ DOMAIN o = Keys(Rows(L))
         /\ \A key \in DOMAIN o :
              LET S == Group(Rows(L), key)
                  same == <<key[1], baseline>>
              IN  /\ o[key].best \in Nat \ {0}
                  /\ \A r \in S : o[key].best <= r.wall
                  /\ \E r, q \in S : o[key].best = r.wall
                                  /\ o[key].cost = q.hourly * r.wall
                  /\ o[key].speedup = {<<o[k].best, o[key].best>> : k \in DOMAIN o \intersect {same}}
                  /\ o[key].priceperf \subseteq
                       {<<o[k].cost, o[key].cost>> : k \in DOMAIN o \intersect {same}}
<1> DEFINE keys == Keys(Rows(L))
<1>1. PICK first \in [keys -> Rows(L)] :
        /\ \A key \in keys : first[key] \in Firsts(Group(Rows(L), key), L)
        /\ o = [key \in keys |-> Line(L, key, baseline, first)]
  BY DEF Reports
<1>2. DOMAIN o = keys
  BY <1>1
<1>3. ASSUME NEW key \in keys
      PROVE  /\ Best(Group(Rows(L), key)) \in Nat \ {0}
             /\ \A r \in Group(Rows(L), key) : Best(Group(Rows(L), key)) <= r.wall
             /\ \E r \in Group(Rows(L), key) : Best(Group(Rows(L), key)) = r.wall
             /\ first[key] \in Group(Rows(L), key)
  <2> DEFINE S == Group(Rows(L), key)
  <2>1. S # {} /\ \A r \in S : r.wall \in Nat \ {0}
    BY DEF Keys, Group, Ok
  <2>2. (\E r \in S : Best(S) = r.wall) /\ \A r \in S : Best(S) <= r.wall
    <3> HIDE DEF S
    <3> QED
      BY <2>1, BestOfRuns
  <2>3. first[key] \in S
    BY <1>1 DEF Firsts
  <2> QED
    BY <2>1, <2>2, <2>3
<1>4. ASSUME NEW key \in keys
      PROVE  /\ o[key].best = Best(Group(Rows(L), key))
             /\ o[key].cost = first[key].hourly * Best(Group(Rows(L), key))
             /\ Figures(L, key, first) = [best |-> o[key].best, cost |-> o[key].cost]
  BY <1>1 DEF Line, Figures
<1>5. ASSUME NEW key \in keys
      PROVE  LET base == {Figures(L, k, first) : k \in keys \intersect {<<key[1], baseline>>}}
             IN  /\ o[key].speedup = {<<b.best, o[key].best>> : b \in base}
                 /\ o[key].priceperf = {} \/
                    o[key].priceperf = {<<b.cost, o[key].cost>> : b \in base}
  <2>1. Figures(L, key, first).best # 0
    BY <1>3, <1>4
  <2> QED
    BY <1>1, <1>4, <2>1 DEF Line, BaseKeys
<1>6. ASSUME NEW key \in keys
      PROVE  LET same == <<key[1], baseline>>
             IN  /\ o[key].speedup = {<<o[k].best, o[key].best>> : k \in keys \intersect {same}}
                 /\ o[key].priceperf \subseteq
                      {<<o[k].cost, o[key].cost>> : k \in keys \intersect {same}}
  BY <1>4, <1>5
<1> HIDE DEF keys
<1>7. ASSUME NEW key \in keys
      PROVE  LET S == Group(Rows(L), key)
             IN  /\ o[key].best \in Nat \ {0}
                 /\ \A r \in S : o[key].best <= r.wall
                 /\ \E r, q \in S : o[key].best = r.wall /\ o[key].cost = q.hourly * r.wall
  BY <1>3, <1>4
<1> QED
  BY <1>2, <1>6, <1>7 DEF keys

\* The times of loaded rows are positive.
LEMMA LoadedWalls ==
  ASSUME LInv
  PROVE  Rows(load) \subseteq rows /\ \A r \in Rows(load) : r.wall \in Nat \ {0}
<1>1. Rows(load) \subseteq rows
  BY DEF LInv, TypeOK, Rows
<1> QED
  BY <1>1, ConfigurationAssumption DEF LInv, TypeOK, ResultRow

\* ReportComplete: no successful run a report could use when it was started is
\* missing from it, whatever was recorded, uploaded or torn down meanwhile.
THEOREM CompleteCorrect == Spec => []ReportComplete
<1>1. LInv => ReportComplete
  <2> SUFFICES ASSUME LInv, pc = "done"
               PROVE  /\ \A r \in Ok(RowsOf(before)) :
                           Key(r) \in DOMAIN out /\ out[Key(r)].best <= r.wall
                      /\ \A key \in DOMAIN out :
                           \E r, q \in {p \in rows : p.status = "ok" /\ Key(p) = key} :
                             out[key].best = r.wall /\ out[key].cost = q.hourly * r.wall
    BY DEF ReportComplete
  <2>1. RowsOf(before) \subseteq Rows(load) /\ out \in Reports(load, Baseline)
    BY DEF LInv, LoadInv
  <2>2. Rows(load) \subseteq rows /\ \A r \in Rows(load) : r.wall \in Nat \ {0}
    BY LoadedWalls
  <2>3. /\ DOMAIN out = Keys(Rows(load))
        /\ \A key \in DOMAIN out :
             LET S == Group(Rows(load), key)
             IN  /\ \A r \in S : out[key].best <= r.wall
                 /\ \E r, q \in S : out[key].best = r.wall /\ out[key].cost = q.hourly * r.wall
    BY <2>1, <2>2, LinesOf
  <2>4. \A r \in Ok(RowsOf(before)) : Key(r) \in Keys(Rows(load)) /\ r \in Group(Rows(load), Key(r))
    BY <2>1 DEF Ok, Keys, Group
  <2>5. \A key : Group(Rows(load), key) \subseteq {p \in rows : p.status = "ok" /\ Key(p) = key}
    BY <2>2 DEF Group, Ok
  <2> QED
    BY <2>3, <2>4, <2>5
<1> QED
  BY <1>1, LoadInvariance, PTL

\* BaselineIsOne: a line has ratios exactly if its group has a run of the baseline,
\* and the baseline's own are 1.
THEOREM BaselineCorrect == Spec => []BaselineIsOne
<1>1. LInv => BaselineIsOne
  <2> SUFFICES ASSUME LInv, pc = "done", NEW key \in DOMAIN out
               PROVE  /\ out[key].speedup # {} <=> <<key[1], Baseline>> \in DOMAIN out
                      /\ key[2] = Baseline =>
                           \A ratio \in out[key].speedup \union out[key].priceperf :
                             ratio[1] = ratio[2]
    BY DEF BaselineIsOne
  <2> DEFINE same == <<key[1], Baseline>>
  <2>1. out \in Reports(load, Baseline)
    BY DEF LInv, LoadInv
  <2>2. /\ DOMAIN out = Keys(Rows(load))
        /\ out[key].speedup = {<<out[k].best, out[key].best>> : k \in DOMAIN out \intersect {same}}
        /\ out[key].priceperf \subseteq
             {<<out[k].cost, out[key].cost>> : k \in DOMAIN out \intersect {same}}
    BY <2>1, LoadedWalls, LinesOf
  <2>3. out[key].speedup # {} <=> same \in DOMAIN out
    <3> HIDE DEF same
    <3> QED
      BY <2>2
  <2>4. ASSUME key[2] = Baseline,
               NEW ratio \in out[key].speedup \union out[key].priceperf
        PROVE  ratio[1] = ratio[2]
    <3>1. key = same
      BY <2>2, <2>4 DEF Keys, Key
    <3> HIDE DEF same
    <3> QED
      BY <2>2, <3>1
  <2> QED
    BY <2>3, <2>4
<1> QED
  BY <1>1, LoadInvariance, PTL

-----------------------------------------------------------------------------
(* The median of a line.                                                   *)

\* Where no row is in both parts of a load, rows are counted once.
LEMMA CountOnce ==
  ASSUME NEW L, IsFiniteSet(Rows(L)), NEW T \in SUBSET Rows(L)
  PROVE  /\ Count(T, L) \in Nat
         /\ T # {} => Count(T, L) >= 1
         /\ L.here \intersect L.s3 = {} => Count(T, L) = Cardinality(T)
<1> DEFINE A == T \intersect L.here
           B == T \intersect L.s3
<1>1. IsFiniteSet(T) /\ Cardinality(T) \in Nat
  BY FS_Subset, FS_CardinalityType
<1>2. T = A \union B
  BY DEF Rows
<1>3. /\ IsFiniteSet(A) /\ Cardinality(A) \in Nat
      /\ IsFiniteSet(B) /\ Cardinality(B) \in Nat
  BY <1>1, FS_Intersection, FS_CardinalityType
<1>4. Count(T, L) = Cardinality(A) + Cardinality(B)
  BY DEF Count
<1>5. /\ Cardinality(A \intersect B) \in Nat
      /\ Cardinality(A \union B) = Cardinality(A) + Cardinality(B) - Cardinality(A \intersect B)
  <2> HIDE DEF A, B
  <2>1. IsFiniteSet(A \intersect B) /\ Cardinality(A \intersect B) \in Nat
    BY <1>3, FS_Intersection, FS_CardinalityType
  <2>2. Cardinality(A \union B) = Cardinality(A) + Cardinality(B) - Cardinality(A \intersect B)
    BY <1>3, FS_Union
  <2> QED
    BY <2>1, <2>2
<1>6. Cardinality(T) = Cardinality(A) + Cardinality(B) - Cardinality(A \intersect B)
  BY <1>2, <1>5
<1>7. L.here \intersect L.s3 = {} => Cardinality(A \intersect B) = 0
  <2> SUFFICES ASSUME L.here \intersect L.s3 = {}
               PROVE  Cardinality(A \intersect B) = 0
    OBVIOUS
  <2>1. A \intersect B = {}
    OBVIOUS
  <2> QED
    BY <2>1, FS_EmptySet
<1>8. T # {} => Cardinality(T) # 0
  BY <1>1, FS_EmptySet
<1> HIDE DEF A, B
<1> QED
  BY <1>1, <1>3, <1>4, <1>5, <1>6, <1>7, <1>8

\* The k-th of a set of runs, for a k that is not beyond their number, is the time
\* of one of them: the slowest has all the others before it.
LEMMA KthIsOfRun ==
  ASSUME NEW L, IsFiniteSet(Rows(L)), NEW S \in SUBSET Rows(L), S # {},
         \A r \in S : r.wall \in Nat, NEW k \in Nat, k <= Count(S, L)
  PROVE  \E r \in S : Kth(S, L, k) = r.wall
<1> DEFINE W == {r.wall : r \in S}
           Ranked == {q \in S : Count({p \in S : p.wall <= q.wall}, L) >= k}
           R == {r.wall : r \in Ranked}
<1>1. PICK q \in S : \A p \in S : p.wall <= q.wall
  <2>1. W \in SUBSET Nat /\ W # {}
    OBVIOUS
  <2>2. IsFiniteSet(W)
    <3> DEFINE f == [r \in S |-> r.wall]
    <3>1. f \in Surjection(S, W)
      BY DEF Surjection
    <3>2. IsFiniteSet(S)
      BY FS_Subset
    <3> HIDE DEF f, W
    <3> QED
      BY <3>1, <3>2, FS_Surjection
  <2>3. PICK w \in W : \A x \in W : x <= w
    <3> HIDE DEF W
    <3> QED
      BY <2>1, <2>2, MaxOfNats
  <2> QED
    BY <2>3
<1>2. q \in Ranked
  <2>1. {p \in S : p.wall <= q.wall} = S
    BY <1>1
  <2>2. Count(S, L) >= k
    BY CountOnce
  <2> QED
    BY <2>1, <2>2
<1>3. R \in SUBSET Nat /\ R # {}
  <2>1. Ranked \subseteq S
    OBVIOUS
  <2> HIDE DEF Ranked
  <2> QED
    BY <1>2, <2>1
<1>4. Min(R) \in R
  <2> HIDE DEF R
  <2> QED
    BY <1>3, MinOfNats
<1>5. Kth(S, L, k) = Min(R)
  BY DEF Kth
<1> QED
  BY <1>4, <1>5

\* Twice the median of a line is the sum of the times of two of its runs, neither
\* faster than the best.
MedianOfTwo ==
  pc = "done" => \A key \in DOMAIN out :
    \E r, q \in Group(Rows(load), key) :
      /\ out[key].median = r.wall + q.wall
      /\ out[key].best <= r.wall /\ out[key].best <= q.wall

\* MedianOfTwo: no median is undefined or below the best time, also where runs are
\* counted twice (report.py:69-70).
THEOREM MedianSound == Spec => []MedianOfTwo
<1>1. LInv => MedianOfTwo
  <2> SUFFICES ASSUME LInv, pc = "done", NEW key \in DOMAIN out
               PROVE  \E r, q \in Group(Rows(load), key) :
                        /\ out[key].median = r.wall + q.wall
                        /\ out[key].best <= r.wall /\ out[key].best <= q.wall
    BY DEF MedianOfTwo
  <2> DEFINE S == Group(Rows(load), key)
             n == Count(S, load)
  <2>1. out \in Reports(load, Baseline)
    BY DEF LInv, LoadInv
  <2>2. Rows(load) \subseteq rows /\ \A r \in Rows(load) : r.wall \in Nat \ {0}
    BY LoadedWalls
  <2>3. key \in Keys(Rows(load)) /\ \A r \in S : out[key].best <= r.wall
    BY <2>1, <2>2, LinesOf
  <2>4. out[key].median = Median(S, load)
    BY <2>1, <2>3 DEF Reports, Line
  <2>5. S \in SUBSET Rows(load) /\ S # {} /\ \A r \in S : r.wall \in Nat
    BY <2>2, <2>3 DEF Group, Ok, Keys
  <2>6. IsFiniteSet(Rows(load))
    BY <2>2, FS_Subset DEF LInv, IdsInv
  <2>7. n \in Nat /\ n >= 1
    <3> HIDE DEF S
    <3> QED
      BY <2>5, <2>6, CountOnce
  <2>8. /\ (n + 1) \div 2 \in Nat /\ (n + 1) \div 2 <= n
        /\ (n + 2) \div 2 \in Nat /\ (n + 2) \div 2 <= n
    <3> HIDE DEF n
    <3> QED
      BY <2>7
  <2>9. Median(S, load) = Kth(S, load, (n + 1) \div 2) + Kth(S, load, (n + 2) \div 2)
    BY DEF Median
  <2>10. PICK r \in S : Kth(S, load, (n + 1) \div 2) = r.wall
    <3> HIDE DEF S
    <3> QED
      BY <2>5, <2>6, <2>8, KthIsOfRun DEF n
  <2>11. PICK q \in S : Kth(S, load, (n + 2) \div 2) = q.wall
    <3> HIDE DEF S
    <3> QED
      BY <2>5, <2>6, <2>8, KthIsOfRun DEF n
  <2>12. out[key].median = r.wall + q.wall
    BY <2>4, <2>9, <2>10, <2>11
  <2> QED
    BY <2>3, <2>10, <2>11, <2>12
<1> QED
  BY <1>1, LoadInvariance, PTL

\* The median of a set of runs does not depend on where they were loaded from, if
\* none was loaded twice.
LEMMA MedianOnce ==
  ASSUME NEW L, IsFiniteSet(Rows(L)), L.here \intersect L.s3 = {}, NEW S \in SUBSET Rows(L)
  PROVE  Median(S, L) = Median(S, [here |-> S, s3 |-> {}])
<1> DEFINE M == [here |-> S, s3 |-> {}]
<1>1. Rows(M) = S /\ M.here \intersect M.s3 = {}
  BY DEF Rows
<1>2. \A T \in SUBSET S : Count(T, L) = Cardinality(T)
  BY CountOnce
<1>3. \A T \in SUBSET S : Count(T, M) = Cardinality(T)
  <2>1. IsFiniteSet(Rows(M))
    BY <1>1, FS_Subset
  <2> HIDE DEF M
  <2> QED
    BY <1>1, <2>1, CountOnce
<1>4. \A T \in SUBSET S : Count(T, L) = Count(T, M)
  BY <1>2, <1>3
<1> HIDE DEF M
<1>5. ASSUME NEW k
      PROVE  Kth(S, L, k) = Kth(S, M, k)
  <2>1. \A q \in S : Count({p \in S : p.wall <= q.wall}, L) = Count({p \in S : p.wall <= q.wall}, M)
    BY <1>4
  <2>2. {q \in S : Count({p \in S : p.wall <= q.wall}, L) >= k}
          = {q \in S : Count({p \in S : p.wall <= q.wall}, M) >= k}
    BY <2>1
  <2> QED
    BY <2>2 DEF Kth
<1>6. Count(S, L) = Count(S, M)
  BY <1>4
<1> QED
  BY <1>5, <1>6 DEF Median, M

\* MedianOfRuns, which fails when --from-s3 loads a run twice, holds of every report
\* that has no run from both places (report.py:143-147).
THEOREM MedianExact == Spec => [](load.here \intersect load.s3 = {} => MedianOfRuns)
<1>1. LInv => (load.here \intersect load.s3 = {} => MedianOfRuns)
  <2> SUFFICES ASSUME LInv, load.here \intersect load.s3 = {}, pc = "done",
                      NEW key \in DOMAIN out
               PROVE  LET S == Group(Rows(load), key)
                      IN  out[key].median = Median(S, [here |-> S, s3 |-> {}])
    BY DEF MedianOfRuns
  <2> DEFINE S == Group(Rows(load), key)
  <2>1. out \in Reports(load, Baseline)
    BY DEF LInv, LoadInv
  <2>2. out[key].median = Median(S, load)
    BY <2>1 DEF Reports, Line
  <2>3. S \in SUBSET Rows(load)
    BY DEF Group, Ok
  <2>4. IsFiniteSet(Rows(load))
    BY LoadedWalls, FS_Subset DEF LInv, IdsInv
  <2> HIDE DEF S
  <2>5. Median(S, load) = Median(S, [here |-> S, s3 |-> {}])
    BY <2>3, <2>4, MedianOnce
  <2> QED
    BY <2>2, <2>5 DEF S
<1> QED
  BY <1>1, LoadInvariance, PTL

=============================================================================

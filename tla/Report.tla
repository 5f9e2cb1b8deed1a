------------------------------- MODULE Report -------------------------------
(***************************************************************************)
(* scripts/report.py: from the result rows it has loaded to the lines of   *)
(* the comparison.  Pure definitions, no state.                            *)
(*                                                                         *)
(* A load has two parts, the rows of the results directory (here) and      *)
(* those downloaded from S3 (s3); a run may be in both.  A row has the     *)
(* fields id, sf, arch, status, wall and hourly; sf stands for engine,     *)
(* workload and scale factor, the three columns that are only compared.    *)
(***************************************************************************)
EXTENDS Integers, FiniteSets, FiniteSetsExt

Rows(load) == load.here \union load.s3

\* df[df["status"] == "ok"]
Ok(rows) == {r \in rows : r.status = "ok"}

Key(r) == <<r.sf, r.arch>>
Keys(rows) == {Key(r) : r \in Ok(rows)}

\* The rows of one line.
Group(rows, key) == {r \in Ok(rows) : Key(r) = key}

\* How often rows of S are in the load: those in both parts count twice.
Count(S, load) == Cardinality(S \intersect load.here) + Cardinality(S \intersect load.s3)

Best(S) == Min({r.wall : r \in S})

\* The k-th smallest wall time of the rows S of a load.
Kth(S, load, k) ==
  Min({r.wall : r \in {q \in S : Count({p \in S : p.wall <= q.wall}, load) >= k}})

\* Twice the median, to stay with integers.
Median(S, load) ==
  LET n == Count(S, load)
  IN  Kth(S, load, (n + 1) \div 2) + Kth(S, load, (n + 2) \div 2)

\* The rows glob may list first: the results directory comes before S3.
Firsts(S, load) == IF S \intersect load.here # {} THEN S \intersect load.here ELSE S

-----------------------------------------------------------------------------

\* What the ratios of a line are made of, first[key] being the row listed first.
Figures(load, key, first) ==
  LET best == Best(Group(Rows(load), key))
  IN  [best |-> best, cost |-> first[key].hourly * best]

\* The baseline is looked up without regard to sf.
BaseKeys_AnySf(load, key, baseline) == {k \in Keys(Rows(load)) : k[2] = baseline}

\* by_arch.get(baseline): the line of the same sf and the baseline, if there is one.
BaseKeys(load, key, baseline) == Keys(Rows(load)) \intersect {<<key[1], baseline>>}

\* A line.  A ratio is a set with the pair of its two sides, or empty: without
\* a baseline, or if it would divide by 0.
Line(load, key, baseline, first) ==
  LET S == Group(Rows(load), key)
      own == Figures(load, key, first)
      base == IF own.best = 0 THEN {}
              ELSE {Figures(load, k, first) : k \in BaseKeys(load, key, baseline)}
  IN  [best |-> own.best, median |-> Median(S, load), cost |-> own.cost,
       runs |-> Count(S, load),
       speedup |-> {<<b.best, own.best>> : b \in base},
       priceperf |-> {<<b.cost, own.cost>> : b \in IF own.cost = 0 THEN {} ELSE base}]

\* build_report: all lines.  An empty load, or one without a successful run,
\* ends in SystemExit.
Reports(load, baseline) ==
  LET keys == Keys(Rows(load))
  IN  {[key \in keys |-> Line(load, key, baseline, first)] :
         first \in {f \in [keys -> Rows(load)] :
                      \A key \in keys : f[key] \in Firsts(Group(Rows(load), key), load)}}

=============================================================================

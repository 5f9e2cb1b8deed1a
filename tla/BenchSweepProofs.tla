-------------------------- MODULE BenchSweepProofs --------------------------
(***************************************************************************)
(* Safety of BenchSweep for any sweep, number of attempts, clusters and    *)
(* failures, and that it implements ResultLedger.                          *)
(***************************************************************************)
EXTENDS BenchSweep, FiniteSetTheorems, TLAPS

\* The most attempts that processes before the p-th of the l-th cluster can make.
MadeBefore(l, p) == ((l - 1) * Len(Engines) + (p - 1)) * Attempts

\* The positions from the choice of a run id to where its JSON file is complete, or
\* never will be; those behind it; all positions of an attempt; and those where the
\* process has not been thrown out of its loops.
Unrecorded == {"body", "cost", "csvOpen", "csvClose", "jsonOpen", "jsonClose", "raised"}
Recorded == {"s3raw", "s3csv", "returned"}
InAttempt == {"body"} \union Exiting
Counting == Running \ {"unwind", "exit"}

\* Run ids are counted up and never exceed what the sweeps can make.
Numbered ==
  /\ pc \in Running => proc <= Len(Engines) /\ lastId <= MadeBefore(lives, proc) + made
  /\ pc = "launch" => lastId <= MadeBefore(lives, proc)
  /\ pc = "over" => lastId <= MadeBefore(lives + 1, 1)
  /\ pc \in Running => failures <= made
  /\ pc \in InAttempt => lastId >= 1 /\ failures < made

\* What has no JSON file and no object in S3 yet, and what has.
Fresh ==
  /\ \A id \in RunIds : id > lastId => raw[id] = "none" /\ id \notin s3raw
  /\ pc \in Unrecorded => ~Complete(lastId) /\ lastId \notin s3raw
  /\ pc \in Recorded => raw[lastId] = Status

\* The row of an attempt is in the CSV, on a line of its own or not.
HasRow(id, status) == \E i \in 1..Len(csv.lines) : csv.lines[i] = Row(id, status)

\* The row of a result is in the CSV before its JSON file is written.
RowFirst ==
  /\ \A id \in RunIds : Complete(id) => HasRow(id, raw[id])
  /\ pc \in {"jsonOpen", "jsonClose"} => HasRow(lastId, Status)

\* Spark runs only inside a process, and at its end only if it could not be stopped.
SparkInside ==
  /\ pc \in {"launch", "over", "init", "spark"} => spark = "down"
  /\ pc = "exit" => spark # "up"

\* The CSV ends with a line that is not torn.
Whole == csv.lines # <<>> /\ ~Torn(csv.lines[Len(csv.lines)])

\* What the loops know of an attempt that ended well.
OkRecord(id) == raw[id] = "ok" /\ (InCsv(id, "ok") \/ id = begun + 1)

\* What the loops know of their attempts: they are numbered on from begun; while no
\* failure was counted all that are over are recorded as "ok", and the CSV ends
\* with the row of the last of them.
Accounted ==
  /\ pc \in Running => lastId = begun + made
  /\ pc = "finish" => made = Attempts
  /\ pc \in Counting /\ failures = 0 =>
       \A id \in MyIds : id < lastId \/ pc \notin InAttempt => OkRecord(id)
  /\ pc \in Counting \ {"raised"} /\ failures = 0 =>
       (lastId > begun + 1 \/ (lastId > begun /\ pc \notin InAttempt) => Whole)
  /\ pc \in {"jsonOpen", "jsonClose"} \union Recorded =>
       /\ Whole
       /\ failures = 0 => InCsv(lastId, Status) \/ lastId = begun + 1
  /\ pc \in {"exit", "launch"} /\ code = "zero" =>
       lastId = begun + Attempts /\ \A id \in MyIds : OkRecord(id)

\* The attempts of this process that are over, and those of them that left no
\* JSON file that says "ok": failures counts them.
Ended == (begun + 1)..(IF pc \in InAttempt THEN lastId - 1 ELSE lastId)
Lost == {id \in Ended : raw[id] # "ok"}
CountExact == pc \in Counting => failures = Cardinality(Lost)

IInv ==
  TypeOK /\ Numbered /\ Fresh /\ RowFirst /\ S3CsvIsSnapshot /\ SparkInside /\ Accounted

-----------------------------------------------------------------------------

\* What the assumptions say of the bounds.
LEMMA SweepFacts ==
  /\ Len(Engines) \in Nat /\ Attempts \in Nat
  /\ MaxLives \in Nat \ {0} /\ MaxFaults \in Nat
BY EnginesAssumption, BoundsAssumption

\* The arithmetic of MadeBefore: a process adds at most its attempts, and the next
\* cluster begins where the last process of this one would end.
LEMMA MadeBeforeFacts ==
  ASSUME NEW l \in 1..MaxLives, NEW p \in 1..(Len(Engines) + 1)
  PROVE  /\ MadeBefore(l, p) \in Int /\ MadeBefore(l + 1, 1) \in Int
         /\ Len(Engines) * Attempts * MaxLives \in Int
         /\ MadeBefore(l, p + 1) = MadeBefore(l, p) + Attempts
         /\ MadeBefore(l, p) <= MadeBefore(l + 1, 1)
         /\ p <= Len(Engines) => MadeBefore(l, p) + Attempts <= MadeBefore(l + 1, 1)
         /\ MadeBefore(l + 1, 1) <= Len(Engines) * Attempts * MaxLives
<1> DEFINE n == Len(Engines)
<1>1. n \in Nat /\ Attempts \in Nat /\ MaxLives \in Nat /\ l \in Nat /\ p \in Nat
  BY SweepFacts
<1> HIDE DEF n
<1>2. /\ MadeBefore(l, p) = ((l - 1) * n + (p - 1)) * Attempts
      /\ MadeBefore(l, p + 1) = ((l - 1) * n + p) * Attempts
      /\ MadeBefore(l + 1, 1) = (l * n) * Attempts
  BY <1>1 DEF MadeBefore, n
<1>3. \A a, b \in Int : a <= b => a * Attempts <= b * Attempts
  BY <1>1
<1>4. (l - 1) * n \in Int /\ l * n = (l - 1) * n + n /\ l * n <= MaxLives * n
  BY <1>1
<1>5. \A a \in Int : (a + 1) * Attempts = a * Attempts + Attempts
  BY <1>1
<1>6. MadeBefore(l, p) \in Int /\ MadeBefore(l, p + 1) = MadeBefore(l, p) + Attempts
  BY <1>1, <1>2, <1>4, <1>5
<1>7. (l - 1) * n + (p - 1) <= l * n
  BY <1>1, <1>4 DEF n
<1>8. MadeBefore(l, p) <= MadeBefore(l + 1, 1)
  BY <1>1, <1>2, <1>3, <1>4, <1>7
<1>9. p <= n => (l - 1) * n + p <= l * n
  BY <1>1, <1>4
<1>10. p <= n => MadeBefore(l, p) + Attempts <= MadeBefore(l + 1, 1)
  BY <1>1, <1>2, <1>3, <1>4, <1>6, <1>9
<1>11. MadeBefore(l + 1, 1) <= n * Attempts * MaxLives
  <2>1. (l * n) * Attempts <= (MaxLives * n) * Attempts
    BY <1>1, <1>3, <1>4
  <2>2. (MaxLives * n) * Attempts = n * Attempts * MaxLives
    BY <1>1
  <2> QED
    BY <1>2, <2>1, <2>2
<1>12. MadeBefore(l + 1, 1) \in Int /\ n * Attempts * MaxLives \in Int
  BY <1>1, <1>2, <1>4
<1> QED
  BY <1>6, <1>8, <1>10, <1>11, <1>12 DEF n

\* What an attempt can be numbered is a run id.
LEMMA AttemptInRange ==
  ASSUME NEW l \in 1..MaxLives, NEW p \in 1..Len(Engines), NEW m \in 0..Attempts,
         NEW i \in Nat, 1 <= i, i <= MadeBefore(l, p) + m
  PROVE  i \in RunIds
<1> DEFINE before == MadeBefore(l, p)
           next == MadeBefore(l + 1, 1)
           all == Len(Engines) * Attempts * MaxLives
<1>1. p \in 1..(Len(Engines) + 1) /\ m \in Nat /\ m <= Attempts /\ p <= Len(Engines)
  BY SweepFacts
<1>2. /\ before \in Int /\ next \in Int /\ all \in Int
      /\ before + Attempts <= next /\ next <= all
  BY <1>1, MadeBeforeFacts
<1>3. i <= before + m
  OBVIOUS
<1> HIDE DEF before, next, all
<1>4. i <= all
  BY <1>1, <1>2, <1>3, SweepFacts
<1> QED
  BY <1>4, SweepFacts DEF RunIds, all

\* An attempt has a run id of RunIds.
LEMMA IdInRange ==
  ASSUME TypeOK, Numbered, pc \in InAttempt
  PROVE  lastId \in RunIds
<1>1. pc \in Running /\ lives \in 1..MaxLives /\ made \in 0..Attempts /\ lastId \in Nat
  BY DEF TypeOK, InAttempt, Running
<1>2. proc \in 1..Len(Engines) /\ lastId <= MadeBefore(lives, proc) + made /\ lastId >= 1
  BY <1>1, SweepFacts DEF Numbered, TypeOK
<1> QED
  BY <1>1, <1>2, AttemptInRange

\* So has the attempt the loops come to next.
LEMMA NextIdInRange ==
  ASSUME TypeOK, Numbered, pc = "loop", made < Attempts
  PROVE  lastId + 1 \in RunIds
<1>1. /\ pc \in Running /\ lives \in 1..MaxLives /\ made + 1 \in 0..Attempts
      /\ lastId \in Nat /\ made \in Nat
  BY SweepFacts DEF TypeOK, Running
<1>2. proc \in 1..Len(Engines) /\ lastId <= MadeBefore(lives, proc) + made
  BY <1>1, SweepFacts DEF Numbered, TypeOK
<1>3. MadeBefore(lives, proc) \in Int
  BY <1>1, <1>2, MadeBeforeFacts, SweepFacts
<1>4. lastId + 1 <= MadeBefore(lives, proc) + (made + 1)
  BY <1>1, <1>2, <1>3
<1> QED
  BY <1>1, <1>2, <1>4, AttemptInRange

\* Wherever a process or a cluster ends, the next one is numbered on.
LEMMA NextNumber ==
  ASSUME TypeOK, Numbered
  PROVE  /\ pc \in Running => lastId <= MadeBefore(lives, proc + 1)
         /\ lastId <= MadeBefore(lives + 1, 1)
         /\ MadeBefore(lives, proc) \in Int
<1> DEFINE before == MadeBefore(lives, proc)
           after == MadeBefore(lives, proc + 1)
           next == MadeBefore(lives + 1, 1)
<1>1. /\ lives \in 1..MaxLives /\ proc \in 1..(Len(Engines) + 1)
      /\ made \in Nat /\ made <= Attempts /\ lastId \in Nat
      /\ pc \in Running \union {"launch", "over"}
  BY SweepFacts DEF TypeOK, Labels
<1>2. /\ before \in Int /\ next \in Int /\ after = before + Attempts /\ before <= next
      /\ proc <= Len(Engines) => after <= next
  BY <1>1, MadeBeforeFacts
<1>3. /\ pc \in Running => proc <= Len(Engines) /\ lastId <= before + made
      /\ pc = "launch" => lastId <= before
      /\ pc = "over" => lastId <= next
  BY DEF Numbered
<1> HIDE DEF before, after, next
<1>4. /\ pc \in Running => lastId <= after
      /\ lastId <= next
  BY <1>1, <1>2, <1>3, SweepFacts
<1> QED
  BY <1>2, <1>4 DEF before, after, next

\* So are the ids of all attempts of a process.
LEMMA MadeIds ==
  ASSUME TypeOK, Numbered
  PROVE  \A id \in MyIds : id \in RunIds
<1> DEFINE next == MadeBefore(lives + 1, 1)
           all == Len(Engines) * Attempts * MaxLives
<1>1. lastId <= next
  BY NextNumber
<1>2. next \in Int /\ all \in Int /\ next <= all
  BY MadeBeforeFacts DEF TypeOK
<1>3. lastId \in Nat /\ begun \in Nat /\ RunIds = 1..all
  BY DEF TypeOK, RunIds
<1> HIDE DEF next, all
<1> QED
  BY <1>1, <1>2, <1>3 DEF MyIds

\* Appending keeps a prefix, and every line.
LEMMA AppendKeeps ==
  ASSUME NEW S, NEW a \in Seq(S), NEW b \in Seq(S), NEW e \in Seq(S)
  PROVE  /\ b \o e \in Seq(S)
         /\ Len(b \o e) = Len(b) + Len(e)
         /\ \A i \in 1..Len(b) : (b \o e)[i] = b[i]
         /\ \A i \in 1..Len(e) : (b \o e)[Len(b) + i] = e[i]
         /\ IsPrefix(a, b) => IsPrefix(a, b \o e)
<1>1. /\ b \o e \in Seq(S) /\ Len(b \o e) = Len(b) + Len(e)
      /\ Len(a) \in Nat /\ Len(b) \in Nat /\ Len(e) \in Nat
      /\ \A i \in 1..Len(b) : (b \o e)[i] = b[i]
      /\ \A i \in 1..Len(e) : (b \o e)[Len(b) + i] = e[i]
  OBVIOUS
<1>2. ASSUME IsPrefix(a, b)  PROVE  IsPrefix(a, b \o e)
  <2>1. Len(a) <= Len(b) /\ SubSeq(a, 1, Len(a)) = SubSeq(b, 1, Len(a))
    BY <1>2 DEF IsPrefix
  <2>2. SubSeq(b \o e, 1, Len(a)) = SubSeq(b, 1, Len(a))
    BY <1>1, <2>1
  <2> QED
    BY <1>1, <2>1, <2>2 DEF IsPrefix
<1> QED
  BY <1>1, <1>2

\* What an attempt appends to the CSV ends with its row, behind a header or alone.
LEMMA CsvLinesFacts ==
  ASSUME lastId \in RunIds
  PROVE  /\ CsvLines \in Seq(Lines) /\ Len(CsvLines) \in Nat \ {0}
         /\ CsvLines[Len(CsvLines)] = Row(lastId, Status)
         /\ Len(CsvLines) > 1 => ~Torn(CsvLines[Len(CsvLines) - 1])
         /\ \A i \in 1..Len(CsvLines) : CsvLines[i] = Header => newFile /\ i = 1
<1>1. Header \in Lines /\ Row(lastId, Status) \in Lines
  BY SweepFacts DEF Header, Row, Status, Lines, RunIds
<1>2. <<Header>> \in Seq(Lines) /\ <<Row(lastId, Status)>> \in Seq(Lines)
  BY <1>1
<1>3. ~Torn(Header) /\ Row(lastId, Status) # Header
  BY DEF Header, Row, Status, Torn
<1>4. CASE newFile
  <2>1. CsvLines = <<Header>> \o <<Row(lastId, Status)>>
    BY <1>4 DEF CsvLines
  <2>2. /\ Len(CsvLines) = 2 /\ CsvLines \in Seq(Lines)
        /\ CsvLines[1] = Header /\ CsvLines[2] = Row(lastId, Status)
    BY <1>2, <2>1
  <2> QED
    BY <1>3, <1>4, <2>2
<1>5. CASE ~newFile
  <2>1. CsvLines = <<Row(lastId, Status)>>
    BY <1>2, <1>5 DEF CsvLines
  <2>2. Len(CsvLines) = 1 /\ CsvLines[1] = Row(lastId, Status) /\ CsvLines \in Seq(Lines)
    BY <1>1, <2>1
  <2> QED
    BY <1>3, <2>2
<1> QED
  BY <1>4, <1>5

\* A short write of lines appends lines, none of them a header that was not there.
LEMMA ShortWriteFacts ==
  ASSUME NEW l \in Seq(Lines), NEW e \in ShortWrites(l)
  PROVE  /\ e \in Seq(Lines) /\ Len(e) <= Len(l)
         /\ \A i \in 1..Len(e) : e[i] = Header => l[i] = Header
<1>0. Len(l) \in Nat /\ \A i \in 1..Len(l) : l[i] \in Lines
  OBVIOUS
<1>1. PICK k \in 0..(Len(l) - 1) :
        \/ e = SubSeq(l, 1, k)
        \/ e = Append(SubSeq(l, 1, k), [l[k + 1] EXCEPT !.status = "torn"])
  BY DEF ShortWrites
<1> DEFINE f == SubSeq(l, 1, k)
<1>2. f \in Seq(Lines) /\ Len(f) = k /\ k \in Nat /\ \A i \in 1..k : f[i] = l[i]
  BY <1>0
<1> HIDE DEF f
<1>3. CASE e = f
  BY <1>0, <1>2, <1>3
<1>4. CASE e = Append(f, [l[k + 1] EXCEPT !.status = "torn"])
  <2> DEFINE t == [l[k + 1] EXCEPT !.status = "torn"]
  <2>1. l[k + 1] \in Lines
    BY <1>0, <1>2
  <2>2. t \in Lines /\ t # Header
    BY <2>1 DEF Lines, Header
  <2> HIDE DEF t
  <2>3. e \in Seq(Lines) /\ Len(e) = k + 1 /\ e[k + 1] = t /\ \A i \in 1..k : e[i] = f[i]
    BY <1>2, <1>4, <2>2 DEF t
  <2>4. \A i \in 1..Len(e) : i \in 1..k \/ i = k + 1
    BY <1>2, <2>3
  <2> QED
    BY <1>0, <1>2, <2>2, <2>3, <2>4
<1> QED
  BY <1>1, <1>3, <1>4 DEF f

\* A write to the CSV, whole or cut short, keeps what a reader finds and leaves the
\* object in S3 a state of the CSV.
LEMMA CsvGrows ==
  ASSUME TypeOK, S3CsvIsSnapshot,
         NEW e \in Seq(Lines), csv' = [csv EXCEPT !.lines = @ \o e],
         s3csv' = s3csv, mirrored' = mirrored
  PROVE  /\ csv' \in [exists : BOOLEAN, lines : Seq(Lines)]
         /\ S3CsvIsSnapshot'
         /\ \A id, st : HasRow(id, st) => HasRow(id, st)'
         /\ \A id, st : InCsv(id, st) => InCsv(id, st)'
<1>1. csv.lines \in Seq(Lines) /\ s3csv \in Seq(Lines) /\ csv'.lines = csv.lines \o e
  BY DEF TypeOK
<1>2. /\ csv'.lines \in Seq(Lines)
      /\ Len(csv.lines) \in Nat /\ Len(e) \in Nat
      /\ Len(csv'.lines) = Len(csv.lines) + Len(e)
      /\ \A i \in 1..Len(csv.lines) : csv'.lines[i] = csv.lines[i]
      /\ IsPrefix(s3csv, csv.lines) => IsPrefix(s3csv, csv'.lines)
  BY <1>1, AppendKeeps
<1>3. csv' \in [exists : BOOLEAN, lines : Seq(Lines)]
  BY <1>1, <1>2 DEF TypeOK
<1>4. S3CsvIsSnapshot'
  BY <1>2 DEF S3CsvIsSnapshot
<1>5. ASSUME NEW id, NEW st, HasRow(id, st)
      PROVE  HasRow(id, st)'
  BY <1>2, <1>5 DEF HasRow, Row
<1>6. ASSUME NEW id, NEW st, InCsv(id, st)
      PROVE  InCsv(id, st)'
  <2>1. PICK i \in 1..Len(csv.lines) :
          csv.lines[i] = Row(id, st) /\ (i > 1 => ~Torn(csv.lines[i - 1]))
    BY <1>6 DEF InCsv
  <2>2. i \in 1..Len(csv'.lines) /\ csv'.lines[i] = csv.lines[i]
    BY <1>2
  <2>3. i > 1 => csv'.lines[i - 1] = csv.lines[i - 1]
    BY <1>2
  <2> QED
    BY <2>1, <2>2, <2>3 DEF InCsv, Row, Torn
<1> QED
  BY <1>3, <1>4, <1>5, <1>6

\* A write that succeeds leaves the row of the attempt at the end, and on a line of
\* its own unless the CSV ended with a torn one.
LEMMA CsvWhole ==
  ASSUME TypeOK, lastId \in RunIds, csv' = [csv EXCEPT !.lines = @ \o CsvLines],
         lastId' = lastId, exc' = exc
  PROVE  /\ Whole' /\ HasRow(lastId, Status)'
         /\ Whole => InCsv(lastId, Status)'
<1> DEFINE e == CsvLines
           n == Len(csv.lines)
           m == Len(e)
<1>1. /\ e \in Seq(Lines) /\ m \in Nat \ {0}
      /\ e[m] = Row(lastId, Status) /\ (m > 1 => ~Torn(e[m - 1]))
  BY CsvLinesFacts
<1>2. csv'.lines = csv.lines \o e /\ csv.lines \in Seq(Lines)
  BY DEF TypeOK
<1>3. Status' = Status /\ Status # "torn"
  BY DEF Status
<1> HIDE DEF e
<1>4. /\ n \in Nat /\ Len(csv'.lines) = n + m
      /\ \A i \in 1..n : csv'.lines[i] = csv.lines[i]
      /\ \A i \in 1..m : csv'.lines[n + i] = e[i]
  BY <1>1, <1>2, AppendKeeps
<1> HIDE DEF n, m
<1>5. n + m \in 1..Len(csv'.lines) /\ csv'.lines[n + m] = Row(lastId, Status)
  <2>1. m \in 1..m
    BY <1>1
  <2>2. csv'.lines[n + m] = e[m]
    BY <1>4, <2>1
  <2>3. n + m \in 1..Len(csv'.lines)
    BY <1>1, <1>4
  <2> QED
    BY <1>1, <2>2, <2>3
<1>9. n \in Nat /\ m \in Nat \ {0}
  BY <1>1, <1>4
<1>6. Whole'
  <2>1. csv'.lines # <<>>
    BY <1>5
  <2> QED
    BY <1>3, <1>4, <1>5, <2>1 DEF Whole, Torn, Row
<1>7. HasRow(lastId, Status)'
  BY <1>3, <1>5 DEF HasRow, Row
<1>8. ASSUME Whole
      PROVE  InCsv(lastId, Status)'
  <2> DEFINE j == n + m
             L == csv'.lines
  <2>1. ~Torn(L[j - 1])
    <3>1. CASE m > 1
      <4>1. m - 1 \in 1..m /\ n + (m - 1) = j - 1
        BY <1>9, <3>1
      <4>2. L[n + (m - 1)] = e[m - 1]
        BY <1>4, <4>1
      <4> HIDE DEF j, L
      <4> QED
        BY <1>1, <3>1, <4>1, <4>2
    <3>2. CASE ~(m > 1)
      <4>1. j - 1 = n
        BY <1>1, <1>4, <3>2
      <4>2. n \in 1..n /\ ~Torn(csv.lines[n])
        BY <1>2, <1>4, <1>8 DEF Whole, n
      <4>3. L[n] = csv.lines[n]
        BY <1>4, <4>2
      <4> HIDE DEF j, L
      <4> QED
        BY <4>1, <4>2, <4>3
    <3> QED
      BY <3>1, <3>2
  <2>2. j \in 1..Len(L) /\ L[j] = Row(lastId, Status)
    BY <1>5
  <2> HIDE DEF j
  <2> QED
    BY <1>3, <2>1, <2>2 DEF InCsv, Row, Torn
<1> QED
  BY <1>6, <1>7, <1>8

\* However a write to the CSV ends, it appends lines, and a header only in front of a
\* new file.
LEMMA CsvWritten ==
  ASSUME IInv, CsvClose \/ Interrupt, pc = "csvClose"
  PROVE  \E e \in Seq(Lines) :
           /\ csv' = [csv EXCEPT !.lines = @ \o e]
           /\ \A i \in 1..Len(e) : e[i] = Header => newFile /\ i = 1
<1>1. lastId \in RunIds
  BY IdInRange DEF IInv, InAttempt, Exiting
<1>2. PICK e \in ShortWrites(CsvLines) \union {CsvLines} :
        csv' = [csv EXCEPT !.lines = @ \o e]
  BY DEF CsvClose, Interrupt
<1>3. /\ CsvLines \in Seq(Lines) /\ Len(CsvLines) \in Nat
      /\ \A i \in 1..Len(CsvLines) : CsvLines[i] = Header => newFile /\ i = 1
  BY <1>1, CsvLinesFacts
<1>4. CASE e \in ShortWrites(CsvLines)
  <2>1. /\ e \in Seq(Lines) /\ Len(e) <= Len(CsvLines)
        /\ \A i \in 1..Len(e) : e[i] = Header => CsvLines[i] = Header
    BY <1>3, <1>4, ShortWriteFacts
  <2>2. \A i \in 1..Len(e) : i \in 1..Len(CsvLines)
    BY <1>3, <2>1
  <2> QED
    BY <1>2, <1>3, <2>1, <2>2
<1>5. CASE e = CsvLines
  BY <1>2, <1>3, <1>5
<1> QED
  BY <1>4, <1>5

\* However the CSV is closed, it keeps what a reader finds, and the row of the attempt
\* is in it when recording goes on.
LEMMA CsvKept ==
  ASSUME IInv, CsvClose \/ Interrupt
  PROVE  /\ csv' \in [exists : BOOLEAN, lines : Seq(Lines)]
         /\ S3CsvIsSnapshot'
         /\ \A id, st : HasRow(id, st) => HasRow(id, st)'
         /\ \A id, st : InCsv(id, st) => InCsv(id, st)'
         /\ pc' = "jsonOpen" =>
              /\ Whole' /\ HasRow(lastId, Status)'
              /\ Whole => InCsv(lastId, Status)'
<1>1. /\ s3csv' = s3csv /\ mirrored' = mirrored /\ lastId' = lastId
      /\ pc' = "jsonOpen" => exc' = exc
  BY DEF CsvClose, Interrupt, attempt, s3, Goto
<1>2. CASE pc # "csvClose"
  <2>1. csv' = csv /\ pc' # "jsonOpen"
    BY <1>2 DEF CsvClose, Interrupt, Goto
  <2> QED
    BY <1>1, <2>1 DEF IInv, TypeOK, S3CsvIsSnapshot, HasRow, InCsv
<1>3. CASE pc = "csvClose"
  <2>1. PICK e \in Seq(Lines) : csv' = [csv EXCEPT !.lines = @ \o e]
    BY <1>3, CsvWritten
  <2>2. /\ csv' \in [exists : BOOLEAN, lines : Seq(Lines)]
        /\ S3CsvIsSnapshot'
        /\ \A id, st : HasRow(id, st) => HasRow(id, st)'
        /\ \A id, st : InCsv(id, st) => InCsv(id, st)'
    BY <1>1, <2>1, CsvGrows DEF IInv
  <2>3. ASSUME pc' = "jsonOpen"
        PROVE  /\ Whole' /\ HasRow(lastId, Status)'
               /\ Whole => InCsv(lastId, Status)'
    <3>1. csv' = [csv EXCEPT !.lines = @ \o CsvLines]
      BY <2>3 DEF CsvClose, Interrupt, WriteFails, Goto
    <3>2. lastId \in RunIds
      BY <1>3, IdInRange DEF IInv, InAttempt, Exiting
    <3> QED
      BY <1>1, <2>3, <3>1, <3>2, CsvWhole DEF IInv
  <2> QED
    BY <2>2, <2>3
<1> QED
  BY <1>2, <1>3

\* Every step leaves each variable in its range.
LEMMA TypeNext ==
  ASSUME IInv, Next
  PROVE  TypeOK'
<1> USE SweepFacts DEF Goto, Fault, EndProcess, WriteFails, vars, process, attempt,
   files, s3,
      env, Next, Steps, Launch, RayInit, InitSpark, RegisterViews, NextAttempt, AfterExit,
      Finish, Unwind, Exit, Finally, Cost, CsvOpen, CsvClose, JsonOpen, JsonClose,
      UploadRaw, UploadCsv, Workload, Interrupt, Crash, RayDown
<1>0. pc \in InAttempt => lastId \in RunIds
  BY IdInRange DEF IInv
<1>1. proc' \in 1..(Len(Engines) + 1)
  BY SMTT(30) DEF IInv, TypeOK, Numbered, Running, Exiting
<1>2. pc' \in Labels
  BY SMTT(30) DEF IInv, TypeOK, Labels, Running, InSpark, Exiting
<1>3. made' \in 0..Attempts
  BY SMTT(30) DEF IInv, TypeOK, Another
<1>4. failures' \in 0..Attempts
  BY SMTT(30) DEF IInv, TypeOK, Numbered, InAttempt, Caught, Exiting, Left
<1>5. lastId' \in Nat /\ begun' \in Nat
  BY SMTT(30) DEF IInv, TypeOK
<1>6. /\ exc' \in {"none", "Exception", "KeyboardInterrupt"}
      /\ code' \in {"none", "zero", "failed", "killed", "interrupted"}
  BY SMTT(30) DEF IInv, TypeOK
<1>7. lives' \in 1..MaxLives /\ faults' \in 0..MaxFaults
  BY SMTT(30) DEF IInv, TypeOK
<1>8. newFile' \in BOOLEAN
  <2>1. newFile' = newFile \/ newFile' = ~csv.exists
    OBVIOUS
  <2> QED
    BY <2>1 DEF IInv, TypeOK
<1>9. spark' \in {"down", "up", "stuck"}
  BY SMTT(30) DEF IInv, TypeOK
<1>10. interrupted' \in BOOLEAN
  <2>1. interrupted' = interrupted \/ interrupted' = TRUE \/ interrupted' = FALSE
    OBVIOUS
  <2> QED
    BY <2>1 DEF IInv, TypeOK
<1>11. mirrored' \in BOOLEAN
  <2>1. mirrored' = mirrored \/ mirrored' = TRUE \/ mirrored' = FALSE
    OBVIOUS
  <2> QED
    BY <2>1 DEF IInv, TypeOK
<1>12. priced' \in BOOLEAN
  <2>1. priced' = priced
    OBVIOUS
  <2> QED
    BY <2>1 DEF IInv, TypeOK
<1>13. s3csv' \in Seq(Lines)
  <2>1. s3csv' = s3csv \/ s3csv' = csv.lines
    OBVIOUS
  <2> QED
    BY <2>1 DEF IInv, TypeOK
<1>14. s3raw' \subseteq RunIds
  BY <1>0, SMTT(30) DEF IInv, TypeOK, InAttempt, Exiting
<1>15. raw' \in [RunIds -> {"none", "partial", "ok", "error"}]
  BY <1>0, SMTT(30) DEF IInv, TypeOK, Status
<1>16. csv' \in [exists : BOOLEAN, lines : Seq(Lines)]
  <2>1. \/ csv' = csv \/ CsvClose \/ Interrupt \/ csv' = Opened
        \/ csv' = [exists |-> FALSE, lines |-> <<>>]
    OBVIOUS
  <2> HIDE DEF CsvClose, Interrupt
  <2>2. CASE csv' = csv \/ csv' = Opened
    BY <2>2 DEF IInv, TypeOK, Opened
  <2>3. CASE CsvClose \/ Interrupt
    BY <2>3, CsvKept
  <2>4. CASE csv' = [exists |-> FALSE, lines |-> <<>>]
    <3>1. <<>> \in Seq(Lines)
      OBVIOUS
    <3> QED
      BY <2>4, <3>1
  <2> QED
    BY <2>1, <2>2, <2>3, <2>4
<1> QED
  BY <1>1, <1>2, <1>3, <1>4, <1>5, <1>6, <1>7, <1>8, <1>9, <1>10, <1>11, <1>12, <1>13,
     <1>14,
     <1>15, <1>16 DEF TypeOK

\* Every step numbers its attempts within what the sweeps can make.
LEMMA NumberedNext ==
  ASSUME IInv, Next
  PROVE  Numbered'
<1> USE SweepFacts DEF Goto, Fault, vars, process, attempt, files, s3, env
<1>0. pc \in InAttempt => lastId \in RunIds
  BY IdInRange DEF IInv
<1>1. CASE RegisterViews \/ AfterExit \/ Cost \/ Workload
  BY <1>1, <1>0, SMTT(30) DEF IInv, Numbered, TypeOK, Labels, Running, Exiting,
     InAttempt, RegisterViews, AfterExit, Cost, Workload, Left, Propagating, Caught
<1>2. CASE CsvOpen \/ CsvClose \/ JsonOpen \/ JsonClose \/ UploadRaw \/ UploadCsv
           \/ Interrupt
  BY <1>2, <1>0, SMTT(30) DEF IInv, Numbered, TypeOK, Labels, Running, Exiting,
     InAttempt, CsvOpen, CsvClose, JsonOpen, JsonClose, UploadRaw, UploadCsv,
     Interrupt, Opened, WriteFails
<1>3. CASE Launch \/ NextAttempt
  BY <1>3, <1>0, NextNumber, SMTT(30) DEF IInv, Numbered, TypeOK, Labels, Running,
     Exiting, InAttempt, Launch, NextAttempt, Another
<1>4. CASE RayInit \/ InitSpark \/ Exit \/ Crash
  BY <1>4, <1>0, NextNumber, SMTT(30) DEF IInv, Numbered, TypeOK, Labels, Running,
     Exiting, InAttempt, RayInit, InitSpark, Exit, Crash, EndProcess, InSpark
<1>6. CASE Finish \/ Unwind
  BY <1>6, <1>0, NextNumber, SMTT(30) DEF IInv, Numbered, TypeOK, Labels, Running,
     Exiting, InAttempt, Finish, Unwind, Finally
<1>5. CASE RayDown
  BY <1>5, <1>0, NextNumber, SMTT(30) DEF IInv, Numbered, TypeOK, Labels, Running,
     Exiting, InAttempt, RayDown
<1> QED
  BY <1>1, <1>2, <1>3, <1>4, <1>5, <1>6 DEF Next, Steps

\* Every step leaves the numbers to come unused.
LEMMA FreshNext ==
  ASSUME IInv, Next
  PROVE  Fresh'
<1> USE SweepFacts DEF Goto, Fault, vars, process, attempt, files, s3, env
<1> USE DEF Recorded, Unrecorded, Complete
<1>0. pc \in InAttempt => lastId \in RunIds
  BY IdInRange DEF IInv
<1>1. CASE Launch \/ RayInit \/ InitSpark \/ RegisterViews \/ AfterExit \/ Finish
           \/ Unwind \/ Exit
  BY <1>1, <1>0 DEF IInv, Fresh, TypeOK, InAttempt, Exiting, Running,
     Launch, RayInit, InitSpark, RegisterViews, AfterExit, Finish, Unwind, Exit,
     EndProcess, InSpark, Left, Propagating, Caught, Finally
<1>2. CASE NextAttempt
  <2>1. CASE made < Attempts
    <3>1. lastId' = lastId + 1 /\ lastId' \in RunIds /\ lastId \in Nat
      BY <1>2, <2>1, NextIdInRange DEF IInv, NextAttempt, Another, TypeOK
    <3> QED
      BY <1>2, <3>1 DEF IInv, NextAttempt, Fresh, RunIds
  <2>2. CASE ~(made < Attempts)
    BY <1>2, <2>2 DEF IInv, NextAttempt, Another, Fresh
  <2> QED
    BY <2>1, <2>2
<1>3. CASE CsvOpen \/ CsvClose \/ JsonOpen \/ Cost \/ Workload
  BY <1>3, <1>0 DEF IInv, Fresh, TypeOK, InAttempt, Exiting, Running,
     CsvOpen, CsvClose, JsonOpen, Cost, Workload, Opened, WriteFails
<1>4. CASE Interrupt \/ Crash \/ RayDown
  BY <1>4, <1>0 DEF IInv, Fresh, TypeOK, InAttempt, Exiting, Running,
     Interrupt, Crash, RayDown, EndProcess
<1>5. CASE JsonClose \/ UploadRaw \/ UploadCsv
  BY <1>5, <1>0 DEF IInv, Fresh, TypeOK, InAttempt, Exiting, Running,
     JsonClose, UploadRaw, UploadCsv, WriteFails, Status
<1> QED
  BY <1>1, <1>2, <1>3, <1>4, <1>5 DEF Next, Steps

\* Every step writes the row before the JSON file.
LEMMA RowFirstNext ==
  ASSUME IInv, Next
  PROVE  RowFirst'
<1> USE SweepFacts DEF Goto, Fault, vars, process, attempt, files, s3, env
<1>0. pc \in InAttempt => lastId \in RunIds
  BY IdInRange DEF IInv
<1>1. CASE raw' = raw /\ csv'.lines = csv.lines /\ pc' \notin {"jsonOpen", "jsonClose"}
  BY <1>1 DEF IInv, RowFirst, HasRow, Complete
<1>2. CASE Launch \/ RayInit \/ InitSpark \/ RegisterViews \/ NextAttempt \/ AfterExit
           \/ Finish \/ Unwind \/ Exit
  BY <1>1, <1>2 DEF Launch, RayInit, InitSpark, RegisterViews, NextAttempt, AfterExit,
     Finish, Unwind, Exit, EndProcess, InSpark
<1>3. CASE Workload \/ Cost \/ CsvOpen \/ UploadRaw \/ UploadCsv \/ Crash
  BY <1>1, <1>3 DEF Workload, Cost, CsvOpen, Opened, UploadRaw, UploadCsv, Crash,
     EndProcess, IInv, TypeOK
<1>4. CASE CsvClose \/ Interrupt
  <2>1. \A id, st : HasRow(id, st) => HasRow(id, st)'
    BY <1>4, CsvKept
  <2>2. raw' = raw /\ lastId' = lastId /\ pc' # "jsonClose"
    BY <1>4 DEF CsvClose, Interrupt, WriteFails
  <2>3. \A id \in RunIds : Complete(id)' => HasRow(id, raw[id])'
    BY <2>1, <2>2 DEF IInv, RowFirst, Complete, HasRow
  <2>4. pc' = "jsonOpen" => HasRow(lastId, Status)'
    BY <1>4, CsvKept
  <2> QED
    BY <2>2, <2>3, <2>4 DEF RowFirst
<1>5. CASE JsonOpen
  <2>1. /\ raw' = [raw EXCEPT ![lastId] = "partial"] /\ csv' = csv
        /\ lastId' = lastId /\ exc' = exc /\ pc = "jsonOpen" /\ lastId \in RunIds
    BY <1>0, <1>5 DEF JsonOpen, InAttempt, Exiting
  <2> QED
    BY <2>1 DEF IInv, TypeOK, RowFirst, HasRow, Complete, Status
<1>6. CASE JsonClose
  <2>1. /\ raw' = raw \/ raw' = [raw EXCEPT ![lastId] = Status]
        /\ csv' = csv /\ pc' \notin {"jsonOpen", "jsonClose"}
        /\ HasRow(lastId, Status) /\ lastId \in RunIds
    BY <1>0, <1>6 DEF JsonClose, WriteFails, InAttempt, Exiting, IInv, RowFirst
  <2>2. CASE raw' = raw
    BY <1>1, <2>1, <2>2
  <2>3. CASE raw' = [raw EXCEPT ![lastId] = Status]
    <3>1. ASSUME NEW id \in RunIds, Complete(id)'
          PROVE  HasRow(id, raw[id])'
      <4>1. CASE id = lastId
        BY <2>1, <2>3, <4>1 DEF IInv, TypeOK, HasRow
      <4>2. CASE id # lastId
        BY <2>1, <2>3, <3>1, <4>2 DEF IInv, TypeOK, HasRow, RowFirst, Complete
      <4> QED
        BY <4>1, <4>2
    <3> QED
      BY <2>1, <3>1 DEF RowFirst
  <2> QED
    BY <2>1, <2>2, <2>3
<1>7. CASE RayDown
  BY <1>7 DEF RayDown, RowFirst, Complete
<1> QED
  BY <1>2, <1>3, <1>4, <1>5, <1>6, <1>7 DEF Next, Steps

\* Every step leaves the object in S3 an earlier state of the CSV.
LEMMA SnapshotNext ==
  ASSUME IInv, Next
  PROVE  S3CsvIsSnapshot'
<1> USE SweepFacts DEF Goto, Fault, vars, process, attempt, files, s3, env
<1>0. pc \in InAttempt => lastId \in RunIds
  BY IdInRange DEF IInv
<1>1. CASE Launch \/ RayInit \/ InitSpark \/ RegisterViews \/ NextAttempt
           \/ AfterExit \/ Finish \/ Unwind \/ Exit \/ Cost \/ Workload \/ Crash
  BY <1>1 DEF IInv, S3CsvIsSnapshot, TypeOK, Launch, RayInit, InitSpark,
     RegisterViews, NextAttempt, AfterExit, Finish, Unwind, Exit, Cost, Workload, Crash,
     EndProcess, InSpark, Another, Left, Propagating, Caught, Finally, Running,
     Exiting
<1>2. CASE CsvOpen \/ JsonOpen \/ JsonClose \/ UploadRaw \/ RayDown
  BY <1>2 DEF IInv, S3CsvIsSnapshot, TypeOK, CsvOpen, JsonOpen, JsonClose, UploadRaw,
     RayDown, Opened, WriteFails
<1>3. CASE CsvClose \/ Interrupt
  BY <1>3, CsvKept
<1>4. CASE UploadCsv
  <2>1. IsPrefix(csv.lines, csv.lines)
    BY DEF IInv, TypeOK, IsPrefix
  <2> QED
    BY <1>4, <2>1 DEF UploadCsv, IInv, S3CsvIsSnapshot
<1> QED
  BY <1>1, <1>2, <1>3, <1>4 DEF Next, Steps

\* Every step that ends a process stops its Spark.
LEMMA SparkInsideNext ==
  ASSUME IInv, Next
  PROVE  SparkInside'
<1> USE SweepFacts DEF Goto, Fault, vars, process, attempt, files, s3, env
<1>0. pc \in InAttempt => lastId \in RunIds
  BY IdInRange DEF IInv
<1>1. CASE Launch \/ RayInit \/ InitSpark \/ RegisterViews \/ NextAttempt
           \/ AfterExit \/ Finish \/ Unwind \/ Exit \/ Cost \/ Workload
  BY <1>1 DEF IInv, SparkInside, TypeOK, Running, Exiting, Launch, RayInit, InitSpark,
     RegisterViews, NextAttempt, AfterExit, Finish, Unwind, Exit, Cost, Workload,
     EndProcess, InSpark, Another, Left, Propagating, Caught, Finally
<1>2. CASE CsvOpen \/ CsvClose \/ JsonOpen \/ JsonClose \/ UploadRaw \/ UploadCsv
           \/ Interrupt \/ Crash \/ RayDown
  BY <1>2 DEF IInv, SparkInside, TypeOK, Running, Exiting, CsvOpen, CsvClose,
     JsonOpen, JsonClose, UploadRaw, UploadCsv, Interrupt, Crash, RayDown, Opened,
     WriteFails, EndProcess
<1> QED
  BY <1>1, <1>2 DEF Next, Steps

\* A step that leaves the files alone, or makes the next attempt.
LEMMA AccountedKept ==
  ASSUME IInv, Launch \/ RayInit \/ InitSpark \/ RegisterViews \/ NextAttempt \/ Workload
                 \/ Cost \/ UploadRaw \/ UploadCsv
  PROVE  Accounted'
<1> USE SweepFacts DEF Goto, Fault, vars, process, attempt, files, s3, env
<1> USE DEF Counting, Recorded, Running, Exiting, InAttempt
<1> USE DEF IInv, Accounted, TypeOK, MyIds, OkRecord, InCsv, Whole, Status
<1>1. CASE Launch
  BY <1>1 DEF Launch
<1>2. CASE RayInit \/ InitSpark
  BY <1>2 DEF RayInit, InitSpark, EndProcess, InSpark
<1>3. CASE RegisterViews
  BY <1>3 DEF RegisterViews
<1>4. CASE NextAttempt
  BY <1>4 DEF NextAttempt, Another
<1>5. CASE Workload \/ Cost
  BY <1>5 DEF Workload, Cost
<1>6. CASE UploadRaw \/ UploadCsv
  BY <1>6 DEF UploadRaw, UploadCsv
<1> QED
  BY <1>1, <1>2, <1>3, <1>4, <1>5, <1>6

\* The end of an attempt, of the loops and of a process.
LEMMA AccountedEnds ==
  ASSUME IInv, AfterExit \/ Finish \/ Unwind \/ Exit \/ Interrupt \/ Crash \/ RayDown
  PROVE  Accounted'
<1> USE SweepFacts DEF Goto, Fault, vars, process, attempt, files, s3, env
<1> USE DEF Counting, Recorded, Running, Exiting, InAttempt
<1>1. CASE AfterExit
  <2>1. /\ pc \in {"returned", "raised"} /\ pc' \in {"unwind", "loop"}
        /\ lastId' = lastId /\ begun' = begun /\ made' = made /\ raw' = raw /\ csv' = csv
        /\ lastId = begun + made /\ lastId \in Nat /\ begun \in Nat
    BY <1>1 DEF AfterExit, Left, IInv, Accounted, TypeOK
  <2>2. ASSUME pc' = "loop", failures' = 0
        PROVE  pc = "returned" /\ exc = "none" /\ failures = 0
    BY <1>1, <2>1, <2>2 DEF AfterExit, Caught, Propagating, IInv, TypeOK
  <2>3. ASSUME pc' = "loop", failures' = 0
        PROVE  Whole' /\ \A id \in MyIds' : OkRecord(id)'
    <3>1. /\ Whole /\ raw[lastId] = "ok"
          /\ InCsv(lastId, "ok") \/ lastId = begun + 1
          /\ \A id \in MyIds : id < lastId => OkRecord(id)
      BY <2>1, <2>2, <2>3 DEF IInv, Accounted, Fresh, Status
    <3>2. \A id \in MyIds : OkRecord(id)
      BY <2>1, <3>1 DEF MyIds, OkRecord
    <3> QED
      BY <2>1, <3>1, <3>2 DEF Whole, MyIds, OkRecord, InCsv
  <2> QED
    BY <2>1, <2>3 DEF Accounted
<1>2. CASE Finish
  <2>1. /\ lastId' = lastId /\ begun' = begun /\ made' = made /\ raw' = raw /\ csv' = csv
        /\ pc = "finish" /\ pc' = "exit" /\ (code' = "zero" => failures = 0)
        /\ lastId = begun + made /\ made = Attempts
    BY <1>2 DEF Finish, IInv, Accounted, TypeOK
  <2>2. failures = 0 => \A id \in MyIds : OkRecord(id)
    BY <2>1 DEF IInv, Accounted
  <2> QED
    BY <2>1, <2>2 DEF Accounted, MyIds, OkRecord, InCsv
<1>3. CASE Unwind \/ Exit
  BY <1>3 DEF Unwind, Exit, EndProcess, IInv, Accounted, MyIds, OkRecord, InCsv
<1>4. CASE Interrupt \/ Crash \/ RayDown
  BY <1>4 DEF Interrupt, Crash, RayDown, EndProcess, IInv, Accounted
<1> QED
  BY <1>1, <1>2, <1>3, <1>4

\* The recording of an attempt.
LEMMA AccountedRecording ==
  ASSUME IInv, CsvOpen \/ CsvClose \/ JsonOpen \/ JsonClose
  PROVE  Accounted'
<1> USE DEF Goto, process, attempt, Counting, Recorded, Running, Exiting, InAttempt
<1>1. /\ lastId \in RunIds /\ lastId = begun + made /\ lastId \in Nat /\ begun \in Nat
      /\ made' = made /\ failures' = failures /\ begun' = begun /\ lastId' = lastId
      /\ exc' = exc /\ pc \in {"csvOpen", "csvClose", "jsonOpen", "jsonClose"}
      /\ pc' \in {"csvClose", "jsonOpen", "jsonClose", "s3raw", "raised"}
  BY IdInRange DEF IInv, Accounted, TypeOK, CsvOpen, CsvClose, JsonOpen, JsonClose, WriteFails
<1>2. MyIds' = MyIds /\ Status' = Status
  BY <1>1 DEF MyIds, Status
<1>3. \A id \in MyIds : id < lastId => raw'[id] = raw[id] /\ id # lastId
  <2>1. \A id \in MyIds : id < lastId => id # lastId /\ id \in RunIds
    <3> DEFINE all == Len(Engines) * Attempts * MaxLives
    <3>1. all \in Int /\ RunIds = 1..all
      BY SweepFacts DEF RunIds
    <3> HIDE DEF all
    <3> QED
      BY <1>1, <3>1 DEF MyIds
  <2> QED
    BY <1>1, <2>1 DEF CsvOpen, CsvClose, JsonOpen, JsonClose, files, IInv, TypeOK
<1>4. \A id, st : InCsv(id, st) => InCsv(id, st)'
  <2>1. CASE CsvClose
    BY <2>1, CsvKept
  <2>2. CASE ~CsvClose
    <3>1. csv'.lines = csv.lines
      BY <2>2 DEF CsvOpen, Opened, JsonOpen, JsonClose, IInv, TypeOK
    <3> QED
      BY <3>1 DEF InCsv
  <2> QED
    BY <2>1, <2>2
<1>5. failures' = 0 => \A id \in MyIds' : id < lastId' => OkRecord(id)'
  <2>1. failures = 0 => \A id \in MyIds : id < lastId => OkRecord(id)
    BY <1>1 DEF IInv, Accounted
  <2> QED
    BY <1>1, <1>2, <1>3, <1>4, <2>1 DEF OkRecord, MyIds
<1>6. failures = 0 /\ lastId > begun + 1 => Whole
  BY <1>1 DEF IInv, Accounted
<1>7. CASE CsvOpen
  <2>1. pc' = "csvClose" /\ csv'.lines = csv.lines
    BY <1>7 DEF CsvOpen, Opened, IInv, TypeOK
  <2>2. Whole => Whole'
    BY <2>1 DEF Whole
  <2> QED
    BY <1>1, <1>5, <1>6, <2>1, <2>2 DEF Accounted
<1>8. CASE CsvClose
  <2>1. pc' = "jsonOpen" => Whole' /\ (Whole => InCsv(lastId, Status)')
    BY <1>8, CsvKept
  <2>2. pc' \in {"jsonOpen", "raised"} /\ code' = code
    BY <1>8 DEF CsvClose, WriteFails
  <2>3. CASE pc' = "raised"
    BY <1>1, <1>5, <2>3 DEF Accounted
  <2>4. CASE pc' = "jsonOpen"
    <3>1. Whole' /\ (failures = 0 => InCsv(lastId, Status)' \/ lastId = begun + 1)
      <4>1. lastId # begun + 1 /\ failures = 0 => Whole
        <5>1. begun < lastId
          BY <1>1, <1>8 DEF IInv, Numbered, TypeOK, CsvClose
        <5> QED
          BY <1>1, <1>6, <5>1
      <4> QED
        BY <2>1, <2>4, <4>1
    <3> QED
      BY <1>1, <1>5, <2>4, <3>1 DEF Accounted
  <2> QED
    BY <2>2, <2>3, <2>4
<1>9. CASE JsonOpen \/ JsonClose
  <2>1. /\ csv' = csv /\ pc' \in {"jsonClose", "s3raw", "raised"}
        /\ pc \in {"jsonOpen", "jsonClose"}
    BY <1>9 DEF JsonOpen, JsonClose, WriteFails
  <2>2. Whole /\ (failures = 0 => InCsv(lastId, Status) \/ lastId = begun + 1)
    BY <2>1 DEF IInv, Accounted
  <2>3. Whole' /\ (InCsv(lastId, Status) => InCsv(lastId, Status)')
    BY <1>1, <1>2, <2>1, <2>2 DEF Whole, InCsv
  <2> QED
    BY <1>1, <1>5, <2>1, <2>2, <2>3 DEF Accounted
<1> QED
  BY <1>7, <1>8, <1>9

\* Every step leaves no unrecorded attempt uncounted.
LEMMA AccountedNext ==
  ASSUME IInv, Next
  PROVE  Accounted'
BY AccountedKept, AccountedEnds, AccountedRecording DEF Next, Steps

-----------------------------------------------------------------------------

\* A sweep that starts.
LEMMA InitIInv ==
  ASSUME Init
  PROVE  IInv
<1> USE SweepFacts DEF Init
<1>1. <<>> \in Seq(Lines)
  OBVIOUS
<1>2. TypeOK
  <2>1. /\ proc \in 1..(Len(Engines) + 1) /\ pc \in Labels
        /\ made \in 0..Attempts /\ failures \in 0..Attempts
        /\ lastId \in Nat /\ begun \in Nat
        /\ lives \in 1..MaxLives /\ faults \in 0..MaxFaults
    BY DEF Labels
  <2>2. csv \in [exists : BOOLEAN, lines : Seq(Lines)] /\ s3csv \in Seq(Lines)
    BY <1>1
  <2>3. raw \in [RunIds -> {"none", "partial", "ok", "error"}] /\ s3raw \subseteq RunIds
    OBVIOUS
  <2> QED
    BY <2>1, <2>2, <2>3 DEF TypeOK
<1>3. MadeBefore(1, 1) = 0
  BY DEF MadeBefore
<1>4. Numbered /\ Fresh /\ RowFirst /\ SparkInside
  BY <1>3 DEF Numbered, Fresh, RowFirst, Complete, SparkInside, Running, Exiting,
     InAttempt, Unrecorded, Recorded
<1>5. S3CsvIsSnapshot /\ Accounted
  BY DEF S3CsvIsSnapshot, Accounted, Running, Exiting, Counting, Recorded
<1> QED
  BY <1>2, <1>4, <1>5 DEF IInv

\* A step that changes nothing.
LEMMA StutterIInv ==
  ASSUME IInv, UNCHANGED vars
  PROVE  IInv'
<1> USE DEF IInv, vars, process, attempt, files, s3, env
<1>1. TypeOK'
  BY DEF TypeOK
<1>2. Numbered' /\ Fresh' /\ SparkInside' /\ S3CsvIsSnapshot'
  BY DEF Numbered, Fresh, SparkInside, S3CsvIsSnapshot, InAttempt, Complete, Status
<1>3. RowFirst'
  BY DEF RowFirst, Complete, HasRow, Status
<1>4. Accounted'
  BY DEF Accounted, MyIds, OkRecord, InCsv, Whole, Status, InAttempt
<1> QED
  BY <1>1, <1>2, <1>3, <1>4

\* IInv is inductive.
LEMMA Inductive == Spec => []IInv
<1>1. IInv /\ [Next]_vars => IInv'
  <2> SUFFICES ASSUME IInv, [Next]_vars  PROVE IInv'
    OBVIOUS
  <2>1. CASE Next
    BY <2>1, TypeNext, NumberedNext, FreshNext, RowFirstNext, SnapshotNext,
       SparkInsideNext,
       AccountedNext DEF IInv
  <2>2. CASE UNCHANGED vars
    BY <2>2, StutterIInv
  <2> QED
    BY <2>1, <2>2
<1> QED
  BY InitIInv, <1>1, PTL DEF Spec

\* Every variable stays in its range, for any sweep and any number of failures.
THEOREM TypeCorrect == Spec => []TypeOK
<1>1. IInv => TypeOK
  BY DEF IInv
<1> QED
  BY <1>1, Inductive, PTL

\* A complete result that the CSV lacks is at the end of a line that was torn, and no
\* two of them are at the end of the same.
LEMMA LossesAreTears ==
  ASSUME TypeOK, RowFirst
  PROVE  CsvLosesOnlyAtTears
<1> DEFINE S == {id \in RunIds : Complete(id) /\ ~InCsv(id, raw[id])}
           T == {i \in 1..Len(csv.lines) : Torn(csv.lines[i])}
<1>1. Len(csv.lines) \in Nat
  BY DEF TypeOK
<1>2. IsFiniteSet(T)
  <2>1. IsFiniteSet(1..Len(csv.lines))
    BY <1>1, FS_Interval
  <2>2. T \in SUBSET (1..Len(csv.lines))
    OBVIOUS
  <2> QED
    BY <2>1, <2>2, FS_Subset
<1>3. ASSUME NEW id \in S
      PROVE  \E i \in T : i + 1 \in 1..Len(csv.lines) /\ csv.lines[i + 1].id = id
  <2>1. PICK j \in 1..Len(csv.lines) : csv.lines[j] = Row(id, raw[id])
    BY <1>3 DEF RowFirst, HasRow
  <2>2. j > 1 /\ Torn(csv.lines[j - 1])
    BY <1>3, <2>1 DEF InCsv
  <2>3. j - 1 \in T /\ (j - 1) + 1 = j
    BY <1>1, <2>2
  <2> QED
    BY <2>1, <2>3 DEF Row
<1> DEFINE f == [id \in S |-> CHOOSE i \in T :
                   i + 1 \in 1..Len(csv.lines) /\ csv.lines[i + 1].id = id]
<1>4. \A id \in S : f[id] \in T /\ csv.lines[f[id] + 1].id = id
  BY <1>3
<1>5. f \in [S -> T]
  BY <1>4
<1> HIDE DEF f, S, T
<1>6. f \in Injection(S, T)
  BY <1>4, <1>5 DEF Injection, IsInjective
<1>7. Cardinality(S) <= Cardinality(T)
  BY <1>2, <1>6, FS_Injection
<1> QED
  BY <1>7 DEF CsvLosesOnlyAtTears, S, T

\* Whatever fails, the CSV lacks at most one of the complete results for every line
\* torn.
THEOREM RowsCorrect == Spec => []CsvLosesOnlyAtTears
<1>1. IInv => CsvLosesOnlyAtTears
  BY LossesAreTears DEF IInv
<1> QED
  BY <1>1, Inductive, PTL

\* The CSV in S3 is always an earlier state of that of its cluster.
THEOREM SnapshotCorrect == Spec => []S3CsvIsSnapshot
<1>1. IInv => S3CsvIsSnapshot
  BY DEF IInv
<1> QED
  BY <1>1, Inductive, PTL

\* No way out of main() leaves Spark running.
THEOREM SparkCorrect == Spec => []SparkStopped
<1>1. IInv => SparkStopped
  BY DEF IInv, SparkInside, SparkStopped
<1> QED
  BY <1>1, Inductive, PTL

\* A process that exits with 0 made every attempt, and the CSV lacks at most its first.
THEOREM ExitCorrect == Spec => []ExitZeroMeansRecorded
<1>1. IInv => ExitZeroMeansRecorded
  <2> SUFFICES ASSUME IInv, pc \in {"exit", "launch"}, code = "zero"
               PROVE  /\ lastId = begun + Attempts
                      /\ \A id \in MyIds :
                           /\ raw[id] = "ok"
                           /\ InCsv(id, "ok") \/ (id = begun + 1 /\ Fused(id, "ok"))
    BY DEF ExitZeroMeansRecorded
  <2>1. lastId = begun + Attempts /\ \A id \in MyIds : OkRecord(id)
    BY DEF IInv, Accounted
  <2>2. ASSUME NEW id \in MyIds, ~InCsv(id, "ok")
        PROVE  Fused(id, "ok")
    <3>1. raw[id] = "ok" /\ id = begun + 1
      BY <2>1, <2>2 DEF OkRecord
    <3>2. id \in RunIds
      BY <2>2, MadeIds DEF IInv
    <3>3. PICK i \in 1..Len(csv.lines) : csv.lines[i] = Row(id, "ok")
      BY <3>1, <3>2 DEF IInv, RowFirst, Complete, HasRow
    <3>4. i > 1 /\ Torn(csv.lines[i - 1])
      BY <2>2, <3>3 DEF InCsv
    <3>5. i \in 2..Len(csv.lines)
      BY <3>4 DEF IInv, TypeOK
    <3> QED
      BY <3>3, <3>4, <3>5 DEF Fused
  <2> QED
    BY <2>1, <2>2 DEF OkRecord
<1> QED
  BY <1>1, Inductive, PTL

-----------------------------------------------------------------------------
(* The refinement of ResultLedger.                                         *)

local == {id \in RunIds : Complete(id)}

\* The end of a JSON file records a result, and no other step of a process does.
LEMMA StepImplements ==
  ASSUME IInv, Next
  PROVE  [Ledger!Next]_(Ledger!vars)
<1> USE SweepFacts DEF Goto, vars, process, attempt, files, s3, env
<1>0. pc \in InAttempt => lastId \in RunIds
  BY IdInRange DEF IInv
<1>1. CASE JsonClose
  <2>1. lastId \in RunIds /\ lastId \notin local \union s3raw
    BY <1>0, <1>1 DEF JsonClose, IInv, Fresh, InAttempt, Exiting, Unrecorded, local
  <2>2. CASE raw' = [raw EXCEPT ![lastId] = Status]
    <3>1. local' = local \union {lastId} /\ s3raw' = s3raw
      BY <1>1, <2>1, <2>2 DEF JsonClose, IInv, TypeOK, local, Complete, Status
    <3> QED
      BY <2>1, <3>1 DEF Ledger!Next, Ledger!Record, local
  <2>3. CASE raw' = raw
    BY <1>1, <2>3 DEF JsonClose, Ledger!vars, Complete
  <2> QED
    BY <1>1, <2>2, <2>3 DEF JsonClose
<1>2. CASE UploadRaw
  <2>1. lastId \in RunIds /\ lastId \in local /\ local' = local
    BY <1>0, <1>2 DEF UploadRaw, IInv, Fresh, Recorded, Status, InAttempt, Exiting, local,
       Complete
  <2>2. CASE s3raw' = s3raw \union {lastId}
    BY <2>1, <2>2 DEF Ledger!Next, Ledger!Mirror, local
  <2>3. CASE s3raw' = s3raw
    BY <2>1, <2>3 DEF Ledger!vars, local
  <2> QED
    BY <1>2, <2>2, <2>3 DEF UploadRaw
<1>3. CASE JsonOpen
  <2>1. local' = local /\ s3raw' = s3raw
    BY <1>0, <1>3 DEF JsonOpen, IInv, TypeOK, Fresh, Unrecorded, InAttempt, Exiting, local,
       Complete
  <2> QED
    BY <2>1 DEF Ledger!vars, local
<1>4. CASE RayDown
  <2>1. local' = {} /\ s3raw' = s3raw
    BY <1>4 DEF RayDown, local, Complete
  <2> QED
    BY <2>1 DEF Ledger!Next, Ledger!TearDown, local
<1>5. CASE raw' = raw /\ s3raw' = s3raw
  BY <1>5 DEF Ledger!vars, Complete
<1>6. (raw' = raw /\ s3raw' = s3raw) \/ JsonClose \/ UploadRaw \/ JsonOpen \/ RayDown
  BY DEF Next, Steps, Launch, RayInit, InitSpark, RegisterViews, NextAttempt, AfterExit,
     Finish, Unwind, Exit, Cost, CsvOpen, CsvClose, UploadCsv, Workload, Interrupt, Crash
<1> QED
  BY <1>1, <1>2, <1>3, <1>4, <1>5, <1>6

\* Whatever fails, the files and objects are a ledger: only complete results are
\* mirrored, none is recorded twice, and what was mirrored survives the cluster.
THEOREM LedgerCorrect == Spec => LedgerKept
<1>1. Init => Ledger!Init
  BY DEF Init, Ledger!Init, Complete
<1>2. IInv /\ [Next]_vars => [Ledger!Next]_(Ledger!vars)
  <2> SUFFICES ASSUME IInv, [Next]_vars  PROVE [Ledger!Next]_(Ledger!vars)
    OBVIOUS
  <2>1. CASE UNCHANGED vars
    BY <2>1 DEF vars, files, s3, Ledger!vars, Complete
  <2> QED
    BY <2>1, StepImplements
<1> QED
  BY <1>1, <1>2, Inductive, PTL DEF Spec, LedgerKept, Ledger!Spec

-----------------------------------------------------------------------------
(* The counter of failures.                                                *)

\* Attempts are finitely many.
LEMMA LostFinite ==
  ASSUME IInv
  PROVE  IsFiniteSet(Lost) /\ Cardinality(Lost) \in Nat
<1>1. begun + 1 \in Int /\ (IF pc \in InAttempt THEN lastId - 1 ELSE lastId) \in Int
  BY DEF IInv, TypeOK
<1>2. IsFiniteSet(Ended)
  BY <1>1, FS_Interval DEF Ended
<1>3. IsFiniteSet(Lost)
  BY <1>2, FS_Subset DEF Lost
<1> QED
  BY <1>3, FS_CardinalityType

\* The attempt that ends is counted when it left no complete record, and only then.
LEMMA AfterExitCounts ==
  ASSUME IInv, CountExact, AfterExit
  PROVE  CountExact'
<1> USE DEF Goto
<1>1. pc \in Left /\ pc \in InAttempt /\ pc \in Counting
  BY DEF AfterExit, Left, InAttempt, Running, Exiting, Counting
<1>2. /\ lastId \in Nat /\ begun \in Nat /\ failures \in Nat /\ made \in Nat
      /\ lastId = begun + made /\ failures < made /\ failures = Cardinality(Lost)
  BY <1>1, SweepFacts DEF Counting, IInv, TypeOK, Numbered, Accounted, CountExact
<1>3. CASE Propagating = "KeyboardInterrupt"
  BY <1>3 DEF AfterExit, CountExact, Counting
<1>4. CASE Propagating # "KeyboardInterrupt"
  <2>1. pc' = "loop" /\ lastId' = lastId /\ begun' = begun /\ raw' = raw /\ csv' = csv
    BY <1>4 DEF AfterExit, attempt, files
  <2>2. Ended = (begun + 1)..(lastId - 1) /\ Ended' = (begun + 1)..lastId
    BY <1>1, <2>1 DEF Ended, InAttempt, Exiting
  <2>3. Ended' = Ended \union {lastId} /\ lastId \notin Ended
    BY <1>2, <2>2
  <2>5. CASE Caught
    <3>1. raw[lastId] # "ok"
      BY <1>1, <2>5 DEF IInv, Fresh, Unrecorded, Recorded, Complete, Status, Caught,
         Propagating, Left
    <3>2. Lost' = Lost \union {lastId} /\ lastId \notin Lost
      BY <2>1, <2>3, <3>1 DEF Lost
    <3>3. Cardinality(Lost') = Cardinality(Lost) + 1
      BY <3>2, LostFinite, FS_AddElement
    <3> QED
      BY <1>2, <2>5, <3>3 DEF AfterExit, CountExact
  <2>6. CASE ~Caught
    <3>1. pc = "returned" /\ exc = "none"
      BY <1>1, <1>4, <2>6 DEF Caught, Propagating, Left, IInv, TypeOK
    <3>2. raw[lastId] = "ok"
      BY <3>1 DEF IInv, Fresh, Recorded, Status
    <3>3. Lost' = Lost
      BY <2>1, <2>3, <3>2 DEF Lost
    <3> QED
      BY <1>2, <2>6, <3>3 DEF AfterExit, CountExact
  <2> QED
    BY <2>5, <2>6
<1> QED
  BY <1>3, <1>4

\* Recording an attempt leaves the JSON files of those before it alone.
LEMMA RecordingKeeps ==
  ASSUME IInv, CsvOpen \/ CsvClose \/ JsonOpen \/ JsonClose
  PROVE  \A id \in Ended : raw'[id] = raw[id]
<1>1. pc \in InAttempt /\ lastId \in RunIds
  BY IdInRange DEF CsvOpen, CsvClose, JsonOpen, JsonClose, InAttempt, Exiting, IInv
<1>2. \A id \in Ended : id \in RunIds /\ id # lastId
  <2> DEFINE N == Len(Engines) * Attempts * MaxLives
  <2>1. N \in Int /\ RunIds = 1..N
    BY SweepFacts DEF RunIds
  <2>2. Ended = (begun + 1)..(lastId - 1) /\ begun \in Nat
    BY <1>1 DEF Ended, IInv, TypeOK
  <2> HIDE DEF N
  <2> QED
    BY <1>1, <2>1, <2>2
<1> QED
  BY <1>1, <1>2 DEF CsvOpen, CsvClose, JsonOpen, JsonClose, IInv, TypeOK

\* Every step leaves failures the number of lost attempts.
LEMMA CountNext ==
  ASSUME IInv, CountExact, Next
  PROVE  CountExact'
<1> USE DEF Goto, vars, process, attempt, files, s3, env, Counting
<1>1. CASE Launch
  <2>1. CASE pc' = "init"
    <3>1. begun' = lastId /\ lastId' = lastId /\ failures' = 0 /\ lastId \in Nat
      BY <1>1, <2>1 DEF Launch, IInv, TypeOK
    <3>2. Lost' = {}
      BY <2>1, <3>1 DEF Lost, Ended, InAttempt, Exiting
    <3> QED
      BY <3>1, <3>2, FS_EmptySet DEF CountExact
  <2>2. CASE pc' = "over"
    BY <2>2 DEF CountExact, Running, Exiting
  <2> QED
    BY <1>1, <2>1, <2>2 DEF Launch
<1>2. CASE AfterExit
  BY <1>2, AfterExitCounts
<1>3. CASE Finish \/ Unwind \/ Exit \/ Interrupt \/ Crash \/ RayDown
  BY <1>3 DEF CountExact, Finish, Unwind, Exit, Interrupt, Crash, RayDown, EndProcess,
     Running, Exiting
<1>4. CASE CsvOpen \/ CsvClose \/ JsonOpen \/ JsonClose
  <2>1. Ended' = Ended /\ failures' = failures /\ pc \in Counting
    BY <1>4 DEF CsvOpen, CsvClose, JsonOpen, JsonClose, WriteFails, Ended, InAttempt,
       Exiting, Running
  <2>2. Lost' = Lost
    BY <1>4, <2>1, RecordingKeeps DEF Lost
  <2> QED
    BY <2>1, <2>2 DEF CountExact
<1>5. CASE RayInit \/ InitSpark \/ RegisterViews \/ NextAttempt \/ Workload \/ Cost
           \/ UploadRaw
           \/ UploadCsv
  <2>1. CASE pc' \in Counting
    <3>1. /\ begun' = begun /\ failures' = failures /\ raw' = raw /\ csv' = csv
          /\ pc \in Counting
      BY <1>5, <2>1 DEF RayInit, InitSpark, RegisterViews, NextAttempt, Workload, Cost,
         UploadRaw,
         UploadCsv, EndProcess, Running, Exiting
    <3>2. Ended' = Ended
      <4>1. CASE NextAttempt
        BY <4>1 DEF NextAttempt, Ended, InAttempt, Exiting, IInv, TypeOK
      <4>2. CASE ~NextAttempt
        BY <1>5, <2>1, <3>1, <4>2 DEF RayInit, InitSpark, RegisterViews, Workload, Cost,
           UploadRaw,
           UploadCsv, EndProcess, Ended, InAttempt, Running, Exiting
      <4> QED
        BY <4>1, <4>2
    <3>3. Lost' = Lost
      BY <3>1, <3>2 DEF Lost
    <3> QED
      BY <3>1, <3>3 DEF CountExact
  <2>2. CASE pc' \notin Counting
    BY <2>2 DEF CountExact
  <2> QED
    BY <2>1, <2>2
<1> QED
  BY <1>1, <1>2, <1>3, <1>4, <1>5 DEF Next, Steps

\* Whatever fails, and however often, each attempt without a JSON file that says "ok"
\* is counted once.
THEOREM FailuresCorrect == Spec => []FailuresExact
<1>1. Init => CountExact
  <2> SUFFICES ASSUME Init  PROVE CountExact
    OBVIOUS
  <2> QED
    BY DEF Init, CountExact, Counting, Running, Exiting
<1>2. IInv /\ CountExact /\ [Next]_vars => CountExact'
  <2> SUFFICES ASSUME IInv, CountExact, [Next]_vars  PROVE CountExact'
    OBVIOUS
  <2>1. CASE Next
    BY <2>1, CountNext
  <2>2. CASE UNCHANGED vars
    BY <2>2 DEF vars, process, attempt, files, CountExact, Lost, Ended
  <2> QED
    BY <2>1, <2>2
<1>3. IInv /\ CountExact => FailuresExact
  <2> SUFFICES ASSUME IInv, CountExact, pc \in {"loop", "finish"}
               PROVE  failures = Cardinality({id \in MyIds : raw[id] # "ok"})
    BY DEF FailuresExact
  <2>1. Ended = MyIds
    BY DEF Ended, MyIds, InAttempt, Exiting
  <2> QED
    BY <2>1 DEF CountExact, Lost, Counting, Running
<1> QED
  BY <1>1, <1>2, <1>3, Inductive, PTL DEF Spec

-----------------------------------------------------------------------------
(* What is true of "append, stable header" (metrics.py:4).                 *)

\* The CSV has no header but as its first line.
HeaderAlone == \A i \in 1..Len(csv.lines) : csv.lines[i] = Header => i = 1

\* The header is written to a file that was not there when it was opened, and that
\* nothing has been written to since.
HeaderInv ==
  /\ HeaderAlone
  /\ ~csv.exists => csv.lines = <<>>
  /\ pc = "csvClose" => csv.exists /\ (newFile => csv.lines = <<>>)

\* HeaderAlone: a write that fails may leave the CSV without a header, as
\* HeaderFirst shows, but no failure and no interruption puts one between the rows
\* (metrics.py:69-80).
THEOREM HeaderCorrect == Spec => []HeaderAlone
<1>1. Init => HeaderInv
  BY DEF Init, HeaderInv, HeaderAlone
<1>2. IInv /\ HeaderInv /\ [Next]_vars => HeaderInv'
  <2> SUFFICES ASSUME IInv, HeaderInv, [Next]_vars
               PROVE  HeaderInv'
    OBVIOUS
  <2>1. CASE (CsvClose \/ Interrupt) /\ pc = "csvClose"
    <3>1. PICK e \in Seq(Lines) :
            /\ csv' = [csv EXCEPT !.lines = @ \o e]
            /\ \A i \in 1..Len(e) : e[i] = Header => newFile /\ i = 1
      BY <2>1, CsvWritten
    <3>5. /\ csv'.exists = csv.exists /\ csv'.lines = csv.lines \o e
          /\ csv.lines \in Seq(Lines)
      BY <3>1 DEF IInv, TypeOK
    <3>6. /\ Len(csv'.lines) = Len(csv.lines) + Len(e)
          /\ Len(csv.lines) \in Nat /\ Len(e) \in Nat
          /\ \A i \in 1..Len(csv.lines) : csv'.lines[i] = csv.lines[i]
          /\ \A i \in 1..Len(e) : csv'.lines[Len(csv.lines) + i] = e[i]
      BY <3>5, AppendKeeps
    <3>7. newFile => Len(csv.lines) = 0
      BY <2>1 DEF HeaderInv
    <3>8. ASSUME NEW j \in 1..Len(csv'.lines), csv'.lines[j] = Header
          PROVE  j = 1
      <4>1. CASE j \in 1..Len(csv.lines)
        BY <3>6, <3>8, <4>1 DEF HeaderInv, HeaderAlone
      <4>2. CASE j \notin 1..Len(csv.lines)
        <5>1. j - Len(csv.lines) \in 1..Len(e) /\ Len(csv.lines) + (j - Len(csv.lines)) = j
          BY <3>6, <4>2
        <5>2. e[j - Len(csv.lines)] = Header
          BY <3>6, <3>8, <5>1
        <5> QED
          BY <3>1, <3>6, <3>7, <5>1, <5>2
      <4> QED
        BY <4>1, <4>2
    <3>9. csv'.exists /\ pc' # "csvClose"
      BY <2>1, <3>5 DEF HeaderInv, CsvClose, Interrupt, WriteFails, Goto
    <3> QED
      BY <3>8, <3>9 DEF HeaderInv, HeaderAlone, Header
  <2>2. CASE CsvOpen
    BY <2>2 DEF CsvOpen, Opened, HeaderInv, HeaderAlone, IInv, TypeOK
  <2>3. CASE RayDown
    BY <2>3 DEF RayDown, HeaderInv, HeaderAlone, Goto
  <2>4. CASE csv' = csv /\ pc' # "csvClose"
    BY <2>4 DEF HeaderInv, HeaderAlone, Header
  <2>5. CASE UNCHANGED vars
    BY <2>5 DEF vars, attempt, files, HeaderInv, HeaderAlone, Header
  <2>6. CASE Launch \/ RayInit \/ InitSpark \/ RegisterViews \/ NextAttempt \/ AfterExit
             \/ Finish \/ Unwind \/ Exit
    BY <2>4, <2>6 DEF Launch, RayInit, InitSpark, RegisterViews, NextAttempt, AfterExit,
       Finish, Unwind, Exit, EndProcess, Goto, files
  <2>7. CASE Cost \/ JsonOpen \/ JsonClose \/ UploadRaw \/ UploadCsv \/ Workload \/ Crash
    BY <2>4, <2>7 DEF Cost, JsonOpen, JsonClose, UploadRaw, UploadCsv, Workload, Crash,
       WriteFails, EndProcess, Goto, files
  <2>8. CASE (CsvClose \/ Interrupt) /\ pc # "csvClose"
    BY <2>4, <2>8 DEF CsvClose, Interrupt, Goto
  <2> QED
    BY <2>1, <2>2, <2>3, <2>5, <2>6, <2>7, <2>8 DEF Next, Steps
<1>3. HeaderInv => HeaderAlone
  BY DEF HeaderInv
<1> QED
  BY <1>1, <1>2, <1>3, Inductive, PTL DEF Spec

=============================================================================

-------------------------- MODULE NodeMonitorProofs --------------------------
(***************************************************************************)
(* Safety of one NodeMonitor actor for every set of loads and any number   *)
(* of samples.  The inductive invariant IInv follows the numbers stop()    *)
(* has read: what it read earlier is related to what the two lists are     *)
(* now, whatever the daemon thread appended in between.                    *)
(***************************************************************************)
EXTENDS NodeMonitor, TLAPS

\* The positions of stop() after each of its reads.
PastMemMax  == {"returned"}
PastMemLen  == {"memMax"} \union PastMemMax
PastMemSum  == {"memLen"} \union PastMemLen
PastCpuMax  == {"memSum"} \union PastMemSum
PastCpuLen  == {"cpuMax"} \union PastCpuMax
PastCpuSum  == {"cpuLen"} \union PastCpuLen
PastSamples == {"cpuSum"} \union PastCpuSum
PastBindMem == {"samples"} \union PastSamples
PastBindCpu == {"bindMem"} \union PastBindMem
PastJoin    == {"bindCpu"} \union PastBindCpu

\* Appends to _cpu_samples the daemon thread makes after the event is set.
Pending == IF sampler = "cpu" THEN 1 ELSE 0

\* The two threads: the event is set by stop(), the lists grow in turn.
Threads ==
  /\ actor \in {"joining"} \union PastJoin => stopSet
  /\ stopSet => actor \in {"joining", "raised"} \union PastJoin
  /\ sampler = "none" => actor \in {"built", "raised"}
  /\ actor = "built" => sampler = "none"
  /\ sampler = "exit" => stopSet
  /\ joined => sampler \in Ended
  /\ lists["mem"].n <= lists["cpu"].n /\ lists["cpu"].n <= lists["mem"].n + 1
  /\ sampler \notin {"mem", "died"} => lists["cpu"].n = lists["mem"].n
  /\ sampler = "mem" => lists["cpu"].n = lists["mem"].n + 1

\* Each list: a sum of n loads that are at most max.
ListOK(l) == l.sum <= l.max * l.n /\ (l.n = 0 => l.sum = 0 /\ l.max = 0)

\* The bindings of cpu and mem: a list that was empty is replaced.
Bound(name, past) ==
  /\ name \in fallback =>
       /\ stopSet /\ actor \in past \union {"raised"}
       /\ lists["cpu"].n + Pending <= 1
       /\ joined => lists[name].n = 0
  /\ actor \in past => name \in fallback \/ lists[name].n > 0

\* The three reads of one list, in the order sum, len, max.
Average(name, sum, len, max, pastSum, pastLen, pastMax) ==
  /\ actor \in pastSum => report[sum] <= View(name).sum
  /\ actor \in pastLen => report[sum] <= View(name).max * report[len]
  /\ actor \in pastLen => report[len] > 0
  /\ actor \in pastMax => report[sum] <= report[max] * report[len]

\* The reported number of samples against the lists and the lengths read.
Skew ==
  /\ actor \in PastSamples =>
       report["samples"] <= lists["cpu"].n /\ lists["cpu"].n + Pending <= report["samples"] + 1
  /\ actor \in PastCpuLen => report["cpuLen"] - report["samples"] \in 0..1
  /\ actor \in PastMemLen => report["memLen"] - report["samples"] \in -1..1

\* After a join that succeeded every number read is the number of the list.
Exact ==
  joined =>
    /\ actor \in PastSamples => report["samples"] = lists["cpu"].n
    /\ actor \in PastCpuSum => report["cpuSum"] = lists["cpu"].sum
    /\ actor \in PastCpuMax => report["cpuMax"] = lists["cpu"].max
    /\ actor \in PastMemSum => report["memSum"] = lists["mem"].sum
    /\ actor \in PastMemMax => report["memMax"] = lists["mem"].max

IInv ==
  /\ TypeOK
  /\ Threads
  /\ ListOK(lists["cpu"]) /\ ListOK(lists["mem"])
  /\ Bound("cpu", PastBindCpu) /\ Bound("mem", PastBindMem)
  /\ Average("cpu", "cpuSum", "cpuLen", "cpuMax", PastCpuSum, PastCpuLen, PastCpuMax)
  /\ Average("mem", "memSum", "memLen", "memMax", PastMemSum, PastMemLen, PastMemMax)
  /\ Skew
  /\ Exact

-----------------------------------------------------------------------------

\* Multiplication by a natural number keeps the order: what an average needs
\* when the maximum grows after its length was read.
LEMMA TimesMonotone ==
  ASSUME NEW a \in Nat, NEW b \in Nat, NEW k \in Nat, a <= b
  PROVE  a * k <= b * k
<1>1. PICK d \in Nat : b = a + d
  <2>1. b - a \in Nat /\ b = a + (b - a)
    OBVIOUS
  <2> QED
    BY <2>1
<1>2. b * k = a * k + d * k /\ d * k \in Nat /\ a * k \in Nat
  BY <1>1
<1> QED
  BY <1>2

\* An append adds one load, and neither the sum nor the maximum gets smaller.
LEMMA PushFacts ==
  ASSUME NEW l \in ListType, NEW x \in Nat
  PROVE  /\ Push(l, x) \in ListType
         /\ Push(l, x).n = l.n + 1
         /\ l.sum <= Push(l, x).sum
         /\ l.max <= Push(l, x).max
         /\ ListOK(l) => ListOK(Push(l, x))
<1> DEFINE p == Push(l, x)
<1>1. /\ p \in ListType
      /\ p.n = l.n + 1
      /\ p.sum = l.sum + x
      /\ l.max <= p.max
      /\ x <= p.max
  BY DEF Push, ListType
<1>2. ASSUME ListOK(l)
      PROVE  ListOK(p)
  <2>1. l.sum <= l.max * l.n
    BY <1>2 DEF ListOK
  <2>2. l.max * l.n <= p.max * l.n
    BY <1>1, TimesMonotone DEF ListType
  <2>3. p.max * p.n = p.max * l.n + p.max
    BY <1>1 DEF ListType
  <2>4. /\ l.sum \in Nat /\ l.max * l.n \in Nat /\ p.max * l.n \in Nat
        /\ p.max * p.n \in Nat /\ p.max \in Nat /\ p.n # 0
    BY <1>1 DEF ListType
  <2> HIDE DEF p
  <2>5. p.sum <= p.max * p.n
    BY <1>1, <2>1, <2>2, <2>3, <2>4
  <2> QED
    BY <2>4, <2>5 DEF ListOK
<1> QED
  BY <1>1, <1>2 DEF ListType


\* The initial state and every step of either thread keep IInv.

\* The two lists are empty and nothing has been reported.
LEMMA InitInv == Init => IInv
<1> SUFFICES ASSUME Init
             PROVE  IInv
  OBVIOUS
<1>1. /\ actor = "built" /\ sampler = "none" /\ ~stopSet /\ ~joined /\ fallback = {}
      /\ lists["cpu"] = [n |-> 0, sum |-> 0, max |-> 0]
      /\ lists["mem"] = [n |-> 0, sum |-> 0, max |-> 0]
  BY DEF Init, EmptyList, ListNames
<1>2. TypeOK
  BY DEF Init, TypeOK, EmptyList, ListType, ListNames, Fields, SamplerStates, ActorStates
<1>3. actor \notin {"joining"} \union PastJoin
  BY <1>1 DEF PastMemMax, PastMemLen, PastMemSum, PastCpuMax, PastCpuLen, PastCpuSum,
              PastSamples, PastBindMem, PastBindCpu, PastJoin
<1>4. Threads /\ ListOK(lists["cpu"]) /\ ListOK(lists["mem"])
  BY <1>1, <1>3 DEF Threads, ListOK
<1>5. Bound("cpu", PastBindCpu) /\ Bound("mem", PastBindMem)
  BY <1>1, <1>3 DEF Bound, PastJoin, PastBindCpu
<1>6. /\ Average("cpu", "cpuSum", "cpuLen", "cpuMax", PastCpuSum, PastCpuLen, PastCpuMax)
      /\ Average("mem", "memSum", "memLen", "memMax", PastMemSum, PastMemLen, PastMemMax)
  BY <1>3 DEF Average, PastMemMax, PastMemLen, PastMemSum, PastCpuMax, PastCpuLen,
              PastCpuSum, PastSamples, PastBindMem, PastBindCpu, PastJoin
<1>7. Skew /\ Exact
  BY <1>1, <1>3 DEF Skew, Exact, PastMemMax, PastMemLen, PastMemSum, PastCpuMax,
                    PastCpuLen, PastCpuSum, PastSamples, PastBindMem, PastBindCpu, PastJoin
<1> QED
  BY <1>2, <1>4, <1>5, <1>6, <1>7 DEF IInv

\* An append of the daemon thread.  It relates what stop() has read to a list
\* that has grown since.
LEMMA AppendInv ==
  ASSUME IInv, NEW name \in ListNames, NEW loads \in SUBSET Nat,
         NEW next \in SamplerStates, Sample(name, loads, next),
         \/ name = "cpu" /\ next = "mem"
         \/ name = "mem" /\ next = "wait"
  PROVE  IInv'
<1>1. PICK x \in loads : lists' = [lists EXCEPT ![name] = Push(@, x)]
  BY DEF Sample
<1>2. lists[name] \in ListType /\ x \in Nat
  BY DEF IInv, TypeOK
<1>3. /\ lists'[name] = Push(lists[name], x)
      /\ \A other \in ListNames \ {name} : lists'[other] = lists[other]
      /\ lists' \in [ListNames -> ListType]
  BY <1>1, <1>2, PushFacts DEF IInv, TypeOK
<1>4. /\ sampler = name /\ sampler' = next
      /\ UNCHANGED <<stopSet, actor, joined, fallback, report>>
  BY DEF Sample
<1>5. TypeOK'
  BY <1>3, <1>4 DEF IInv, TypeOK
<1>6. /\ lists["cpu"].n \in Nat /\ lists["mem"].n \in Nat
      /\ name = "cpu" => /\ lists'["cpu"].n = lists["cpu"].n + 1
                         /\ lists'["mem"].n = lists["mem"].n
      /\ name = "mem" => /\ lists'["mem"].n = lists["mem"].n + 1
                         /\ lists'["cpu"].n = lists["cpu"].n
  <2>1. lists'[name].n = lists[name].n + 1
    BY <1>2, <1>3, PushFacts
  <2>2. \A other \in ListNames \ {name} : lists'[other].n = lists[other].n
    BY <1>3
  <2>3. \A n \in ListNames : lists[n].n \in Nat
    BY DEF IInv, TypeOK, ListType
  <2> QED
    BY <2>1, <2>2, <2>3 DEF ListNames
<1>7. Threads' /\ ~joined
  <2>1. ~joined
    BY <1>4 DEF IInv, Threads, Ended
  <2>2. CASE name = "cpu"
    BY <1>6, <1>4, <2>1, <2>2 DEF IInv, Threads, Ended
  <2>3. CASE name = "mem"
    BY <1>6, <1>4, <2>1, <2>3 DEF IInv, Threads, Ended
  <2> QED
    BY <2>1, <2>2, <2>3 DEF ListNames
<1>8. ASSUME NEW n \in ListNames
      PROVE  ListOK(lists'[n])
  <2>1. ListOK(lists[n])
    BY DEF IInv, ListNames
  <2>2. CASE n = name
    BY <1>2, <1>3, <2>1, <2>2, PushFacts
  <2>3. CASE n # name
    BY <1>3, <2>1, <2>3
  <2> QED
    BY <2>2, <2>3
<1>9. ASSUME NEW n \in ListNames
      PROVE  /\ lists'[n].n >= lists[n].n
             /\ lists'[n].sum >= lists[n].sum
             /\ lists'[n].max >= lists[n].max
             /\ lists[n] \in ListType
             /\ lists'[n] \in ListType
  <2>1. lists[n] \in ListType
    BY DEF IInv, TypeOK
  <2>2. CASE n = name
    <3>1. /\ Push(lists[n], x) \in ListType
          /\ Push(lists[n], x).n = lists[n].n + 1
          /\ lists[n].sum <= Push(lists[n], x).sum
          /\ lists[n].max <= Push(lists[n], x).max
      BY <1>2, <2>2, PushFacts
    <3> QED
      BY <1>3, <2>1, <2>2, <3>1 DEF ListType
  <2>3. CASE n # name
    BY <1>3, <2>1, <2>3 DEF ListType
  <2> QED
    BY <2>2, <2>3
<1>10. lists'["cpu"].n + Pending' = lists["cpu"].n + Pending
  BY <1>6, <1>4 DEF Pending
<1>11. Bound("cpu", PastBindCpu)' /\ Bound("mem", PastBindMem)'
  BY <1>4, <1>7, <1>9, <1>10 DEF IInv, Bound, ListNames, ListType
<1>12. ASSUME NEW n \in ListNames
       PROVE  /\ View(n)' \in ListType /\ View(n) \in ListType
              /\ View(n)'.sum >= View(n).sum
              /\ View(n)'.max >= View(n).max
  BY <1>4, <1>9 DEF View, Push, EmptyList, ListType
<1>13. ASSUME NEW n \in ListNames, NEW sum \in Fields, NEW len \in Fields, NEW max \in Fields,
              NEW pastSum, NEW pastLen, NEW pastMax,
              Average(n, sum, len, max, pastSum, pastLen, pastMax)
       PROVE  Average(n, sum, len, max, pastSum, pastLen, pastMax)'
  <2>1. report \in [Fields -> Nat]
    BY DEF IInv, TypeOK
  <2>2. View(n).max * report[len] <= View(n)'.max * report[len]
    BY <1>12, <2>1, TimesMonotone DEF ListType
  <2>3. View(n).max * report[len] \in Nat /\ View(n)'.max * report[len] \in Nat
    BY <1>12, <2>1 DEF ListType
  <2> QED
    BY <1>4, <1>12, <1>13, <2>1, <2>2, <2>3 DEF Average, ListType
<1>14. /\ Average("cpu", "cpuSum", "cpuLen", "cpuMax", PastCpuSum, PastCpuLen, PastCpuMax)'
       /\ Average("mem", "memSum", "memLen", "memMax", PastMemSum, PastMemLen, PastMemMax)'
  <2>1. {"cpuSum", "cpuLen", "cpuMax", "memSum", "memLen", "memMax"} \subseteq Fields
    BY DEF Fields
  <2> QED
    BY <1>13, <2>1 DEF IInv, ListNames
<1>15. Skew'
  BY <1>4, <1>9, <1>10 DEF IInv, Skew, ListNames, ListType, TypeOK, Fields
<1>16. Exact'
  BY <1>4, <1>7 DEF Exact
<1> QED
  BY <1>5, <1>7, <1>8, <1>11, <1>14, <1>15, <1>16 DEF IInv, ListNames

\* The daemon thread tests the event, or its wait is over.
LEMMA LoopInv ==
  ASSUME IInv, LoopCheck \/ LoopWait
  PROVE  IInv'
<1>1. /\ sampler \in {"check", "wait"} /\ sampler' \in {"exit", "cpu", "check"}
      /\ sampler' = "exit" => stopSet
      /\ sampler' = "cpu" => ~stopSet
      /\ UNCHANGED <<stopSet, lists, actor, joined, fallback, report>>
  BY DEF LoopCheck, LoopWait
<1>2. TypeOK' /\ Threads' /\ ~joined
  BY <1>1 DEF IInv, TypeOK, Threads, SamplerStates, Ended
<1>3. Pending' = Pending \/ ~stopSet
  BY <1>1 DEF Pending
<1>4. ~stopSet =>
        actor \notin PastBindCpu \union PastBindMem \union PastSamples \union PastCpuLen \union PastMemLen
  BY DEF IInv, Threads, PastMemMax, PastMemLen, PastMemSum, PastCpuMax, PastCpuLen, PastCpuSum,
         PastSamples, PastBindMem, PastBindCpu, PastJoin
<1>5. Bound("cpu", PastBindCpu)' /\ Bound("mem", PastBindMem)'
  BY <1>1, <1>3, <1>4 DEF IInv, Bound
<1>6. Skew'
  BY <1>1, <1>3, <1>4 DEF IInv, Skew
<1> QED
  BY <1>1, <1>2, <1>5, <1>6 DEF IInv, ListOK, Average, View, Exact

\* psutil raises in the daemon thread: there is one append less to come.
LEMMA SamplerRaisesInv ==
  ASSUME IInv, SamplerRaises
  PROVE  IInv'
<1>1. /\ sampler \in {"cpu", "mem"} /\ sampler' = "died"
      /\ UNCHANGED <<stopSet, lists, actor, joined, fallback, report>>
  BY DEF SamplerRaises
<1>2. TypeOK' /\ Threads'
  BY <1>1 DEF IInv, TypeOK, Threads, SamplerStates, Ended
<1>3. lists["cpu"].n \in Nat /\ Pending \in 0..1 /\ Pending' = 0
  BY <1>1 DEF IInv, TypeOK, ListType, ListNames, Pending
<1>4. Bound("cpu", PastBindCpu)' /\ Bound("mem", PastBindMem)'
  BY <1>1, <1>3 DEF IInv, Bound
<1>5. Skew'
  <2>1. report["samples"] \in Nat
    BY DEF IInv, TypeOK, Fields
  <2> QED
    BY <1>1, <1>3, <2>1 DEF IInv, Skew
<1> QED
  BY <1>1, <1>2, <1>4, <1>5 DEF IInv, ListOK, Average, View, Exact

-----------------------------------------------------------------------------
(* The steps of the actor thread.                                          *)

\* What stop() sees of a list it has bound: at least one element, and a sum
\* that is at most the maximum for each of them.
LEMMA ViewFacts ==
  ASSUME IInv, NEW name \in ListNames,
         \/ name = "cpu" /\ actor \in PastBindCpu
         \/ name = "mem" /\ actor \in PastBindMem
  PROVE  /\ View(name) \in ListType
         /\ View(name).n > 0
         /\ View(name).sum <= View(name).max * View(name).n
<1>1. lists[name] \in ListType /\ ListOK(lists[name])
  BY DEF IInv, TypeOK, ListNames
<1>2. CASE name \in fallback
  <2>1. View(name) = [n |-> 1, sum |-> 0, max |-> 0]
    BY <1>2 DEF View, Push, EmptyList
  <2> QED
    BY <2>1 DEF ListType
<1>3. CASE name \notin fallback
  <2>1. lists[name].n > 0
    BY <1>3 DEF IInv, Bound
  <2> QED
    BY <1>1, <1>3, <2>1 DEF View, ListOK
<1> QED
  BY <1>2, <1>3

\* start(), and stop() up to the end of the join.
LEMMA JoinInv ==
  ASSUME IInv, Start \/ StopBegin \/ JoinDone \/ JoinTimeout
  PROVE  IInv'
<1> DEFINE Early == {"built", "started", "joining"}
<1>1. /\ PastBindMem \subseteq PastBindCpu /\ PastSamples \subseteq PastBindCpu
      /\ PastCpuSum \subseteq PastBindCpu /\ PastCpuLen \subseteq PastBindCpu
      /\ PastCpuMax \subseteq PastBindCpu /\ PastMemSum \subseteq PastBindCpu
      /\ PastMemLen \subseteq PastBindCpu /\ PastMemMax \subseteq PastBindCpu
      /\ Early \intersect PastBindCpu = {} /\ "bindCpu" \notin PastBindCpu
      /\ PastJoin = {"bindCpu"} \union PastBindCpu
  BY DEF PastMemMax, PastMemLen, PastMemSum, PastCpuMax, PastCpuLen, PastCpuSum,
         PastSamples, PastBindMem, PastBindCpu, PastJoin
<1>2. actor \in Early => (stopSet <=> actor = "joining")
  BY <1>1 DEF IInv, Threads
<1>3. /\ actor \in Early /\ actor' \in Early \union {"bindCpu"}
      /\ \/ sampler' = sampler /\ sampler # "none"
         \/ sampler' = "check" /\ sampler = "none"
      /\ joined' => sampler' \in Ended
      /\ actor' # "built"
      /\ stopSet' <=> actor' \in {"joining", "bindCpu"}
      /\ stopSet => stopSet'
      /\ UNCHANGED <<lists, fallback, report>>
  <2>1. /\ stopSet \in BOOLEAN /\ joined \in BOOLEAN
        /\ joined => sampler \in Ended
        /\ sampler = "none" => actor \in {"built", "raised"}
        /\ actor = "built" => sampler = "none"
    BY DEF IInv, TypeOK, Threads
  <2>2. CASE Start
    <3>1. /\ actor = "built" /\ actor' = "started" /\ sampler' = "check"
          /\ UNCHANGED <<stopSet, lists, joined, fallback, report>>
      BY <2>2 DEF Start
    <3>2. ~stopSet /\ sampler = "none" /\ ~joined
      BY <1>2, <2>1, <3>1 DEF Ended
    <3> QED
      BY <3>1, <3>2
  <2>3. CASE StopBegin
    <3>1. /\ actor = "started" /\ actor' = "joining" /\ stopSet' = TRUE
          /\ UNCHANGED <<sampler, lists, joined, fallback, report>>
      BY <2>3 DEF StopBegin
    <3> QED
      BY <2>1, <3>1
  <2>4. CASE JoinDone \/ JoinTimeout
    <3>1. /\ actor = "joining" /\ actor' = "bindCpu" /\ (joined' = joined \/ sampler \in Ended)
          /\ UNCHANGED <<stopSet, sampler, lists, fallback, report>>
      BY <2>4 DEF JoinDone, JoinTimeout
    <3> QED
      BY <1>2, <2>1, <3>1
  <2> QED
    BY <2>2, <2>3, <2>4
<1>4. /\ actor \notin PastBindCpu /\ actor' \notin PastBindCpu
      /\ actor' \in {"joining"} \union PastJoin <=> actor' \in {"joining", "bindCpu"}
  BY <1>3, <1>1
<1>5. TypeOK'
  <2>1. stopSet' \in BOOLEAN /\ joined' \in BOOLEAN
    BY DEF Start, StopBegin, JoinDone, JoinTimeout, IInv, TypeOK
  <2> QED
    BY <1>3, <2>1 DEF IInv, TypeOK, ActorStates, SamplerStates, After
<1>6. Threads'
  <2>1. sampler' = "exit" => stopSet'
    BY <1>3 DEF IInv, Threads
  <2>2. /\ sampler' \in {"mem", "died"} => sampler = sampler'
        /\ sampler' = "mem" => sampler = "mem"
        /\ sampler' \notin {"mem", "died"} => sampler \notin {"mem", "died"}
        /\ sampler' # "none"
    BY <1>3
  <2> QED
    BY <1>3, <1>4, <2>1, <2>2 DEF IInv, Threads
<1>7. Bound("cpu", PastBindCpu)' /\ Bound("mem", PastBindMem)'
  BY <1>3, <1>4, <1>1 DEF IInv, Bound
<1>8. /\ Average("cpu", "cpuSum", "cpuLen", "cpuMax", PastCpuSum, PastCpuLen, PastCpuMax)'
      /\ Average("mem", "memSum", "memLen", "memMax", PastMemSum, PastMemLen, PastMemMax)'
      /\ Skew' /\ Exact'
  BY <1>4, <1>1 DEF Average, Skew, Exact
<1> QED
  BY <1>3, <1>5, <1>6, <1>7, <1>8 DEF IInv, ListOK

\* self._cpu_samples or [0.0], and the same of _mem_used_gb.
LEMMA BindInv ==
  ASSUME IInv, Bind("bindCpu", "cpu") \/ Bind("bindMem", "mem")
  PROVE  IInv'
<1>1. \/ /\ actor = "bindCpu" /\ actor' = "bindMem"
         /\ fallback' = IF lists["cpu"].n = 0 THEN fallback \union {"cpu"} ELSE fallback
      \/ /\ actor = "bindMem" /\ actor' = "samples"
         /\ fallback' = IF lists["mem"].n = 0 THEN fallback \union {"mem"} ELSE fallback
  BY DEF Bind, After
<1>2. UNCHANGED <<stopSet, sampler, lists, joined, report>>
  BY DEF Bind
<1>3. /\ actor \in PastJoin /\ actor' \in PastJoin
      /\ {actor, actor'} \intersect PastSamples = {}
      /\ PastCpuSum \subseteq PastSamples /\ PastCpuLen \subseteq PastSamples
      /\ PastCpuMax \subseteq PastSamples /\ PastMemSum \subseteq PastSamples
      /\ PastMemLen \subseteq PastSamples /\ PastMemMax \subseteq PastSamples
  BY <1>1 DEF PastMemMax, PastMemLen, PastMemSum, PastCpuMax, PastCpuLen, PastCpuSum,
              PastSamples, PastBindMem, PastBindCpu, PastJoin
<1>4. TypeOK'
  BY <1>1, <1>2 DEF IInv, TypeOK, ActorStates, After, ListNames
<1>5. Threads'
  <2>1. {actor, actor'} \intersect {"built", "raised"} = {}
    BY <1>1
  <2> QED
    BY <1>2, <1>3, <2>1 DEF IInv, Threads
<1>6. /\ lists["cpu"].n \in Nat /\ lists["mem"].n \in Nat
      /\ lists["mem"].n <= lists["cpu"].n /\ lists["cpu"].n <= lists["mem"].n + 1
      /\ sampler = "cpu" => lists["cpu"].n = lists["mem"].n
      /\ joined /\ lists["mem"].n = 0 => sampler # "cpu"
      /\ stopSet
  BY <1>3 DEF IInv, TypeOK, ListType, ListNames, Threads, Ended
<1>7. Bound("cpu", PastBindCpu)'
  <2>1. actor' \in PastBindCpu /\ ("bindMem" \in PastBindCpu) /\ ("bindCpu" \notin PastBindCpu)
    BY <1>1 DEF PastMemMax, PastMemLen, PastMemSum, PastCpuMax, PastCpuLen, PastCpuSum,
              PastSamples, PastBindMem, PastBindCpu
  <2> QED
    BY <1>1, <1>2, <1>6, <2>1 DEF IInv, Bound, Pending
<1>8. Bound("mem", PastBindMem)'
  <2>1. /\ actor \notin PastBindMem
        /\ actor' \in PastBindMem <=> actor = "bindMem"
    BY <1>1 DEF PastMemMax, PastMemLen, PastMemSum, PastCpuMax, PastCpuLen, PastCpuSum,
              PastSamples, PastBindMem
  <2> QED
    BY <1>1, <1>2, <1>6, <2>1 DEF IInv, Bound, Pending
<1>9. /\ Average("cpu", "cpuSum", "cpuLen", "cpuMax", PastCpuSum, PastCpuLen, PastCpuMax)'
      /\ Average("mem", "memSum", "memLen", "memMax", PastMemSum, PastMemLen, PastMemMax)'
      /\ Skew' /\ Exact'
  BY <1>3 DEF Average, Skew, Exact
<1> QED
  BY <1>2, <1>4, <1>5, <1>7, <1>8, <1>9 DEF IInv, ListOK

\* start() or stop() raises: the driver gets no report.
LEMMA CallRaisesInv ==
  ASSUME IInv, CallRaises
  PROVE  IInv'
<1>1. /\ actor \in {"built", "bindCpu", "memMax"} /\ actor' = "raised"
      /\ UNCHANGED <<stopSet, sampler, lists, joined, fallback, report>>
  BY DEF CallRaises
<1>2. /\ "raised" \notin {"joining"} \union PastJoin
      /\ PastBindCpu \subseteq PastJoin /\ PastBindMem \subseteq PastJoin
      /\ PastSamples \subseteq PastJoin /\ PastCpuSum \subseteq PastJoin
      /\ PastCpuLen \subseteq PastJoin /\ PastCpuMax \subseteq PastJoin
      /\ PastMemSum \subseteq PastJoin /\ PastMemLen \subseteq PastJoin
      /\ PastMemMax \subseteq PastJoin
  BY DEF PastMemMax, PastMemLen, PastMemSum, PastCpuMax, PastCpuLen, PastCpuSum, PastSamples,
         PastBindMem, PastBindCpu, PastJoin
<1>3. TypeOK' /\ Threads'
  BY <1>1, <1>2 DEF IInv, TypeOK, Threads, ActorStates
<1>4. Bound("cpu", PastBindCpu)' /\ Bound("mem", PastBindMem)'
  BY <1>1, <1>2 DEF IInv, Bound, Pending
<1>5. /\ Average("cpu", "cpuSum", "cpuLen", "cpuMax", PastCpuSum, PastCpuLen, PastCpuMax)'
      /\ Average("mem", "memSum", "memLen", "memMax", PastMemSum, PastMemLen, PastMemMax)'
      /\ Skew' /\ Exact'
  BY <1>1, <1>2 DEF Average, Skew, Exact
<1> QED
  BY <1>1, <1>3, <1>4, <1>5 DEF IInv, ListOK

\* The reads of the return statement, in the order of evaluation.
Reads ==
  \/ Read("samples", lists["cpu"].n)
  \/ Read("cpuSum", View("cpu").sum)
  \/ Read("cpuLen", View("cpu").n)
  \/ Read("cpuMax", View("cpu").max)
  \/ Read("memSum", View("mem").sum)
  \/ Read("memLen", View("mem").n)
  \/ Read("memMax", View("mem").max)

\* A read changes nothing but the report and the position of stop().
LEMMA ReadFrame ==
  ASSUME IInv, Reads
  PROVE  /\ TypeOK' /\ Threads'
         /\ ListOK(lists["cpu"])' /\ ListOK(lists["mem"])'
         /\ Bound("cpu", PastBindCpu)' /\ Bound("mem", PastBindMem)'
         /\ View("cpu") \in ListType /\ View("mem") \in ListType
         /\ View("cpu").n > 0 /\ View("cpu").sum <= View("cpu").max * View("cpu").n
         /\ View("mem").n > 0 /\ View("mem").sum <= View("mem").max * View("mem").n
<1>1. /\ actor \in {"samples"} \union (PastSamples \ {"returned"})
      /\ actor' = After[actor]
      /\ UNCHANGED <<stopSet, sampler, lists, joined, fallback>>
  BY DEF Reads, Read, PastSamples, PastCpuSum, PastCpuLen, PastCpuMax, PastMemSum, PastMemLen,
         PastMemMax
<1>2. /\ actor' \in PastSamples
      /\ PastSamples \subseteq PastBindMem
      /\ PastBindMem \subseteq PastBindCpu /\ PastBindCpu \subseteq PastJoin
      /\ {actor, actor'} \subseteq PastBindMem
      /\ {"built", "raised"} \intersect PastJoin = {}
      /\ PastBindMem \subseteq ActorStates
  BY <1>1 DEF After, ActorStates, PastMemMax, PastMemLen, PastMemSum, PastCpuMax, PastCpuLen,
              PastCpuSum, PastSamples, PastBindMem, PastBindCpu, PastJoin
<1>3. /\ View("cpu") \in ListType /\ View("mem") \in ListType
      /\ View("cpu").n > 0 /\ View("cpu").sum <= View("cpu").max * View("cpu").n
      /\ View("mem").n > 0 /\ View("mem").sum <= View("mem").max * View("mem").n
  BY <1>2, ViewFacts DEF ListNames
<1>4. TypeOK'
  <2>1. lists["cpu"].n \in Nat
    BY DEF IInv, TypeOK, ListType, ListNames
  <2>2. \E f \in Fields, v \in Nat : report' = [report EXCEPT ![f] = v]
    BY <1>3, <2>1 DEF Reads, Read, Fields, ListType
  <2> QED
    BY <1>1, <1>2, <2>2 DEF IInv, TypeOK
<1>5. Threads'
  BY <1>1, <1>2 DEF IInv, Threads
<1>6. Bound("cpu", PastBindCpu)' /\ Bound("mem", PastBindMem)'
  BY <1>1, <1>2 DEF IInv, Bound, Pending
<1>7. ListOK(lists["cpu"])' /\ ListOK(lists["mem"])'
  BY <1>1 DEF IInv
<1> QED
  BY <1>3, <1>4, <1>5, <1>6, <1>7

\* The averages: each read is related to the one before it.
LEMMA ReadAverage ==
  ASSUME IInv, Reads
  PROVE  /\ Average("cpu", "cpuSum", "cpuLen", "cpuMax", PastCpuSum, PastCpuLen, PastCpuMax)'
         /\ Average("mem", "memSum", "memLen", "memMax", PastMemSum, PastMemLen, PastMemMax)'
<1>1. /\ View("cpu") \in ListType /\ View("mem") \in ListType
      /\ View("cpu").n > 0 /\ View("cpu").sum <= View("cpu").max * View("cpu").n
      /\ View("mem").n > 0 /\ View("mem").sum <= View("mem").max * View("mem").n
      /\ report \in [Fields -> Nat]
  BY ReadFrame DEF IInv, TypeOK
<1>2. View("cpu")' = View("cpu") /\ View("mem")' = View("mem")
  BY DEF Reads, Read, View
<1>3. /\ Average("cpu", "cpuSum", "cpuLen", "cpuMax", PastCpuSum, PastCpuLen, PastCpuMax)
      /\ Average("mem", "memSum", "memLen", "memMax", PastMemSum, PastMemLen, PastMemMax)
  BY DEF IInv
<1> USE DEF Average, Read, After, Fields, ListType, PastMemMax, PastMemLen, PastMemSum,
            PastCpuMax, PastCpuLen, PastCpuSum
<1>4. CASE Read("samples", lists["cpu"].n)
  BY <1>1, <1>2, <1>3, <1>4
<1>5. CASE Read("cpuSum", View("cpu").sum)
  BY <1>1, <1>2, <1>3, <1>5
<1>6. CASE Read("cpuLen", View("cpu").n)
  BY <1>1, <1>2, <1>3, <1>6
<1>7. CASE Read("cpuMax", View("cpu").max)
  BY <1>1, <1>2, <1>3, <1>7
<1>8. CASE Read("memSum", View("mem").sum)
  BY <1>1, <1>2, <1>3, <1>8
<1>9. CASE Read("memLen", View("mem").n)
  BY <1>1, <1>2, <1>3, <1>9
<1>10. CASE Read("memMax", View("mem").max)
  BY <1>1, <1>2, <1>3, <1>10
<1> QED
  BY <1>4, <1>5, <1>6, <1>7, <1>8, <1>9, <1>10 DEF Reads

\* The arithmetic of the two lengths: c and m are the lengths of the lists, p
\* the append still to come, r the number of samples read, v and w what stop()
\* sees of the lists.
LEMMA SkewArithmetic ==
  ASSUME NEW c \in Nat, NEW m \in Nat, NEW p \in 0..1, NEW r \in Nat, NEW v \in Nat,
         NEW w \in Nat, c - m \in 0..1, r <= c, c + p <= r + 1,
         v = c \/ (v = 1 /\ c + p <= 1),
         w = m \/ (w = 1 /\ c + p <= 1)
  PROVE  c <= r + 1 /\ v - r \in 0..1 /\ w - r \in -1..1
OBVIOUS

\* The number of samples and the two lengths: the daemon thread appends at most
\* once more after the event was set.
LEMMA ReadSkew ==
  ASSUME IInv, Reads
  PROVE  Skew'
<1>1. /\ lists["cpu"].n \in Nat /\ lists["mem"].n \in Nat /\ Pending \in 0..1
      /\ lists["cpu"].n - lists["mem"].n \in 0..1
      /\ lists["mem"].n = 0 => lists["cpu"].n + Pending <= 1
      /\ report \in [Fields -> Nat]
      /\ sampler' = sampler /\ lists' = lists
  BY DEF IInv, TypeOK, Threads, ListType, ListNames, Pending, Reads, Read
<1>2. /\ \/ View("cpu").n = lists["cpu"].n
         \/ View("cpu").n = 1 /\ lists["cpu"].n + Pending <= 1
      /\ \/ View("mem").n = lists["mem"].n
         \/ View("mem").n = 1 /\ lists["cpu"].n + Pending <= 1
  BY DEF View, Push, EmptyList, IInv, Bound
<1>3. Skew
  BY DEF IInv
<1>4. /\ report["samples"] \in Nat
      /\ actor \in PastSamples =>
           /\ report["samples"] <= lists["cpu"].n
           /\ lists["cpu"].n <= report["samples"] + 1
           /\ View("cpu").n - report["samples"] \in 0..1
           /\ View("mem").n - report["samples"] \in -1..1
  <2>1. report["samples"] \in Nat /\ View("cpu").n \in Nat /\ View("mem").n \in Nat
    BY <1>1, <1>2 DEF Fields
  <2>2. SUFFICES ASSUME actor \in PastSamples
                 PROVE  /\ report["samples"] <= lists["cpu"].n
                        /\ lists["cpu"].n <= report["samples"] + 1
                        /\ View("cpu").n - report["samples"] \in 0..1
                        /\ View("mem").n - report["samples"] \in -1..1
    BY <2>1
  <2>3. report["samples"] <= lists["cpu"].n /\ lists["cpu"].n + Pending <= report["samples"] + 1
    BY <1>3, <2>2 DEF Skew
  <2>4. /\ lists["cpu"].n \in Nat /\ lists["mem"].n \in Nat /\ Pending \in 0..1
        /\ lists["cpu"].n - lists["mem"].n \in 0..1
    BY <1>1
  <2>5. PICK c \in Nat, m \in Nat, p \in 0..1, r \in Nat, v \in Nat, w \in Nat :
          /\ c = lists["cpu"].n /\ m = lists["mem"].n /\ p = Pending
          /\ r = report["samples"] /\ v = View("cpu").n /\ w = View("mem").n
    BY <2>1, <2>4
  <2>6. /\ c - m \in 0..1 /\ r <= c /\ c + p <= r + 1
        /\ v = c \/ (v = 1 /\ c + p <= 1)
        /\ w = m \/ (w = 1 /\ c + p <= 1)
    BY <1>2, <2>3, <2>4, <2>5
  <2>7. c <= r + 1 /\ v - r \in 0..1 /\ w - r \in -1..1
    BY <2>6, SkewArithmetic
  <2> QED
    BY <2>5, <2>6, <2>7
<1> USE DEF Skew, Pending, Read, After, Fields, PastMemMax, PastMemLen, PastMemSum,
            PastCpuMax, PastCpuLen, PastCpuSum, PastSamples
<1>5. CASE Read("samples", lists["cpu"].n)
  BY <1>1, <1>2, <1>3, <1>5
<1>6. CASE Read("cpuSum", View("cpu").sum)
  BY <1>1, <1>2, <1>3, <1>6
<1>7. CASE Read("cpuLen", View("cpu").n)
  <2>1. View("cpu").n - report["samples"] \in 0..1
    BY <1>4, <1>7
  <2>2. /\ actor' = "cpuMax" /\ report'["cpuLen"] = View("cpu").n
        /\ report'["samples"] = report["samples"]
    BY <1>1, <1>7
  <2> QED
    BY <1>1, <1>3, <1>7, <2>1, <2>2
<1>8. CASE Read("cpuMax", View("cpu").max)
  BY <1>1, <1>2, <1>3, <1>8
<1>9. CASE Read("memSum", View("mem").sum)
  BY <1>1, <1>2, <1>3, <1>9
<1>10. CASE Read("memLen", View("mem").n)
  <2>1. View("mem").n - report["samples"] \in -1..1
    BY <1>4, <1>10
  <2>2. /\ actor' = "memMax" /\ report'["memLen"] = View("mem").n
        /\ report'["samples"] = report["samples"]
        /\ report'["cpuLen"] = report["cpuLen"]
    BY <1>1, <1>10
  <2> QED
    BY <1>1, <1>3, <1>10, <2>1, <2>2
<1>11. CASE Read("memMax", View("mem").max)
  BY <1>1, <1>2, <1>3, <1>11
<1> QED
  BY <1>5, <1>6, <1>7, <1>8, <1>9, <1>10, <1>11 DEF Reads

\* After a join that succeeded nothing is appended any more, and a list that is
\* empty has the sum and the maximum of the list [0.0].
LEMMA ReadExact ==
  ASSUME IInv, Reads
  PROVE  Exact'
<1>1. SUFFICES ASSUME joined
               PROVE  Exact'
  BY DEF Reads, Read, Exact
<1>2. /\ View("cpu").sum = lists["cpu"].sum /\ View("cpu").max = lists["cpu"].max
      /\ View("mem").sum = lists["mem"].sum /\ View("mem").max = lists["mem"].max
  <2>1. CASE "cpu" \in fallback
    BY <1>1, <2>1 DEF View, Push, EmptyList, IInv, Bound, ListOK
  <2>2. CASE "mem" \in fallback
    BY <1>1, <2>2 DEF View, Push, EmptyList, IInv, Bound, ListOK
  <2> QED
    BY <2>1, <2>2 DEF View
<1>3. Exact /\ report \in [Fields -> Nat]
  BY DEF IInv, TypeOK
<1> USE DEF Exact, Read, After, Fields, PastMemMax, PastMemLen, PastMemSum, PastCpuMax,
            PastCpuLen, PastCpuSum, PastSamples
<1>4. CASE Read("samples", lists["cpu"].n)
  BY <1>1, <1>2, <1>3, <1>4
<1>5. CASE Read("cpuSum", View("cpu").sum)
  BY <1>1, <1>2, <1>3, <1>5
<1>6. CASE Read("cpuLen", View("cpu").n)
  BY <1>1, <1>2, <1>3, <1>6
<1>7. CASE Read("cpuMax", View("cpu").max)
  BY <1>1, <1>2, <1>3, <1>7
<1>8. CASE Read("memSum", View("mem").sum)
  BY <1>1, <1>2, <1>3, <1>8
<1>9. CASE Read("memLen", View("mem").n)
  BY <1>1, <1>2, <1>3, <1>9
<1>10. CASE Read("memMax", View("mem").max)
  BY <1>1, <1>2, <1>3, <1>10
<1> QED
  BY <1>4, <1>5, <1>6, <1>7, <1>8, <1>9, <1>10 DEF Reads

-----------------------------------------------------------------------------

\* IInv is inductive: every step of the two threads keeps it.
LEMMA NextInv == IInv /\ [Next]_vars => IInv'
<1> SUFFICES ASSUME IInv, [Next]_vars
             PROVE  IInv'
  OBVIOUS
<1>1. CASE Sample("cpu", CpuLoads, "mem")
  BY <1>1, AppendInv, LoadsAssumption DEF ListNames, SamplerStates
<1>2. CASE Sample("mem", MemLoads, "wait")
  BY <1>2, AppendInv, LoadsAssumption DEF ListNames, SamplerStates
<1>3. CASE LoopCheck \/ LoopWait
  BY <1>3, LoopInv
<1>4. CASE Start \/ StopBegin \/ JoinDone \/ JoinTimeout
  BY <1>4, JoinInv
<1>5. CASE Bind("bindCpu", "cpu") \/ Bind("bindMem", "mem")
  BY <1>5, BindInv
<1>6. CASE Reads
  BY <1>6, ReadFrame, ReadAverage, ReadSkew, ReadExact DEF IInv
<1>7. CASE SamplerRaises \/ CallRaises
  BY <1>7, SamplerRaisesInv, CallRaisesInv
<1>8. CASE UNCHANGED vars
  BY <1>8 DEF vars, IInv, TypeOK, Threads, ListOK, Bound, Average, View, Skew, Exact, Pending
<1> QED
  BY <1>1, <1>2, <1>3, <1>4, <1>5, <1>6, <1>7, <1>8 DEF Next, Actor, Sampler, Reads

\* The relations between what stop() has read and what the daemon thread
\* appends hold in every reachable state (resource_monitor.py:42-74).
THEOREM Invariance == Spec => []IInv
<1>1. Init => IInv
  BY InitInv
<1>2. IInv /\ [Next]_vars => IInv'
  BY NextInv
<1> QED
  BY <1>1, <1>2, PTL DEF Spec

\* Every variable of the actor keeps its type, whatever psutil measures.
THEOREM TypeCorrect == Spec => []TypeOK
<1>1. IInv => TypeOK
  BY DEF IInv
<1> QED
  BY <1>1, Invariance, PTL

\* No average stop() returns is above the maximum it returns beside it, for any
\* loads and any interleaving of appends with the reads.
THEOREM AveragesSound == Spec => []AvgWithinMax
<1>1. IInv => AvgWithinMax
  BY DEF IInv, Average, AvgWithinMax, PastMemMax, PastMemLen, PastMemSum, PastCpuMax, PastCpuLen
<1> QED
  BY <1>1, Invariance, PTL

\* No length stop() divides by is zero, and no maximum is of nothing, also when it
\* runs before the first sample.
THEOREM AveragesCorrect == Spec => []AveragesDefined
<1>1. IInv => AveragesDefined
  BY DEF IInv, Average, AveragesDefined, PastMemMax, PastMemLen, PastMemSum, PastCpuMax, PastCpuLen
<1> QED
  BY <1>1, Invariance, PTL

\* The lengths the averages use are within one of the reported samples, also
\* when the join timed out.
THEOREM SkewCorrect == Spec => []SkewBounded
<1>1. IInv => SkewBounded
  BY DEF IInv, Skew, SkewBounded, PastMemMax, PastMemLen, PastMemSum, PastCpuMax, PastCpuLen
<1> QED
  BY <1>1, Invariance, PTL

\* When the join saw the daemon thread finish, the report is about all that was
\* sampled, and stays so.
THEOREM JoinedReportCorrect == Spec => []JoinedReportExact
<1>1. IInv => JoinedReportExact
  <2> SUFFICES ASSUME IInv, actor = "returned", joined
               PROVE  JoinedReportExact
    BY DEF JoinedReportExact
  <2>1. Exact /\ Threads /\ sampler \in Ended
    BY DEF IInv, Threads
  <2>2. lists["cpu"].n - lists["mem"].n \in (IF sampler = "died" THEN 0..1 ELSE {0})
    <3>1. lists["cpu"].n \in Nat /\ lists["mem"].n \in Nat
      BY DEF IInv, TypeOK, ListType, ListNames
    <3> QED
      BY <2>1, <3>1 DEF Threads, Ended
  <2> QED
    BY <2>1, <2>2 DEF Exact, JoinedReportExact, PastMemMax, PastMemLen, PastMemSum,
                      PastCpuMax, PastCpuLen, PastCpuSum, PastSamples
<1> QED
  BY <1>1, Invariance, PTL

-----------------------------------------------------------------------------
(* The actor's half of MonitorActor.                                       *)

\* Whatever the daemon thread does, the actor thread takes an actor from its
\* creation to its one answer as MonitorActor says (resource_monitor.py:48-74).
THEOREM ContractCorrect == Spec => Seen = "starting" /\ [][Contract!Next]_Seen
<1>1. Init => Seen = "starting"
  BY DEF Init, Seen
<1>2. TypeOK /\ [Next]_vars => [Contract!Next]_Seen
  <2> SUFFICES ASSUME TypeOK, [Next]_vars
               PROVE  [Contract!Next]_Seen
    OBVIOUS
  <2>1. CASE UNCHANGED vars
    BY <2>1 DEF vars, Seen
  <2>2. CASE Sampler
    BY <2>2 DEF Sampler, LoopCheck, SamplerRaises, Sample, LoopWait, Seen
  <2>3. CASE Start
    BY <2>3 DEF Start, Seen, Contract!Next, Contract!Start
  <2>4. CASE StopBegin
    BY <2>4 DEF StopBegin, Seen, Contract!Next, Contract!Ask
  <2>5. CASE JoinDone \/ JoinTimeout \/ Bind("bindCpu", "cpu") \/ Bind("bindMem", "mem")
    BY <2>5 DEF JoinDone, JoinTimeout, Bind, After, Seen
  <2>6. CASE Read("memMax", View("mem").max)
    BY <2>6 DEF Read, After, Seen, Contract!Next, Contract!Answer
  <2>7. CASE \/ Read("samples", lists["cpu"].n)
             \/ Read("cpuSum", View("cpu").sum)
             \/ Read("cpuLen", View("cpu").n)
             \/ Read("cpuMax", View("cpu").max)
             \/ Read("memSum", View("mem").sum)
             \/ Read("memLen", View("mem").n)
    BY <2>7 DEF Read, After, Seen
  <2>8. CASE CallRaises
    BY <2>8 DEF CallRaises, Seen, Contract!Next, Contract!Raise
  <2> QED
    BY <2>1, <2>2, <2>3, <2>4, <2>5, <2>6, <2>7, <2>8 DEF Next, Actor
<1> QED
  BY <1>1, <1>2, TypeCorrect, PTL DEF Spec

=============================================================================

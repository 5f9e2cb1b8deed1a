------------------------------- MODULE Config -------------------------------
(***************************************************************************)
(* common/config.py, and the two ways in which scale factors are spelled:  *)
(* resolve_sf() of data/generators/gen_tpch.py and normalize_sf() of the   *)
(* two benchmarks/*/run.py.  Pure definitions, no state.                   *)
(***************************************************************************)
EXTENDS Integers

NumWorkers == 3

\* The CPU of the machines of each family: what platform.machine() returns.
Cpu == [m7i |-> "x86_64", m8i |-> "x86_64", m8g |-> "arm64", m9g |-> "arm64"]

\* DEFAULT_PRICES_USD_HR, in 1/100000 dollars.
DefaultPrice ==
  [m7i |-> [head |-> 40320, worker |-> 80640],
   m8i |-> [head |-> 42336, worker |-> 84672],
   m8g |-> [head |-> 35904, worker |-> 71808],
   m9g |-> [head |-> 39136, worker |-> 78272]]

\* The families ARCH_INSTANCES knows.
Families == DOMAIN DefaultPrice

-----------------------------------------------------------------------------

\* What the metadata service answers on a machine of a family: "" if one of the
\* two requests fails or takes more than 0.3 s.
ImdsFamily(family) == {family, ""}

\* The metadata service is the only clue.
DetectArch_NoCpu(answer, machine) == IF answer \in Families THEN answer ELSE "m7i"

\* Without an answer of the metadata service the CPU decides.
DetectArch(answer, machine) ==
  IF answer \in Families THEN answer
  ELSE IF machine = "arm64" THEN "m8g" ELSE "m7i"

\* BENCH_ARCH, if set, is the tag.
ArchTag(forced, answer, machine) ==
  IF forced # "unset" THEN forced ELSE DetectArch(answer, machine)

\* env holds the BENCH_PRICE_* variables that are set: <<family, role>> to price.
Price(family, role, env) ==
  IF <<family, role>> \in DOMAIN env THEN env[<<family, role>>]
  ELSE DefaultPrice[family][role]

ClusterHourlyCost(family, env) ==
  Price(family, "head", env) + NumWorkers * Price(family, "worker", env)

-----------------------------------------------------------------------------
(* A scale factor as text: a prefix, whether the number is written with    *)
(* leading zeros, and the number.                                          *)

Text(prefix, zeros, n) == [prefix |-> prefix, zeros |-> zeros, n |-> n]
Texts(numbers) == [prefix : {"", "sf", "SF"}, zeros : BOOLEAN, n : numbers]

\* The label of data in S3: any prefix is cut off and the number parsed.
ResolveSf(arg) == Text("sf", FALSE, arg.n)

\* A number is taken as it is.
NormalizeSf_Raw(arg) == IF arg.prefix = "" THEN arg ELSE Text("sf", arg.zeros, arg.n)

\* The label a runner reads from: what begins with "sf" is taken as it is.
NormalizeSf(arg) == IF arg.prefix = "sf" THEN arg ELSE Text("sf", FALSE, arg.n)

\* A runner raises ValueError before it does anything: int("SF10").
Rejected(arg) == arg.prefix = "SF"

=============================================================================

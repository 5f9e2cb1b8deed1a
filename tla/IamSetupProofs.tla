--------------------------- MODULE IamSetupProofs ---------------------------
(***************************************************************************)
(* TypeOK and ReadyMeansAttached of IamSetup for any set of buckets and    *)
(* any number of failures.                                                 *)
(***************************************************************************)
EXTENDS IamSetup, TLAPS

\* The script has put the policy of this run.
PolicyPut ==
  pc \in {"profile", "createProfile", "attached", "attach", "done"} => account.policy = bucket

\* The role in the profile is the one found there, or the script has added its own
\* to an empty profile.
HolderKept ==
  account.attached = found \/ (found = "none" /\ account.attached = "self")

\* The script ends with a role it takes for its own.
Attached == pc = "done" => account.attached \in {"self", "namesake"}

IInv == TypeOK /\ PolicyPut /\ HolderKept /\ Attached

\* IInv holds of whatever account the first run finds.
LEMMA InitInv == Init => IInv
BY BoundsAssumption
   DEF Init, IInv, TypeOK, PolicyPut, HolderKept, Attached, Accounts, Holders, Idle, Steps

\* A call that only asks leads to where its answer, or its failure, leads.
LEMMA AsksInv ==
  ASSUME IInv, GetRole \/ GetProfile \/ GetAttached
  PROVE  IInv'
<1> USE BoundsAssumption
        DEF Ask, Goto, Fault, IInv, TypeOK, PolicyPut, HolderKept, Attached, Idle, Steps
<1>1. CASE GetRole
  BY <1>1 DEF GetRole
<1>2. CASE GetProfile
  BY <1>2 DEF GetProfile
<1>3. CASE GetAttached
  BY <1>3 DEF GetAttached
<1> QED
  BY <1>1, <1>2, <1>3

\* What exists may be created: the account stays one IAM allows.
LEMMA CreatedAccounts ==
  ASSUME NEW a \in Accounts
  PROVE  /\ [a EXCEPT !.role = TRUE] \in Accounts
         /\ [a EXCEPT !.profile = TRUE] \in Accounts
BY DEF Accounts, Holders

\* A call that creates the role, or the profile, keeps the rest.
LEMMA CreatesInv ==
  ASSUME IInv, CreateRole \/ CreateProfile
  PROVE  IInv'
<1> DEFINE New == IF pc = "createRole" THEN [account EXCEPT !.role = TRUE]
                  ELSE [account EXCEPT !.profile = TRUE]
           Next1 == IF pc = "createRole" THEN "policy" ELSE "attached"
<1>1. /\ pc \in {"createRole", "createProfile"}
      /\ account' \in {account, New} /\ pc' \in {Next1, "failed"}
      /\ pc' # "failed" => account' = New
      /\ faults' \in {faults, faults + 1} /\ (faults' # faults => faults < MaxFaults)
      /\ UNCHANGED <<bucket, found>>
  BY DEF CreateRole, CreateProfile, Call, Goto, Fault
<1>2. account \in Accounts /\ account' \in Accounts
  BY <1>1, CreatedAccounts DEF IInv, TypeOK
<1>3. /\ account'.policy = account.policy /\ account'.attached = account.attached
      /\ account.role => account'.role
      /\ pc' = "policy" => account'.role
      /\ pc' = "attached" => account'.profile
  BY <1>1, <1>2 DEF Accounts
<1>4. pc = "createProfile" => account.role
  BY DEF IInv, TypeOK, Steps
<1>5. TypeOK'
  BY <1>1, <1>2, <1>3, <1>4, BoundsAssumption DEF IInv, TypeOK, Idle, Steps
<1>6. PolicyPut' /\ HolderKept' /\ Attached'
  BY <1>1, <1>3 DEF IInv, PolicyPut, HolderKept, Attached
<1> QED
  BY <1>5, <1>6 DEF IInv

\* A call that puts the policy, or adds the role, does so for what is there.
LEMMA AddsInv ==
  ASSUME IInv, PutPolicy \/ AddRole
  PROVE  IInv'
<1> USE BoundsAssumption
        DEF Call, Goto, Fault, IInv, TypeOK, PolicyPut, HolderKept, Attached, Idle, Steps,
            Accounts, Holders
<1>1. CASE PutPolicy
  BY <1>1 DEF PutPolicy
<1>2. CASE AddRole
  BY <1>2 DEF AddRole
<1> QED
  BY <1>1, <1>2

\* A start and an interruption leave the account alone.
LEMMA EndsInv ==
  ASSUME IInv, Begin \/ Stop
  PROVE  IInv'
BY BoundsAssumption
   DEF Begin, Stop, Goto, Fault, IInv, TypeOK, PolicyPut, HolderKept, Attached, Idle, Steps

\* IInv is inductive.
LEMMA NextInv == IInv /\ [Next]_vars => IInv'
<1> SUFFICES ASSUME IInv, [Next]_vars
             PROVE  IInv'
  OBVIOUS
<1>1. CASE Begin \/ Stop
  BY <1>1, EndsInv
<1>2. CASE Script
  BY <1>2, AsksInv, CreatesInv, AddsInv DEF Script
<1>3. CASE UNCHANGED vars
  BY <1>3 DEF vars, IInv, TypeOK, PolicyPut, HolderKept, Attached
<1> QED
  BY <1>1, <1>2, <1>3 DEF Next

\* What the script has done when it comes to a call, whatever failed before
\* (setup_iam.sh:59-99).
THEOREM Invariance == Spec => []IInv
<1>1. Init => IInv
  BY InitInv
<1>2. IInv /\ [Next]_vars => IInv'
  BY NextInv
<1> QED
  BY <1>1, <1>2, PTL DEF Spec

\* The account is always one IAM allows, and a call is made only on a role or a
\* profile that is there.
THEOREM TypeCorrect == Spec => []TypeOK
<1>1. IInv => TypeOK
  BY DEF IInv
<1> QED
  BY <1>1, Invariance, PTL

\* "IAM ready" is true, with the exception of a namesake that was in the profile
\* before, after any number of failed and repeated runs for any buckets.
THEOREM ReadyCorrect == Spec => []ReadyMeansAttached
<1>1. IInv => ReadyMeansAttached
  BY DEF IInv, PolicyPut, HolderKept, Attached, ReadyMeansAttached
<1> QED
  BY <1>1, Invariance, PTL

=============================================================================

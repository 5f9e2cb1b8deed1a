------------------------------ MODULE IamSetup ------------------------------
(***************************************************************************)
(* scripts/setup_iam.sh: creates what is missing of the role, its policy   *)
(* and the instance profile of the cluster nodes.  It is run on the        *)
(* control machine, again whenever it failed or the bucket is another one. *)
(*                                                                         *)
(* Every call of the AWS CLI may fail (credentials, throttling, network),  *)
(* with or without having had its effect, and the script may be            *)
(* interrupted: in each case it ends there (set -e) and the account keeps  *)
(* what was made.  A call that only asks cannot tell a failure from "there *)
(* is none".  IAM is external: creating what exists is an error, and a     *)
(* profile holds at most one role.                                         *)
(***************************************************************************)
EXTENDS Naturals

CONSTANTS
  Buckets,      \* values of BENCH_S3_BUCKET
  MaxFaults     \* bound of the model: calls that fail and interruptions

ASSUME BoundsAssumption == MaxFaults \in Nat

VARIABLES
  account,   \* what there is in IAM
  pc,        \* where the script is
  bucket,    \* its bucket
  found,     \* history: the role the profile held before the first run
  faults

vars == <<account, pc, bucket, found, faults>>

\* A namesake has the name of the role in its own as a word, such as
\* ray-bench-node-v2; `grep -w` takes it for the role.
Holders == {"none", "self", "namesake", "other"}

\* The role and the profile may exist; policy is the bucket of the inline policy
\* of the role, attached the role in the profile.
Accounts ==
  {a \in [role : BOOLEAN, policy : Buckets \union {"none"}, profile : BOOLEAN,
          attached : Holders] :
     /\ a.policy # "none" => a.role
     /\ a.attached # "none" => a.profile
     /\ a.attached = "self" => a.role}

Idle == {"start", "done", "failed"}
Steps == {"role", "createRole", "policy", "profile", "createProfile", "attached", "attach"}

\* What somebody else, or nobody, has made beforehand.
Init ==
  /\ account \in Accounts /\ found = account.attached
  /\ pc = "start" /\ bucket \in Buckets /\ faults = 0

Goto(label) == pc' = label /\ UNCHANGED <<bucket, found>>
Fault == faults < MaxFaults /\ faults' = faults + 1

-----------------------------------------------------------------------------

\* The script is started, for the first time or again.  A failing
\* get-caller-identity has no effect, like a failure of the first call below.
Begin ==
  /\ pc \in Idle
  /\ pc' = "role" /\ bucket' \in Buckets
  /\ UNCHANGED <<account, found, faults>>

\* A call that asks: yes or no.  If it fails the script takes it for a no.
Ask(label, answer, yes, no) ==
  /\ pc = label
  /\ \/ Goto(IF answer THEN yes ELSE no) /\ UNCHANGED faults
     \/ answer /\ Goto(no) /\ Fault
  /\ UNCHANGED account

\* A call that changes the account, if IAM allows it: with its effect the script
\* goes on, or fails all the same.
Call(label, allowed, effect, next) ==
  /\ pc = label
  /\ \/ allowed /\ account' = effect /\ Goto(next) /\ UNCHANGED faults
     \/ allowed /\ account' = effect /\ Goto("failed") /\ Fault
     \/ ~allowed /\ Goto("failed") /\ UNCHANGED <<account, faults>>

\* The policy is put only when the role was created.
GetRole_SkipsPolicy == Ask("role", account.role, "profile", "createRole")

GetRole == Ask("role", account.role, "policy", "createRole")

CreateRole ==
  Call("createRole", ~account.role, [account EXCEPT !.role = TRUE], "policy")

\* put-role-policy replaces the policy of that name.
PutPolicy ==
  Call("policy", account.role, [account EXCEPT !.policy = bucket], "profile")

\* The profile is taken to exist.
GetProfile_Assumed == Ask("profile", account.profile, "attached", "attached")

GetProfile == Ask("profile", account.profile, "attached", "createProfile")

CreateProfile ==
  Call("createProfile", ~account.profile, [account EXCEPT !.profile = TRUE], "attached")

\* Adding the role is tried whatever the profile holds.
GetAttached_Always == Ask("attached", FALSE, "done", "attach")

\* get-instance-profile || true, then grep -w.
GetAttached == Ask("attached", account.attached \in {"self", "namesake"}, "done", "attach")

\* The wait for a new profile to reach EC2 changes nothing here.
AddRole ==
  Call("attach", account.role /\ account.profile /\ account.attached = "none",
       [account EXCEPT !.attached = "self"], "done")

\* Ctrl-C, or a call that fails without an effect.
Stop ==
  /\ pc \in Steps
  /\ Goto("failed") /\ Fault
  /\ UNCHANGED account

Script ==
  GetRole \/ CreateRole \/ PutPolicy \/ GetProfile \/ CreateProfile \/ GetAttached \/ AddRole

Next == Begin \/ Script \/ Stop

\* A script that runs goes on.  Nobody need start it again.
Spec == Init /\ [][Next]_vars /\ WF_vars(Script)

-----------------------------------------------------------------------------

\* The values each variable ranges over, and what exists at each step: a call is
\* made only on a role or a profile that is there.
TypeOK ==
  /\ account \in Accounts /\ bucket \in Buckets /\ found \in Holders
  /\ pc \in Idle \union Steps /\ faults \in 0..MaxFaults
  /\ pc \in Steps \ {"role", "createRole"} => account.role
  /\ pc \in {"attached", "attach"} => account.profile

\* "IAM ready: instance profile -> role": when the script says so, the account has
\* the role, its policy for the bucket of this run and the profile with the role in
\* it, whatever earlier runs left behind; except that a profile which held a role
\* whose name has this one as a word is left with that role (setup_iam.sh:59-99).
ReadyMeansAttached ==
  pc = "done" =>
    /\ account.policy = bucket
    /\ account.attached = "self" \/ (found = "namesake" /\ account.attached = "namesake")

\* "Existing resources are left as-is, missing ones are created": a run in which no
\* call fails is ready, however many earlier runs failed and wherever they did,
\* unless the profile holds some other role (setup_iam.sh:3-6).
Converges == (pc = "role" /\ faults = MaxFaults) ~> (pc = "done" \/ found = "other")

=============================================================================

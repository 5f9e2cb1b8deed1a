---------------------------- MODULE NodeBootstrap ----------------------------
(***************************************************************************)
(* The bootstrap of a node of the cluster: `ray up` runs node_setup.sh,    *)
(* then ray_systemd.sh, over ssh; the unit bench-setup.service, which      *)
(* node_setup.sh installs first, runs node_setup.sh again on every boot    *)
(* until the sentinel is there; bench-ray.service runs Ray from then on.   *)
(* The account's security baseline reboots the node at any moment.         *)
(*                                                                         *)
(* Every command that needs the network may fail, which ends the script    *)
(* (set -e).  The installation of packages is safe to interrupt and to     *)
(* repeat (dnf and pip, external); a jar is fetched with curl into a .part *)
(* file that is then renamed, which this module follows inode by inode,    *)
(* because two runs of the script may share the name.                      *)
(***************************************************************************)
EXTENDS Integers, FiniteSets

CONSTANTS
  Overlap,      \* may `ray up` run the script while the boot service does?
  MaxReboots,   \* bound of the model: reboots
  MaxFaults     \* bound of the model: commands that fail

ASSUME OverlapAssumption == Overlap \in BOOLEAN
ASSUME BoundsAssumption == MaxReboots \in Nat /\ MaxFaults \in Nat

\* The two runs of the script: over ssh and by systemd.
Runs == {"ssh", "boot"}

VARIABLES
  pc,         \* where each run of the script is
  fd,         \* the inode that curl of each run writes, 0 if none
  inode,      \* content of the inodes: "partial" or "full"
  part,       \* inode named <jar>.part, 0 if there is none
  jar,        \* inode named <jar>, 0 if there is none
  unit,       \* whether bench-setup.service is enabled
  packages,   \* whether dnf and pip have installed everything
  sentinel,   \* /opt/bench/.node_setup_done
  rayUnit,    \* whether bench-ray.service is enabled
  ray,        \* whether Ray runs
  booting,    \* systemd has not come to the enabled units yet
  reboots, faults

disk == <<inode, part, jar>>
systemd == <<unit, sentinel, rayUnit, ray, booting>>
bounds == <<reboots, faults>>
vars == <<pc, fd, disk, packages, systemd, bounds>>

-----------------------------------------------------------------------------

Inodes == 1..3
Stages == {"idle", "unit", "packages", "check", "curl", "write", "mv", "touch", "ray",
           "failed"}

Running(r) == pc[r] \notin {"idle", "failed"}
Goto(r, stage) == pc' = [pc EXCEPT ![r] = stage]

\* An inode no name and no curl refers to.
Free == CHOOSE i \in Inodes : i \notin {part, jar, fd["ssh"], fd["boot"]}

JarReady == jar # 0 /\ inode[jar] = "full"

Init ==
  /\ pc = [r \in Runs |-> "idle"] /\ fd = [r \in Runs |-> 0]
  /\ inode = [i \in Inodes |-> "partial"] /\ part = 0 /\ jar = 0
  /\ unit = FALSE /\ packages = FALSE /\ sentinel = FALSE
  /\ rayUnit = FALSE /\ ray = FALSE /\ booting = FALSE
  /\ reboots = 0 /\ faults = 0

-----------------------------------------------------------------------------
(* Who starts the script.                                                  *)

\* `ray up`, the first time or again; it reaches the node once it is up.
RayUp ==
  /\ ~Running("ssh") /\ ~booting
  /\ Running("boot") => Overlap
  /\ Goto("ssh", "unit")
  /\ UNCHANGED <<fd, disk, packages, systemd, bounds>>

\* bench-setup.service disables itself when it starts.
Resumes_Once == unit /\ ~sentinel /\ reboots = 1

\* bench-setup.service is enabled, and its condition is true.
Resumes == unit /\ ~sentinel

\* Ray is started on a boot whatever became of bench-setup.
RayStarts_Always == TRUE

\* bench-ray.service is started by the script and not enabled.
RayStarts_NotEnabled == FALSE

\* bench-ray.service is enabled, and so is what it requires.
RayStarts == rayUnit /\ unit /\ sentinel

\* systemd on boot: bench-setup unless the sentinel is there, and bench-ray,
\* which requires bench-setup.
BootServices ==
  /\ booting
  /\ booting' = FALSE
  /\ pc' = IF Resumes THEN [pc EXCEPT !["boot"] = "unit"] ELSE pc
  /\ ray' = RayStarts
  /\ UNCHANGED <<fd, disk, packages, unit, sentinel, rayUnit, bounds>>

-----------------------------------------------------------------------------
(* node_setup.sh                                                           *)

\* tee, daemon-reload and enable.
InstallUnit(r) ==
  /\ pc[r] = "unit"
  /\ unit' = TRUE
  /\ Goto(r, "packages")
  /\ UNCHANGED <<fd, disk, packages, sentinel, rayUnit, ray, booting, bounds>>

\* dnf install, the scratch directories, pip install.
InstallPackages(r) ==
  /\ pc[r] = "packages"
  /\ packages' = TRUE
  /\ Goto(r, "check")
  /\ UNCHANGED <<fd, disk, systemd, bounds>>

\* fetch_jar: a jar that is there, and not empty, is not fetched again.
CheckJar(r) ==
  /\ pc[r] = "check"
  /\ Goto(r, IF jar # 0 THEN "touch" ELSE "curl")
  /\ UNCHANGED <<fd, disk, packages, systemd, bounds>>

\* curl writes to the jar itself.
OpenPart_Direct(r) ==
  /\ pc[r] = "curl"
  /\ LET i == IF jar # 0 THEN jar ELSE Free
     IN  /\ jar' = i /\ UNCHANGED part
         /\ inode' = [inode EXCEPT ![i] = "partial"]
         /\ fd' = [fd EXCEPT ![r] = i]
  /\ Goto(r, "write")
  /\ UNCHANGED <<packages, systemd, bounds>>

\* curl -o opens the .part file, and empties it if it is there.
OpenPart(r) ==
  /\ pc[r] = "curl"
  /\ LET i == IF part # 0 THEN part ELSE Free
     IN  /\ part' = i
         /\ inode' = [inode EXCEPT ![i] = "partial"]
         /\ fd' = [fd EXCEPT ![r] = i]
  /\ Goto(r, "write")
  /\ UNCHANGED <<jar, packages, systemd, bounds>>

\* curl has written the last byte; the file may lack bytes that another run,
\* which emptied the file after this one had opened it, has yet to write.
WritePart(r) ==
  /\ pc[r] = "write"
  /\ \E content \in IF \E q \in Runs \ {r} : fd[q] = fd[r]
                      THEN {"partial", "full"} ELSE {"full"} :
       inode' = [inode EXCEPT ![fd[r]] = content]
  /\ fd' = [fd EXCEPT ![r] = 0]
  /\ Goto(r, "mv")
  /\ UNCHANGED <<part, jar, packages, systemd, bounds>>

\* mv -f, which fails if the other run has moved the file away.
MovePart(r) ==
  /\ pc[r] = "mv"
  /\ IF part # 0
       THEN jar' = part /\ part' = 0 /\ Goto(r, "touch")
       ELSE Goto(r, "failed") /\ UNCHANGED <<part, jar>>
  /\ UNCHANGED <<fd, inode, packages, systemd, bounds>>

\* Ray is started by whichever run comes to the end.
Touch_AnyStartsRay(r) ==
  /\ pc[r] = "touch"
  /\ sentinel' = TRUE
  /\ Goto(r, "ray")
  /\ UNCHANGED <<fd, disk, packages, unit, rayUnit, ray, booting, bounds>>

\* The sentinel.  Over ssh, the start command of the YAML comes next.
Touch(r) ==
  /\ pc[r] = "touch"
  /\ sentinel' = TRUE
  /\ Goto(r, IF r = "ssh" THEN "ray" ELSE "idle")
  /\ UNCHANGED <<fd, disk, packages, unit, rayUnit, ray, booting, bounds>>

\* ray_systemd.sh: the unit is written, enabled and started.
StartRay ==
  /\ pc["ssh"] = "ray"
  /\ rayUnit' = TRUE /\ ray' = TRUE
  /\ Goto("ssh", "idle")
  /\ UNCHANGED <<fd, disk, packages, unit, sentinel, booting, bounds>>

\* A command that fails does not end the script (no set -e).
Failed_Continues(r) == IF pc[r] = "packages" THEN "check" ELSE "touch"

\* set -e
Failed(r) == "failed"

\* A command that needs the network fails; curl leaves what it has written.
CommandFails(r) ==
  /\ pc[r] \in {"packages", "curl", "write"}
  /\ faults < MaxFaults
  /\ faults' = faults + 1
  /\ fd' = [fd EXCEPT ![r] = 0]
  /\ Goto(r, Failed(r))
  /\ UNCHANGED <<disk, packages, systemd, reboots>>

-----------------------------------------------------------------------------

\* The reboot of the security baseline: processes end, files stay.  `ray up` sees its
\* connection end; what became of the boot service in an earlier boot is forgotten.
Reboot ==
  /\ reboots < MaxReboots
  /\ reboots' = reboots + 1
  /\ pc' = [pc EXCEPT !["ssh"] = IF Running("ssh") THEN "failed" ELSE @, !["boot"] = "idle"]
  /\ fd' = [r \in Runs |-> 0]
  /\ ray' = FALSE /\ booting' = TRUE
  /\ UNCHANGED <<disk, packages, unit, sentinel, rayUnit, faults>>

Steps ==
  \/ BootServices \/ StartRay
  \/ \E r \in Runs :
       \/ InstallUnit(r) \/ InstallPackages(r) \/ CheckJar(r) \/ OpenPart(r)
       \/ WritePart(r) \/ MovePart(r) \/ Touch(r)

Next == RayUp \/ Steps \/ Reboot \/ \E r \in Runs : CommandFails(r)

\* The scripts and systemd run; nobody need call `ray up` again.  One fairness
\* condition for both runs is enough: each has finitely many steps.
Spec == Init /\ [][Next]_vars /\ WF_vars(Steps)

-----------------------------------------------------------------------------

\* The values each variable ranges over; curl writes exactly while it runs.
TypeOK ==
  /\ pc \in [Runs -> Stages] /\ pc["boot"] # "ray"
  /\ fd \in [Runs -> Inodes \union {0}]
  /\ \A r \in Runs : fd[r] # 0 <=> pc[r] = "write"
  /\ inode \in [Inodes -> {"partial", "full"}]
  /\ part \in Inodes \union {0} /\ jar \in Inodes \union {0}
  /\ unit \in BOOLEAN /\ packages \in BOOLEAN /\ sentinel \in BOOLEAN
  /\ rayUnit \in BOOLEAN /\ ray \in BOOLEAN /\ booting \in BOOLEAN
  /\ reboots \in 0..MaxReboots /\ faults \in 0..MaxFaults

\* A node with the sentinel is set up: packages and jars are complete, whatever
\* reboots and failures came before (node_setup.sh:86-87).
SentinelMeansComplete == sentinel => unit /\ packages /\ JarReady

\* "never a half-written .jar on the classpath" (node_setup.sh:74).
NoHalfWrittenJar == jar # 0 => inode[jar] = "full"

\* Ray runs on complete nodes only (ray_systemd.sh:40-42, the order of the
\* commands in the cluster YAML).
RayNeedsSetup == ray => sentinel /\ packages /\ JarReady

\* Once Ray is installed it comes back after every reboot (ray_systemd.sh:10-12).
RayComesBack == rayUnit ~> ray

\* "If a security-baseline reboot interrupts this script, systemd re-runs it on the
\* next boot" (node_setup.sh:25-26): every boot with the unit enabled, the first and
\* those after a boot whose run was interrupted or failed, leads to a node that is set
\* up, unless a command of the run of that boot or of a later one fails.
SetupResumes == unit /\ booting ~> sentinel \/ (~booting /\ pc["boot"] = "failed")

=============================================================================

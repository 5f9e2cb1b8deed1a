------------------------- MODULE NodeBootstrapProofs -------------------------
(***************************************************************************)
(* Proofs about the bootstrap of a node, for any number of reboots and of  *)
(* failed commands: what holds as long as `ray up` is not run while the    *)
(* boot service runs the same script.                                      *)
(***************************************************************************)
EXTENDS NodeBootstrap, TLAPS

\* Stages of node_setup.sh in which the packages are installed, and those of
\* fetch_jar in which the jar is missing.
Installed == {"check", "curl", "write", "mv", "touch", "ray"}
Fetching == {"curl", "write", "mv"}

\* One run of the script at a time, and none before systemd has started.
Alone ==
  /\ ~(Running("ssh") /\ Running("boot"))
  /\ booting => ~Running("ssh") /\ ~Running("boot")

\* How far the node is when a run has come to a stage.
Reached ==
  \A r \in Runs :
    /\ pc[r] = "packages" => unit
    /\ pc[r] \in Installed => unit /\ packages
    /\ pc[r] \in Fetching => jar = 0
    /\ pc[r] = "write" => part = fd[r]
    /\ pc[r] = "mv" => part # 0 /\ inode[part] = "full"
    /\ pc[r] \in {"touch", "ray"} => JarReady
    /\ pc[r] = "ray" => sentinel

\* Ray is installed by the last command of a setup that is complete.
Order ==
  /\ sentinel => unit /\ packages /\ JarReady
  /\ rayUnit \/ ray => sentinel

IInv == TypeOK /\ Alone /\ Reached /\ Order /\ NoHalfWrittenJar

-----------------------------------------------------------------------------

\* A fresh node satisfies the invariant.
LEMMA InitInv == Init => IInv
<1> SUFFICES ASSUME Init
             PROVE  IInv
  OBVIOUS
<1>1. 0 \in 0..MaxReboots /\ 0 \in 0..MaxFaults
  BY BoundsAssumption
<1> QED
  BY <1>1 DEF Init, IInv, TypeOK, Alone, Reached, Order, NoHalfWrittenJar, Runs, Stages, Inodes,
              Running, Installed, Fetching

\* While one run of the script fetches the jar, no other does.
LEMMA OthersIdle ==
  ASSUME IInv, NEW r \in Runs, Running(r)
  PROVE  \A q \in Runs \ {r} : ~Running(q) /\ fd[q] = 0
BY DEF IInv, TypeOK, Alone, Running, Runs

\* Neither `ray up` nor systemd starts the script beside another run of it.
LEMMA StartInv ==
  ASSUME IInv, Overlap = FALSE, RayUp \/ BootServices
  PROVE  IInv'
<1>1. CASE RayUp
  BY <1>1 DEF RayUp, Goto, IInv, TypeOK, Alone, Reached, Order, NoHalfWrittenJar, JarReady, Runs,
              Stages, Running, Installed, Fetching, disk, systemd, bounds
<1>2. CASE BootServices
  BY <1>2 DEF BootServices, Resumes, RayStarts, IInv, TypeOK, Alone, Reached, Order, NoHalfWrittenJar, JarReady, Runs,
              Stages, Running, Installed, Fetching, disk, bounds
<1> QED
  BY <1>1, <1>2

\* The stages of the script that write no jar.
LEMMA PlainStageInv ==
  ASSUME IInv, NEW r \in Runs,
         InstallUnit(r) \/ InstallPackages(r) \/ CheckJar(r) \/ Touch(r) \/ StartRay
  PROVE  IInv'
<1>1. CASE InstallUnit(r)
  BY <1>1 DEF InstallUnit, Goto, IInv, TypeOK, Alone, Reached, Order, NoHalfWrittenJar, JarReady,
              Runs, Stages, Running, Installed, Fetching, disk, bounds
<1>2. CASE InstallPackages(r)
  BY <1>2 DEF InstallPackages, Goto, IInv, TypeOK, Alone, Reached, Order, NoHalfWrittenJar,
              JarReady, Runs, Stages, Running, Installed, Fetching, disk, systemd, bounds
<1>3. CASE CheckJar(r)
  BY <1>3 DEF CheckJar, Goto, IInv, TypeOK, Alone, Reached, Order, NoHalfWrittenJar, JarReady,
              Runs, Stages, Running, Installed, Fetching, disk, systemd, bounds
<1>4. CASE Touch(r)
  BY <1>4 DEF Touch, Goto, IInv, TypeOK, Alone, Reached, Order, NoHalfWrittenJar, JarReady, Runs,
              Stages, Running, Installed, Fetching, disk, bounds
<1>5. CASE StartRay
  BY <1>5 DEF StartRay, Goto, IInv, TypeOK, Alone, Reached, Order, NoHalfWrittenJar, JarReady,
              Runs, Stages, Running, Installed, Fetching, disk, bounds
<1> QED
  BY <1>1, <1>2, <1>3, <1>4, <1>5

\* curl opens an inode that is not the jar: there is no jar yet.
LEMMA OpenPartInv ==
  ASSUME IInv, NEW r \in Runs, OpenPart(r)
  PROVE  IInv'
<1> DEFINE i == IF part # 0 THEN part ELSE Free
<1>1. pc[r] = "curl" /\ jar = 0 /\ fd[r] = 0 /\ Running(r)
  BY DEF OpenPart, IInv, TypeOK, Reached, Fetching, Running
<1>2. \A q \in Runs \ {r} : ~Running(q) /\ fd[q] = 0
  BY <1>1, OthersIdle
<1>3. i \in Inodes
  <2>1. CASE part # 0
    BY <2>1 DEF IInv, TypeOK
  <2>2. CASE part = 0
    <3>1. fd["ssh"] = 0 /\ fd["boot"] = 0
      BY <1>1, <1>2 DEF Runs
    <3>2. \E j \in Inodes : j \notin {part, jar, fd["ssh"], fd["boot"]}
      BY <1>1, <2>2, <3>1 DEF Inodes
    <3> QED
      BY <2>2, <3>2 DEF Free
  <2> QED
    BY <2>1, <2>2
<1>4. i # 0
  BY <1>3 DEF Inodes
<1>5. /\ part' = i /\ inode' = [inode EXCEPT ![i] = "partial"] /\ fd' = [fd EXCEPT ![r] = i]
      /\ pc' = [pc EXCEPT ![r] = "write"]
      /\ UNCHANGED <<jar, packages, systemd, bounds>>
  BY DEF OpenPart, Goto
<1> HIDE DEF i
<1>6. TypeOK'
  BY <1>3, <1>4, <1>5, <1>1 DEF IInv, TypeOK, Stages, systemd, bounds
<1>7. Alone' /\ Order' /\ NoHalfWrittenJar'
  BY <1>1, <1>2, <1>5 DEF IInv, TypeOK, Alone, Order, NoHalfWrittenJar, JarReady, Running, Runs,
                          systemd
<1>8. Reached'
  BY <1>1, <1>2, <1>5 DEF IInv, TypeOK, Reached, Installed, Fetching, JarReady, Running, Runs,
                          systemd
<1> QED
  BY <1>6, <1>7, <1>8 DEF IInv

\* The run that fetches the jar is alone: the file it has written is complete.
LEMMA WritePartInv ==
  ASSUME IInv, NEW r \in Runs, WritePart(r)
  PROVE  IInv'
<1>1. pc[r] = "write" /\ jar = 0 /\ part = fd[r] /\ fd[r] \in Inodes /\ fd[r] # 0 /\ Running(r)
  BY DEF WritePart, IInv, TypeOK, Reached, Fetching, Running
<1>2. \A q \in Runs \ {r} : ~Running(q) /\ fd[q] = 0
  BY <1>1, OthersIdle
<1>3. inode' = [inode EXCEPT ![fd[r]] = "full"]
  BY <1>1, <1>2 DEF WritePart
<1>4. /\ fd' = [fd EXCEPT ![r] = 0] /\ pc' = [pc EXCEPT ![r] = "mv"]
      /\ UNCHANGED <<part, jar, packages, systemd, bounds>>
  BY DEF WritePart, Goto
<1>5. TypeOK'
  BY <1>1, <1>3, <1>4 DEF IInv, TypeOK, Stages, systemd, bounds
<1>6. Alone' /\ Order' /\ NoHalfWrittenJar'
  BY <1>1, <1>2, <1>4 DEF IInv, TypeOK, Alone, Order, NoHalfWrittenJar, JarReady, Running, Runs,
                          systemd
<1>7. inode'[part'] = "full" /\ part' # 0
  BY <1>1, <1>3, <1>4 DEF IInv, TypeOK
<1>8. Reached'
  BY <1>1, <1>2, <1>4, <1>7 DEF IInv, TypeOK, Reached, Installed, Fetching, JarReady, Running,
                                Runs, systemd
<1> QED
  BY <1>5, <1>6, <1>8 DEF IInv

\* What is renamed to the jar is complete.
LEMMA MovePartInv ==
  ASSUME IInv, NEW r \in Runs, MovePart(r)
  PROVE  IInv'
<1>1. pc[r] = "mv" /\ part # 0 /\ inode[part] = "full" /\ Running(r) /\ unit /\ packages
  BY DEF MovePart, IInv, TypeOK, Reached, Installed, Running
<1>2. \A q \in Runs \ {r} : ~Running(q) /\ fd[q] = 0
  BY <1>1, OthersIdle
<1>3. /\ jar' = part /\ part' = 0 /\ pc' = [pc EXCEPT ![r] = "touch"]
      /\ UNCHANGED <<fd, inode, packages, systemd, bounds>>
  BY <1>1 DEF MovePart, Goto
<1>4. TypeOK' /\ JarReady' /\ NoHalfWrittenJar'
  BY <1>1, <1>3 DEF IInv, TypeOK, Stages, JarReady, NoHalfWrittenJar, systemd, bounds
<1>5. Alone' /\ Order'
  BY <1>1, <1>2, <1>3, <1>4 DEF IInv, TypeOK, Alone, Order, Running, Runs, systemd
<1>6. Reached'
  BY <1>1, <1>2, <1>3, <1>4 DEF IInv, TypeOK, Reached, Installed, Fetching, Running, Runs, systemd
<1> QED
  BY <1>4, <1>5, <1>6 DEF IInv

\* A command that fails or a reboot leaves no incomplete jar behind.
LEMMA FailureInv ==
  ASSUME IInv, Reboot \/ \E r \in Runs : CommandFails(r)
  PROVE  IInv'
<1>1. CASE Reboot
  <2>1. /\ pc' = [pc EXCEPT !["ssh"] = IF Running("ssh") THEN "failed" ELSE pc["ssh"],
                            !["boot"] = "idle"]
        /\ fd' = [r \in Runs |-> 0]
        /\ ~ray' /\ booting' /\ reboots < MaxReboots /\ reboots' = reboots + 1
        /\ UNCHANGED <<disk, packages, unit, sentinel, rayUnit, faults>>
    BY <1>1 DEF Reboot
  <2>2. pc' \in [Runs -> {"idle", "failed"}] /\ \A r \in Runs : fd'[r] = 0
    BY <2>1 DEF Running, Runs, IInv, TypeOK
  <2>3. reboots' \in 0..MaxReboots
    BY <2>1, BoundsAssumption DEF IInv, TypeOK
  <2>4. ray' \in BOOLEAN /\ booting' \in BOOLEAN
    BY <1>1 DEF Reboot
  <2>5. TypeOK'
    BY <2>1, <2>2, <2>3, <2>4 DEF IInv, TypeOK, Runs, Stages, disk
  <2>6. Alone' /\ Reached' /\ Order' /\ NoHalfWrittenJar'
    BY <2>1, <2>2 DEF IInv, Alone, Reached, Order, NoHalfWrittenJar, JarReady, Runs, Running,
                      Installed, Fetching, disk
  <2> QED
    BY <2>5, <2>6 DEF IInv
<1>2. ASSUME NEW r \in Runs, CommandFails(r)
      PROVE  IInv'
  BY <1>2, BoundsAssumption
     DEF CommandFails, Failed, Goto, IInv, TypeOK, Alone, Reached, Order, NoHalfWrittenJar, JarReady, Runs,
         Stages, Running, Installed, Fetching, disk, systemd
<1> QED
  BY <1>1, <1>2

\* Every step keeps the invariant, if the two runs do not overlap.
LEMMA NextInv ==
  ASSUME Overlap = FALSE, IInv, [Next]_vars
  PROVE  IInv'
<1>1. CASE UNCHANGED vars
  BY <1>1 DEF vars, disk, systemd, bounds, IInv, TypeOK, Alone, Reached, Order, NoHalfWrittenJar,
              JarReady, Running
<1>2. CASE Next
  <2>1. "ssh" \in Runs
    BY DEF Runs
  <2> QED
    BY <1>2, <2>1, StartInv, PlainStageInv, OpenPartInv, WritePartInv, MovePartInv, FailureInv
       DEF Next, Steps
<1> QED
  BY <1>1, <1>2

\* The inductive invariant, of any node whose `ray up` waits for the boot service.
THEOREM Invariance ==
  ASSUME Overlap = FALSE
  PROVE  Spec => []IInv
<1>1. IInv /\ [Next]_vars => IInv'
  BY NextInv
<1> QED
  BY <1>1, InitInv, PTL DEF Spec

\* The variables keep their types, and curl writes exactly while it runs, for any
\* number of reboots and failures.
THEOREM TypeCorrect ==
  ASSUME Overlap = FALSE
  PROVE  Spec => []TypeOK
<1>1. Spec => []IInv
  BY Invariance
<1>2. IInv => TypeOK
  BY DEF IInv
<1> QED
  BY <1>1, <1>2, PTL

\* A node with the sentinel is set up, whatever reboots and failures interrupted
\* its setup (node_setup.sh:86-87).
THEOREM SentinelCorrect ==
  ASSUME Overlap = FALSE
  PROVE  Spec => []SentinelMeansComplete
<1>1. Spec => []IInv
  BY Invariance
<1>2. IInv => SentinelMeansComplete
  BY DEF IInv, Order, SentinelMeansComplete
<1> QED
  BY <1>1, <1>2, PTL

\* No half-written jar is ever on the classpath (node_setup.sh:73-74), as long as
\* the two runs of the script do not overlap.
THEOREM JarCorrect ==
  ASSUME Overlap = FALSE
  PROVE  Spec => []NoHalfWrittenJar
<1>1. Spec => []IInv
  BY Invariance
<1>2. IInv => NoHalfWrittenJar
  BY DEF IInv
<1> QED
  BY <1>1, <1>2, PTL

\* Ray runs on complete nodes only (ray_systemd.sh:40-42).
THEOREM RayCorrect ==
  ASSUME Overlap = FALSE
  PROVE  Spec => []RayNeedsSetup
<1>1. Spec => []IInv
  BY Invariance
<1>2. IInv => RayNeedsSetup
  BY DEF IInv, Order, RayNeedsSetup
<1> QED
  BY <1>1, <1>2, PTL

=============================================================================

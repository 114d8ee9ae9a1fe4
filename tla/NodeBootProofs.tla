--------------------------- MODULE NodeBootProofs ---------------------------
(***************************************************************************)
(* Proofs about the life of a host, for any number of reboots.             *)
(***************************************************************************)
EXTENDS NodeBoot, TLAPS

\* The number of steps of each script once the named work is done.
DockerAt == CASE role = "node" -> 7 [] role = "gateway" -> 2 [] role = "indexer" -> 5
UnitAt   == CASE role = "node" -> 10 [] role = "gateway" -> 5 [] role = "indexer" -> 9
EndAt    == CASE role = "node" -> 14 [] role = "gateway" -> 9 [] role = "indexer" -> 13

\* Where each step stands in the scripts that have it.
Position(step) ==
  CASE step = "init" -> pc = 0
    [] step = "format" -> pc = 1 /\ role # "gateway"
    [] step = "mount" -> pc = 2 /\ role # "gateway"
    [] step = "persist" -> pc = 3 /\ role # "gateway"
    [] step = "moveFiles" -> pc = 4 /\ role = "node"
    [] step = "moveAssets" -> pc = 5 /\ role = "node"
    [] step = "installDocker" -> pc + 1 = DockerAt
    [] step = "configureDocker" -> pc = DockerAt /\ role # "gateway"
    [] step = "pullImage" -> pc = 8 /\ role = "node"
    [] step = "unzip" -> pc + 3 = UnitAt /\ role # "node"
    [] step = "binary" -> pc + 2 = UnitAt /\ role # "node"
    [] step = "installUnit" -> pc + 1 = UnitAt
    [] step = "startUnit" -> pc = UnitAt
    [] OTHER -> pc > UnitAt

LEMMA NodeScriptIs ==
  /\ Len(NodeScript) = 14
  /\ NodeScript[1] = "init" /\ NodeScript[2] = "format" /\ NodeScript[3] = "mount"
  /\ NodeScript[4] = "persist" /\ NodeScript[5] = "moveFiles"
  /\ NodeScript[6] = "moveAssets" /\ NodeScript[7] = "installDocker"
  /\ NodeScript[8] = "configureDocker" /\ NodeScript[9] = "pullImage"
  /\ NodeScript[10] = "installUnit" /\ NodeScript[11] = "startUnit"
  /\ NodeScript[12] = "observerDownload" /\ NodeScript[13] = "observerScript"
  /\ NodeScript[14] = "observerStart"
BY DEF NodeScript

LEMMA GatewayScriptIs ==
  /\ Len(GatewayScript) = 9
  /\ GatewayScript[1] = "init" /\ GatewayScript[2] = "installDocker"
  /\ GatewayScript[3] = "unzip" /\ GatewayScript[4] = "binary"
  /\ GatewayScript[5] = "installUnit" /\ GatewayScript[6] = "startUnit"
  /\ GatewayScript[7] = "observerDownload" /\ GatewayScript[8] = "observerScript"
  /\ GatewayScript[9] = "observerStart"
BY DEF GatewayScript

LEMMA IndexerScriptIs ==
  /\ Len(IndexerScript) = 13
  /\ IndexerScript[1] = "init" /\ IndexerScript[2] = "format"
  /\ IndexerScript[3] = "mount" /\ IndexerScript[4] = "persist"
  /\ IndexerScript[5] = "installDocker" /\ IndexerScript[6] = "configureDocker"
  /\ IndexerScript[7] = "unzip" /\ IndexerScript[8] = "binary"
  /\ IndexerScript[9] = "installUnit" /\ IndexerScript[10] = "startUnit"
  /\ IndexerScript[11] = "observerDownload" /\ IndexerScript[12] = "observerScript"
  /\ IndexerScript[13] = "observerStart"
BY DEF IndexerScript

\* A step is due only at its place in the script.
LEMMA StepHasItsPlace ==
  ASSUME role \in Roles, pc \in Nat, NEW step, At(step)
  PROVE  Position(step) /\ pc < EndAt /\ phase = "up" /\ script = "running"
<1>1. /\ phase = "up" /\ script = "running"
      /\ pc < Len(Script) /\ Script[pc + 1] = step
  BY DEF At
<1>2. CASE role = "node"
  <2>1. Script = NodeScript
    BY <1>2 DEF Script
  <2>2. pc < 14 /\ NodeScript[pc + 1] = step
    BY <1>1, <2>1, NodeScriptIs
  <2>. DEFINE k == pc + 1
  <2>3. \/ k = 1 \/ k = 2 \/ k = 3 \/ k = 4 \/ k = 5 \/ k = 6 \/ k = 7
        \/ k = 8 \/ k = 9 \/ k = 10 \/ k = 11 \/ k = 12 \/ k = 13 \/ k = 14
    BY <2>2
  <2>4. NodeScript[k] = step /\ pc = k - 1
    BY <2>2
  <2>. HIDE DEF k
  <2>5. (k = 1 /\ step = "init") \/ (k = 2 /\ step = "format")
        \/ (k = 3 /\ step = "mount") \/ (k = 4 /\ step = "persist")
        \/ (k = 5 /\ step = "moveFiles") \/ (k = 6 /\ step = "moveAssets")
        \/ (k = 7 /\ step = "installDocker") \/ (k = 8 /\ step = "configureDocker")
        \/ (k = 9 /\ step = "pullImage") \/ (k = 10 /\ step = "installUnit")
        \/ (k = 11 /\ step = "startUnit") \/ (k = 12 /\ step = "observerDownload")
        \/ (k = 13 /\ step = "observerScript") \/ (k = 14 /\ step = "observerStart")
    BY <2>3, <2>4, NodeScriptIs
  <2>. QED
    BY <1>1, <1>2, <2>2, <2>4, <2>5 DEF Position, DockerAt, UnitAt, EndAt
<1>3. CASE role = "gateway"
  <2>1. Script = GatewayScript
    BY <1>3 DEF Script
  <2>2. pc < 9 /\ GatewayScript[pc + 1] = step
    BY <1>1, <2>1, GatewayScriptIs
  <2>. QED
    BY <1>1, <1>3, <2>2, GatewayScriptIs DEF Position, DockerAt, UnitAt, EndAt
<1>4. CASE role = "indexer"
  <2>1. Script = IndexerScript
    BY <1>4 DEF Script
  <2>2. pc < 13 /\ IndexerScript[pc + 1] = step
    BY <1>1, <2>1, IndexerScriptIs
  <2>. DEFINE k == pc + 1
  <2>3. \/ k = 1 \/ k = 2 \/ k = 3 \/ k = 4 \/ k = 5 \/ k = 6 \/ k = 7
        \/ k = 8 \/ k = 9 \/ k = 10 \/ k = 11 \/ k = 12 \/ k = 13
    BY <2>2
  <2>4. IndexerScript[k] = step /\ pc = k - 1
    BY <2>2
  <2>. HIDE DEF k
  <2>5. (k = 1 /\ step = "init") \/ (k = 2 /\ step = "format")
        \/ (k = 3 /\ step = "mount") \/ (k = 4 /\ step = "persist")
        \/ (k = 5 /\ step = "installDocker") \/ (k = 6 /\ step = "configureDocker")
        \/ (k = 7 /\ step = "unzip") \/ (k = 8 /\ step = "binary")
        \/ (k = 9 /\ step = "installUnit") \/ (k = 10 /\ step = "startUnit")
        \/ (k = 11 /\ step = "observerDownload") \/ (k = 12 /\ step = "observerScript")
        \/ (k = 13 /\ step = "observerStart")
    BY <2>3, <2>4, IndexerScriptIs
  <2>. QED
    BY <1>1, <1>4, <2>2, <2>4, <2>5 DEF Position, DockerAt, UnitAt, EndAt
<1>. QED
  BY <1>2, <1>3, <1>4 DEF Roles

LEMMA ScriptLength ==
  role \in Roles => Len(Script) = EndAt
BY NodeScriptIs, GatewayScriptIs, IndexerScriptIs DEF Roles, Script, EndAt

-----------------------------------------------------------------------------
\* The place /data is in while the script pulls a node's image.
ImagePlace == IF "mount" \in failed THEN "root" ELSE "volume"

\* What a script has done by the step it reached, and a unit relies on later.
Prepared ==
  /\ unitEnabled => pc >= UnitAt
  /\ script = "running" \/ unitEnabled =>
       /\ pc >= DockerAt => dockerEnabled
       /\ role # "gateway" /\ pc > DockerAt => dataRoot
       /\ role = "node" /\ pc >= 9 => "image" \in store[ImagePlace]

\* Where /data is: during the first boot as mounting went, later as fstab says.
Volume ==
  /\ "mount" \in failed => pc >= 3
  /\ "persist" \in failed => pc >= 4
  /\ role # "gateway" =>
       /\ fstab <=> pc >= 4 /\ "persist" \notin failed
       /\ reboots = 0 => (mounted <=> pc >= 3 /\ "mount" \notin failed)
  /\ reboots > 0 /\ phase = "up" => (mounted <=> fstab)

\* The script runs in the first boot only, the jobs of a boot in the others.
Boots ==
  /\ reboots = 0 => phase = "up" /\ jobs = {}
  /\ script = "running" => reboots = 0
  /\ jobs # {} => phase = "up" /\ dockerEnabled
  /\ "unit" \in jobs => unitEnabled
  /\ "docker" \in jobs => ~daemon
  /\ dockerEnabled \/ daemon => pc >= DockerAt

Ended ==
  /\ script = "finished" => pc = EndAt
  /\ failed \subseteq ObserverSteps =>
       /\ script = "exited" => pc >= UnitAt
       /\ script # "cut" /\ pc >= UnitAt => unitEnabled

\* The inductive invariant of a host.
NodeBootInv == NodeBootTypeOK /\ Prepared /\ Volume /\ Boots /\ RunsOnVolume /\ Ended

\* What is known of a step that is due.
LEMMA StepIsDue ==
  ASSUME NodeBootTypeOK
  PROVE  /\ \A step : At(step) => /\ pc < EndAt /\ phase = "up"
                                  /\ script = "running"
         /\ At("init") => pc = 0
         /\ At("format") => pc = 1 /\ role # "gateway"
         /\ At("mount") => pc = 2 /\ role # "gateway"
         /\ At("persist") => pc = 3 /\ role # "gateway"
         /\ At("moveFiles") => pc = 4 /\ role = "node"
         /\ At("moveAssets") => pc = 5 /\ role = "node"
         /\ At("installDocker") => pc + 1 = DockerAt
         /\ At("configureDocker") => pc = DockerAt /\ role # "gateway"
         /\ At("pullImage") => pc = 8 /\ role = "node"
         /\ At("unzip") => pc + 3 = UnitAt /\ role # "node"
         /\ At("binary") => pc + 2 = UnitAt /\ role # "node"
         /\ At("installUnit") => pc + 1 = UnitAt
         /\ At("startUnit") => pc = UnitAt
         /\ \A step \in ObserverSteps : At(step) => pc > UnitAt
<1>1. role \in Roles /\ pc \in Nat
  <2>1. role \in Roles /\ pc \in 0 .. Len(Script)
    BY DEF NodeBootTypeOK
  <2>. QED
    BY <2>1, ScriptLength DEF Roles, EndAt
<1>2. \A step : At(step) => Position(step) /\ pc < EndAt /\ phase = "up"
                            /\ script = "running"
  BY <1>1, StepHasItsPlace
<1>. QED
  BY <1>2 DEF Position, ObserverSteps

\* /data is where mounting and fstab put it: only their own two steps, a failure
\* of either and the boots move it.
LEMMA KeepsVolume ==
  ASSUME NodeBootInv, [Next]_vars
  PROVE  Volume'
<1>. USE ScriptLength, StepIsDue DEF NodeBootInv, NodeBootTypeOK, Volume, Boots,
      Roles, DockerAt, UnitAt, EndAt,
      Succeed, diskVars, dockerVars, unitVars, hostVars, bootVars
<1>1. CASE CfnInit
  BY <1>1 DEF CfnInit, Put, DataPlace, DockerPlace
<1>2. CASE Format
  BY <1>2 DEF Format
<1>3. CASE Mount
  BY <1>3 DEF Mount
<1>4. CASE Persist
  BY <1>4 DEF Persist
<1>5. CASE MoveFiles
  BY <1>5 DEF MoveFiles, Put, DataPlace, DockerPlace
<1>6. CASE MoveAssets
  BY <1>6 DEF MoveAssets, Put, DataPlace, DockerPlace
<1>7. CASE InstallDocker
  BY <1>7 DEF InstallDocker
<1>8. CASE ConfigureDocker
  BY <1>8 DEF ConfigureDocker
<1>9. CASE PullImage
  BY <1>9 DEF PullImage, Put, DataPlace, DockerPlace
<1>10. CASE Unzip
  BY <1>10 DEF Unzip, Put, DataPlace, DockerPlace
<1>11. CASE UnpackBinary
  BY <1>11 DEF UnpackBinary, Put, DataPlace, DockerPlace
<1>12. CASE InstallUnit
  BY <1>12 DEF InstallUnit
<1>13. CASE StartUnit
  BY <1>13 DEF StartUnit, ComposeUp, ComposeFails, CanComposeUp, IgnoresFailure,
               Present, HomeOf, Put, DataPlace, DockerPlace
<1>14. CASE ObserverStep
  BY <1>14 DEF ObserverStep, ObserverSteps
<1>15. ASSUME NEW step \in Steps, Fail(step) PROVE Volume'
  BY <1>15 DEF Fail, Stops, Lenient, BeforeErrexit, Steps, ObserverSteps
<1>16. CASE Reboot \/ Crash
  BY <1>16 DEF Reboot, Crash, Down, DataPlace, DockerPlace
<1>17. CASE Boot
  BY <1>17 DEF Boot
<1>18. CASE StartDocker
  BY <1>18 DEF StartDocker, Restartable, Restarts, Present, HomeOf, DataPlace, DockerPlace
<1>19. CASE StartUnitAtBoot
  BY <1>19 DEF StartUnitAtBoot, ComposeUp, ComposeFails, CanComposeUp,
               IgnoresFailure, Present, HomeOf, Put, DataPlace, DockerPlace
<1>20. CASE UNCHANGED vars
  BY <1>20 DEF vars
<1>21. CASE ContainersExit \/ DockerRestarts
  BY <1>21 DEF ContainersExit, DockerRestarts, Restartable, Restarts
<1>. QED
  BY <1>1, <1>2, <1>3, <1>4, <1>5, <1>6, <1>7, <1>8, <1>9, <1>10, <1>11, <1>12,
      <1>13, <1>14, <1>15, <1>16, <1>17, <1>18, <1>19, <1>20, <1>21 DEF Next, RunStep

\* Jobs belong to later boots, and the first boot is the script's.
LEMMA KeepsBoots ==
  ASSUME NodeBootInv, [Next]_vars
  PROVE  Boots'
<1>. USE ScriptLength, StepIsDue DEF NodeBootInv, NodeBootTypeOK, Prepared, Boots,
      Roles, DockerAt, UnitAt, EndAt,
      Succeed, diskVars, dockerVars, unitVars, hostVars, bootVars
<1>1. CASE CfnInit
  BY <1>1 DEF CfnInit, Put, DataPlace, DockerPlace
<1>2. CASE Format
  BY <1>2 DEF Format
<1>3. CASE Mount
  BY <1>3 DEF Mount
<1>4. CASE Persist
  BY <1>4 DEF Persist
<1>5. CASE MoveFiles
  BY <1>5 DEF MoveFiles, Put, DataPlace, DockerPlace
<1>6. CASE MoveAssets
  BY <1>6 DEF MoveAssets, Put, DataPlace, DockerPlace
<1>7. CASE InstallDocker
  BY <1>7 DEF InstallDocker
<1>8. CASE ConfigureDocker
  BY <1>8 DEF ConfigureDocker
<1>9. CASE PullImage
  BY <1>9 DEF PullImage, Put, DataPlace, DockerPlace
<1>10. CASE Unzip
  BY <1>10 DEF Unzip, Put, DataPlace, DockerPlace
<1>11. CASE UnpackBinary
  BY <1>11 DEF UnpackBinary, Put, DataPlace, DockerPlace
<1>12. CASE InstallUnit
  BY <1>12 DEF InstallUnit
<1>13. CASE StartUnit
  BY <1>13 DEF StartUnit, ComposeUp, ComposeFails, CanComposeUp, IgnoresFailure,
               Present, HomeOf, Put, DataPlace, DockerPlace
<1>14. CASE ObserverStep
  BY <1>14 DEF ObserverStep, ObserverSteps
<1>15. ASSUME NEW step \in Steps, Fail(step) PROVE Boots'
  BY <1>15 DEF Fail, Stops, Lenient, BeforeErrexit, Steps, ObserverSteps
<1>16. CASE Reboot \/ Crash
  BY <1>16 DEF Reboot, Crash, Down, DataPlace, DockerPlace
<1>17. CASE Boot
  BY <1>17 DEF Boot
<1>18. CASE StartDocker
  BY <1>18 DEF StartDocker, Restartable, Restarts, Present, HomeOf, DataPlace, DockerPlace
<1>19. CASE StartUnitAtBoot
  BY <1>19 DEF StartUnitAtBoot, ComposeUp, ComposeFails, CanComposeUp,
               IgnoresFailure, Present, HomeOf, Put, DataPlace, DockerPlace
<1>20. CASE UNCHANGED vars
  BY <1>20 DEF vars
<1>21. CASE ContainersExit \/ DockerRestarts
  BY <1>21 DEF ContainersExit, DockerRestarts, Restartable, Restarts
<1>. QED
  BY <1>1, <1>2, <1>3, <1>4, <1>5, <1>6, <1>7, <1>8, <1>9, <1>10, <1>11, <1>12,
      <1>13, <1>14, <1>15, <1>16, <1>17, <1>18, <1>19, <1>20, <1>21 DEF Next, RunStep

\* Nothing a script has prepared is taken back: a step that is passed over by a
\* failure comes before errexit or after the unit.
LEMMA KeepsPrepared ==
  ASSUME NodeBootInv, [Next]_vars
  PROVE  Prepared'
<1>. USE ScriptLength, StepIsDue DEF NodeBootInv, NodeBootTypeOK, Prepared,
      ImagePlace, Volume, Boots, Roles, DockerAt, UnitAt, EndAt, Places, Items,
      Succeed, diskVars, dockerVars, unitVars, hostVars, bootVars
<1>1. CASE CfnInit
  BY <1>1 DEF CfnInit, Put, DataPlace, DockerPlace
<1>2. CASE Format
  BY <1>2 DEF Format
<1>3. CASE Mount
  BY <1>3 DEF Mount
<1>4. CASE Persist
  BY <1>4 DEF Persist
<1>5. CASE MoveFiles
  BY <1>5 DEF MoveFiles, Put, DataPlace, DockerPlace
<1>6. CASE MoveAssets
  BY <1>6 DEF MoveAssets, Put, DataPlace, DockerPlace
<1>7. CASE InstallDocker
  BY <1>7 DEF InstallDocker
<1>8. CASE ConfigureDocker
  BY <1>8 DEF ConfigureDocker
<1>9. CASE PullImage
  BY <1>9 DEF PullImage, Put, DataPlace, DockerPlace
<1>10. CASE Unzip
  BY <1>10 DEF Unzip, Put, DataPlace, DockerPlace
<1>11. CASE UnpackBinary
  BY <1>11 DEF UnpackBinary, Put, DataPlace, DockerPlace
<1>12. CASE InstallUnit
  BY <1>12 DEF InstallUnit
<1>13. CASE StartUnit
  BY <1>13 DEF StartUnit, ComposeUp, ComposeFails, CanComposeUp, IgnoresFailure,
               Present, HomeOf, Put, DataPlace, DockerPlace
<1>14. CASE ObserverStep
  BY <1>14 DEF ObserverStep, ObserverSteps
<1>15. ASSUME NEW step \in Steps, Fail(step) PROVE Prepared'
  BY <1>15 DEF Fail, Stops, Lenient, BeforeErrexit, Steps, ObserverSteps
<1>16. CASE Reboot \/ Crash
  BY <1>16 DEF Reboot, Crash, Down, DataPlace, DockerPlace
<1>17. CASE Boot
  BY <1>17 DEF Boot
<1>18. CASE StartDocker
  BY <1>18 DEF StartDocker, Restartable, Restarts, Present, HomeOf, DataPlace, DockerPlace
<1>19. CASE StartUnitAtBoot
  BY <1>19 DEF StartUnitAtBoot, ComposeUp, ComposeFails, CanComposeUp,
               IgnoresFailure, Present, HomeOf, Put, DataPlace, DockerPlace
<1>20. CASE UNCHANGED vars
  BY <1>20 DEF vars
<1>21. CASE ContainersExit \/ DockerRestarts
  BY <1>21 DEF ContainersExit, DockerRestarts, Restartable, Restarts
<1>. QED
  BY <1>1, <1>2, <1>3, <1>4, <1>5, <1>6, <1>7, <1>8, <1>9, <1>10, <1>11, <1>12,
      <1>13, <1>14, <1>15, <1>16, <1>17, <1>18, <1>19, <1>20, <1>21 DEF Next, RunStep

\* The service starts only where its place and its daemon are known.
LEMMA KeepsOnVolume ==
  ASSUME NodeBootInv, [Next]_vars
  PROVE  RunsOnVolume'
<1>. USE ScriptLength, StepIsDue DEF NodeBootInv, NodeBootTypeOK,
      RunsOnVolume, Prepared, Volume, Boots, Roles,
      DockerAt, UnitAt, EndAt,
      Succeed, diskVars, dockerVars, unitVars, hostVars, bootVars
<1>1. CASE CfnInit
  BY <1>1 DEF CfnInit, Put, DataPlace, DockerPlace
<1>2. CASE Format
  BY <1>2 DEF Format
<1>3. CASE Mount
  BY <1>3 DEF Mount
<1>4. CASE Persist
  BY <1>4 DEF Persist
<1>5. CASE MoveFiles
  BY <1>5 DEF MoveFiles, Put, DataPlace, DockerPlace
<1>6. CASE MoveAssets
  BY <1>6 DEF MoveAssets, Put, DataPlace, DockerPlace
<1>7. CASE InstallDocker
  BY <1>7 DEF InstallDocker
<1>8. CASE ConfigureDocker
  BY <1>8 DEF ConfigureDocker
<1>9. CASE PullImage
  BY <1>9 DEF PullImage, Put, DataPlace, DockerPlace
<1>10. CASE Unzip
  BY <1>10 DEF Unzip, Put, DataPlace, DockerPlace
<1>11. CASE UnpackBinary
  BY <1>11 DEF UnpackBinary, Put, DataPlace, DockerPlace
<1>12. CASE InstallUnit
  BY <1>12 DEF InstallUnit
<1>13. CASE StartUnit
  <2>1. pc = UnitAt /\ script = "running"
    BY <1>13 DEF StartUnit
  <2>2. role # "gateway" /\ failed \cap {"mount", "persist"} = {} => mounted
    BY <2>1
  <2>3. /\ UNCHANGED <<role, mounted>>
        /\ failed' = failed \/ failed' = failed \cup {"startUnit"}
    BY <1>13 DEF StartUnit
  <2>. QED
    BY ONLY <2>2, <2>3 DEF RunsOnVolume
<1>14. CASE ObserverStep
  BY <1>14 DEF ObserverStep, ObserverSteps
<1>15. ASSUME NEW step \in Steps, Fail(step) PROVE RunsOnVolume'
  BY <1>15 DEF Fail, Stops, Lenient, BeforeErrexit, Steps, ObserverSteps
<1>16. CASE Reboot \/ Crash
  BY <1>16 DEF Reboot, Crash, Down, DataPlace, DockerPlace
<1>17. CASE Boot
  BY <1>17 DEF Boot
<1>18. CASE StartDocker
  BY <1>18 DEF StartDocker, Restartable, Restarts, Present, HomeOf, DataPlace, DockerPlace
<1>19. CASE StartUnitAtBoot
  <2>1. phase = "up" /\ reboots > 0 /\ unitEnabled
    BY <1>19 DEF StartUnitAtBoot
  <2>2. role # "gateway" /\ failed \cap {"mount", "persist"} = {} => mounted
    BY <2>1
  <2>3. /\ UNCHANGED <<role, mounted>>
        /\ failed' = failed \/ failed' = failed \cup {"boot"}
    BY <1>19 DEF StartUnitAtBoot
  <2>. QED
    BY ONLY <2>2, <2>3 DEF RunsOnVolume
<1>20. CASE UNCHANGED vars
  BY <1>20 DEF vars
<1>21. CASE ContainersExit \/ DockerRestarts
  BY <1>21 DEF ContainersExit, DockerRestarts, Restartable, Restarts
<1>. QED
  BY <1>1, <1>2, <1>3, <1>4, <1>5, <1>6, <1>7, <1>8, <1>9, <1>10, <1>11, <1>12,
      <1>13, <1>14, <1>15, <1>16, <1>17, <1>18, <1>19, <1>20, <1>21 DEF Next, RunStep

\* A script that ends well went through the unit.
LEMMA KeepsEnded ==
  ASSUME NodeBootInv, [Next]_vars
  PROVE  Ended'
<1>. DEFINE OnlyObserver == failed \subseteq ObserverSteps
<1>1. /\ role \in Roles /\ pc \in Nat /\ UnitAt \in Nat /\ EndAt \in Nat
      /\ UnitAt < EndAt /\ Len(Script) = EndAt
      /\ script \in {"running", "finished", "exited", "cut"}
  BY ScriptLength DEF NodeBootInv, NodeBootTypeOK, Roles, UnitAt, EndAt
<1>2. /\ script = "finished" => pc = EndAt
      /\ OnlyObserver => /\ script = "exited" => pc >= UnitAt
                         /\ script # "cut" /\ pc >= UnitAt => unitEnabled
  BY DEF NodeBootInv, Ended
<1>3. role' = role /\ UnitAt' = UnitAt /\ EndAt' = EndAt
  <2>1. role' = role
    BY DEF Next, RunStep, CfnInit, Format, Mount, Persist, MoveFiles, MoveAssets,
           InstallDocker, ConfigureDocker, PullImage, Unzip, UnpackBinary,
           InstallUnit, StartUnit, ObserverStep, Fail, ContainersExit, DockerRestarts,
           Reboot, Crash, Down, Boot,
           StartDocker, StartUnitAtBoot, Succeed, hostVars, vars
  <2>. QED
    BY <2>1 DEF UnitAt, EndAt
<1>4. \/ UNCHANGED <<pc, script, failed, unitEnabled>>
      \/ UNCHANGED <<pc, failed, unitEnabled>> /\ script' = "cut"
      => Ended'
  BY <1>1, <1>2, <1>3 DEF Ended
<1>5. ASSUME Succeed, script = "running", pc < EndAt,
             unitEnabled' = unitEnabled, pc + 1 < UnitAt \/ pc >= UnitAt
      PROVE  Ended'
  <2>1. /\ failed' = failed /\ pc' = pc + 1
        /\ script' = IF pc + 1 = EndAt THEN "finished" ELSE "running"
    BY <1>1, <1>5 DEF Succeed
  <2>2. OnlyObserver' = OnlyObserver
    BY <2>1
  <2>. HIDE DEF OnlyObserver
  <2>3. OnlyObserver' /\ pc' >= UnitAt => unitEnabled'
    BY <1>1, <1>2, <1>5, <2>1, <2>2
  <2>4. /\ script' = "finished" => pc' = EndAt'
        /\ script' # "exited"
    BY <1>3, <2>1
  <2>. QED
    BY <1>3, <2>3, <2>4 DEF Ended, OnlyObserver
<1>6. CASE InstallUnit
  <2>1. /\ pc + 1 = UnitAt /\ script = "running"
        /\ unitEnabled' = TRUE /\ failed' = failed /\ pc' = pc + 1
        /\ script' = IF pc + 1 = EndAt THEN "finished" ELSE script
    BY <1>1, <1>6, StepIsDue DEF InstallUnit, Succeed, NodeBootInv
  <2>. QED
    BY <1>1, <1>3, <2>1 DEF Ended
<1>7. CASE StartUnit
  <2>1. /\ pc = UnitAt /\ script = "running" /\ pc < EndAt
        /\ unitEnabled' = unitEnabled
    BY <1>7, StepIsDue DEF StartUnit, NodeBootInv
  <2>2. CASE Succeed
    BY <1>5, <1>1, <2>1, <2>2
  <2>3. CASE /\ script' = "exited" /\ failed' = failed \cup {"startUnit"}
    <3>1. ~OnlyObserver'
      BY <2>3 DEF ObserverSteps
    <3>. QED
      BY <2>3, <3>1 DEF Ended
  <2>. QED
    BY <1>7, <2>2, <2>3 DEF StartUnit
<1>8. ASSUME NEW step \in Steps, Fail(step) PROVE Ended'
  <2>1. At(step) /\ script = "running" /\ pc < EndAt
    BY <1>8, StepIsDue DEF Fail, NodeBootInv
  <2>2. /\ failed' = failed \cup {step} /\ pc' = pc + 1
        /\ unitEnabled' = unitEnabled
        /\ script' = CASE Stops(step) -> "exited"
                       [] ~Stops(step) /\ pc + 1 = EndAt -> "finished"
                       [] ~Stops(step) /\ pc + 1 # EndAt -> script
    BY <1>1, <1>8 DEF Fail, unitVars
  <2>3. CASE step \in ObserverSteps
    <3>1. pc > UnitAt
      BY <2>1, <2>3, StepIsDue DEF NodeBootInv
    <3>2. OnlyObserver' => OnlyObserver
      BY <2>2
    <3>. HIDE DEF OnlyObserver
    <3>3. OnlyObserver' => unitEnabled'
      BY <1>1, <1>2, <2>1, <2>2, <3>1, <3>2
    <3>4. script' = "finished" => pc' = EndAt'
      BY <1>3, <2>1, <2>2
    <3>. QED
      BY <1>1, <1>3, <2>2, <3>1, <3>3, <3>4 DEF Ended, OnlyObserver
  <2>4. CASE step \notin ObserverSteps
    <3>1. ~OnlyObserver'
      BY <2>2, <2>4
    <3>2. script' = "finished" => pc' = EndAt'
      BY <1>3, <2>1, <2>2
    <3>. QED
      BY <3>1, <3>2 DEF Ended
  <2>. QED
    BY <2>3, <2>4
<1>9. CASE ObserverStep
  <2>1. /\ pc > UnitAt /\ script = "running" /\ pc < EndAt /\ Succeed
        /\ unitEnabled' = unitEnabled
    BY <1>9, StepIsDue DEF ObserverStep, unitVars, NodeBootInv
  <2>. QED
    BY <1>1, <1>5, <2>1
<1>10. CASE \/ CfnInit \/ Format \/ Mount \/ Persist \/ MoveFiles \/ MoveAssets
            \/ InstallDocker \/ ConfigureDocker \/ PullImage \/ Unzip
            \/ UnpackBinary
  <2>1. /\ script = "running" /\ pc < EndAt /\ Succeed
        /\ unitEnabled' = unitEnabled /\ pc + 1 < UnitAt
    BY <1>1, <1>10, StepIsDue
       DEF CfnInit, Format, Mount, Persist, MoveFiles, MoveAssets, InstallDocker,
           ConfigureDocker, PullImage, Unzip, UnpackBinary, unitVars, NodeBootInv,
           Roles, DockerAt, UnitAt
  <2>. QED
    BY <1>5, <2>1
<1>11. CASE Reboot \/ Crash
  <2>1. /\ UNCHANGED <<pc, failed, unitEnabled>>
        /\ script' = script \/ script' = "cut"
    BY <1>11 DEF Reboot, Crash, Down
  <2>. QED
    BY <1>4, <2>1
<1>12. CASE \/ Boot \/ StartDocker \/ ContainersExit \/ DockerRestarts
            \/ UNCHANGED vars
  <2>1. UNCHANGED <<pc, script, failed, unitEnabled>>
    BY <1>12 DEF Boot, StartDocker, ContainersExit, DockerRestarts, unitVars, vars
  <2>. QED
    BY <1>4, <2>1
<1>13. CASE StartUnitAtBoot
  <2>1. /\ UNCHANGED <<pc, script, unitEnabled>>
        /\ failed \subseteq failed'
    BY <1>13 DEF StartUnitAtBoot
  <2>2. OnlyObserver' => OnlyObserver
    BY <2>1
  <2>. HIDE DEF OnlyObserver
  <2>. QED
    BY <1>2, <1>3, <2>1, <2>2 DEF Ended, OnlyObserver
<1>. QED
  BY <1>6, <1>7, <1>8, <1>9, <1>10, <1>11, <1>12, <1>13 DEF Next, RunStep

\* Putting known things somewhere keeps the store a store.
LEMMA PutKeepsStore ==
  ASSUME store \in [Places -> SUBSET Items], NEW place \in Places,
         NEW items \in SUBSET Items, Put(place, items)
  PROVE  store' \in [Places -> SUBSET Items]
BY DEF Put

LEMMA KeepsStoreType ==
  ASSUME NodeBootInv, [Next]_vars
  PROVE  store' \in [Places -> SUBSET Items]
<1>1. /\ store \in [Places -> SUBSET Items]
      /\ DataPlace \in Places /\ DockerPlace \in Places /\ "home" \in Places
  BY DEF NodeBootInv, NodeBootTypeOK, DataPlace, DockerPlace, Places
<1>2. \A item \in {"init", "files", "assets", "image", "containers"} : {item} \in SUBSET Items
  BY DEF Items
<1>3. CASE CfnInit \/ MoveFiles \/ MoveAssets \/ PullImage \/ Unzip \/ UnpackBinary
  <2>1. \E place \in Places, items \in SUBSET Items : Put(place, items)
    BY <1>1, <1>2, <1>3 DEF CfnInit, MoveFiles, MoveAssets, PullImage, Unzip,
                            UnpackBinary
  <2>. QED
    BY <1>1, <2>1, PutKeepsStore
<1>4. CASE StartUnit \/ StartUnitAtBoot
  <2>1. Put(DockerPlace, {"containers"}) \/ UNCHANGED store
    BY <1>4 DEF StartUnit, StartUnitAtBoot, ComposeUp, ComposeFails
  <2>. QED
    BY <1>1, <1>2, <2>1, PutKeepsStore
<1>5. CASE Reboot \/ Crash
  <2>1. \/ store' = store
        \/ store' = [store EXCEPT ![DockerPlace] = @ \ {"containers"}]
    BY <1>5 DEF Reboot, Crash, Down
  <2>. QED
    BY <1>1, <2>1
<1>6. CASE \/ Format \/ Mount \/ Persist \/ InstallDocker \/ ConfigureDocker
           \/ InstallUnit \/ ObserverStep \/ Boot \/ StartDocker
           \/ ContainersExit \/ DockerRestarts
           \/ (\E step \in Steps : Fail(step)) \/ UNCHANGED vars
  <2>1. UNCHANGED store
    BY <1>6 DEF Format, Mount, Persist, InstallDocker, ConfigureDocker, InstallUnit,
                ObserverStep, Boot, StartDocker, ContainersExit, DockerRestarts,
                Fail, diskVars, vars
  <2>. QED
    BY <1>1, <2>1
<1>. QED
  BY <1>3, <1>4, <1>5, <1>6 DEF Next, RunStep

\* What hosts without a validator node have nowhere.
StoreShape ==
  role # "node" =>
    /\ \A place \in Places : "image" \notin store[place]
    /\ \A place \in {"root", "volume"} :
          "files" \notin store[place] /\ "assets" \notin store[place]

\* Putting something keeps the shape if it is no image, and no file under /data.
LEMMA PutKeepsShape ==
  ASSUME store \in [Places -> SUBSET Items], StoreShape, role' = role,
         NEW place \in Places, NEW items \in SUBSET Items, Put(place, items),
         "image" \notin items,
         place = "home" \/ ("files" \notin items /\ "assets" \notin items)
  PROVE  StoreShape'
<1>1. \A p \in Places : store'[p] = IF p = place THEN store[p] \cup items ELSE store[p]
  BY DEF Put
<1>. QED
  BY <1>1 DEF StoreShape, Places

LEMMA KeepsStoreShape ==
  ASSUME NodeBootInv, [Next]_vars
  PROVE  StoreShape'
<1>1. /\ store \in [Places -> SUBSET Items] /\ StoreShape
      /\ DataPlace \in Places /\ DockerPlace \in Places /\ "home" \in Places
  BY DEF NodeBootInv, NodeBootTypeOK, StoreShape, DataPlace, DockerPlace, Places
<1>2. role' = role
  BY DEF Next, RunStep, CfnInit, Format, Mount, Persist, MoveFiles, MoveAssets,
         InstallDocker, ConfigureDocker, PullImage, Unzip, UnpackBinary,
         InstallUnit, StartUnit, ObserverStep, Fail, ContainersExit, DockerRestarts,
         Reboot, Crash, Down, Boot, StartDocker, StartUnitAtBoot, Succeed,
         hostVars, vars
<1>3. CASE CfnInit \/ Unzip \/ UnpackBinary
  <2>1. \E item \in {"init", "assets", "files"} : Put("home", {item})
    BY <1>3 DEF CfnInit, Unzip, UnpackBinary
  <2>2. PICK item \in {"init", "assets", "files"} : Put("home", {item})
    BY <2>1
  <2>3. {item} \in SUBSET Items /\ "image" \notin {item}
    BY DEF Items
  <2>. QED
    BY <1>1, <1>2, <2>2, <2>3, PutKeepsShape
<1>4. CASE MoveFiles \/ MoveAssets \/ PullImage
  <2>1. role = "node"
    BY <1>4, StepIsDue DEF MoveFiles, MoveAssets, PullImage, NodeBootInv
  <2>. QED
    BY <1>2, <2>1 DEF StoreShape
<1>5. CASE StartUnit \/ StartUnitAtBoot
  <2>1. Put(DockerPlace, {"containers"}) \/ UNCHANGED store
    BY <1>5 DEF StartUnit, StartUnitAtBoot, ComposeUp, ComposeFails
  <2>2. /\ {"containers"} \in SUBSET Items /\ "image" \notin {"containers"}
        /\ "files" \notin {"containers"} /\ "assets" \notin {"containers"}
    BY DEF Items
  <2>3. UNCHANGED store => StoreShape'
    BY <1>1, <1>2 DEF StoreShape
  <2>. QED
    BY <1>1, <1>2, <2>1, <2>2, <2>3, PutKeepsShape
<1>6. CASE Reboot \/ Crash
  <2>1. \/ store' = store
        \/ store' = [store EXCEPT ![DockerPlace] = @ \ {"containers"}]
    BY <1>6 DEF Reboot, Crash, Down
  <2>2. \A p \in Places : store'[p] \subseteq store[p]
    BY <1>1, <2>1
  <2>. QED
    BY <1>1, <1>2, <2>2 DEF StoreShape, Places
<1>7. CASE \/ Format \/ Mount \/ Persist \/ InstallDocker \/ ConfigureDocker
           \/ InstallUnit \/ ObserverStep \/ Boot \/ StartDocker
           \/ ContainersExit \/ DockerRestarts
           \/ (\E step \in Steps : Fail(step)) \/ UNCHANGED vars
  <2>1. UNCHANGED store
    BY <1>7 DEF Format, Mount, Persist, InstallDocker, ConfigureDocker, InstallUnit,
                ObserverStep, Boot, StartDocker, ContainersExit, DockerRestarts,
                Fail, diskVars, vars
  <2>. QED
    BY <1>1, <1>2, <2>1 DEF StoreShape
<1>. QED
  BY <1>3, <1>4, <1>5, <1>6, <1>7 DEF Next, RunStep

\* The script's own variables.
LEMMA KeepsScriptType ==
  ASSUME NodeBootInv, [Next]_vars
  PROVE  /\ role' \in Roles /\ dockerSocket' \in BOOLEAN
         /\ pc' \in 0 .. Len(Script)'
         /\ script' \in {"running", "finished", "exited", "cut"}
         /\ failed' \subseteq Steps \cup {"startUnit", "boot"}
<1>1. /\ role \in Roles /\ dockerSocket \in BOOLEAN
      /\ pc \in 0 .. Len(Script)
      /\ script \in {"running", "finished", "exited", "cut"}
      /\ failed \subseteq Steps \cup {"startUnit", "boot"}
      /\ Len(Script) = EndAt /\ EndAt \in Nat
  BY ScriptLength DEF NodeBootInv, NodeBootTypeOK, Roles, EndAt
<1>2. UNCHANGED hostVars
  BY DEF Next, RunStep, CfnInit, Format, Mount, Persist, MoveFiles, MoveAssets,
         InstallDocker, ConfigureDocker, PullImage, Unzip, UnpackBinary,
         InstallUnit, StartUnit, ObserverStep, Fail, ContainersExit, DockerRestarts,
           Reboot, Crash, Down, Boot,
         StartDocker, StartUnitAtBoot, Succeed, vars
<1>3. Script' = Script
  BY <1>2 DEF hostVars, Script
<1>4. CASE RunStep
  <2>1. pc < Len(Script)
    BY <1>1, <1>4, StepIsDue
       DEF RunStep, CfnInit, Format, Mount, Persist, MoveFiles, MoveAssets,
           InstallDocker, ConfigureDocker, PullImage, Unzip, UnpackBinary,
           InstallUnit, StartUnit, ObserverStep, NodeBootInv
  <2>2. \/ Succeed
        \/ /\ script' = "exited" /\ pc' = pc + 1
           /\ failed' = failed \cup {"startUnit"}
    BY <1>4 DEF RunStep, CfnInit, Format, Mount, Persist, MoveFiles, MoveAssets,
                InstallDocker, ConfigureDocker, PullImage, Unzip, UnpackBinary,
                InstallUnit, StartUnit, ObserverStep
  <2>. QED
    BY <1>1, <1>2, <1>3, <2>1, <2>2 DEF Succeed, hostVars
<1>5. ASSUME NEW step \in Steps, Fail(step)
      PROVE  /\ pc' \in 0 .. Len(Script)'
             /\ script' \in {"running", "finished", "exited", "cut"}
             /\ failed' \subseteq Steps \cup {"startUnit", "boot"}
  <2>1. pc < Len(Script) /\ pc' = pc + 1 /\ failed' = failed \cup {step}
    BY <1>1, <1>5, StepIsDue DEF Fail, NodeBootInv
  <2>2. script' \in {"running", "finished", "exited", "cut"}
    BY <1>1, <1>5 DEF Fail
  <2>. QED
    BY <1>1, <1>3, <2>1, <2>2
<1>6. CASE \/ Reboot \/ Crash \/ Boot \/ StartDocker \/ StartUnitAtBoot
           \/ ContainersExit \/ DockerRestarts \/ UNCHANGED vars
  <2>1. /\ pc' = pc /\ (script' = script \/ script' = "cut")
        /\ failed' = failed \/ failed' = failed \cup {"boot"}
    BY <1>6 DEF Reboot, Crash, Down, Boot, StartDocker, StartUnitAtBoot,
                ContainersExit, DockerRestarts, vars
  <2>. QED
    BY <1>1, <1>2, <1>3, <2>1 DEF hostVars
<1>. QED
  BY <1>1, <1>2, <1>4, <1>5, <1>6 DEF hostVars, Next

\* The variables of the boot, of the disks, of docker and of the service.
HostTypeOK ==
  /\ phase \in {"up", "down", "emergency"} /\ reboots \in 0 .. MaxReboots
  /\ jobs \subseteq {"docker", "unit"}
  /\ formatted \in BOOLEAN /\ fstab \in BOOLEAN /\ mounted \in BOOLEAN
  /\ dataRoot \in BOOLEAN /\ dockerEnabled \in BOOLEAN /\ daemon \in BOOLEAN
  /\ unitEnabled \in BOOLEAN /\ running \in BOOLEAN
  /\ unit \in {"inactive", "active", "failed"}

HostShape ==
  /\ phase # "up" => ~mounted /\ ~daemon /\ ~running /\ unit = "inactive"
  /\ role = "gateway" => ~formatted /\ ~fstab /\ ~dataRoot
  /\ mounted => formatted

\* The types of the other variables, and what is empty in a host that is down.
LEMMA KeepsHostTypeOK ==
  ASSUME NodeBootInv, [Next]_vars
  PROVE  HostTypeOK'
<1>. USE ScriptLength, StepIsDue DEF NodeBootInv, NodeBootTypeOK, HostTypeOK,
      Present,
      Succeed, diskVars, dockerVars, unitVars, hostVars, bootVars
<1>1. CASE CfnInit
  BY <1>1 DEF CfnInit, Put, DataPlace, DockerPlace
<1>2. CASE Format
  BY <1>2 DEF Format
<1>3. CASE Mount
  BY <1>3 DEF Mount
<1>4. CASE Persist
  BY <1>4 DEF Persist
<1>5. CASE MoveFiles
  BY <1>5 DEF MoveFiles, Put, DataPlace, DockerPlace
<1>6. CASE MoveAssets
  BY <1>6 DEF MoveAssets, Put, DataPlace, DockerPlace
<1>7. CASE InstallDocker
  BY <1>7 DEF InstallDocker
<1>8. CASE ConfigureDocker
  BY <1>8 DEF ConfigureDocker
<1>9. CASE PullImage
  BY <1>9 DEF PullImage, Put, DataPlace, DockerPlace
<1>10. CASE Unzip
  BY <1>10 DEF Unzip, Put, DataPlace, DockerPlace
<1>11. CASE UnpackBinary
  BY <1>11 DEF UnpackBinary, Put, DataPlace, DockerPlace
<1>12. CASE InstallUnit
  BY <1>12 DEF InstallUnit
<1>13. CASE StartUnit
  <2>1. Present("files") \in BOOLEAN
    BY DEF Present
  <2>2. UNCHANGED <<phase, reboots, formatted, fstab, mounted, dataRoot,
                    dockerEnabled, daemon, unitEnabled>>
        /\ jobs' \subseteq jobs
    BY <1>13 DEF StartUnit, Succeed, hostVars, bootVars, dockerVars
  <2>3. /\ running' = Present("files") \/ running' = running
        /\ unit' \in {"active", "failed"}
    BY <1>13 DEF StartUnit, ComposeUp, ComposeFails
  <2>. QED
    BY <2>1, <2>2, <2>3
<1>14. CASE ObserverStep
  BY <1>14 DEF ObserverStep, ObserverSteps
<1>15. ASSUME NEW step \in Steps, Fail(step) PROVE HostTypeOK'
  BY <1>15 DEF Fail, Stops, Lenient, BeforeErrexit, Steps, ObserverSteps
<1>16. CASE Reboot \/ Crash
  <2>1. reboots' \in 0 .. MaxReboots
    BY <1>16, MaxRebootsIsNatural DEF Reboot, Crash, Down
  <2>2. /\ phase' = "down" /\ jobs' = {} /\ unit' = "inactive"
        /\ mounted' = FALSE /\ daemon' = FALSE /\ running' = FALSE
        /\ UNCHANGED <<formatted, fstab, dataRoot, dockerEnabled, unitEnabled>>
    BY <1>16 DEF Reboot, Crash, Down
  <2>. QED
    BY <2>1, <2>2
<1>17. CASE Boot
  BY <1>17 DEF Boot
<1>18. CASE StartDocker
  BY <1>18 DEF StartDocker, Restartable, Restarts, Present, HomeOf, DataPlace, DockerPlace
<1>19. CASE StartUnitAtBoot
  <2>1. Present("files") \in BOOLEAN
    BY DEF Present
  <2>2. UNCHANGED <<phase, reboots, formatted, fstab, mounted, dataRoot,
                    dockerEnabled, daemon, unitEnabled>>
        /\ jobs' \subseteq jobs
    BY <1>19 DEF StartUnitAtBoot, Succeed, hostVars, bootVars, dockerVars
  <2>3. /\ running' = Present("files") \/ running' = running
        /\ unit' \in {"active", "failed"}
    BY <1>19 DEF StartUnitAtBoot, ComposeUp, ComposeFails
  <2>. QED
    BY <2>1, <2>2, <2>3
<1>20. CASE UNCHANGED vars
  BY <1>20 DEF vars
<1>21. CASE ContainersExit \/ DockerRestarts
  BY <1>21 DEF ContainersExit, DockerRestarts, Restartable, Restarts
<1>. QED
  BY <1>1, <1>2, <1>3, <1>4, <1>5, <1>6, <1>7, <1>8, <1>9, <1>10, <1>11, <1>12,
      <1>13, <1>14, <1>15, <1>16, <1>17, <1>18, <1>19, <1>20, <1>21 DEF Next, RunStep

LEMMA KeepsHostShape ==
  ASSUME NodeBootInv, [Next]_vars
  PROVE  HostShape'
<1>. USE ScriptLength, StepIsDue DEF NodeBootInv, NodeBootTypeOK, HostShape,
      Volume, Boots,
      Succeed, diskVars, dockerVars, unitVars, hostVars, bootVars
<1>1. CASE CfnInit
  BY <1>1 DEF CfnInit, Put, DataPlace, DockerPlace
<1>2. CASE Format
  BY <1>2 DEF Format
<1>3. CASE Mount
  BY <1>3 DEF Mount
<1>4. CASE Persist
  BY <1>4 DEF Persist
<1>5. CASE MoveFiles
  BY <1>5 DEF MoveFiles, Put, DataPlace, DockerPlace
<1>6. CASE MoveAssets
  BY <1>6 DEF MoveAssets, Put, DataPlace, DockerPlace
<1>7. CASE InstallDocker
  BY <1>7 DEF InstallDocker
<1>8. CASE ConfigureDocker
  BY <1>8 DEF ConfigureDocker
<1>9. CASE PullImage
  BY <1>9 DEF PullImage, Put, DataPlace, DockerPlace
<1>10. CASE Unzip
  BY <1>10 DEF Unzip, Put, DataPlace, DockerPlace
<1>11. CASE UnpackBinary
  BY <1>11 DEF UnpackBinary, Put, DataPlace, DockerPlace
<1>12. CASE InstallUnit
  BY <1>12 DEF InstallUnit
<1>13. CASE StartUnit
  BY <1>13 DEF StartUnit, ComposeUp, ComposeFails, CanComposeUp, IgnoresFailure,
               Present, HomeOf, Put, DataPlace, DockerPlace
<1>14. CASE ObserverStep
  BY <1>14 DEF ObserverStep, ObserverSteps
<1>15. ASSUME NEW step \in Steps, Fail(step) PROVE HostShape'
  BY <1>15 DEF Fail, Stops, Lenient, BeforeErrexit, Steps, ObserverSteps
<1>16. CASE Reboot \/ Crash
  BY <1>16 DEF Reboot, Crash, Down, DataPlace, DockerPlace
<1>17. CASE Boot
  BY <1>17 DEF Boot
<1>18. CASE StartDocker
  BY <1>18 DEF StartDocker, Restartable, Restarts, Present, HomeOf, DataPlace, DockerPlace
<1>19. CASE StartUnitAtBoot
  BY <1>19 DEF StartUnitAtBoot, ComposeUp, ComposeFails, CanComposeUp,
               IgnoresFailure, Present, HomeOf, Put, DataPlace, DockerPlace
<1>20. CASE UNCHANGED vars
  BY <1>20 DEF vars
<1>21. CASE ContainersExit \/ DockerRestarts
  BY <1>21 DEF ContainersExit, DockerRestarts, Restartable, Restarts
<1>. QED
  BY <1>1, <1>2, <1>3, <1>4, <1>5, <1>6, <1>7, <1>8, <1>9, <1>10, <1>11, <1>12,
      <1>13, <1>14, <1>15, <1>16, <1>17, <1>18, <1>19, <1>20, <1>21 DEF Next, RunStep

-----------------------------------------------------------------------------
LEMMA HostInit == Init => NodeBootInv
<1>. SUFFICES ASSUME Init PROVE NodeBootInv
  OBVIOUS
<1>1. NodeBootTypeOK
  <2>1. pc \in 0 .. Len(Script)
    BY ScriptLength DEF Init, Roles, EndAt
  <2>2. store \in [Places -> SUBSET Items]
    BY DEF Init
  <2>3. failed = {} /\ jobs = {} /\ reboots \in 0 .. MaxReboots
    BY MaxRebootsIsNatural DEF Init
  <2>4. \A place \in Places : store[place] = {}
    BY DEF Init
  <2>5. /\ \A place \in Places : "image" \notin store[place]
        /\ \A place \in {"root", "volume"} :
              "files" \notin store[place] /\ "assets" \notin store[place]
    BY <2>4 DEF Places
  <2>. QED
    BY <2>1, <2>2, <2>3, <2>5 DEF Init, NodeBootTypeOK
<1>2. Prepared /\ Volume /\ Boots /\ RunsOnVolume
  BY DEF Init, Prepared, Volume, Boots, RunsOnVolume, Roles, DockerAt, UnitAt
<1>3. Ended
  BY DEF Init, Ended, Roles, UnitAt
<1>. QED
  BY <1>1, <1>2, <1>3 DEF NodeBootInv

LEMMA HostStep == NodeBootInv /\ [Next]_vars => NodeBootInv'
<1>. SUFFICES ASSUME NodeBootInv, [Next]_vars PROVE NodeBootInv'
  OBVIOUS
<1>1. HostTypeOK' /\ HostShape'
  BY KeepsHostTypeOK, KeepsHostShape
<1>2. NodeBootTypeOK'
  BY <1>1, KeepsStoreType, KeepsStoreShape, KeepsScriptType
     DEF NodeBootTypeOK, HostTypeOK, HostShape, StoreShape
<1>. QED
  BY <1>2, KeepsPrepared, KeepsVolume, KeepsBoots, KeepsOnVolume, KeepsEnded
     DEF NodeBootInv

LEMMA HostInvariant == Spec => []NodeBootInv
BY HostInit, HostStep, PTL DEF Spec

(* The state of a host stays well formed, whatever fails and however often  *)
(* it goes down.                                                            *)
THEOREM HostTypeCorrect == Spec => []NodeBootTypeOK
BY HostInvariant, PTL DEF NodeBootInv

(* A unit that starts at every boot has behind it what the script prepared: *)
(* it is enabled only at a position the script reaches through the steps    *)
(* that stop it when they fail.                                             *)
THEOREM EnabledUnitIsBacked == Spec => []UnitIsBacked
<1>1. NodeBootInv => UnitIsBacked
  BY DEF NodeBootInv, NodeBootTypeOK, Prepared, UnitIsBacked, ImagePlace, Roles,
         DockerAt, UnitAt
<1>. QED
  BY <1>1, HostInvariant, PTL

(* Where mounting and recording the mount succeeded, the service never runs *)
(* on the root volume, in no boot.                                          *)
THEOREM ServiceRunsOnVolume == Spec => []RunsOnVolume
BY HostInvariant, PTL DEF NodeBootInv

(* A script whose only failures are the observer's leaves the unit enabled. *)
THEOREM ScriptEndsWithUnit == Spec => []EndedMeansStarted
<1>1. NodeBootInv => EndedMeansStarted
  <2>. SUFFICES ASSUME NodeBootInv, script \in {"finished", "exited"},
                       failed \subseteq ObserverSteps
                PROVE  unitEnabled
    BY DEF EndedMeansStarted
  <2>1. pc >= UnitAt
    BY DEF NodeBootInv, NodeBootTypeOK, Ended, Roles, UnitAt, EndAt
  <2>. QED
    BY <2>1 DEF NodeBootInv, Ended
<1>. QED
  BY <1>1, HostInvariant, PTL
=============================================================================

------------------------------ MODULE NodeBoot ------------------------------
(***************************************************************************)
(* The life of one host: the user data its launch template carries runs    *)
(* once, at the first boot, step by step; any step may fail; the host may   *)
(* be rebooted or lose power at any time, and from then on only what the    *)
(* script left behind (fstab, the docker service, the systemd unit) brings  *)
(* the service back.  The three roles run different scripts: a validator    *)
(* node, the gateway and the indexer.                                       *)
(*                                                                         *)
(* A host has three places that hold files: "root", the directory /data of  *)
(* the root volume; "volume", the data volume mounted over it; and "home",  *)
(* everything else of the root volume, docker's default directory included. *)
(***************************************************************************)
EXTENDS Naturals, Sequences

CONSTANTS MaxReboots  \* bound on the reboots of a behaviour

ASSUME MaxRebootsIsNatural == MaxReboots \in Nat

VARIABLES
    role,          \* "node", "gateway" or "indexer"
    dockerSocket,  \* does a docker command at boot wait for the daemon?
    pc,            \* steps of the script that were reached
    script,        \* "running", "finished", "exited" by a failure, "cut" by a reboot
    failed,        \* the steps that failed, "boot" if a start at a later boot did
    phase,         \* "up", "down" between two boots, "emergency"
    reboots,       \* reboots so far
    store,         \* [place -> what is there]
    formatted,     \* the data volume has a file system
    fstab,         \* the data volume is in /etc/fstab
    mounted,       \* the data volume is mounted on /data
    dataRoot,      \* docker's directory is /data/docker
    dockerEnabled, \* docker starts at boot
    daemon,        \* docker runs
    unitEnabled,   \* the unit of the service starts at boot
    unit,          \* "inactive", "active" or "failed"
    running,       \* every container of the service was started and still runs
    jobs           \* what the present boot has still to start

diskVars   == <<store, formatted, fstab, mounted>>
dockerVars == <<dataRoot, dockerEnabled, daemon>>
unitVars   == <<unitEnabled, unit, running>>
hostVars   == <<role, dockerSocket>>
bootVars   == <<phase, reboots, jobs>>
vars == <<hostVars, bootVars, pc, script, failed, diskVars, dockerVars, unitVars>>

Roles  == {"node", "gateway", "indexer"}
Places == {"root", "volume", "home"}
Items  == {"init", "files", "assets", "image", "containers"}

(***************************************************************************)
(* The scripts.                                                            *)
(***************************************************************************)
(* Mutant: the observer is started before the service. *)
NodeScriptObserverFirst ==
    <<"init", "format", "mount", "persist", "moveFiles", "moveAssets",
      "installDocker", "configureDocker", "observerDownload", "observerScript",
      "observerStart", "pullImage", "installUnit", "startUnit">>

NodeScript ==
    <<"init", "format", "mount", "persist", "moveFiles", "moveAssets",
      "installDocker", "configureDocker", "pullImage", "installUnit", "startUnit",
      "observerDownload", "observerScript", "observerStart">>

GatewayScript ==
    <<"init", "installDocker", "unzip", "binary", "installUnit", "startUnit",
      "observerDownload", "observerScript", "observerStart">>

IndexerScript ==
    <<"init", "format", "mount", "persist", "installDocker", "configureDocker",
      "unzip", "binary", "installUnit", "startUnit",
      "observerDownload", "observerScript", "observerStart">>

Script == CASE role = "node" -> NodeScript
            [] role = "gateway" -> GatewayScript
            [] role = "indexer" -> IndexerScript

ObserverSteps == {"observerDownload", "observerScript", "observerStart"}

(* Steps whose failure never ends a script: cfn-init runs in a subshell     *)
(* that does not stop on errors, and the observer's download is a list of   *)
(* commands joined by "&&", of which only the last could.                   *)
Lenient == {"init", "observerDownload"}

(* The node's script runs without errexit until the docker template sets    *)
(* it; the other two scripts have it from the start.                        *)
BeforeErrexit == {"format", "mount", "persist", "moveFiles", "moveAssets"}

(* Mutant: the fifth failed attempt to pull the image does not exit. *)
StopsExceptPull(step) ==
    step \notin Lenient \cup {"pullImage"} /\
    ~(role = "node" /\ step \in BeforeErrexit)

Stops(step) ==
    step \notin Lenient /\ ~(role = "node" /\ step \in BeforeErrexit)

At(step) == /\ phase = "up" /\ script = "running"
            /\ pc < Len(Script) /\ Script[pc + 1] = step

(* After a step: the next one, or the end of the script. *)
Succeed == /\ pc' = pc + 1
           /\ script' = IF pc + 1 = Len(Script) THEN "finished" ELSE script
           /\ UNCHANGED <<failed, hostVars, bootVars>>

(* A failed step has no effect; it ends the script where errexit is set. *)
Fail(step) ==
    /\ At(step)
    /\ failed' = failed \cup {step}
    /\ pc' = pc + 1
    /\ script' = CASE Stops(step) -> "exited"
                   [] ~Stops(step) /\ pc + 1 = Len(Script) -> "finished"
                   [] ~Stops(step) /\ pc + 1 # Len(Script) -> script
    /\ UNCHANGED <<hostVars, bootVars, diskVars, dockerVars, unitVars>>

Steps == {"init", "format", "mount", "persist", "moveFiles", "moveAssets",
          "installDocker", "configureDocker", "pullImage", "unzip", "binary",
          "installUnit"} \cup ObserverSteps

(* Where /data and docker's directory are at present. *)
DataPlace == IF mounted THEN "volume" ELSE "root"
DockerPlace == IF dataRoot THEN DataPlace ELSE "home"

Put(place, items) == store' = [store EXCEPT ![place] = @ \cup items]

(* cfn-init downloads the assets of the host. *)
CfnInit ==
    /\ At("init")
    /\ Put("home", {"init"})
    /\ Succeed
    /\ UNCHANGED <<formatted, fstab, mounted, dockerVars, unitVars>>

Format ==
    /\ At("format")
    /\ formatted' = TRUE
    /\ Succeed
    /\ UNCHANGED <<store, fstab, mounted, dockerVars, unitVars>>

(* Mutant: the volume is mounted formatted or not. *)
MountUnformatted ==
    /\ At("mount")
    /\ mounted' = TRUE
    /\ Succeed
    /\ UNCHANGED <<store, formatted, fstab, dockerVars, unitVars>>

Mount ==
    /\ At("mount") /\ formatted
    /\ mounted' = TRUE
    /\ Succeed
    /\ UNCHANGED <<store, formatted, fstab, dockerVars, unitVars>>

(* Mutant: the mount is not written to fstab. *)
PersistNothing ==
    /\ At("persist")
    /\ fstab' = fstab
    /\ Succeed
    /\ UNCHANGED <<store, formatted, mounted, dockerVars, unitVars>>

(* The line is appended whether or not the mount before it succeeded, and   *)
(* without "nofail".                                                        *)
Persist ==
    /\ At("persist")
    /\ fstab' = TRUE
    /\ Succeed
    /\ UNCHANGED <<store, formatted, mounted, dockerVars, unitVars>>

(* Configuration, genesis and key go to /data/tn, wherever /data is. *)
MoveFiles ==
    /\ At("moveFiles") /\ "init" \in store["home"]
    /\ Put(DataPlace, {"files"})
    /\ Succeed
    /\ UNCHANGED <<formatted, fstab, mounted, dockerVars, unitVars>>

(* The compose file goes to /data. *)
MoveAssets ==
    /\ At("moveAssets") /\ "init" \in store["home"]
    /\ Put(DataPlace, {"assets"})
    /\ Succeed
    /\ UNCHANGED <<formatted, fstab, mounted, dockerVars, unitVars>>

(* Mutant: docker is started but not enabled. *)
InstallDockerForNow ==
    /\ At("installDocker")
    /\ daemon' = TRUE /\ dockerEnabled' = dockerEnabled
    /\ Succeed
    /\ UNCHANGED <<diskVars, dataRoot, unitVars>>

InstallDocker ==
    /\ At("installDocker")
    /\ daemon' = TRUE /\ dockerEnabled' = TRUE
    /\ Succeed
    /\ UNCHANGED <<diskVars, dataRoot, unitVars>>

(* Docker is stopped, its directory set to /data/docker, and started. *)
ConfigureDocker ==
    /\ At("configureDocker")
    /\ dataRoot' = TRUE
    /\ Succeed
    /\ UNCHANGED <<diskVars, dockerEnabled, daemon, unitVars>>

(* Up to five attempts to pull the image, which is then tagged. *)
PullImage ==
    /\ At("pullImage")
    /\ Put(DockerPlace, {"image"})
    /\ Succeed
    /\ UNCHANGED <<formatted, fstab, mounted, dockerVars, unitVars>>

(* Gateway and indexer unpack the compose directory, then the binary. *)
Unzip ==
    /\ At("unzip") /\ "init" \in store["home"]
    /\ Put("home", {"assets"})
    /\ Succeed
    /\ UNCHANGED <<formatted, fstab, mounted, dockerVars, unitVars>>

UnpackBinary ==
    /\ At("binary") /\ "init" \in store["home"]
    /\ Put("home", {"files"})
    /\ Succeed
    /\ UNCHANGED <<formatted, fstab, mounted, dockerVars, unitVars>>

(* The unit is written and enabled. *)
InstallUnit ==
    /\ At("installUnit")
    /\ unitEnabled' = TRUE
    /\ Succeed
    /\ UNCHANGED <<diskVars, dockerVars, unit, running>>

(***************************************************************************)
(* The service.                                                            *)
(***************************************************************************)
HomeOf(item) == IF role = "node" THEN DataPlace ELSE "home"
Present(item) == item \in store[HomeOf(item)]

(* "docker compose up" needs the daemon and the compose file; the node's    *)
(* image must be there, the other two build theirs.  Without its files the  *)
(* node's container does not stay up.                                       *)
CanComposeUp == /\ daemon /\ Present("assets")
                /\ role = "node" => "image" \in store[DockerPlace]

(* "|| true" ends the command of the node's and the gateway's unit. *)
IgnoresFailure == role \in {"node", "gateway"}

(* Containers that docker starts again by itself: those of the node.  The   *)
(* gateway's, and the indexer's public one, have no restart policy.         *)
Restarts == role = "node"
Restartable == Restarts /\ "containers" \in store[DockerPlace] /\ Present("files")

(* The containers are started.  "--wait" or not, nothing keeps them running *)
(* afterwards.                                                              *)
ComposeUp ==
    /\ CanComposeUp
    /\ Put(DockerPlace, {"containers"})
    /\ running' = Present("files")
    /\ unit' = "active"

(* The command fails before the whole service was started. *)
ComposeFails ==
    /\ unit' = IF IgnoresFailure THEN "active" ELSE "failed"
    /\ UNCHANGED <<store, running>>

(* The first start may fail for a reason of its own: a registry, a health   *)
(* check.  Only the indexer's script ends then.                             *)
StartUnit ==
    /\ At("startUnit")
    /\ \/ ComposeUp /\ Succeed
       \/ /\ ComposeFails
          /\ IF IgnoresFailure THEN Succeed
             ELSE /\ script' = "exited" /\ pc' = pc + 1
                  /\ failed' = failed \cup {"startUnit"}
                  /\ UNCHANGED <<hostVars, bootVars>>
    /\ UNCHANGED <<formatted, fstab, mounted, dockerVars, unitEnabled>>

(* A container exits, at any time.  The unit stays "active": it is a         *)
(* oneshot that remains after its command ended, and looks no further.      *)
ContainersExit ==
    /\ running
    /\ running' = FALSE
    /\ UNCHANGED <<hostVars, bootVars, pc, script, failed, diskVars, dockerVars,
                   unitEnabled, unit>>

(* Docker starts a container again that has a restart policy. *)
DockerRestarts ==
    /\ daemon /\ ~running /\ Restartable
    /\ running' = TRUE
    /\ UNCHANGED <<hostVars, bootVars, pc, script, failed, diskVars, dockerVars,
                   unitEnabled, unit>>

(* The observer's own steps touch nothing of the service. *)
ObserverStep ==
    /\ \E step \in ObserverSteps : At(step)
    /\ Succeed
    /\ UNCHANGED <<diskVars, dockerVars, unitVars>>

(***************************************************************************)
(* Reboots.                                                                *)
(***************************************************************************)
(* Everything that runs ends.  In an orderly shutdown the unit's stop       *)
(* command removes the containers, unless docker was stopped before it:     *)
(* the unit is not ordered after docker.  User data never runs again.       *)
Down(removed) ==
    /\ phase = "up" /\ reboots < MaxReboots
    /\ removed => unit = "active" /\ daemon
    /\ phase' = "down" /\ reboots' = reboots + 1 /\ jobs' = {}
    /\ script' = IF script = "running" THEN "cut" ELSE script
    /\ store' = IF removed
                THEN [store EXCEPT ![DockerPlace] = @ \ {"containers"}]
                ELSE store
    /\ mounted' = FALSE /\ daemon' = FALSE /\ unit' = "inactive" /\ running' = FALSE
    /\ UNCHANGED <<hostVars, pc, failed, formatted, fstab, dataRoot,
                   dockerEnabled, unitEnabled>>

Reboot == Down(TRUE)
Crash  == Down(FALSE)

(* A line of fstab that cannot be mounted sends the boot to emergency mode. *)
Boot ==
    /\ phase = "down"
    /\ IF fstab /\ ~formatted
       THEN /\ phase' = "emergency"
            /\ UNCHANGED <<mounted, jobs>>
       ELSE /\ phase' = "up"
            /\ mounted' = fstab
            /\ jobs' = (IF dockerEnabled THEN {"docker"} ELSE {}) \cup
                       (IF unitEnabled THEN {"unit"} ELSE {})
    /\ UNCHANGED <<hostVars, reboots, pc, script, failed, store, formatted,
                   fstab, dockerVars, unitVars>>

(* Docker starts and brings back the containers that restart. *)
StartDocker ==
    /\ phase = "up" /\ "docker" \in jobs
    /\ jobs' = jobs \ {"docker"}
    /\ daemon' = TRUE
    /\ running' = Restartable
    /\ UNCHANGED <<hostVars, phase, reboots, pc, script, failed, diskVars,
                   dataRoot, dockerEnabled, unitEnabled, unit>>

(* The unit's command, which waits for docker only where docker's socket is *)
(* there before it.  As in the first boot it may fail for a reason of its   *)
(* own: nothing orders it after the network, and an image may still be      *)
(* missing if the power went between enabling the unit and starting it, or  *)
(* if the first start failed under "|| true"; or a health check runs out.   *)
StartUnitAtBoot ==
    /\ phase = "up" /\ "unit" \in jobs
    /\ dockerSocket => "docker" \notin jobs
    /\ jobs' = jobs \ {"unit"}
    /\ \/ ComposeUp /\ UNCHANGED failed
       \/ ~CanComposeUp /\ ComposeFails /\ UNCHANGED failed
       \/ CanComposeUp /\ ComposeFails /\ failed' = failed \cup {"boot"}
    /\ UNCHANGED <<hostVars, phase, reboots, pc, script, formatted,
                   fstab, mounted, dockerVars, unitEnabled>>

Init ==
    /\ role \in Roles /\ dockerSocket \in BOOLEAN
    /\ pc = 0 /\ script = "running" /\ failed = {}
    /\ phase = "up" /\ reboots = 0 /\ jobs = {}
    /\ store = [place \in Places |-> {}]
    /\ formatted = FALSE /\ fstab = FALSE /\ mounted = FALSE
    /\ dataRoot = FALSE /\ dockerEnabled = FALSE /\ daemon = FALSE
    /\ unitEnabled = FALSE /\ unit = "inactive" /\ running = FALSE

RunStep ==
    \/ CfnInit \/ Format \/ Mount \/ Persist \/ MoveFiles \/ MoveAssets
    \/ InstallDocker \/ ConfigureDocker \/ PullImage \/ Unzip \/ UnpackBinary
    \/ InstallUnit \/ StartUnit \/ ObserverStep

Next ==
    \/ RunStep
    \/ \E step \in Steps : Fail(step)
    \/ ContainersExit \/ DockerRestarts
    \/ Reboot \/ Crash \/ Boot \/ StartDocker \/ StartUnitAtBoot

(* systemd carries every boot and every job of it to its end.  Nothing is   *)
(* assumed of containers: they may exit, and need not be started again.     *)
Fairness == WF_vars(Boot) /\ WF_vars(StartDocker) /\ WF_vars(StartUnitAtBoot)

Spec == Init /\ [][Next]_vars /\ Fairness

(***************************************************************************)
(* Properties.                                                             *)
(***************************************************************************)
(* The state of a host is well formed; the gateway has no data volume and   *)
(* never mounts one; only a validator node pulls an image or has files of   *)
(* its own under /data; and nothing runs, is mounted or is active on a host *)
(* that is down.                                                            *)
NodeBootTypeOK ==
    /\ role \in Roles /\ dockerSocket \in BOOLEAN
    /\ pc \in 0 .. Len(Script)
    /\ script \in {"running", "finished", "exited", "cut"}
    /\ failed \subseteq Steps \cup {"startUnit", "boot"}
    /\ phase \in {"up", "down", "emergency"} /\ reboots \in 0 .. MaxReboots
    /\ jobs \subseteq {"docker", "unit"}
    /\ store \in [Places -> SUBSET Items]
    /\ formatted \in BOOLEAN /\ fstab \in BOOLEAN /\ mounted \in BOOLEAN
    /\ dataRoot \in BOOLEAN /\ dockerEnabled \in BOOLEAN /\ daemon \in BOOLEAN
    /\ unitEnabled \in BOOLEAN /\ running \in BOOLEAN
    /\ unit \in {"inactive", "active", "failed"}
    /\ phase # "up" => ~mounted /\ ~daemon /\ ~running /\ unit = "inactive"
    /\ role = "gateway" => ~formatted /\ ~fstab /\ ~dataRoot
    /\ mounted => formatted
    /\ role # "node" =>
           /\ \A place \in Places : "image" \notin store[place]
           /\ \A place \in {"root", "volume"} :
                 "files" \notin store[place] /\ "assets" \notin store[place]

(* A unit that systemd starts at every boot has behind it what the script   *)
(* was to prepare: docker starts at boot too, its directory is on /data     *)
(* where the host has a data volume, and a node's image is in the place     *)
(* /data was when it was pulled - although the script lets five of its      *)
(* steps fail and may be cut anywhere.                                      *)
UnitIsBacked ==
    unitEnabled =>
        /\ dockerEnabled
        /\ role # "gateway" => dataRoot
        /\ role = "node" =>
               "image" \in store[IF "mount" \in failed THEN "root" ELSE "volume"]

(* Where mounting and recording the mount succeeded, the service never runs *)
(* on the root volume: not at the first boot, not after a reboot or a crash *)
(* between any two steps.                                                   *)
RunsOnVolume ==
    running /\ role # "gateway" /\ failed \cap {"mount", "persist"} = {} => mounted

(* The observer is an extra: whatever its steps do, a script whose other    *)
(* steps went well leaves the service's unit in place.                      *)
EndedMeansStarted ==
    script \in {"finished", "exited"} /\ failed \subseteq ObserverSteps => unitEnabled

(* A host that goes down after its unit was enabled, with no step of the    *)
(* service failed, starts its service at the next boot (or goes down again  *)
(* first) if docker waits on its socket, or if the containers outlived a    *)
(* crash and docker restarts them - unless the unit's command, with docker  *)
(* and its files at hand, fails for a reason of its own.  Whether the       *)
(* containers then keep running is not claimed.                             *)
ComesBack ==
    \A k \in 0 .. MaxReboots :
        (/\ phase = "down" /\ reboots = k
         /\ unitEnabled /\ failed \subseteq ObserverSteps
         /\ dockerSocket \/ (Restarts /\ "containers" \in store["volume"]))
        ~> (running \/ reboots > k \/ "boot" \in failed)
=============================================================================

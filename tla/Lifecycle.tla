----------------------------- MODULE Lifecycle ------------------------------
(***************************************************************************)
(* The environment before and after the bring-up: what `up`, `docker` and  *)
(* `down` do with the files in cache/, the local Docker images and the     *)
(* resources Terraform manages (app/commands.go, app/once.go,              *)
(* app/docker.go, app/gen.go, app/tfgen/io.go, app/terraform.go,           *)
(* app/destroy.go).  One process at a time; it can be interrupted between  *)
(* any two effects, and config.hcl can be edited at any time.              *)
(*                                                                         *)
(* Of a configuration only what the commands tell apart is kept: the shape *)
(* of the networks, the versions images are built from, whether gossip is  *)
(* encrypted, and `def`, which stands for nodes and services.  `primary`   *)
(* and `restart` run the steps of `up`.                                    *)
(***************************************************************************)
EXTENDS Naturals, Sequences

CONSTANTS
    Configs,        \* contents of config.hcl
    Locals,         \* images built locally: envoy, dataplane, clustertool
    None,           \* a file or an image that does not exist
    MaxInterrupts,  \* bound: interrupted or failing commands
    MaxEdits,       \* bound: edits of config.hcl
    MaxCommands     \* bound: `down` and `docker` commands

Nets     == {c.net : c \in Configs}
Versions == {c.versions : c \in Configs}
Defs     == {c.def : c \in Configs}

ASSUME ConfigsAssumption ==
    /\ Configs # {}
    /\ \A c \in Configs : c.gossip \in BOOLEAN
    /\ None \notin Nets \cup Versions \cup (Configs \X Versions)

(* What docker.tf declares: the networks, and containers attached to them  *)
(* that carry the gossip key and the hash of the catalog definition.  Two  *)
(* containers never have different names here, networks of different       *)
(* shapes do.                                                              *)
Network(n)              == [kind |-> "network", net |-> n]
Container(n, d, cat, k) ==
    [kind |-> "container", net |-> n, def |-> d, catalog |-> cat, key |-> k]

Resources(c, cat, k) == {Network(c.net), Container(c.net, c.def, cat, k)}

SameName(r, q) == IF r.kind = "network" THEN r = q ELSE q.kind = "container"

VARIABLES
    config,      \* config.hcl
    \* the process
    pc,          \* the call being executed
    conf,        \* the configuration it loaded
    force,       \* the parameter of buildDockerImages
    key,         \* config.GossipKey, 0 if there is none
    currentHash, \* what buildDockerImages computed when it began
    toBuild,     \* images it has not built
    toRemove,    \* files destroy has not removed
    \* files
    initDone,    \* cache/init.done exists
    hash,        \* cache/docker.hash
    keyFile,     \* cache/gossip-key.val
    catalogDef,  \* cache/catalog_def.<cluster>.json
    networksTf,  \* cache/networks.tf
    dockerTf,    \* docker.tf
    tfstate,     \* terraform.tfstate
    \* Docker
    built,       \* the versions each local image was built from
    world,       \* networks and containers that exist
    keys,        \* gossip keys drawn so far
    spent        \* bounds used up

build   == <<currentHash, toBuild>>
process == <<pc, conf, force, key, build, toRemove>>
cache   == <<initDone, hash, keyFile, catalogDef, networksTf>>
docker  == <<built, world>>
vars    == <<config, process, cache, dockerTf, tfstate, docker, keys, spent>>

Spend(what, bound) ==
    /\ spent[what] < bound
    /\ spent' = [spent EXCEPT ![what] = @ + 1]

Init ==
    /\ config \in Configs /\ conf = config
    /\ pc = "idle" /\ force = FALSE /\ key = 0
    /\ currentHash = None /\ toBuild = {} /\ toRemove = <<>>
    /\ initDone = FALSE /\ hash = None /\ keyFile = 0 /\ catalogDef = None
    /\ networksTf = None /\ dockerTf = {} /\ tfstate = {}
    /\ built = [i \in Locals |-> None] /\ world = {} /\ keys = 0
    /\ spent = [interrupts |-> 0, edits |-> 0, commands |-> 0]

-----------------------------------------------------------------------------
(* The operator.                                                           *)

EditConfig(c) ==
    /\ c # config
    /\ Spend("edits", MaxEdits)
    /\ config' = c
    /\ UNCHANGED <<process, cache, dockerTf, tfstate, docker, keys>>

(* With -force, ResetRunOnceMemory comes before any command.               *)
Start(call) ==
    /\ pc = "idle"
    /\ pc' = call
    /\ conf' = config
    /\ initDone' \in {initDone, FALSE}
    /\ UNCHANGED <<config, key, build, toRemove, hash, keyFile, catalogDef,
                   networksTf, dockerTf, tfstate, docker, keys>>

(* `devconsul up`                                                          *)
StartUp == Start("secrets") /\ force' = FALSE /\ UNCHANGED spent

(* `devconsul docker`: buildDockerImages(true), and nothing else.          *)
StartDocker ==
    Start("images") /\ force' = TRUE /\ Spend("commands", MaxCommands)

(* `devconsul down`                                                        *)
StartDown ==
    Start("destroy") /\ UNCHANGED force /\ Spend("commands", MaxCommands)

(* ^C, or a call that fails: the command ends where it is.                 *)
Interrupt ==
    /\ pc # "idle"
    /\ Spend("interrupts", MaxInterrupts)
    /\ pc' = "idle"
    /\ currentHash' = None /\ toBuild' = {} /\ toRemove' = <<>>
    /\ UNCHANGED <<config, conf, force, key, cache, dockerTf, tfstate, docker,
                   keys>>

-----------------------------------------------------------------------------
(* `up`: secrets, one-time operations, generated files, apply.             *)

(* maybeInitGossipKey: delete the value, or load or else draw and save it. *)
MaybeInitGossipKey ==
    /\ pc = "secrets"
    /\ pc' = "once"
    /\ LET fresh == conf.gossip /\ keyFile = 0
       IN  /\ keyFile' = IF ~conf.gossip THEN 0
                         ELSE IF fresh THEN keys + 1 ELSE keyFile
           /\ keys' = IF fresh THEN keys + 1 ELSE keys
    /\ key' = keyFile'
    /\ UNCHANGED <<config, conf, force, build, toRemove, initDone, hash,
                   catalogDef, networksTf, dockerTf, tfstate, docker, spent>>

(* Fault: the marker is written before the operations have run.            *)
RunOnce_MarkFirst ==
    /\ pc = "once"
    /\ pc' = IF initDone THEN "catalog" ELSE "images"
    /\ initDone' = TRUE
    /\ UNCHANGED <<config, conf, force, key, build, toRemove, hash, keyFile,
                   catalogDef, networksTf, dockerTf, tfstate, docker, keys, spent>>

RunOnce ==
    /\ pc = "once"
    /\ pc' = IF initDone THEN "catalog" ELSE "images"
    /\ UNCHANGED <<config, conf, force, key, build, toRemove, cache, dockerTf,
                   tfstate, docker, keys, spent>>

(* The hash is of config.hcl as it is now and of the versions as loaded.   *)
HashNow == <<config, conf.versions>>

AfterImages == IF force THEN "idle" ELSE "mark"

(* Fault: without images to build the marker is not written, and what      *)
(* needs it (runGenerate) refuses to go on.                                *)
SkipImages_NoMark ==
    /\ pc = "images"
    /\ hash = HashNow /\ ~force
    /\ pc' = "idle"
    /\ UNCHANGED <<config, conf, force, key, build, toRemove, cache, dockerTf,
                   tfstate, docker, keys, spent>>

SkipImages ==
    /\ pc = "images"
    /\ hash = HashNow /\ ~force
    /\ pc' = AfterImages
    /\ UNCHANGED <<config, conf, force, key, build, toRemove, cache, dockerTf,
                   tfstate, docker, keys, spent>>

BeginBuild ==
    /\ pc = "images"
    /\ hash # HashNow \/ force
    /\ pc' = "build"
    /\ currentHash' = HashNow /\ toBuild' = Locals
    /\ UNCHANGED <<config, conf, force, key, toRemove, cache, dockerTf, tfstate,
                   docker, keys, spent>>

(* The code has an order; an interrupted build may have done any part.     *)
BuildImage(i) ==
    /\ pc = "build"
    /\ i \in toBuild
    /\ built' = [built EXCEPT ![i] = conf.versions]
    /\ toBuild' = toBuild \ {i}
    /\ UNCHANGED <<config, pc, conf, force, key, currentHash, toRemove, cache,
                   dockerTf, tfstate, world, keys, spent>>

(* Fault: the versions are left out of the hash.                           *)
SaveHash_ConfigOnly ==
    /\ pc = "build"
    /\ toBuild = {}
    /\ hash' = <<currentHash[1]>>
    /\ currentHash' = None
    /\ pc' = AfterImages
    /\ UNCHANGED <<config, conf, force, key, toBuild, toRemove, initDone, keyFile,
                   catalogDef, networksTf, dockerTf, tfstate, docker, keys, spent>>

(* "Checkpoint": the hash of what config.hcl was before the build.         *)
SaveHash ==
    /\ pc = "build"
    /\ toBuild = {}
    /\ hash' = currentHash
    /\ currentHash' = None
    /\ pc' = AfterImages
    /\ UNCHANGED <<config, conf, force, key, toBuild, toRemove, initDone, keyFile,
                   catalogDef, networksTf, dockerTf, tfstate, docker, keys, spent>>

MarkInitDone ==
    /\ pc = "mark"
    /\ initDone' = TRUE
    /\ pc' = "catalog"
    /\ UNCHANGED <<config, conf, force, key, build, toRemove, hash, keyFile,
                   catalogDef, networksTf, dockerTf, tfstate, docker, keys, spent>>

GenerateCatalogInfo ==
    /\ pc = "catalog"
    /\ catalogDef' = conf.def
    /\ pc' = "networks"
    /\ UNCHANGED <<config, conf, force, key, build, toRemove, initDone, hash,
                   keyFile, networksTf, dockerTf, tfstate, docker, keys, spent>>

(* Fault: a file that does not exist yet is reported but not written.      *)
WriteNetworks_OnlyModified ==
    /\ pc = "networks"
    /\ networksTf' = IF networksTf = None THEN None ELSE conf.net
    /\ pc' = IF networksTf \in {None, conf.net} THEN "generate" ELSE "idle"
    /\ UNCHANGED <<config, conf, force, key, build, toRemove, initDone, hash,
                   keyFile, catalogDef, dockerTf, tfstate, docker, keys, spent>>

(* The file is written in any case; if it was there and different, the     *)
(* command ends with an error.                                             *)
WriteNetworks ==
    /\ pc = "networks"
    /\ networksTf' = conf.net
    /\ pc' = IF networksTf \in {None, conf.net} THEN "generate" ELSE "idle"
    /\ UNCHANGED <<config, conf, force, key, build, toRemove, initDone, hash,
                   keyFile, catalogDef, dockerTf, tfstate, docker, keys, spent>>

(* Fault: nothing is applied when docker.tf is what it was.                *)
GenerateConfigs_SkipUnchanged ==
    /\ pc = "generate"
    /\ dockerTf' = Resources(conf, catalogDef, key)
    /\ pc' = IF dockerTf' = dockerTf THEN "boot" ELSE "apply"
    /\ UNCHANGED <<config, conf, force, key, build, toRemove, cache, tfstate,
                   docker, keys, spent>>

GenerateConfigs ==
    /\ pc = "generate"
    /\ dockerTf' = Resources(conf, catalogDef, key)
    /\ pc' = "apply"
    /\ UNCHANGED <<config, conf, force, key, build, toRemove, cache, tfstate,
                   docker, keys, spent>>

(* Terraform: containers go before their networks and come after them, one *)
(* name at a time; the state file follows each step.                       *)
Destroyable(r) ==
    r.kind = "network" => \A q \in tfstate : q = r \/ q.net # r.net
Creatable(r)   ==
    /\ \A q \in world : ~SameName(r, q)
    /\ r.kind = "container" => Network(r.net) \in world

DestroyResource(r) ==
    /\ \/ pc = "apply" /\ r \in tfstate \ dockerTf
       \/ pc = "destroy" /\ r \in tfstate
    /\ Destroyable(r)
    /\ tfstate' = tfstate \ {r}
    /\ world' = world \ {r}
    /\ UNCHANGED <<config, process, cache, dockerTf, built, keys, spent>>

CreateResource(r) ==
    /\ pc = "apply"
    /\ r \in dockerTf \ tfstate
    /\ Creatable(r)
    /\ tfstate' = tfstate \cup {r}
    /\ world' = world \cup {r}
    /\ UNCHANGED <<config, process, cache, dockerTf, built, keys, spent>>

Applied ==
    /\ pc = "apply"
    /\ tfstate = dockerTf
    /\ pc' = "boot"
    /\ UNCHANGED <<config, conf, force, key, build, toRemove, cache, dockerTf,
                   tfstate, docker, keys, spent>>

(* runBoot, the subject of BringUp.                                        *)
Booted ==
    /\ pc = "boot"
    /\ pc' = "idle"
    /\ UNCHANGED <<config, conf, force, key, build, toRemove, cache, dockerTf,
                   tfstate, docker, keys, spent>>

-----------------------------------------------------------------------------
(* `down`: terraform destroy, then the files in the order of the list.     *)

Files ==
    {"terraform.tfstate", "*.val", "networks.tf", "docker.hash", "init.done"}

RemovalOrder ==
    <<"terraform.tfstate", "*.val", "networks.tf", "docker.hash", "init.done">>

(* Fault: a failed `terraform destroy` does not end the command.           *)
Destroyed_IgnoreError ==
    /\ pc = "destroy"
    /\ pc' = "remove"
    /\ toRemove' = RemovalOrder
    /\ UNCHANGED <<config, conf, force, key, build, cache, dockerTf, tfstate,
                   docker, keys, spent>>

Destroyed ==
    /\ pc = "destroy"
    /\ tfstate = {}
    /\ pc' = "remove"
    /\ toRemove' = RemovalOrder
    /\ UNCHANGED <<config, conf, force, key, build, cache, dockerTf, tfstate,
                   docker, keys, spent>>

Removing(f) == toRemove # <<>> /\ Head(toRemove) = f

RemoveFile ==
    /\ pc = "remove"
    /\ toRemove # <<>>
    /\ toRemove' = Tail(toRemove)
    /\ tfstate'    = IF Removing("terraform.tfstate") THEN {} ELSE tfstate
    /\ keyFile'    = IF Removing("*.val") THEN 0 ELSE keyFile
    /\ networksTf' = IF Removing("networks.tf") THEN None ELSE networksTf
    /\ hash'       = IF Removing("docker.hash") THEN None ELSE hash
    /\ initDone'   = (initDone /\ ~Removing("init.done"))
    /\ UNCHANGED <<config, pc, conf, force, key, build, catalogDef, dockerTf,
                   docker, keys, spent>>

Removed ==
    /\ pc = "remove"
    /\ toRemove = <<>>
    /\ pc' = "idle"
    /\ UNCHANGED <<config, conf, force, key, build, toRemove, cache, dockerTf,
                   tfstate, docker, keys, spent>>

-----------------------------------------------------------------------------
Up ==
    \/ MaybeInitGossipKey \/ RunOnce \/ MarkInitDone \/ GenerateCatalogInfo
    \/ WriteNetworks \/ GenerateConfigs
    \/ \E r \in dockerTf : CreateResource(r)
    \/ Applied \/ Booted

BuildDockerImages ==
    \/ SkipImages \/ BeginBuild \/ SaveHash
    \/ \E i \in Locals : BuildImage(i)

Down ==
    \/ \E r \in tfstate : DestroyResource(r)
    \/ Destroyed \/ RemoveFile \/ Removed

Step == Up \/ BuildDockerImages \/ Down

Operator ==
    \/ \E c \in Configs : EditConfig(c)
    \/ StartUp \/ StartDocker \/ StartDown \/ Interrupt

Next == Step \/ Operator

Spec == Init /\ [][Next]_vars

(* Commands come to an end, and the operator keeps trying `up`: not a      *)
(* promise of the code but the premise of EventuallyUp.                    *)
LiveSpec == Spec /\ WF_vars(Step) /\ WF_vars(StartUp)

-----------------------------------------------------------------------------
(* Properties.                                                             *)

TypeOK ==
    /\ config \in Configs /\ conf \in Configs
    /\ pc \in {"idle", "secrets", "once", "images", "build", "mark", "catalog",
               "networks", "generate", "apply", "boot", "destroy", "remove"}
    /\ force \in BOOLEAN /\ initDone \in BOOLEAN
    /\ keys \in Nat /\ key \in 0..keys /\ keyFile \in 0..keys
    /\ toBuild \subseteq Locals /\ toRemove \in Seq(Files)
    /\ {hash, currentHash} \subseteq (Configs \X Versions) \cup {None}
    /\ pc = "build" => currentHash # None
    /\ catalogDef \in Defs \cup {None} /\ networksTf \in Nets \cup {None}
    /\ built \in [Locals -> Versions \cup {None}]
    /\ spent \in [{"interrupts", "edits", "commands"} -> Nat]

(* Whatever exists in Docker is in Terraform's state file: no command, cut *)
(* short anywhere, forgets resources that `down` would have to destroy     *)
(* (destroy removes terraform.tfstate after terraformDestroy succeeded).   *)
NoOrphans == world \subseteq tfstate

(* As long as a network exists there is a networks.tf to compare a new     *)
(* configuration with ("just so we can detect full-destroy").              *)
NetworkGuarded ==
    (\E r \in world : r.kind = "network") => networksTf # None

(* No container is created from a local image that was never built,        *)
(* whenever earlier runs were interrupted: the marker of the one-time      *)
(* operations appears after them (runOnce).                                *)
ImagesBuilt ==
    pc \in {"apply", "boot"} => \A i \in Locals : built[i] # None

(* When the bring-up begins, the environment is the one the process was    *)
(* configured for, with one gossip key and a catalog-sync that was started *)
(* for the definition on disk, whatever earlier runs left half done.       *)
UpToDate ==
    pc = "boot" =>
        /\ world = Resources(conf, catalogDef, keyFile)
        /\ catalogDef = conf.def

(* An existing network is only taken away by `down` (generateConfigs: "You *)
(* will need to do a full down/up cycle to switch network_shape").         *)
NetworkChangesByDown ==
    [][\A r \in world \ world' : r.kind = "network" => pc = "destroy"]_vars

(* Nothing an interrupted command leaves behind keeps `up` from succeeding *)
(* for good, with the configuration as it finally is.                      *)
EventuallyUp == []<>(pc = "boot" /\ conf = config)
=============================================================================

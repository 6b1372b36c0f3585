-------------------------- MODULE LifecycleProofs ---------------------------
(* Proofs about Lifecycle, for any configurations, images and bounds.      *)
EXTENDS Lifecycle, TLAPS

AllBuilt == \A i \in Locals : built[i] # None

(* The state file is exact, and empty before destroy removes files.        *)
StateInv ==
    /\ world = tfstate
    /\ pc = "remove" => tfstate = {}

(* networks.tf is there before anything is applied.                        *)
NetworksInv ==
    /\ NetworkGuarded
    /\ pc \in {"generate", "apply"} => networksTf # None

(* A marker or a hash is only there when all images have been built.       *)
ImagesInv ==
    /\ initDone \/ hash # None => AllBuilt
    /\ pc \in {"mark", "catalog", "networks", "generate", "apply", "boot"} =>
          AllBuilt
    /\ pc = "build" => \A i \in Locals \ toBuild : built[i] # None

(* What the steps of `up` have achieved for the next one.                  *)
GeneratedInv ==
    /\ \/ pc \in {"once", "mark", "catalog", "networks", "generate", "apply",
                  "boot"}
       \/ pc \in {"images", "build"} /\ ~force
       => key = keyFile
    /\ pc \in {"networks", "generate", "apply", "boot"} => catalogDef = conf.def
    /\ pc \in {"apply", "boot"} => dockerTf = Resources(conf, catalogDef, key)
    /\ pc = "boot" => tfstate = dockerTf

Inv == TypeOK /\ StateInv /\ NetworksInv /\ ImagesInv /\ GeneratedInv

-----------------------------------------------------------------------------
LEMMA ConfigFacts ==
    ASSUME NEW c \in Configs
    PROVE  /\ c.net \in Nets /\ c.versions \in Versions /\ c.def \in Defs
           /\ c.gossip \in BOOLEAN
           /\ c.net # None /\ c.versions # None
           /\ \A d \in Configs : <<d, c.versions>> # None
  BY ConfigsAssumption DEF Nets, Versions, Defs

LEMMA SpendType ==
    ASSUME TypeOK, NEW w \in {"interrupts", "edits", "commands"}, NEW b,
           Spend(w, b)
    PROVE  spent' \in [{"interrupts", "edits", "commands"} -> Nat]
  BY DEF TypeOK, Spend

THEOREM InitInv == Init => Inv
  <1> SUFFICES ASSUME Init PROVE Inv
    OBVIOUS
  <1>1. TypeOK
    <2>1. toRemove \in Seq(Files) /\ toBuild \subseteq Locals
      BY DEF Init
    <2>2. /\ built \in [Locals -> Versions \cup {None}]
          /\ spent \in [{"interrupts", "edits", "commands"} -> Nat]
      BY DEF Init
    <2>3. key \in 0..keys /\ keyFile \in 0..keys /\ keys \in Nat
      BY DEF Init
    <2> QED
      BY <2>1, <2>2, <2>3 DEF Init, TypeOK
  <1>2. StateInv /\ NetworksInv /\ ImagesInv /\ GeneratedInv
    BY DEF Init, StateInv, NetworksInv, NetworkGuarded, ImagesInv, GeneratedInv
  <1> QED
    BY <1>1, <1>2 DEF Inv

-----------------------------------------------------------------------------
(* The operator's steps: nothing but config.hcl, the marker and the        *)
(* process changes.                                                        *)
LEMMA OperatorKeeps ==
    ASSUME Inv, Operator
    PROVE  Inv'
  <1> USE DEF Inv, process, build, cache, docker
  <1>1. ASSUME NEW c \in Configs, EditConfig(c) PROVE Inv'
    <2>1. TypeOK'
      BY <1>1, SpendType DEF EditConfig, TypeOK
    <2>2. StateInv' /\ NetworksInv' /\ ImagesInv' /\ GeneratedInv'
      BY <1>1 DEF EditConfig, StateInv, NetworksInv, NetworkGuarded, ImagesInv,
                  AllBuilt, GeneratedInv
    <2> QED
      BY <2>1, <2>2
  <1>2. ASSUME NEW call \in {"secrets", "images", "destroy"}, Start(call),
               force' \in BOOLEAN, call = "images" => force' = TRUE,
               spent' \in [{"interrupts", "edits", "commands"} -> Nat]
        PROVE  Inv'
    <2>0. initDone' \in BOOLEAN /\ (initDone' => initDone)
      <3>1. initDone' = initDone \/ initDone' = FALSE
        BY <1>2, Zenon DEF Start
      <3>2. initDone \in BOOLEAN
        BY DEF TypeOK
      <3>3. CASE initDone' = initDone
        BY <3>2, <3>3, Zenon
      <3>4. CASE initDone' = FALSE
        BY <3>4, Zenon
      <3> QED
        BY <3>1, <3>3, <3>4, Zenon
    <2>1. TypeOK'
      BY <1>2, <2>0 DEF Start, TypeOK
    <2>2. StateInv' /\ NetworksInv' /\ GeneratedInv'
      BY <1>2 DEF Start, StateInv, NetworksInv, NetworkGuarded, GeneratedInv
    <2>3. ImagesInv'
      <3>1. UNCHANGED <<hash, built>> /\ pc' \in {"secrets", "images", "destroy"}
        BY <1>2 DEF Start
      <3> QED
        BY <2>0, <3>1 DEF ImagesInv, AllBuilt
    <2> QED
      BY <2>1, <2>2, <2>3
  <1>3. CASE StartUp
    BY <1>2, <1>3 DEF StartUp, TypeOK
  <1>4. CASE StartDocker
    BY <1>2, <1>4, SpendType DEF StartDocker
  <1>5. CASE StartDown
    BY <1>2, <1>5, SpendType DEF StartDown, TypeOK
  <1>6. CASE Interrupt
    <2>1. TypeOK'
      BY <1>6, SpendType DEF Interrupt, TypeOK
    <2>2. StateInv' /\ NetworksInv' /\ ImagesInv' /\ GeneratedInv'
      BY <1>6 DEF Interrupt, StateInv, NetworksInv, NetworkGuarded, ImagesInv,
                  AllBuilt, GeneratedInv
    <2> QED
      BY <2>1, <2>2
  <1> QED
    BY <1>1, <1>3, <1>4, <1>5, <1>6 DEF Operator

-----------------------------------------------------------------------------
(* buildDockerImages and what surrounds it.                                *)
LEMMA ImagesKeep ==
    ASSUME Inv, RunOnce \/ BuildDockerImages \/ MarkInitDone
    PROVE  Inv'
  <1> USE DEF Inv, process, build, cache, docker
  <1>1. CASE RunOnce
    BY <1>1 DEF RunOnce, TypeOK, StateInv, NetworksInv, NetworkGuarded,
                ImagesInv, AllBuilt, GeneratedInv
  <1>2. CASE SkipImages
    <2>1. hash # None
      BY <1>2, ConfigFacts DEF SkipImages, HashNow, TypeOK
    <2> QED
      BY <1>2, <2>1 DEF SkipImages, AfterImages, TypeOK, StateInv, NetworksInv,
                        NetworkGuarded, ImagesInv, AllBuilt, GeneratedInv
  <1>3. CASE BeginBuild
    <2>1. HashNow \in Configs \X Versions /\ HashNow # None
      BY ConfigFacts DEF HashNow, TypeOK
    <2> QED
      BY <1>3, <2>1 DEF BeginBuild, TypeOK, StateInv, NetworksInv, NetworkGuarded,
                ImagesInv, AllBuilt, GeneratedInv
  <1>4. ASSUME NEW i \in Locals, BuildImage(i) PROVE Inv'
    <2>1. /\ conf.versions \in Versions /\ conf.versions # None
          /\ built' = [built EXCEPT ![i] = conf.versions]
          /\ toBuild' = toBuild \ {i}
          /\ pc = "build" /\ pc' = "build"
      BY <1>4, ConfigFacts DEF BuildImage, TypeOK
    <2>2. TypeOK'
      BY <1>4, <2>1 DEF BuildImage, TypeOK
    <2>3. AllBuilt => AllBuilt'
      BY <2>1 DEF AllBuilt, TypeOK
    <2>4. ImagesInv'
      <3>1. \A j \in Locals \ toBuild' : built'[j] # None
        BY <2>1 DEF ImagesInv, TypeOK
      <3> QED
        BY <1>4, <2>1, <2>3, <3>1 DEF BuildImage, ImagesInv
    <2>5. StateInv' /\ NetworksInv' /\ GeneratedInv'
      BY <1>4 DEF BuildImage, StateInv, NetworksInv, NetworkGuarded, GeneratedInv
    <2> QED
      BY <2>2, <2>4, <2>5
  <1>5. CASE SaveHash
    <2>1. AllBuilt
      BY <1>5 DEF SaveHash, ImagesInv, AllBuilt
    <2> QED
      BY <1>5, <2>1 DEF SaveHash, AfterImages, TypeOK, StateInv, NetworksInv,
                        NetworkGuarded, ImagesInv, AllBuilt, GeneratedInv
  <1>6. CASE MarkInitDone
    BY <1>6 DEF MarkInitDone, TypeOK, StateInv, NetworksInv, NetworkGuarded,
                ImagesInv, AllBuilt, GeneratedInv
  <1> QED
    BY <1>1, <1>2, <1>3, <1>4, <1>5, <1>6 DEF BuildDockerImages

-----------------------------------------------------------------------------
(* Secrets and generated files.                                            *)
LEMMA GenerateKeeps ==
    ASSUME Inv,
           \/ MaybeInitGossipKey \/ GenerateCatalogInfo \/ WriteNetworks
           \/ GenerateConfigs \/ Applied \/ Booted
    PROVE  Inv'
  <1> USE DEF Inv, process, build, cache, docker
  <1>1. CASE MaybeInitGossipKey
    <2>1. /\ keyFile' \in 0..keys' /\ keys' \in Nat /\ key' = keyFile'
      BY <1>1 DEF MaybeInitGossipKey, TypeOK
    <2> QED
      BY <1>1, <2>1 DEF MaybeInitGossipKey, TypeOK, StateInv, NetworksInv,
                        NetworkGuarded, ImagesInv, AllBuilt, GeneratedInv
  <1>2. CASE GenerateCatalogInfo
    BY <1>2, ConfigFacts DEF GenerateCatalogInfo, TypeOK, StateInv, NetworksInv,
                NetworkGuarded, ImagesInv, AllBuilt, GeneratedInv
  <1>3. CASE WriteNetworks
    <2>1. networksTf' \in Nets /\ networksTf' # None
      BY <1>3, ConfigFacts DEF WriteNetworks, TypeOK
    <2> QED
      BY <1>3, <2>1 DEF WriteNetworks, TypeOK, StateInv, NetworksInv,
                        NetworkGuarded, ImagesInv, AllBuilt, GeneratedInv
  <1>4. CASE GenerateConfigs
    BY <1>4 DEF GenerateConfigs, TypeOK, StateInv, NetworksInv, NetworkGuarded,
                ImagesInv, AllBuilt, GeneratedInv
  <1>5. CASE Applied
    BY <1>5 DEF Applied, TypeOK, StateInv, NetworksInv, NetworkGuarded,
                ImagesInv, AllBuilt, GeneratedInv
  <1>6. CASE Booted
    BY <1>6 DEF Booted, TypeOK, StateInv, NetworksInv, NetworkGuarded,
                ImagesInv, AllBuilt, GeneratedInv
  <1> QED
    BY <1>1, <1>2, <1>3, <1>4, <1>5, <1>6

-----------------------------------------------------------------------------
(* Terraform and the removal of files.                                     *)
LEMMA TerraformKeeps ==
    ASSUME Inv, (\E r \in dockerTf : CreateResource(r)) \/ Down
    PROVE  Inv'
  <1> USE DEF Inv, process, build, cache, docker
  <1>1. ASSUME NEW r \in dockerTf, CreateResource(r) PROVE Inv'
    BY <1>1 DEF CreateResource, TypeOK, StateInv, NetworksInv, NetworkGuarded,
                ImagesInv, AllBuilt, GeneratedInv
  <1>2. ASSUME NEW r \in tfstate, DestroyResource(r) PROVE Inv'
    BY <1>2 DEF DestroyResource, TypeOK, StateInv, NetworksInv, NetworkGuarded,
                ImagesInv, AllBuilt, GeneratedInv
  <1>3. CASE Destroyed
    <2>2. RemovalOrder \in Seq(Files)
      BY DEF RemovalOrder, Files
    <2> QED
      BY <1>3, <2>2 DEF Destroyed, TypeOK, StateInv, NetworksInv, NetworkGuarded,
                ImagesInv, AllBuilt, GeneratedInv
  <1>4. CASE RemoveFile
    <2>1. toRemove' \in Seq(Files)
      BY <1>4 DEF RemoveFile, TypeOK
    <2>2. keyFile' \in 0..keys /\ initDone' \in BOOLEAN
      BY <1>4 DEF RemoveFile, TypeOK
    <2>3. TypeOK'
      BY <1>4, <2>1, <2>2 DEF RemoveFile, TypeOK
    <2>4. StateInv' /\ NetworksInv' /\ ImagesInv' /\ GeneratedInv'
      BY <1>4 DEF RemoveFile, StateInv, NetworksInv, NetworkGuarded,
                  ImagesInv, AllBuilt, GeneratedInv
    <2> QED
      BY <2>3, <2>4
  <1>5. CASE Removed
    BY <1>5 DEF Removed, TypeOK, StateInv, NetworksInv, NetworkGuarded,
                ImagesInv, AllBuilt, GeneratedInv
  <1> QED
    BY <1>1, <1>2, <1>3, <1>4, <1>5 DEF Down

THEOREM InvInductive == Inv /\ [Next]_vars => Inv'
  <1>1. ASSUME Inv, UNCHANGED vars PROVE Inv'
    BY <1>1 DEF vars, process, build, cache, docker, Inv, TypeOK, StateInv, NetworksInv,
                NetworkGuarded, ImagesInv, AllBuilt, GeneratedInv
  <1> QED
    BY <1>1, OperatorKeeps, ImagesKeep, GenerateKeeps, TerraformKeeps
       DEF Next, Step, Up

THEOREM InvHolds == Spec => []Inv
  BY InitInv, InvInductive, PTL DEF Spec

-----------------------------------------------------------------------------
(* Every variable has its type in every reachable state.                   *)
THEOREM LifecycleTypeCorrect == Spec => []TypeOK
  <1>1. Inv => TypeOK
    BY DEF Inv
  <1> QED
    BY <1>1, InvHolds, PTL

(* No interrupted command forgets a resource that exists.                  *)
THEOREM NothingIsOrphaned == Spec => []NoOrphans
  <1>1. Inv => NoOrphans
    BY DEF Inv, StateInv, NoOrphans
  <1> QED
    BY <1>1, InvHolds, PTL

(* While a network exists, networks.tf does.                               *)
THEOREM NetworksStayGuarded == Spec => []NetworkGuarded
  <1>1. Inv => NetworkGuarded
    BY DEF Inv, NetworksInv
  <1> QED
    BY <1>1, InvHolds, PTL

(* Nothing is applied before every local image was built.                  *)
THEOREM ImagesAreBuilt == Spec => []ImagesBuilt
  <1>1. Inv => ImagesBuilt
    BY DEF Inv, ImagesInv, AllBuilt, ImagesBuilt
  <1> QED
    BY <1>1, InvHolds, PTL

(* The bring-up begins in the environment that was asked for.              *)
THEOREM BootIsUpToDate == Spec => []UpToDate
  <1>1. Inv => UpToDate
    BY DEF Inv, StateInv, GeneratedInv, UpToDate
  <1> QED
    BY <1>1, InvHolds, PTL

-----------------------------------------------------------------------------
(* Commands come to an end.                                                *)

(* Terraform always has something it can do next, whatever is left of an   *)
(* apply that was cut short, for another configuration or this one:        *)
(* terraformApply and terraformDestroy do not block on the order of        *)
(* networks and containers.                                                *)
TerraformCanMove ==
    /\ pc = "apply" /\ tfstate # dockerTf =>
          \/ \E r \in tfstate \ dockerTf : Destroyable(r)
          \/ \E r \in dockerTf \ tfstate : Creatable(r)
    /\ pc = "destroy" /\ tfstate # {} => \E r \in tfstate : Destroyable(r)

(* What is in the state file was declared in docker.tf at some time.       *)
IsNetwork(r)   == r = Network(r.net)
IsContainer(r) == r = Container(r.net, r.def, r.catalog, r.key)

ShapeInv == \A r \in dockerTf \cup tfstate : IsNetwork(r) \/ IsContainer(r)

LEMMA Declared ==
    ASSUME NEW c, NEW cat, NEW k, NEW r \in Resources(c, cat, k)
    PROVE  IsNetwork(r) \/ IsContainer(r)
  BY DEF Resources, IsNetwork, IsContainer, Network, Container

LEMMA ShapeKinds ==
    ASSUME NEW r, IsContainer(r)
    PROVE  r.kind = "container"
  <1>1. Container(r.net, r.def, r.catalog, r.key).kind = "container"
    BY DEF Container
  <1> QED
    BY <1>1 DEF IsContainer

LEMMA ShapeStep ==
    ASSUME ShapeInv, [Next]_vars
    PROVE  ShapeInv'
  <1>1. \/ dockerTf' = Resources(conf, catalogDef, key) /\ tfstate' = tfstate
        \/ dockerTf' = dockerTf /\ tfstate' \subseteq tfstate \cup dockerTf
    <2>1. CASE Step
      BY <2>1 DEF Step, Up, BuildDockerImages, Down, MaybeInitGossipKey, RunOnce,
         MarkInitDone, GenerateCatalogInfo, WriteNetworks, GenerateConfigs,
         CreateResource, Applied, Booted, SkipImages, BeginBuild, SaveHash,
         BuildImage, DestroyResource, Destroyed, RemoveFile, Removed
    <2>2. CASE Operator
      BY <2>2 DEF Operator, EditConfig, StartUp, StartDocker, StartDown, Start,
         Interrupt
    <2> QED
      BY <2>1, <2>2 DEF Next, vars
  <1> QED
    BY <1>1, Declared DEF ShapeInv

(* In `apply`: containers nobody declares go first, then the networks they *)
(* were attached to; what is declared comes network first.                 *)
LEMMA ApplyMoves ==
    ASSUME Inv, ShapeInv, pc = "apply", tfstate # dockerTf
    PROVE  \/ \E r \in tfstate \ dockerTf : Destroyable(r)
           \/ \E r \in dockerTf \ tfstate : Creatable(r)
  <1> DEFINE net  == Network(conf.net)
             cont == Container(conf.net, conf.def, catalogDef, key)
  <1>1. dockerTf = {net, cont} /\ world = tfstate
    BY DEF Inv, GeneratedInv, StateInv, Resources
  <1>2. /\ net.kind = "network" /\ net.net = conf.net
        /\ cont.kind = "container" /\ cont.net = conf.net
    BY DEF Network, Container
  <1>3. \A r \in tfstate : r.kind = "network" => IsNetwork(r)
    BY ShapeKinds DEF ShapeInv
  <1>4. CASE \E q \in tfstate \ dockerTf : q.kind # "network"
    BY <1>4 DEF Destroyable
  <1>5. CASE /\ \A q \in tfstate \ dockerTf : q.kind = "network"
             /\ tfstate \ dockerTf # {}
    <2>1. PICK r \in tfstate \ dockerTf : r.kind = "network"
      BY <1>5
    <2>2. r.net # conf.net
      BY <1>1, <1>2, <1>3, <2>1 DEF IsNetwork
    <2>3. ASSUME NEW q \in tfstate, q.net = r.net PROVE q = r
      <3>1. q \notin dockerTf
        BY <1>1, <1>2, <2>2, <2>3
      <3>2. q.kind = "network"
        BY <1>5, <3>1
      <3> QED
        BY <1>3, <2>1, <2>3, <3>2 DEF IsNetwork
    <2>4. Destroyable(r)
      BY <2>3 DEF Destroyable
    <2> QED
      BY <2>4
  <1>6. CASE tfstate \ dockerTf = {} /\ net \notin tfstate
    <2>1. tfstate \subseteq {cont}
      BY <1>1, <1>6
    <2>2. Creatable(net)
      BY <1>1, <1>2, <2>1 DEF Creatable, SameName
    <2> QED
      BY <1>1, <1>6, <2>2
  <1>7. CASE tfstate \ dockerTf = {} /\ net \in tfstate
    <2>1. tfstate = {net} /\ cont \notin tfstate
      BY <1>1, <1>7
    <2>2. Creatable(cont)
      BY <1>1, <1>2, <2>1 DEF Creatable, SameName
    <2> QED
      BY <1>1, <2>1, <2>2
  <1> QED
    BY <1>4, <1>5, <1>6, <1>7

LEMMA DestroyMoves ==
    ASSUME ShapeInv, tfstate # {}
    PROVE  \E r \in tfstate : Destroyable(r)
  <1>1. CASE \E q \in tfstate : q.kind # "network"
    BY <1>1 DEF Destroyable
  <1>2. CASE \A q \in tfstate : q.kind = "network"
    <2>1. \A q \in tfstate : IsNetwork(q)
      BY <1>2, ShapeKinds DEF ShapeInv
    <2> QED
      BY <1>2, <2>1 DEF Destroyable, IsNetwork
  <1> QED
    BY <1>1, <1>2

(* Whatever an interrupted apply left in the state file, Terraform finds a *)
(* next step, for any configurations (terraformApply, terraformDestroy).   *)
THEOREM TerraformAlwaysMoves == Spec => []TerraformCanMove
  <1>1. Init => ShapeInv
    BY DEF Init, ShapeInv
  <1>2. ShapeInv /\ [Next]_vars => ShapeInv'
    BY ShapeStep
  <1>3. Inv /\ ShapeInv => TerraformCanMove
    BY ApplyMoves, DestroyMoves DEF TerraformCanMove
  <1> QED
    BY <1>1, <1>2, <1>3, InvHolds, PTL DEF Spec

(* Of itself a command only ends early in one place, generateConfigs with  *)
(* a networks.tf of another shape; and it leaves the file as the next `up` *)
(* of that configuration wants it, which is why trying again helps.        *)
EndsEarlyForNetworks ==
    [][ pc # "idle" /\ pc' = "idle" /\ spent' = spent =>
          \/ pc \in {"boot", "remove"}
          \/ pc \in {"images", "build"} /\ force
          \/ /\ pc = "networks" /\ networksTf \notin {None, conf.net}
             /\ networksTf' = conf.net ]_vars

(* Trying `up` again helps: a run that ended of itself has put networks.tf *)
(* right (generateConfigs), and nothing else ends one.                     *)
THEOREM OnlyNetworksEndUp == Spec => EndsEarlyForNetworks
  <1>1. Inv /\ [Next]_vars =>
           [pc # "idle" /\ pc' = "idle" /\ spent' = spent =>
              \/ pc \in {"boot", "remove"}
              \/ pc \in {"images", "build"} /\ force
              \/ /\ pc = "networks" /\ networksTf \notin {None, conf.net}
                 /\ networksTf' = conf.net]_vars
    <2> SUFFICES ASSUME Inv, Next, pc # "idle", pc' = "idle", spent' = spent
                 PROVE  \/ pc \in {"boot", "remove"}
                        \/ pc \in {"images", "build"} /\ force
                        \/ /\ pc = "networks" /\ networksTf \notin {None, conf.net}
                           /\ networksTf' = conf.net
      OBVIOUS
    <2>1. ASSUME NEW w \in {"interrupts", "edits", "commands"}, NEW b
          PROVE  ~Spend(w, b)
      BY DEF Inv, TypeOK, Spend
    <2>2. Operator => FALSE
      BY <2>1 DEF Operator, EditConfig, StartUp, StartDocker, StartDown, Start,
         Interrupt
    <2>3. CASE Step
      BY <2>3 DEF Step, Up, BuildDockerImages, Down, MaybeInitGossipKey, RunOnce,
         MarkInitDone, GenerateCatalogInfo, WriteNetworks, GenerateConfigs,
         CreateResource, Applied, Booted, SkipImages, BeginBuild, SaveHash,
         BuildImage, DestroyResource, Destroyed, RemoveFile, Removed, AfterImages,
         process
    <2> QED
      BY <2>2, <2>3 DEF Next
  <1> QED
    BY <1>1, InvHolds, PTL DEF Spec, EndsEarlyForNetworks
=============================================================================

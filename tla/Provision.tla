----------------------------- MODULE Provision ------------------------------
(***************************************************************************)
(* `up` until Terraform has made the containers, seen from the files they  *)
(* read: app/tls.go, app/acl.go, the one-time operations (app/docker.go,   *)
(* app/k8s.go, app/once.go), app/gen_catalog.go, app/gen.go and            *)
(* app/tfgen/.  config.hcl may be edited at any time; the process may be   *)
(* interrupted between any two effects, `consul tls` and the removal of a  *)
(* directory in the middle.  Gossip keys and networks.tf are in Lifecycle. *)
(***************************************************************************)
EXTENDS Rendering

CONSTANTS
    Configs,        \* contents of config.hcl at first
    Edits,          \* pairs of contents: what it may be changed from and to
    None,           \* no configuration
    MaxEdits,       \* bound: edits of config.hcl
    MaxInterrupts,  \* bound: interrupted commands
    MaxDowns,       \* bound: `down` commands
    MaxIndex        \* the highest index of a pair a configuration with TLS asks for

Files == Configs \cup {e[2] : e \in Edits}

(* What docker.hash covers of the configuration that was loaded: its       *)
(* versions.  Files differ in the canary versions they give, if any.       *)
Versions(f) == <<f.canary.consul, f.canary.envoy, f.canary.dataplane>>

ASSUME NoneAssumption ==
    None \notin Files \cup {Completed(c) : c \in Files}
                    \cup (Files \X {Versions(Completed(c)) : c \in Files})

ASSUME FilesAssumption == \A f \in Files : IsFile(f)

ASSUME MaxIndexAssumption ==
    /\ MaxIndex \in Nat
    /\ \A f \in Files : f.tls =>
          \A c \in Completed(f).clusters :
              /\ Completed(f).servers[c] <= MaxIndex + 1
              /\ NumClients(Completed(f), c) <= MaxIndex + 1

K8sFiles ==
    <<"config_host", "config_ca", "jwt_token", "token.ping", "token.pong">>

(* Images buildDockerImages builds; the clustertool image always is one.   *)
LocalImages(f) ==
    {"consul-envoy", "consul-dataplane", "clustertool"}
        \cup (DeclaredImages(f) \cap {"consul-envoy-canary", "consul-dataplane-canary"})

VARIABLES
    config,      \* config.hcl
    \* the process
    pc,          \* the call being executed; "idle", "failed", "panic", "booted"
    conf,        \* the configuration it loaded
    only,        \* the parameter primaryOnly
    todo,        \* prefixes maybeInitTLS has not seen yet
    next,        \* the file of cache/k8s to be written
    current,     \* currentHash of runK8SInit
    \* files
    ca,          \* the CA's files in cache/tls: generation of each, 0 if absent
    pairs,       \* pairs of files in cache/tls, by prefix
    token,       \* agent-master-token.val
    initDone,    \* init.done
    k8s,         \* files in cache/k8s
    k8sHash,     \* k8s.hash: the config.hcl it was computed from
    imageHash,   \* docker.hash: the config.hcl and versions it was computed from
    defs,        \* clusters with a catalog_def file
    \* Docker
    built,       \* local images
    \* history
    torn,        \* something in cache/tls was interrupted half-way
    k8sVoid,     \* a marker says that Kubernetes is done when it is not
    drawn,       \* CAs and tokens drawn so far
    spent        \* bounds used up

process == <<pc, conf, only, todo, next, current>>
tls     == <<ca, pairs, torn>>
once    == <<initDone, k8s, k8sHash, imageHash, built, k8sVoid>>
vars    == <<config, process, tls, token, once, defs, drawn, spent>>

NoCA == [cert |-> 0, key |-> 0]

(* Fault: certificates for the clients of the file, not for gateways.      *)
Wanted_NoGateways(f) ==
    UNION {{Prefix(c, "server", i - 1) : i \in 1..f.servers[c]}
             \cup {Prefix(c, "client", i - 1) : i \in 1..f.clients[c]} :
             c \in f.clusters}

(* Every pair maybeInitTLS makes sure of, for all clusters.                *)
Wanted(f) ==
    UNION {{Prefix(c, "server", i - 1) : i \in 1..f.servers[c]}
             \cup {Prefix(c, "client", i - 1) : i \in 1..NumClients(f, c)} :
             c \in f.clusters}

Init ==
    /\ config \in Configs
    /\ pc = "idle" /\ conf = None /\ only = FALSE /\ todo = {}
    /\ next = 0 /\ current = None
    /\ ca = NoCA /\ pairs = <<>> /\ torn = FALSE
    /\ token = 0 /\ initDone = FALSE /\ k8s = {} /\ k8sHash = None
    /\ imageHash = None /\ defs = {} /\ built = {}
    /\ k8sVoid = FALSE /\ drawn = 0
    /\ spent = [edits |-> 0, interrupts |-> 0, downs |-> 0]

Spend(what, bound) ==
    /\ spent[what] < bound
    /\ spent' = [spent EXCEPT ![what] = @ + 1]

-----------------------------------------------------------------------------
(* The operator.                                                           *)

EditConfig(e) ==
    /\ config = e[1]
    /\ Spend("edits", MaxEdits)
    /\ config' = e[2]
    /\ UNCHANGED <<process, tls, token, once, defs, drawn>>

Ended == {"idle", "failed", "panic", "booted"}

(* `up` or `primary`, with or without -force (ResetRunOnceMemory).         *)
StartUp(primary, force) ==
    /\ pc \in Ended
    /\ Starts(config)
    /\ ~(primary /\ Completed(config).link = "peer")
    /\ pc' = "tls" /\ conf' = Completed(config) /\ only' = primary
    /\ initDone' = (initDone /\ ~force)
    /\ UNCHANGED <<config, todo, next, current, tls, token, k8s, k8sHash,
                   imageHash, built, k8sVoid, defs, drawn, spent>>

(* `down`, whose first call is terraformDestroy.                           *)
StartDown(force) ==
    /\ pc \in Ended
    /\ Starts(config)
    /\ Spend("downs", MaxDowns)
    /\ pc' = "removeK8s" /\ conf' = Completed(config)
    /\ initDone' = (initDone /\ ~force)
    /\ UNCHANGED <<config, only, todo, next, current, tls, token, k8s, k8sHash,
                   imageHash, built, k8sVoid, defs, drawn>>

(* -force resets the marker before the configuration is loaded: also where *)
(* it does not start, or is `primary` with peers and returns at once.      *)
StartRefused ==
    /\ pc \in Ended
    /\ ~Starts(config) \/ Completed(config).link = "peer"
    /\ initDone' = FALSE
    /\ UNCHANGED <<config, process, tls, token, k8s, k8sHash, imageHash, built,
                   k8sVoid, defs, drawn, spent>>

(* Fault: a failed run leaves its configuration to the next.               *)
Stop_KeepsConf(st) ==
    /\ pc' = st /\ only' = FALSE /\ todo' = {}
    /\ next' = 0 /\ current' = None
    /\ UNCHANGED <<config, conf>>

(* The process ends: what it has in memory is lost.                        *)
Stop(st) ==
    /\ pc' = st /\ conf' = None /\ only' = FALSE /\ todo' = {}
    /\ next' = 0 /\ current' = None
    /\ UNCHANGED config

(* ^C or a failing call.                                                   *)
Interrupt ==
    /\ pc \notin Ended
    /\ Spend("interrupts", MaxInterrupts)
    /\ Stop("failed")
    /\ UNCHANGED <<tls, token, once, defs, drawn>>

GoTo(st) ==
    /\ pc' = st
    /\ UNCHANGED <<config, conf, only, todo, next, current, spent>>

-----------------------------------------------------------------------------
(* maybeInitTLS                                                            *)

RemovesTLS == pc = "removeTLS" \/ (pc = "tls" /\ ~conf.tls)

(* os.RemoveAll("cache/tls"), also by destroy.                             *)
RemoveTLS ==
    /\ RemovesTLS
    /\ ca' = NoCA /\ pairs' = <<>> /\ torn' = FALSE
    /\ GoTo(IF pc = "tls" THEN "token" ELSE "removeVals")
    /\ UNCHANGED <<token, once, defs, drawn>>

(* It removes one file after the other, in any order.                      *)
CAName == Prefix(Primary, "ca", 0)

TLSFiles ==
    {<<CAName, x>> : x \in {y \in {"cert", "key"} : ca[y] # 0}}
        \cup UNION {{<<p, x>> : x \in pairs[p].files} : p \in DOMAIN pairs}

(* Bound: an interrupted removal leaves at most two files.                 *)
Leftovers == {{}} \cup {{a, b} : a, b \in TLSFiles}

RemoveTLSInterrupted ==
    /\ RemovesTLS
    /\ Spend("interrupts", MaxInterrupts)
    /\ \E left \in Leftovers :
          LET Kept(p) == {x \in {"cert", "key"} : <<p, x>> \in left}
          IN  /\ ca' = [x \in {"cert", "key"} |->
                           IF x \in Kept(CAName) THEN ca[x] ELSE 0]
              /\ pairs' = [p \in {q \in DOMAIN pairs : Kept(q) # {}} |->
                              [files |-> Kept(p), ca |-> pairs[p].ca,
                               node |-> pairs[p].node]]
    /\ torn' = TRUE
    /\ Stop("failed")
    /\ UNCHANGED <<token, once, defs, drawn>>

BeginCerts ==
    /\ pc' = "certs" /\ todo' = Wanted(conf)
    /\ UNCHANGED <<config, conf, only, next, current, spent>>

UseCA ==
    /\ pc = "tls" /\ conf.tls
    /\ ca.cert # 0 /\ ca.key # 0
    /\ BeginCerts
    /\ UNCHANGED <<tls, token, once, defs, drawn>>

(* `consul tls ca create` writes both files, or fails if there is one.     *)
CreateCA ==
    /\ pc = "tls" /\ conf.tls
    /\ ca = NoCA
    /\ drawn' = drawn + 1
    /\ ca' = [cert |-> drawn', key |-> drawn']
    /\ BeginCerts
    /\ UNCHANGED <<pairs, torn, token, once, defs>>

CreateCAInterrupted ==
    /\ pc = "tls" /\ conf.tls
    /\ ca = NoCA
    /\ Spend("interrupts", MaxInterrupts)
    /\ drawn' = drawn + 1
    /\ ca' = [cert |-> drawn', key |-> 0]
    /\ torn' = TRUE
    /\ Stop("failed")
    /\ UNCHANGED <<pairs, token, once, defs>>

HalfCA == (ca.cert = 0) # (ca.key = 0)

CreateCARefused ==
    /\ pc = "tls" /\ conf.tls
    /\ HalfCA
    /\ Stop("failed")
    /\ UNCHANGED <<tls, token, once, defs, drawn, spent>>

(* filesExist                                                              *)
Complete(p) == p \in DOMAIN pairs /\ pairs[p].files = {"cert", "key"}

(* `consul tls cert create` takes the least index with neither file.       *)
FreeIndex(p) ==
    CHOOSE i \in 0..(MaxIndex + 1) :
        /\ Prefix(p.cluster, p.type, i) \notin DOMAIN pairs
        /\ \A j \in 0..(i - 1) : Prefix(p.cluster, p.type, j) \in DOMAIN pairs

(* It writes the certificate before the key.  A server's is for the node   *)
(* named by -node, whatever the index.  A pair beyond MaxIndex, which no   *)
(* configuration asks for, is not recorded.                                *)
WritePair(p, files) ==
    LET i == FreeIndex(p)
        q == Prefix(p.cluster, p.type, i)
    IN  pairs' = [r \in DOMAIN pairs \cup (IF i <= MaxIndex THEN {q} ELSE {}) |->
                    IF r = q THEN [files |-> files, ca |-> ca.cert, node |-> p.index]
                             ELSE pairs[r]]

(* The loops of maybeInitTLS: cluster by cluster, servers before clients.  *)
Precedes(p, q) ==
    \/ IndexOf[p.cluster] < IndexOf[q.cluster]
    \/ p.cluster = q.cluster /\ p.type = "server" /\ q.type = "client"
    \/ p.cluster = q.cluster /\ p.type = q.type /\ p.index < q.index

IsNext(p) == \A q \in todo : ~Precedes(q, p)

(* genCert                                                                 *)
GenCert(p) ==
    /\ pc = "certs"
    /\ p \in todo /\ IsNext(p)
    /\ IF Complete(p) THEN UNCHANGED pairs ELSE WritePair(p, {"cert", "key"})
    /\ todo' = todo \ {p}
    /\ UNCHANGED <<config, pc, conf, only, next, current, ca, torn, token, once,
                   defs, drawn, spent>>

GenCertInterrupted(p) ==
    /\ pc = "certs"
    /\ p \in todo /\ IsNext(p) /\ ~Complete(p)
    /\ Spend("interrupts", MaxInterrupts)
    /\ WritePair(p, {"cert"})
    /\ torn' = TRUE
    /\ Stop("failed")
    /\ UNCHANGED <<ca, token, once, defs, drawn>>

CertsGenerated ==
    /\ pc = "certs" /\ todo = {}
    /\ GoTo("token")
    /\ UNCHANGED <<tls, token, once, defs, drawn>>

-----------------------------------------------------------------------------
(* maybeInitAgentMasterToken                                               *)
MaybeInitAgentMasterToken ==
    /\ pc = "token"
    /\ LET fresh == conf.acls /\ token = 0
       IN  /\ token' = IF ~conf.acls THEN 0 ELSE IF fresh THEN drawn + 1 ELSE token
           /\ drawn' = IF fresh THEN drawn + 1 ELSE drawn
    /\ GoTo(IF initDone THEN "catalog" ELSE "images")
    /\ UNCHANGED <<tls, once, defs>>

(* Fault: the hash is of config.hcl alone, not of the versions loaded.     *)
BuildDockerImages_HashOfFile ==
    /\ pc = "images"
    /\ built' = IF imageHash = config THEN built ELSE built \cup LocalImages(conf)
    /\ imageHash' = config
    /\ GoTo("k8s")
    /\ UNCHANGED <<tls, token, initDone, k8s, k8sHash, k8sVoid, defs, drawn>>

(* buildDockerImages(false).  The hash is of config.hcl as it is now and   *)
(* of the versions in the configuration that was loaded.                   *)
BuildDockerImages ==
    LET hash == <<config, Versions(conf)>>
    IN  /\ pc = "images"
        /\ built' = IF imageHash = hash THEN built
                                            ELSE built \cup LocalImages(conf)
        /\ imageHash' = hash
        /\ GoTo("k8s")
        /\ UNCHANGED <<tls, token, initDone, k8s, k8sHash, k8sVoid, defs, drawn>>

-----------------------------------------------------------------------------
(* runK8SInit                                                              *)

RemovesK8s == pc = "removeK8s" \/ (pc = "k8s" /\ ~conf.k8s)

(* os.RemoveAll("cache/k8s"), also by destroy: the markers stay.           *)
RemoveK8s ==
    /\ RemovesK8s
    /\ k8s' = {}
    /\ k8sVoid' = (k8sVoid \/ k8sHash # None \/ initDone)
    /\ GoTo(IF pc = "k8s" THEN "mark" ELSE "removeTLS")
    /\ UNCHANGED <<tls, token, initDone, k8sHash, imageHash, built, defs,
                   drawn>>

RemoveK8sInterrupted ==
    /\ RemovesK8s
    /\ Spend("interrupts", MaxInterrupts)
    /\ k8s' \in SUBSET k8s
    /\ k8sVoid' = (k8sVoid \/ k8sHash # None \/ initDone)
    /\ Stop("failed")
    /\ UNCHANGED <<tls, token, initDone, k8sHash, imageHash, built, defs,
                   drawn>>

(* The hash is of config.hcl as it is now, not as it was loaded.           *)
BeginK8s ==
    /\ pc = "k8s" /\ conf.k8s
    /\ IF k8sHash = config
         THEN pc' = "mark" /\ UNCHANGED <<next, current>>
         ELSE pc' = "generateK8s" /\ next' = 1 /\ current' = config
    /\ UNCHANGED <<config, conf, only, todo, tls, token, once, defs, drawn,
                   spent>>

(* realRunK8SInit                                                          *)
WriteK8sFile ==
    /\ pc = "generateK8s" /\ next \in DOMAIN K8sFiles
    /\ k8s' = k8s \cup {K8sFiles[next]}
    /\ next' = next + 1
    /\ UNCHANGED <<config, pc, conf, only, todo, current, tls, token, initDone,
                   k8sHash, imageHash, built, k8sVoid, defs, drawn, spent>>

(* Fault: the checkpoint comes before the files of the service accounts.   *)
CheckpointK8s_Early ==
    /\ pc = "generateK8s" /\ next \in {4, 6}
    /\ k8sHash' = current /\ k8sVoid' = FALSE
    /\ IF next = 4 THEN UNCHANGED <<config, process, spent>> ELSE GoTo("mark")
    /\ UNCHANGED <<tls, token, initDone, k8s, imageHash, built, defs, drawn>>

CheckpointK8s ==
    /\ pc = "generateK8s" /\ next \notin DOMAIN K8sFiles
    /\ k8sHash' = current /\ k8sVoid' = FALSE
    /\ GoTo("mark")
    /\ UNCHANGED <<tls, token, initDone, k8s, imageHash, built, defs, drawn>>

(* runOnce writes init.done.                                               *)
MarkInitDone ==
    /\ pc = "mark"
    /\ initDone' = TRUE
    /\ k8sVoid' = (k8sVoid \/ ~conf.k8s)
    /\ GoTo("catalog")
    /\ UNCHANGED <<tls, token, k8s, k8sHash, imageHash, built, defs, drawn>>

-----------------------------------------------------------------------------
(* runGenerate                                                             *)

GenerateCatalogInfo ==
    /\ pc = "catalog" /\ initDone
    /\ ~CatalogPanics(conf, only)
    /\ defs' = defs \cup Defined(conf, only)
    /\ GoTo("render")
    /\ UNCHANGED <<tls, token, once, drawn>>

(* generateConfigs, with GenerateNodeContainers of every node.             *)
GenerateConfigs ==
    /\ pc = "render"
    /\ ~RenderPanics(conf, only)
    /\ HashedDefinitions(conf, only) \subseteq defs
    /\ GoTo("apply")
    /\ UNCHANGED <<tls, token, once, defs, drawn>>

(* Before a panic in a cluster the definitions of others may be written.   *)
Panic ==
    /\ \/ /\ pc = "catalog" /\ initDone /\ CatalogPanics(conf, only)
          /\ \E d \in SUBSET Defined(conf, only) : defs' = defs \cup d
       \/ /\ pc = "render" /\ RenderPanics(conf, only)
          /\ UNCHANGED defs
    /\ Stop("panic")
    /\ UNCHANGED <<tls, token, once, drawn, spent>>

(* terraformApply fails on an image that is not declared, or that only     *)
(* exists locally and was not built.                                       *)
ImagesThere ==
    /\ UNION {NodeImages(conf, n) : n \in Populated(conf, only)}
          \subseteq DeclaredImages(conf)
    /\ LocalImages(conf) \subseteq built

TerraformApply ==
    /\ pc = "apply" /\ ImagesThere
    /\ GoTo("boot")
    /\ UNCHANGED <<tls, token, once, defs, drawn>>

TerraformApplyFails ==
    /\ pc = "apply" /\ ~ImagesThere
    /\ Stop("failed")
    /\ UNCHANGED <<tls, token, once, defs, drawn, spent>>

(* runBoot, module BringUp; with ACLs, Kubernetes takes neither peering    *)
(* nor secondary datacenters.                                              *)
K8sRefused(f, primary) ==
    /\ f.acls /\ f.k8s
    /\ f.link = "peer" \/ (~primary /\ f.clusters # {Primary})

RunBoot ==
    /\ pc = "boot"
    /\ Stop(IF K8sRefused(conf, only) THEN "failed" ELSE "booted")
    /\ UNCHANGED <<tls, token, once, defs, drawn, spent>>

(* The rest of destroy: *.val, *.hash and *.done, in this order.           *)
RemoveVals ==
    /\ pc = "removeVals"
    /\ token' = 0
    /\ GoTo("removeHashes")
    /\ UNCHANGED <<tls, once, defs, drawn>>

RemoveHashes ==
    /\ pc = "removeHashes"
    /\ k8sHash' = None /\ imageHash' = None
    /\ GoTo("removeDone")
    /\ UNCHANGED <<tls, token, initDone, k8s, built, k8sVoid, defs, drawn>>

RemoveDone ==
    /\ pc = "removeDone"
    /\ initDone' = FALSE
    /\ Stop("idle")
    /\ UNCHANGED <<tls, token, k8s, k8sHash, imageHash, built, k8sVoid, defs, drawn,
                   spent>>

-----------------------------------------------------------------------------
Operator ==
    \/ \E e \in Edits : EditConfig(e)
    \/ \E primary, force \in BOOLEAN : StartUp(primary, force)
    \/ \E force \in BOOLEAN : StartDown(force)
    \/ StartRefused \/ Interrupt
    \/ RemoveTLSInterrupted \/ CreateCAInterrupted \/ RemoveK8sInterrupted
    \/ \E p \in todo : GenCertInterrupted(p)

Process ==
    \/ RemoveTLS \/ UseCA \/ CreateCA \/ CreateCARefused
    \/ \E p \in todo : GenCert(p)
    \/ CertsGenerated
    \/ MaybeInitAgentMasterToken \/ BuildDockerImages
    \/ RemoveK8s \/ BeginK8s \/ WriteK8sFile \/ CheckpointK8s \/ MarkInitDone
    \/ GenerateCatalogInfo \/ GenerateConfigs \/ Panic
    \/ TerraformApply \/ TerraformApplyFails \/ RunBoot
    \/ RemoveVals \/ RemoveHashes \/ RemoveDone

Next == Operator \/ Process

Spec == Init /\ [][Next]_vars

(* The process runs, and the operator never stops trying `up -force`.      *)
LiveSpec == Spec /\ WF_vars(Process) /\ SF_vars(StartUp(FALSE, TRUE))

-----------------------------------------------------------------------------
(* Every variable has its type.                                            *)
TypeOK ==
    /\ config \in Files
    /\ pc \in Ended \cup {"tls", "certs", "token", "images", "k8s", "generateK8s",
                         "mark", "catalog", "render", "apply", "boot",
                         "removeK8s", "removeTLS", "removeVals", "removeHashes", "removeDone"}
    /\ pc \in Ended <=> conf = None
    /\ todo \subseteq (IF conf = None THEN {} ELSE Wanted(conf))
    /\ ca.cert \in 0..drawn /\ ca.key \in 0..drawn /\ token \in 0..drawn
    /\ \A p \in DOMAIN pairs : pairs[p].files \in (SUBSET {"cert", "key"}) \ {{}}
    /\ k8s \subseteq {K8sFiles[i] : i \in DOMAIN K8sFiles}
    /\ defs \subseteq Names

AfterCerts ==
    {"token", "images", "k8s", "generateK8s", "mark", "catalog", "render", "apply",
     "boot"}

(* When the certificates are made, every agent finds the pair its          *)
(* configuration names, whole, signed by the CA of the directory and, for  *)
(* a server, made out to its node - through added servers and gateways,    *)
(* TLS switched off and on, and interruptions between any two of them      *)
(* (maybeInitTLS, GenerateAgentHCL).  `consul tls` or a removal cut short  *)
(* leave a directory that `up` does not repair: see `torn`.                *)
CertificatesReady ==
    pc \in AfterCerts /\ conf.tls /\ ~torn =>
        \A n \in Nodes(conf) : IsAgent(conf, n) =>
            LET p == AgentPrefix(conf, n)
            IN  /\ Complete(p)
                /\ pairs[p].ca = ca.cert /\ ca.cert = ca.key
                /\ n.class = "server" => pairs[p].node = p.index

(* Boot finds every file of Kubernetes it reads (createAuthMethodForK8S),  *)
(* wherever the generation was interrupted, unless a marker outlived the   *)
(* files it stands for: init.done made without Kubernetes, or k8s.hash     *)
(* when the directory was removed.                                         *)
K8sFilesReady ==
    pc = "boot" /\ conf.k8s /\ ~k8sVoid =>
        \A i \in DOMAIN K8sFiles : K8sFiles[i] \in k8s

(* No two nodes are given the same address, if clusters have at most ten   *)
(* servers and numbers of their own (CompileTopology).                     *)
AddressesUnique ==
    pc = "render" /\ WellNumbered(conf) => UniqueAddresses(conf)

(* In every network shape the addresses rendered into containers belong to *)
(* nodes on a network they share, and secondaries find the primary         *)
(* (LeaderIP, GatewayAddrs, ServerIPs).                                    *)
AddressesReachable ==
    pc = "render" =>
        \A n \in Nodes(conf) :
            /\ DialsReachable(conf, n)
            /\ Secondary(conf, n) /\ Linked(conf) => LeadsToPrimary(conf, n)

(* Proxies dial an open gRPC port.  With server_tls_grpc alone dataplanes  *)
(* do not: servers close 8502, dataplanes dial it.                         *)
PortsOpen ==
    pc = "render" =>
        \A n \in Nodes(conf) :
            \/ PortsMatch(conf, n)
            \/ conf.serverTLSGRPC /\ ~conf.tlsGRPC /\ Kind(conf, n) = "dataplane"

(* What passes all checks can be brought up, but for these.                *)
Boots(f) ==
    /\ ~CatalogPanics(f, FALSE) /\ ~RenderPanics(f, FALSE)
    /\ ~K8sRefused(f, FALSE)
    /\ \A n \in Nodes(f) : NodeImages(f, n) \subseteq DeclaredImages(f)

Workable(raw) == Starts(raw) /\ Boots(Completed(raw))

(* docker.hash does not say that the images of these versions are built.   *)
StaleImages(f) == \A c \in Files : imageHash # <<c, Versions(f)>>

(* Of itself `up` only fails for a file that cannot be brought up, for one *)
(* half of a CA, or where init.done makes it pass over images that         *)
(* docker.hash does not vouch for - whatever is edited while it runs, and  *)
(* whatever interruptions and `down` left of the other files.              *)
FailsOnlyForCause ==
    [][pc \notin Ended /\ pc' \in {"failed", "panic"} /\ spent' = spent
         => HalfCA \/ ~Boots(conf) \/ StaleImages(conf)]_vars

(* `up -force` gets to the end in the end, whatever was edited, interrupted*)
(* or brought down before, unless one half of a CA is left.                *)
EventuallyBooted == []<>(pc = "booted" \/ ~Workable(config) \/ HalfCA)
=============================================================================

------------------------------ MODULE BringUp -------------------------------
(***************************************************************************)
(* `devconsul up` (app/boot.go): one process walks the whole topology,     *)
(* bootstraps the ACL system, mints tokens, waits until the servers they   *)
(* are meant for resolve them, publishes them in cache/, injects them into *)
(* the agents, links the clusters and waits for a healthy catalog.  Beside *)
(* it run Consul (elections, replication of tokens, anti-entropy) and the  *)
(* sidecars that pick the published tokens up.  The process may stop at    *)
(* any step (an API error is returned, or the user interrupts it) and be   *)
(* run again; `devconsul down` ends the life of the environment.           *)
(*                                                                         *)
(* Modelled: ACLs enabled, OSS, no Kubernetes; link_mode "federate" or     *)
(* "peer".  A secret is written as the number of the environment's life in *)
(* which it was minted, 0 being the empty string; a configured             *)
(* initial_master_token is valid in every life and is written 1.           *)
(* topology.Walk and topology.Clusters visit in a fixed order on which     *)
(* nothing here depends: the order is left free.                           *)
(***************************************************************************)
EXTENDS Naturals

CONSTANTS
    Clusters,       \* topology.Clusters()
    Primary,        \* config.PrimaryCluster
    Servers,        \* Servers[c]: the Consul servers of cluster c
    Clients,        \* Clients[c]: its client agents
    Services,       \* Services[c]: the services its client agents run
    Peered,         \* link_mode = "peer" rather than "federate"
    InitialToken,   \* security.initial_master_token is set
    NoServer,       \* "this cluster has no leader"
    MaxRuns,        \* bound: how often `up` is started
    MaxLives        \* bound: lives of the environment (1 + number of `down`s)

(* config/parse.go refuses link_mode "peer" without initial_master_token.  *)
ASSUME TopologyAssumption ==
    /\ Primary \in Clusters
    /\ \A c \in Clusters : NoServer \notin Servers[c]
    /\ Peered \in BOOLEAN /\ InitialToken \in BOOLEAN
    /\ Peered => InitialToken
    /\ MaxRuns \in Nat /\ MaxLives \in Nat \ {0}

-----------------------------------------------------------------------------
(* Tokens, named by their kind, the cluster they are meant for and what    *)
(* they are for: the Description CreateOrUpdateToken finds them by.        *)

Token(kind, c, name) == [kind |-> kind, cluster |-> c, name |-> name]

(* The cluster whose ACL system issues the tokens of cluster c.            *)
Authority(c) == IF Peered THEN c ELSE Primary
Authorities == {Authority(c) : c \in Clusters}
Secondary(c) == ~Peered /\ c # Primary
Secondaries == {c \in Clusters : Secondary(c)}

Agents(c) == Servers[c] \cup Clients[c]

Master(c)        == Token("master", Authority(c), Primary)
Replication      == Token("replication", Primary, Primary)
Anonymous(c)     == Token("anonymous", c, Primary)
MeshGateway(c)   == Token("mesh-gateway", c, Primary)
AgentTokens(c)   == {Token("agent", c, a) : a \in Agents(c)}
ServiceTokens(c) == {Token("service", c, x) : x \in Services[c]}
PublishedTokens(c) == {MeshGateway(c)} \cup ServiceTokens(c)

AllServers       == UNION {Servers[c] : c \in Clusters}
AllAgentTokens   == UNION {AgentTokens(c) : c \in Clusters}
AllServiceTokens == UNION {ServiceTokens(c) : c \in Clusters}
Published        == UNION {PublishedTokens(c) : c \in Clusters}
Tokens ==
    {Master(c) : c \in Clusters} \cup {Replication}
        \cup {Anonymous(c) : c \in Clusters} \cup Published \cup AllAgentTokens

NoToken == Token("none", Primary, Primary)

(* The tokens whose arrival on the servers of c somebody waits for.        *)
TokensAt(c) ==
    {Master(c)} \cup AgentTokens(c) \cup PublishedTokens(c)
        \cup (IF c = Primary /\ ~Peered THEN {Replication} ELSE {})

-----------------------------------------------------------------------------
VARIABLES
    \* the process
    stage,        \* the call of runBoot it is in, or how it ended
    primaryOnly,  \* `devconsul primary`
    cur,          \* the cluster being worked on
    left,         \* clusters the current loop has not visited
    todo,         \* tokens the current walk has not visited
    tok,          \* the token waitForTokenOnServers waits for
    awaiting,     \* servers the current walk has not visited
    clients,      \* c.serverClients: servers with an API client
    mem,          \* c.tokens: tokens remembered by this run
    masterToken,  \* c.masterToken: its secret
    runs,         \* how often `up` was started
    \* cache/ on disk
    cache,        \* secret in the .val file of each published token
    masterFile,   \* secret in master-token.val
    regFiles,     \* services with a servicereg__*.hcl
    \* Consul
    life,         \* the life of the environment's volumes
    running,      \* clusters whose containers run
    leader,       \* the leader of each cluster
    store,        \* tokens in the ACL stores of the authorities
    known,        \* known[s]: tokens server s resolves
    replTok,      \* servers holding the replication token
    agentTok,     \* agents (by their token) holding their token
    registered,   \* agents (by their token) whose node update was posted
    health,       \* catalog status of the workload of each published token
    generated,    \* clusters the primary generated a peering token for
    established   \* clusters that established their side of the peering

process == <<stage, primaryOnly, cur, left, todo, tok, awaiting, clients, mem,
             masterToken, runs>>
disk    == <<cache, masterFile, regFiles>>
acls    == <<store, known, replTok, agentTok>>
world   == <<life, running, leader, store, known, replTok, agentTok,
             registered, health, generated, established>>
vars    == <<process, disk, world>>

-----------------------------------------------------------------------------
(* The stages.                                                             *)

Ended == {"idle", "done", "failed", "panic"}

CreateStages  == {"createReplication", "createMeshGateway", "createAgents",
                  "createAnonymous", "createServices"}
PublishStages == {"publishMeshGateway", "publishServices"}
WaitStages    == PublishStages \cup
                 {"waitInitialManagement", "waitReplication", "waitMaster",
                  "waitAgents"}
Active == CreateStages \cup WaitStages \cup
          {"waitForLeader", "bootstrap", "isACLBootstrapped", "tokenReadSelf",
           "aclBootstrap", "saveMaster", "initPrimary", "injectAgents",
           "nodeUpdates", "writeRegistrations", "injectReplication",
           "initSecondary", "crossKV", "peer", "establish",
           "waitForCompletion"}

(* Fault: initPrimaryCluster forgets createReplicationToken.               *)
PrimaryPlan_NoReplication ==
    [waitInitialManagement |-> "bootstrap",
     initPrimary        |-> "createMeshGateway",
     createMeshGateway  |-> "publishMeshGateway",
     publishMeshGateway |-> "createAgents",
     createAgents       |-> "waitAgents",
     waitAgents         |-> "injectAgents",
     injectAgents       |-> "nodeUpdates",
     nodeUpdates        |-> "createAnonymous",
     createAnonymous    |-> "createServices",
     createServices     |-> "publishServices",
     publishServices    |-> "initPrimary"]

(* The order of the calls of initPrimaryCluster.                           *)
PrimaryPlan ==
    [waitInitialManagement |-> "bootstrap",
     initPrimary |-> IF Peered THEN "createMeshGateway" ELSE "createReplication",
     createReplication  |-> "waitReplication",
     waitReplication    |-> "createMeshGateway",
     createMeshGateway  |-> "publishMeshGateway",
     publishMeshGateway |-> "createAgents",
     createAgents       |-> "waitAgents",
     waitAgents         |-> "injectAgents",
     injectAgents       |-> "nodeUpdates",
     nodeUpdates        |-> "createAnonymous",
     createAnonymous    |-> "createServices",
     createServices     |-> "publishServices",
     publishServices    |-> "initPrimary"]

(* Fault: agents get their tokens before the delayed waits have run.       *)
SecondaryPlan_InjectFirst ==
    [initSecondary      |-> "createMeshGateway",
     createMeshGateway  |-> "createAgents",
     createAgents       |-> "createServices",
     createServices     |-> "injectAgents",
     injectAgents       |-> "nodeUpdates",
     nodeUpdates        |-> "waitMaster",
     waitMaster         |-> "publishMeshGateway",
     publishMeshGateway |-> "waitAgents",
     waitAgents         |-> "publishServices",
     publishServices    |-> "initSecondary"]

(* Fault: the mesh gateway tokens of secondaries are created, not written. *)
SecondaryPlan_GatewayNotWritten ==
    [initSecondary      |-> "createMeshGateway",
     createMeshGateway  |-> "createAgents",
     createAgents       |-> "createServices",
     createServices     |-> "waitMaster",
     waitMaster         |-> "waitAgents",
     waitAgents         |-> "publishServices",
     publishServices    |-> "injectAgents",
     injectAgents       |-> "nodeUpdates",
     nodeUpdates        |-> "initSecondary"]

(* The order of the calls of the loop of initSecondaryDCs: all tokens of   *)
(* the cluster are created before the first of them is waited for.         *)
SecondaryPlan ==
    [initSecondary      |-> "createMeshGateway",
     createMeshGateway  |-> "createAgents",
     createAgents       |-> "createServices",
     createServices     |-> "waitMaster",
     waitMaster         |-> "publishMeshGateway",
     publishMeshGateway |-> "waitAgents",
     waitAgents         |-> "publishServices",
     publishServices    |-> "injectAgents",
     injectAgents       |-> "nodeUpdates",
     nodeUpdates        |-> "initSecondary"]

Plan(c) == IF Secondary(c) THEN SecondaryPlan ELSE PrimaryPlan

(* The tokens the walk of a stage visits for cluster c.                    *)
Work(st, c) ==
    CASE st \in {"waitInitialManagement", "waitMaster"} -> {Master(c)}
      [] st \in {"createReplication", "waitReplication"} -> {Replication}
      [] st \in {"createMeshGateway", "publishMeshGateway"} -> {MeshGateway(c)}
      [] st \in {"createAgents", "waitAgents", "injectAgents"} -> AgentTokens(c)
      [] st = "createAnonymous" -> {Anonymous(c)}
      [] st \in {"createServices", "publishServices"} -> ServiceTokens(c)
      [] st = "writeRegistrations" -> AllServiceTokens
      [] OTHER -> {}

-----------------------------------------------------------------------------
(* The secret a Consul server accepts as the management token.             *)
MasterSecret == IF InitialToken THEN 1 ELSE life

(* An API call made with c.masterToken at cluster c is authorized.         *)
Authorized(c) == masterToken = MasterSecret /\ Master(c) \in store

Processed == IF primaryOnly THEN {Primary} ELSE Clusters

(* Enter stage st for cluster c, the clusters cs remaining in its loop.    *)
Enter(st, c, cs) ==
    /\ stage' = st
    /\ cur' = c
    /\ left' = cs
    /\ todo' = Work(st, c)
    /\ tok' = NoToken
    /\ awaiting' = IF st = "injectReplication"
                     THEN UNION {Servers[d] : d \in Secondaries} ELSE {}

GoTo(st) == Enter(st, cur, left)

(* The process ends; its memory is gone.                                   *)
End(outcome) ==
    /\ stage' = outcome
    /\ left' = {} /\ todo' = {} /\ tok' = NoToken /\ awaiting' = {}
    /\ clients' = {} /\ mem' = {} /\ masterToken' = 0
    /\ UNCHANGED <<cur, primaryOnly, runs>>

Memory == <<primaryOnly, clients, mem, masterToken, runs>>
Walk   == <<cur, left, todo, tok, awaiting>>

-----------------------------------------------------------------------------
Init ==
    /\ stage = "idle" /\ primaryOnly = FALSE /\ cur = Primary
    /\ left = {} /\ todo = {} /\ tok = NoToken /\ awaiting = {}
    /\ clients = {} /\ mem = {} /\ masterToken = 0 /\ runs = 0
    /\ cache = [t \in Published |-> 0] /\ masterFile = 0 /\ regFiles = {}
    /\ life = 1 /\ running = {} /\ leader = [c \in Clusters |-> NoServer]
    /\ store = {} /\ known = [s \in AllServers |-> {}]
    /\ replTok = {} /\ agentTok = {} /\ registered = {}
    /\ health = [t \in Published |-> "absent"]
    /\ generated = {} /\ established = {}

(* `devconsul up`, or `devconsul primary`: generate and apply the          *)
(* configuration, which starts the containers (with the primary only, the  *)
(* pods of the other clusters are left empty), then enter runBoot.         *)
StartUp(po) ==
    /\ stage \in Ended
    /\ runs < MaxRuns
    /\ po => ~Peered
    /\ runs' = runs + 1
    /\ primaryOnly' = po
    /\ running' = IF po THEN {Primary} ELSE Clusters
    /\ leader' = [c \in Clusters |-> IF c \in running' THEN leader[c] ELSE NoServer]
    /\ Enter("waitForLeader", Primary, running')
    /\ UNCHANGED <<clients, mem, masterToken, disk, life, acls, registered,
                   health, generated, established>>

WaitForLeader(c) ==
    /\ stage = "waitForLeader"
    /\ c \in left
    /\ leader[c] # NoServer
    /\ left' = left \ {c}
    /\ UNCHANGED <<stage, cur, todo, tok, awaiting, Memory, disk, world>>

LeadersElected ==
    /\ stage = "waitForLeader"
    /\ left = {}
    /\ Enter("bootstrap", cur, Authorities)
    /\ UNCHANGED <<Memory, disk, world>>

-----------------------------------------------------------------------------
(* bootstrap(cluster).  The cached master token wins over the configured   *)
(* one, which is saved when there is none.                                 *)
LoadMasterToken(c) ==
    LET loaded == IF masterFile = 0 /\ InitialToken THEN 1 ELSE masterFile IN
    /\ stage = "bootstrap"
    /\ c \in left
    /\ masterToken' = loaded
    /\ masterFile' = loaded
    /\ Enter(IF loaded = 0 THEN "aclBootstrap" ELSE "isACLBootstrapped",
             c, left \ {c})
    /\ UNCHANGED <<primaryOnly, clients, mem, runs, cache, regFiles, world>>

(* NOT_BOOTED: repeated for as long as the token is not found.             *)
IsACLBootstrapped ==
    /\ stage = "isACLBootstrapped"
    /\ Authorized(cur)
    /\ GoTo("tokenReadSelf")
    /\ UNCHANGED <<Memory, disk, world>>

TokenReadSelf ==
    /\ stage = "tokenReadSelf"
    /\ GoTo("bootstrap")
    /\ UNCHANGED <<Memory, disk, world>>

(* Any other error is taken to mean that the token does not work: its file *)
(* is deleted, and the run goes on with the token it has in memory.        *)
TokenReadSelfError ==
    /\ stage = "tokenReadSelf"
    /\ masterFile' = 0
    /\ GoTo("bootstrap")
    /\ UNCHANGED <<Memory, cache, regFiles, world>>

(* Consul hands out the initial management token once.                     *)
ACLBootstrap ==
    /\ stage = "aclBootstrap"
    /\ Master(cur) \notin store
    /\ store' = store \cup {Master(cur)}
    /\ masterToken' = life
    /\ GoTo("saveMaster")
    /\ UNCHANGED <<primaryOnly, clients, mem, runs, disk, life, running, leader,
                   known, replTok, agentTok, registered, health, generated,
                   established>>

ACLBootstrapRefused ==
    /\ stage = "aclBootstrap"
    /\ Master(cur) \in store
    /\ End("failed")
    /\ UNCHANGED <<disk, world>>

(* Fault: the token is to be saved only after the wait.                    *)
SaveMaster_AfterWait ==
    /\ stage = "saveMaster"
    /\ GoTo("waitInitialManagement")
    /\ UNCHANGED <<Memory, disk, world>>

SaveMaster ==
    /\ stage = "saveMaster"
    /\ masterFile' = masterToken
    /\ GoTo("waitInitialManagement")
    /\ UNCHANGED <<Memory, cache, regFiles, world>>

Bootstrapped ==
    /\ stage = "bootstrap"
    /\ left = {}
    /\ Enter("initPrimary", cur, Authorities)
    /\ UNCHANGED <<Memory, disk, world>>

-----------------------------------------------------------------------------
(* Steps that initPrimaryCluster and initSecondaryDCs share; Plan orders   *)
(* them.                                                                   *)

(* createClientsForServersInCluster, the first call for each cluster.      *)
CreateClients(c) ==
    /\ stage \in {"initPrimary", "initSecondary"}
    /\ c \in left
    /\ clients' = clients \cup Servers[c]
    /\ Enter(Plan(c)[stage], c, left \ {c})
    /\ UNCHANGED <<primaryOnly, mem, masterToken, runs, disk, world>>

(* CreateOrUpdateToken: a token found by its description keeps its secret. *)
CreateOrUpdateToken(t) ==
    /\ stage \in CreateStages
    /\ t \in todo
    /\ Authorized(cur)
    /\ store' = store \cup {t}
    /\ mem' = IF t.kind \in {"replication", "agent"} THEN mem \cup {t} ELSE mem
    /\ todo' = todo \ {t}
    /\ UNCHANGED <<stage, cur, left, tok, awaiting, primaryOnly, clients,
                   masterToken, runs, disk, life, running, leader, known,
                   replTok, agentTok, registered, health, generated, established>>

(* Fault: waitForTokenOnServers does not skip client agents.               *)
BeginWait_AllAgents(t) ==
    /\ stage \in WaitStages
    /\ tok = NoToken
    /\ t \in todo
    /\ tok' = t
    /\ todo' = todo \ {t}
    /\ awaiting' = Agents(cur)
    /\ UNCHANGED <<stage, cur, left, Memory, disk, world>>

(* waitForTokenOnServers(cluster, tok).                                    *)
BeginWait(t) ==
    /\ stage \in WaitStages
    /\ tok = NoToken
    /\ t \in todo
    /\ tok' = t
    /\ todo' = todo \ {t}
    /\ awaiting' = Servers[cur]
    /\ UNCHANGED <<stage, cur, left, Memory, disk, world>>

WaitForTokenOnServer(s) ==
    /\ stage \in WaitStages
    /\ s \in awaiting
    /\ masterToken # 0 /\ s \in clients
    /\ tok \in known[s]
    /\ awaiting' = awaiting \ {s}
    /\ UNCHANGED <<stage, cur, left, todo, tok, Memory, disk, world>>

(* Fault: the first server that resolves the token ends the wait.          *)
TokenReady_OneServer ==
    /\ stage \in WaitStages
    /\ tok # NoToken
    /\ awaiting # Servers[cur]
    /\ tok' = NoToken
    /\ awaiting' = {}
    /\ cache' = IF stage \in PublishStages THEN [cache EXCEPT ![tok] = life]
                ELSE cache
    /\ UNCHANGED <<stage, cur, left, todo, Memory, masterFile, regFiles, world>>

(* Fault: the token is written before it is waited for.                    *)
TokenReady_NoWait ==
    /\ stage \in WaitStages
    /\ tok # NoToken
    /\ tok' = NoToken
    /\ awaiting' = {}
    /\ cache' = IF stage \in PublishStages THEN [cache EXCEPT ![tok] = life]
                ELSE cache
    /\ UNCHANGED <<stage, cur, left, todo, Memory, masterFile, regFiles, world>>

(* Fault: LoadOrSaveValue in place of SaveValue.                           *)
TokenReady_KeepFile ==
    /\ stage \in WaitStages
    /\ tok # NoToken
    /\ awaiting = {}
    /\ tok' = NoToken
    /\ cache' = IF stage \in PublishStages /\ cache[tok] = 0
                THEN [cache EXCEPT ![tok] = life] ELSE cache
    /\ UNCHANGED <<stage, cur, left, todo, awaiting, Memory, masterFile,
                   regFiles, world>>

(* The wait is over; the delayed write of a published token follows it.    *)
TokenReady ==
    /\ stage \in WaitStages
    /\ tok # NoToken
    /\ awaiting = {}
    /\ tok' = NoToken
    /\ cache' = IF stage \in PublishStages THEN [cache EXCEPT ![tok] = life]
                ELSE cache
    /\ UNCHANGED <<stage, cur, left, todo, awaiting, Memory, masterFile,
                   regFiles, world>>

(* injectAgentTokens.                                                      *)
InjectAgentToken(t) ==
    /\ stage = "injectAgents"
    /\ t \in todo
    /\ t \in mem
    /\ agentTok' = agentTok \cup {t}
    /\ todo' = todo \ {t}
    /\ UNCHANGED <<stage, cur, left, tok, awaiting, Memory, disk, life, running,
                   leader, store, known, replTok, registered, health, generated,
                   established>>

(* The assertions of waitForTokenOnServers and mustGetToken.               *)
AssertionFails ==
    \/ stage \in WaitStages /\ awaiting # {} /\ masterToken = 0
    \/ stage \in WaitStages /\ ~(awaiting \subseteq clients)
    \/ stage = "injectAgents" /\ ~(todo \subseteq mem)
    \/ stage = "injectReplication" /\ Replication \notin mem

Panic ==
    /\ AssertionFails
    /\ End("panic")
    /\ UNCHANGED <<disk, world>>

(* Fault: one posted node update is enough.                                *)
NodeUpdates_AnyNode ==
    /\ stage = "nodeUpdates"
    /\ GoTo(IF AgentTokens(cur) \cap registered # {} THEN Plan(cur)[stage]
            ELSE "injectAgents")
    /\ UNCHANGED <<Memory, disk, world>>

(* determineNodeUpdateStragglers: with stragglers, inject again.           *)
NodeUpdates ==
    /\ stage = "nodeUpdates"
    /\ GoTo(IF AgentTokens(cur) \subseteq registered THEN Plan(cur)[stage]
            ELSE "injectAgents")
    /\ UNCHANGED <<Memory, disk, world>>

(* A walk has visited everything: the next call of the plan.               *)
WalkDone ==
    /\ stage \in CreateStages \cup WaitStages \cup {"injectAgents"}
    /\ todo = {} /\ tok = NoToken
    /\ GoTo(Plan(cur)[stage])
    /\ UNCHANGED <<Memory, disk, world>>

PrimariesReady ==
    /\ stage = "initPrimary"
    /\ left = {}
    /\ GoTo("writeRegistrations")
    /\ UNCHANGED <<Memory, disk, world>>

-----------------------------------------------------------------------------
(* The rest of runBoot.                                                    *)

WriteServiceRegistrationFile(t) ==
    /\ stage = "writeRegistrations"
    /\ t \in todo
    /\ regFiles' = regFiles \cup {t}
    /\ todo' = todo \ {t}
    /\ UNCHANGED <<stage, cur, left, tok, awaiting, Memory, cache, masterFile, world>>

(* Fault: initSecondaryDCs does not inject the replication token.          *)
RegistrationsWritten_NoInject ==
    /\ stage = "writeRegistrations"
    /\ todo = {}
    /\ \/ Peered /\ Enter("peer", cur, Clusters \ {Primary})
       \/ /\ ~primaryOnly /\ Secondaries # {}
          /\ Enter("initSecondary", cur, Secondaries)
       \/ /\ ~Peered /\ (primaryOnly \/ Secondaries = {})
          /\ Enter("waitForCompletion", cur, Processed)
    /\ UNCHANGED <<Memory, disk, world>>

RegistrationsWritten ==
    /\ stage = "writeRegistrations"
    /\ todo = {}
    /\ \/ Peered /\ Enter("peer", cur, Clusters \ {Primary})
       \/ ~primaryOnly /\ Secondaries # {} /\ GoTo("injectReplication")
       \/ /\ ~Peered /\ (primaryOnly \/ Secondaries = {})
          /\ Enter("waitForCompletion", cur, Processed)
    /\ UNCHANGED <<Memory, disk, world>>

InjectReplicationToken(s) ==
    /\ stage = "injectReplication"
    /\ s \in awaiting
    /\ Replication \in mem
    /\ replTok' = replTok \cup {s}
    /\ awaiting' = awaiting \ {s}
    /\ UNCHANGED <<stage, cur, left, todo, tok, Memory, disk, life, running,
                   leader, store, known, agentTok, registered, health, generated,
                   established>>

ReplicationInjected ==
    /\ stage = "injectReplication"
    /\ awaiting = {}
    /\ Enter("initSecondary", cur, Secondaries)
    /\ UNCHANGED <<Memory, disk, world>>

SecondariesReady ==
    /\ stage = "initSecondary"
    /\ left = {}
    /\ GoTo("crossKV")
    /\ UNCHANGED <<Memory, disk, world>>

(* A write from every cluster to every other one succeeds.                 *)
WaitForCrossDatacenterKV ==
    /\ stage = "crossKV"
    /\ \A c \in Clusters : leader[c] # NoServer
                           /\ \E s \in Servers[c] : Master(c) \in known[s]
    /\ Enter("waitForCompletion", cur, Processed)
    /\ UNCHANGED <<Memory, disk, world>>

(* peerClusters: both sides are read, then the token is generated on the   *)
(* primary and established on the peer unless both already know it.        *)
AlreadyPeered_OneSide(c) ==
    /\ stage = "peer"
    /\ c \in left
    /\ c \in generated \/ c \in established    \* fault: one side is enough
    /\ left' = left \ {c}
    /\ UNCHANGED <<stage, cur, todo, tok, awaiting, Memory, disk, world>>

AlreadyPeered(c) ==
    /\ stage = "peer"
    /\ c \in left
    /\ c \in generated /\ c \in established
    /\ left' = left \ {c}
    /\ UNCHANGED <<stage, cur, todo, tok, awaiting, Memory, disk, world>>

GeneratePeeringToken(c) ==
    /\ stage = "peer"
    /\ c \in left
    /\ c \notin generated \cap established
    /\ generated' = generated \cup {c}
    /\ Enter("establish", c, left \ {c})
    /\ UNCHANGED <<Memory, disk, life, running, leader, acls, registered,
                   health, established>>

EstablishPeering ==
    /\ stage = "establish"
    /\ established' = established \cup {cur}
    /\ GoTo("peer")
    /\ UNCHANGED <<Memory, disk, life, running, leader, acls, registered,
                   health, generated>>

PeersLinked ==
    /\ stage = "peer"
    /\ left = {}
    /\ Enter("waitForCompletion", cur, Processed)
    /\ UNCHANGED <<Memory, disk, world>>

(* No service the catalog lists is unhealthy.                              *)
WaitForCompletion(c) ==
    /\ stage = "waitForCompletion"
    /\ c \in left
    /\ leader[c] # NoServer
    /\ \A t \in PublishedTokens(c) : health[t] # "critical"
    /\ left' = left \ {c}
    /\ UNCHANGED <<stage, cur, todo, tok, awaiting, Memory, disk, world>>

Completed ==
    /\ stage = "waitForCompletion"
    /\ left = {}
    /\ End("done")
    /\ UNCHANGED <<disk, world>>

(* An API call returns an error, a file cannot be written, or the user     *)
(* interrupts the program.                                                 *)
Interrupt ==
    /\ stage \in Active
    /\ End("failed")
    /\ UNCHANGED <<disk, world>>

-----------------------------------------------------------------------------
(* `devconsul down`: destroy the containers and volumes, then remove the   *)
(* files of cache/; it may be interrupted between the two and while files  *)
(* are being removed.                                                      *)
DownDestroy ==
    /\ stage \in Ended
    /\ life < MaxLives
    /\ stage' = "down"
    /\ life' = life + 1
    /\ running' = {} /\ leader' = [c \in Clusters |-> NoServer]
    /\ store' = {} /\ known' = [s \in AllServers |-> {}]
    /\ replTok' = {} /\ agentTok' = {} /\ registered' = {}
    /\ health' = [t \in Published |-> "absent"]
    /\ generated' = {} /\ established' = {}
    /\ UNCHANGED <<Walk, Memory, disk>>

DownFiles ==
    /\ stage = "down"
    /\ stage' = "idle"
    /\ cache' = [t \in Published |-> 0] /\ masterFile' = 0 /\ regFiles' = {}
    /\ UNCHANGED <<Walk, Memory, world>>

(* The files are removed one by one, and a file that cannot be removed is  *)
(* passed over, so any of them may be left.                                *)
DownInterrupted ==
    /\ stage = "down"
    /\ stage' = "failed"
    /\ \E kept \in SUBSET Published :
          cache' = [t \in Published |-> IF t \in kept THEN cache[t] ELSE 0]
    /\ masterFile' \in {0, masterFile}
    /\ regFiles' \in SUBSET regFiles
    /\ UNCHANGED <<Walk, Memory, world>>

-----------------------------------------------------------------------------
(* Consul.  The leader of an authority installs a configured               *)
(* initial_management token.                                               *)
ElectLeader(c, s) ==
    /\ c \in running
    /\ leader[c] = NoServer
    /\ s \in Servers[c]
    /\ leader' = [leader EXCEPT ![c] = s]
    /\ store' = IF InitialToken /\ ~Secondary(c) THEN store \cup {Master(c)}
                ELSE store
    /\ UNCHANGED <<process, disk, life, running, known, replTok, agentTok,
                   registered, health, generated, established>>

(* A token reaches a server; a secondary's leader pulls tokens from the    *)
(* primary with the replication token it was given.                        *)
Replicate(c, s, t) ==
    /\ c \in running
    /\ leader[c] # NoServer
    /\ Secondary(c) => leader[c] \in replTok
    /\ s \in Servers[c]
    /\ t \in (store \cap TokensAt(c)) \ known[s]
    /\ known' = [known EXCEPT ![s] = @ \cup {t}]
    /\ UNCHANGED <<process, disk, life, running, leader, store, replTok, agentTok,
                   registered, health, generated, established>>

(* Anti-entropy: an agent whose token a server resolves posts its node.    *)
AgentSync(c, t) ==
    /\ c \in running
    /\ t \in (AgentTokens(c) \cap agentTok) \ registered
    /\ \E s \in Servers[c] : t \in known[s]
    /\ registered' = registered \cup {t}
    /\ UNCHANGED <<process, disk, life, running, leader, acls, health, generated,
                   established>>

(* sidecar-boot.sh, mesh-gateway-sidecar-boot.sh: loop until the token of  *)
(* the file can read itself, then register.                                *)
SidecarRegister(c, t) ==
    /\ c \in running
    /\ t \in PublishedTokens(c)
    /\ cache[t] = life
    /\ \E s \in Servers[c] : t \in known[s]
    /\ t.kind = "service" => t \in regFiles
    /\ health[t] = "absent"
    /\ health' = [health EXCEPT ![t] = "critical"]
    /\ UNCHANGED <<process, disk, life, running, leader, acls, registered,
                   generated, established>>

SidecarPass(c, t) ==
    /\ c \in running
    /\ t \in PublishedTokens(c)
    /\ health[t] = "critical"
    /\ health' = [health EXCEPT ![t] = "passing"]
    /\ UNCHANGED <<process, disk, life, running, leader, acls, registered,
                   generated, established>>

-----------------------------------------------------------------------------
Bootstrap ==
    \/ \E c \in Clusters : WaitForLeader(c) \/ LoadMasterToken(c)
    \/ LeadersElected \/ IsACLBootstrapped \/ TokenReadSelf
    \/ ACLBootstrap \/ ACLBootstrapRefused \/ SaveMaster \/ Bootstrapped

WalkToken(t) ==
    \/ CreateOrUpdateToken(t) \/ BeginWait(t) \/ InjectAgentToken(t)
    \/ WriteServiceRegistrationFile(t)

WalkServer(s) ==
    WaitForTokenOnServer(s) \/ InjectReplicationToken(s)

Linking ==
    \/ ReplicationInjected \/ SecondariesReady \/ WaitForCrossDatacenterKV
    \/ \E c \in Clusters : AlreadyPeered(c) \/ GeneratePeeringToken(c)
    \/ EstablishPeering \/ PeersLinked

ProcessStep ==
    \/ Bootstrap
    \/ \E c \in Clusters : CreateClients(c) \/ WaitForCompletion(c)
    \/ \E t \in Tokens : WalkToken(t)
    \/ \E s \in AllServers : WalkServer(s)
    \/ TokenReady \/ Panic \/ NodeUpdates \/ WalkDone
    \/ PrimariesReady \/ RegistrationsWritten
    \/ Linking
    \/ Completed

Operator ==
    \/ \E po \in BOOLEAN : StartUp(po)
    \/ Interrupt \/ TokenReadSelfError
    \/ DownDestroy \/ DownFiles \/ DownInterrupted

ConsulStep(c) ==
    \/ \E s \in Servers[c] :
          ElectLeader(c, s) \/ \E t \in TokensAt(c) : Replicate(c, s, t)
    \/ \E t \in AgentTokens(c) : AgentSync(c, t)
    \/ \E t \in PublishedTokens(c) : SidecarRegister(c, t) \/ SidecarPass(c, t)

Next == ProcessStep \/ Operator \/ \E c \in Clusters : ConsulStep(c)

Spec == Init /\ [][Next]_vars

(* The process keeps going, and Consul and the sidecars, restarted by      *)
(* Docker and retrying in loops, eventually do what they are waited for.   *)
(* Nothing obliges the operator.                                           *)
Fairness ==
    /\ WF_vars(ProcessStep)
    /\ \A c \in Clusters :
          /\ WF_vars(\E s \in Servers[c] : ElectLeader(c, s))
          /\ \A s \in Servers[c], t \in TokensAt(c) : WF_vars(Replicate(c, s, t))
          /\ \A t \in AgentTokens(c) : WF_vars(AgentSync(c, t))
          /\ \A t \in PublishedTokens(c) :
                WF_vars(SidecarRegister(c, t) \/ SidecarPass(c, t))

LiveSpec == Spec /\ Fairness

-----------------------------------------------------------------------------
(* Properties.                                                             *)

TypeWalk ==
    /\ stage \in Ended \cup Active \cup {"down"}
    /\ cur \in Clusters /\ left \subseteq Clusters
    /\ todo \subseteq Tokens /\ tok \in Tokens \cup {NoToken}
    /\ awaiting \subseteq AllServers

TypeMemory ==
    /\ primaryOnly \in BOOLEAN /\ clients \subseteq AllServers
    /\ mem \subseteq Tokens /\ masterToken \in Nat /\ runs \in Nat

TypeDisk ==
    /\ cache \in [Published -> Nat] /\ \A t \in Published : cache[t] <= life
    /\ masterFile \in Nat /\ regFiles \subseteq AllServiceTokens

TypeWorld ==
    /\ life \in Nat \ {0} /\ running \subseteq Clusters
    /\ leader \in [Clusters -> AllServers \cup {NoServer}]
    /\ store \subseteq Tokens /\ known \in [AllServers -> SUBSET Tokens]
    /\ replTok \subseteq AllServers /\ agentTok \subseteq AllAgentTokens
    /\ registered \subseteq AllAgentTokens
    /\ health \in [Published -> {"absent", "critical", "passing"}]
    /\ generated \subseteq Clusters /\ established \subseteq Clusters

(* Every variable has its type; in particular a file never holds a secret  *)
(* of a life that has not begun, and only servers are ever waited for.     *)
TypeOK == TypeWalk /\ TypeMemory /\ TypeDisk /\ TypeWorld

(* A secret of the current life found in a token file is resolved by every *)
(* server of the cluster the file is for, whatever was interrupted or left *)
(* behind: a sidecar that reads it never has to see it fail                *)
(* (createMeshGatewayTokenDelayWrite, createServiceTokensDelayWrite).      *)
PublishedTokensWork ==
    \A c \in Clusters : \A t \in PublishedTokens(c) :
        cache[t] = life => \A s \in Servers[c] : t \in known[s]

(* An agent is only ever handed a token that every server of its cluster   *)
(* resolves (createAgentTokensDelayWrite before injectAgentTokens).        *)
InjectedTokensWork ==
    \A c \in Clusters : \A t \in AgentTokens(c) \cap agentTok :
        \A s \in Servers[c] : t \in known[s]

(* No run trips over the panics of waitForTokenOnServers and mustGetToken: *)
(* clients and remembered tokens are always there when they are needed.    *)
NoPanic == stage # "panic"

(* What a run that reports success has achieved in the clusters it booted: *)
(* agents hold their tokens and have posted their nodes, no token file is  *)
(* missing or left over from an earlier life, every service it has a token *)
(* for has its registration file, every secondary server holds the         *)
(* replication token, all peerings are up on both sides.                   *)
BootComplete ==
    stage = "done" =>
        /\ \A c \in running :
              /\ AgentTokens(c) \subseteq agentTok \cap registered
              /\ \A t \in PublishedTokens(c) : cache[t] = life
              /\ ServiceTokens(c) \subseteq regFiles
        /\ ~primaryOnly => \A c \in Secondaries : Servers[c] \subseteq replTok
        /\ Peered => Clusters \ {Primary} \subseteq generated \cap established

(* Once the process panics after bootstrapping the ACLs, the token it was  *)
(* given is on disk, so that the next run can use it (SaveValue precedes   *)
(* the wait in bootstrap).                                                 *)
PanicKeepsMasterToken == stage = "panic" => masterFile = MasterSecret

(* What the servers of cluster c need to come to resolve token t.          *)
Supplied(c, t) ==
    /\ c \in running /\ leader[c] # NoServer
    /\ t \in store \cap TokensAt(c)
    /\ Secondary(c) => leader[c] \in replTok

(* Nothing a run waits for is missing: when it starts to wait, what Consul *)
(* and the agents need to bring it about is in place (a leader that runs,  *)
(* the token in the right ACL store, the replication token in the hands of *)
(* a secondary's leader, agents with tokens that work), and no token is    *)
(* created with credentials that Consul refuses (waitForLeader,            *)
(* waitForTokenOnServers, determineNodeUpdateStragglers,                   *)
(* waitForCrossDatacenterKV).                                              *)
WaitsCanEnd ==
    /\ stage = "waitForLeader" => left \subseteq running
    /\ stage = "isACLBootstrapped" /\ masterToken = MasterSecret => Authorized(cur)
    /\ stage \in CreateStages => Authorized(cur)
    /\ stage \in WaitStages => \A t \in Work(stage, cur) : Supplied(cur, t)
    /\ stage = "nodeUpdates" =>
          /\ cur \in running
          /\ \A t \in AgentTokens(cur) :
                t \in agentTok /\ \E s \in Servers[cur] : t \in known[s]
    /\ stage = "crossKV" => \A c \in Clusters : Supplied(c, Master(c))
    /\ stage = "waitForCompletion" =>
          \A c \in left : c \in running /\ leader[c] # NoServer

(* Consul hands out the initial management token once: where it is kept.   *)
MasterTokenAtHand ==
    \/ masterFile = life
    \/ stage = "saveMaster" /\ masterToken = life

MasterTokenLost == ~InitialToken /\ Master(Primary) \in store /\ ~MasterTokenAtHand

(* The only management token of an environment is lost in two ways only:   *)
(* the run ends between ac.Bootstrap and SaveValue, or a failed            *)
(* TokenReadSelf makes it delete the file; no other step, crash or restart *)
(* loses it.                                                               *)
MasterTokenKept ==
    [][ ~MasterTokenLost =>
          \/ ~MasterTokenLost'
          \/ stage = "saveMaster" /\ stage' = "failed"
          \/ stage = "tokenReadSelf" /\ masterFile' = 0 ]_vars

(* Every run ends, in success unless it was interrupted or an API call     *)
(* failed: none of the loops that wait waits for ever.                     *)
UpTerminates == stage \in Active ~> stage \in {"done", "failed"}

(* After a successful run every published workload of the clusters that    *)
(* run becomes healthy, unless the operator intervenes.                    *)
WorkloadsComeUp ==
    stage = "done" ~>
        \/ stage # "done"
        \/ \A c \in running : \A t \in PublishedTokens(c) : health[t] = "passing"

(* A cached master token that works no more is noticed and given up        *)
(* (app/boot.go: "check to see if it works").                              *)
StaleMasterTokenDropped ==
    (stage = "isACLBootstrapped" /\ masterToken # MasterSecret)
        ~> (stage # "isACLBootstrapped")

(* The files are handed over as module TokenHandoff promises.              *)
Handoff == INSTANCE TokenHandoff WITH
    Tokens    <- Published,
    ServersOf <- [t \in Published |-> Servers[t.cluster]],
    minted    <- store \cap Published,
    usable    <- {p \in Published \X AllServers : p[1] \in known[p[2]]},
    published <- {t \in Published : cache[t] = life}
HandoffSpec == Handoff!Spec
=============================================================================

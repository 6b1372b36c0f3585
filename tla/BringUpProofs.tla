--------------------------- MODULE BringUpProofs ----------------------------
(***************************************************************************)
(* Theorems about BringUp for every topology, any number of runs and any   *)
(* number of lives of the environment: type correctness and                *)
(* PublishedTokensWork.                                                    *)
(***************************************************************************)
EXTENDS BringUp, TLAPS

-----------------------------------------------------------------------------
(* The control invariant: which clusters a stage can be working on.        *)

MasterStages == {"isACLBootstrapped", "tokenReadSelf", "aclBootstrap", "saveMaster"}
PlanStages   == CreateStages \cup WaitStages \cup {"injectAgents", "nodeUpdates"}
PrimaryStages ==
    {"waitInitialManagement", "createReplication", "waitReplication",
     "createMeshGateway", "publishMeshGateway", "createAgents", "waitAgents",
     "injectAgents", "nodeUpdates", "createAnonymous", "createServices",
     "publishServices"}
SecondaryStages ==
    {"createMeshGateway", "createAgents", "createServices", "waitMaster",
     "publishMeshGateway", "waitAgents", "publishServices", "injectAgents",
     "nodeUpdates"}

StagesOf(c) == IF Secondary(c) THEN SecondaryStages ELSE PrimaryStages

StageInv ==
    /\ stage \in PlanStages => stage \in StagesOf(cur)
    /\ stage \in MasterStages => ~Secondary(cur)
    /\ stage \in {"bootstrap", "initPrimary"} \cup MasterStages => left \subseteq Authorities
    /\ stage = "initSecondary" => left \subseteq Secondaries
    /\ stage \in PlanStages =>
          left \subseteq IF Secondary(cur) THEN Secondaries ELSE Authorities

(* What the walks over tokens visit.                                       *)
WalkInv ==
    /\ stage = "writeRegistrations" => todo \subseteq AllServiceTokens
    /\ stage = "injectAgents" => todo \subseteq AgentTokens(cur)

(* The publication invariant: what a wait in progress has established.     *)
WaitInv ==
    /\ stage \in PublishStages =>
          todo \subseteq PublishedTokens(cur) /\ tok \in PublishedTokens(cur) \cup {NoToken}
    /\ stage \in WaitStages /\ tok # NoToken =>
          \A s \in Servers[cur] \ awaiting : tok \in known[s]

Inv == TypeOK /\ StageInv /\ WalkInv /\ WaitInv /\ PublishedTokensWork

-----------------------------------------------------------------------------
(* Facts about the constants and the helpers.                              *)

LEMMA AuthorityIsNotSecondary ==
    ASSUME NEW c \in Authorities
    PROVE  c \in Clusters /\ ~Secondary(c)
BY TopologyAssumption DEF TopologyAssumption, Authorities, Authority, Secondary

LEMMA SecondaryFacts ==
    ASSUME NEW c \in Secondaries
    PROVE  c \in Clusters /\ Secondary(c)
BY DEF Secondaries

LEMMA TokenKinds == \A t \in Tokens : t.kind # "none"
<1>1. \A c \in Clusters : \A t \in PublishedTokens(c) : t.kind # "none"
  BY DEF PublishedTokens, MeshGateway, ServiceTokens, Token
<1>2. \A c \in Clusters : \A t \in AgentTokens(c) : t.kind # "none"
  BY DEF AgentTokens, Token
<1>3. \A c \in Clusters : /\ Master(c).kind # "none" /\ Anonymous(c).kind # "none"
                          /\ Replication.kind # "none"
  BY DEF Master, Anonymous, Replication, Token
<1>4. \A t \in Published : t.kind # "none"
  BY <1>1 DEF Published
<1>5. \A t \in AllAgentTokens : t.kind # "none"
  BY <1>2 DEF AllAgentTokens
<1> QED
  BY <1>3, <1>4, <1>5, TopologyAssumption DEF Tokens, TopologyAssumption

LEMMA NoTokenIsNoToken == NoToken \notin Tokens
<1>1. NoToken.kind = "none"
  BY DEF NoToken, Token
<1> QED
  BY <1>1, TokenKinds

(* A published token is meant for one cluster only.                        *)
LEMMA PublishedForOneCluster ==
    ASSUME NEW c \in Clusters, NEW d \in Clusters,
           NEW t \in PublishedTokens(c), t \in PublishedTokens(d)
    PROVE  c = d
BY DEF PublishedTokens, MeshGateway, ServiceTokens, Token

LEMMA PublishedFacts ==
    ASSUME NEW c \in Clusters
    PROVE  /\ PublishedTokens(c) \subseteq Published
           /\ Published \subseteq Tokens
           /\ Servers[c] \subseteq AllServers
           /\ AgentTokens(c) \subseteq AllAgentTokens
           /\ AllAgentTokens \subseteq Tokens
           /\ ServiceTokens(c) \subseteq AllServiceTokens
           /\ ServiceTokens(c) \subseteq Published
           /\ {Master(c), Anonymous(c), MeshGateway(c), Replication} \subseteq Tokens
<1>1. PublishedTokens(c) \subseteq Published
  BY DEF Published
<1>2. Published \subseteq Tokens /\ AllAgentTokens \subseteq Tokens
  BY DEF Tokens
<1>3. Servers[c] \subseteq AllServers
  BY DEF AllServers
<1>4. AgentTokens(c) \subseteq AllAgentTokens
  BY DEF AllAgentTokens
<1>5. ServiceTokens(c) \subseteq AllServiceTokens
  BY DEF AllServiceTokens
<1>6. ServiceTokens(c) \subseteq Published /\ MeshGateway(c) \in Published
  BY <1>1 DEF PublishedTokens
<1>7. {Master(c), Anonymous(c), Replication} \subseteq Tokens
  BY DEF Tokens
<1> QED
  BY <1>1, <1>2, <1>3, <1>4, <1>5, <1>6, <1>7

LEMMA ServiceTokensArePublished == AllServiceTokens \subseteq Published
<1> SUFFICES ASSUME NEW t \in AllServiceTokens PROVE t \in Published
  OBVIOUS
<1>1. PICK c \in Clusters : t \in ServiceTokens(c)
  BY DEF AllServiceTokens
<1> QED
  BY <1>1, PublishedFacts

LEMMA WorkIsTokens ==
    ASSUME NEW st, NEW c \in Clusters
    PROVE  /\ Work(st, c) \subseteq Tokens
           /\ st \in PublishStages => Work(st, c) \subseteq PublishedTokens(c)
           /\ st = "writeRegistrations" => Work(st, c) \subseteq AllServiceTokens
           /\ st = "injectAgents" => Work(st, c) \subseteq AgentTokens(c)
<1>1. Work(st, c) \subseteq Tokens
  BY PublishedFacts, ServiceTokensArePublished DEF Work
<1>2. st \in PublishStages => Work(st, c) \subseteq PublishedTokens(c)
  BY DEF Work, PublishStages, PublishedTokens
<1>3. st = "writeRegistrations" => Work(st, c) \subseteq AllServiceTokens
  BY DEF Work
<1>4. st = "injectAgents" => Work(st, c) \subseteq AgentTokens(c)
  BY DEF Work
<1> QED
  BY <1>1, <1>2, <1>3, <1>4

LEMMA PlanFacts ==
    ASSUME NEW c \in Clusters, NEW st \in StagesOf(c)
    PROVE  LET next == Plan(c)[st] IN
           /\ next \in Active
           /\ \/ next \in PlanStages /\ next \in StagesOf(c)
              \/ ~Secondary(c) /\ next \in {"bootstrap", "initPrimary"}
              \/ Secondary(c) /\ next = "initSecondary"
<1>1. CASE Secondary(c)
  BY <1>1 DEF StagesOf, Plan, SecondaryPlan, SecondaryStages, PlanStages, Active,
              CreateStages, WaitStages, PublishStages
<1>2. CASE ~Secondary(c)
  BY <1>2 DEF StagesOf, Plan, PrimaryPlan, PrimaryStages, PlanStages, Active,
              CreateStages, WaitStages, PublishStages
<1> QED
  BY <1>1, <1>2

LEMMA FirstStageFacts ==
    ASSUME NEW c \in Clusters
    PROVE  /\ ~Secondary(c) => /\ Plan(c)["initPrimary"] \in Active \cap PlanStages
                               /\ Plan(c)["initPrimary"] \in StagesOf(c)
           /\ Secondary(c) => /\ Plan(c)["initSecondary"] \in Active \cap PlanStages
                              /\ Plan(c)["initSecondary"] \in StagesOf(c)
BY DEF StagesOf, Plan, SecondaryPlan, PrimaryPlan, SecondaryStages, PrimaryStages,
       PlanStages, Active, CreateStages, WaitStages, PublishStages

-----------------------------------------------------------------------------
(* Entering a stage and ending a run.                                      *)

(* What StageInv asks of the cluster c and the clusters cs a stage is      *)
(* entered with.                                                           *)
Enterable(st, c, cs) ==
    /\ st \in Active /\ c \in Clusters /\ cs \subseteq Clusters
    /\ st \in PlanStages => st \in StagesOf(c)
    /\ st \in MasterStages => ~Secondary(c)
    /\ st \in {"bootstrap", "initPrimary"} \cup MasterStages => cs \subseteq Authorities
    /\ st = "initSecondary" => cs \subseteq Secondaries
    /\ st \in PlanStages => cs \subseteq IF Secondary(c) THEN Secondaries ELSE Authorities

LEMMA EnterKeeps ==
    ASSUME NEW st, NEW c, NEW cs, Enterable(st, c, cs), Enter(st, c, cs)
    PROVE  TypeWalk' /\ StageInv' /\ WalkInv' /\ WaitInv'
<1>1. TypeWalk'
  <2>1. Work(st, c) \subseteq Tokens
    BY WorkIsTokens DEF Enterable
  <2>2. UNION {Servers[d] : d \in Secondaries} \subseteq AllServers
    BY DEF Secondaries, AllServers
  <2> QED
    BY <2>1, <2>2 DEF Enterable, Enter, TypeWalk
<1>2. StageInv'
  BY DEF Enterable, Enter, StageInv
<1>3. WalkInv'
  BY WorkIsTokens DEF Enterable, Enter, WalkInv
<1>4. WaitInv'
  BY WorkIsTokens DEF Enterable, Enter, WaitInv
<1> QED
  BY <1>1, <1>2, <1>3, <1>4

LEMMA EndKeeps ==
    ASSUME NEW st \in Ended, End(st), TypeWalk, TypeMemory
    PROVE  TypeWalk' /\ TypeMemory' /\ StageInv' /\ WalkInv' /\ WaitInv'
<1>1. st \notin PlanStages /\ st \notin MasterStages /\ st \notin PublishStages
      /\ st \notin WaitStages
      /\ st \notin {"bootstrap", "initPrimary", "initSecondary", "writeRegistrations",
                    "injectAgents"}
  BY DEF Ended, PlanStages, MasterStages, CreateStages, WaitStages, PublishStages
<1> QED
  BY <1>1 DEF End, TypeWalk, TypeMemory, StageInv, WalkInv, WaitInv

LEMMA MemoryKept ==
    ASSUME TypeMemory, UNCHANGED Memory
    PROVE  TypeMemory'
BY DEF TypeMemory, Memory

LEMMA DiskKept ==
    ASSUME TypeDisk, PublishedTokensWork, UNCHANGED <<cache, masterFile, regFiles, life, known>>
    PROVE  TypeDisk' /\ PublishedTokensWork'
BY DEF TypeDisk, PublishedTokensWork

LEMMA WorldKept ==
    ASSUME TypeWorld, UNCHANGED world
    PROVE  TypeWorld'
BY DEF TypeWorld, world

(* A step that only enters another stage.                                  *)
LEMMA EnterOnly ==
    ASSUME Inv, NEW st, NEW c, NEW cs, Enterable(st, c, cs), Enter(st, c, cs),
           UNCHANGED <<Memory, disk, world>>
    PROVE  Inv'
<1>1. UNCHANGED <<cache, masterFile, regFiles, life, known>>
  BY DEF disk, world
<1> QED
  BY <1>1, EnterKeeps, MemoryKept, DiskKept, WorldKept DEF Inv, TypeOK

LEMMA EndOnly ==
    ASSUME Inv, NEW st \in Ended, End(st), UNCHANGED <<disk, world>>
    PROVE  Inv'
<1>1. UNCHANGED <<cache, masterFile, regFiles, life, known>>
  BY DEF disk, world
<1> QED
  BY <1>1, EndKeeps, DiskKept, WorldKept DEF Inv, TypeOK

-----------------------------------------------------------------------------
THEOREM InitInv == Init => Inv
<1> SUFFICES ASSUME Init PROVE Inv
  OBVIOUS
<1>1. TypeOK
  <2>1. TypeWalk
    BY TopologyAssumption DEF Init, TypeWalk, TopologyAssumption, Ended
  <2>2. TypeMemory
    BY DEF Init, TypeMemory
  <2>3. TypeDisk
    BY DEF Init, TypeDisk
  <2>4. TypeWorld
    BY DEF Init, TypeWorld
  <2> QED
    BY <2>1, <2>2, <2>3, <2>4 DEF TypeOK
<1>2. stage = "idle" /\ stage \notin PlanStages \cup MasterStages \cup PublishStages
      /\ stage \notin WaitStages
  BY DEF Init, PlanStages, MasterStages, CreateStages, WaitStages, PublishStages
<1>3. StageInv /\ WalkInv /\ WaitInv
  BY <1>2 DEF StageInv, WalkInv, WaitInv
<1>4. PublishedTokensWork
  <2> SUFFICES ASSUME NEW c \in Clusters, NEW t \in PublishedTokens(c)
               PROVE  cache[t] # life
    BY DEF PublishedTokensWork
  <2> QED
    BY PublishedFacts DEF Init
<1> QED
  BY <1>1, <1>3, <1>4 DEF Inv

(* The steps of bootstrap.                                                 *)
LEMMA BootstrapStep == Inv /\ Bootstrap => Inv'
<1> SUFFICES ASSUME Inv, Bootstrap PROVE Inv'
  OBVIOUS
<1> USE DEF Inv, TypeOK
<1>c. cur \in Clusters /\ left \subseteq Clusters
  BY DEF TypeWalk
<1>a. Authorities \subseteq Clusters
  BY AuthorityIsNotSecondary
<1>1. ASSUME NEW c \in Clusters, WaitForLeader(c) PROVE Inv'
  <2>1. TypeWalk' /\ StageInv' /\ WalkInv' /\ WaitInv'
    BY <1>1 DEF WaitForLeader, TypeWalk, StageInv, WalkInv, WaitInv, MasterStages,
                PlanStages, CreateStages, WaitStages, PublishStages
  <2> QED
    BY <1>1, <2>1, MemoryKept, DiskKept, WorldKept DEF WaitForLeader, disk, world
<1>2. ASSUME NEW c \in Clusters, LoadMasterToken(c) PROVE Inv'
  <2> DEFINE loaded == IF masterFile = 0 /\ InitialToken THEN 1 ELSE masterFile
             st == IF loaded = 0 THEN "aclBootstrap" ELSE "isACLBootstrapped"
  <2>1. c \in Authorities /\ left \ {c} \subseteq Authorities
    BY <1>2 DEF LoadMasterToken, StageInv
  <2>2. st \in Active \cap MasterStages /\ st \notin PlanStages /\ st # "initSecondary"
    BY DEF Active, MasterStages, PlanStages, CreateStages, WaitStages, PublishStages
  <2>3. Enterable(st, c, left \ {c})
    BY <2>1, <2>2, <1>c, AuthorityIsNotSecondary DEF Enterable
  <2>4. TypeWalk' /\ StageInv' /\ WalkInv' /\ WaitInv'
    BY <1>2, <2>3, EnterKeeps DEF LoadMasterToken
  <2>5. TypeMemory' /\ TypeDisk' /\ PublishedTokensWork'
    BY <1>2 DEF LoadMasterToken, TypeMemory, TypeDisk, world, PublishedTokensWork
  <2> QED
    BY <1>2, <2>4, <2>5, WorldKept DEF LoadMasterToken
<1>3. CASE LeadersElected
  <2>1. Enterable("bootstrap", cur, Authorities)
    BY <1>a, <1>c DEF Enterable, Active, PlanStages, MasterStages, CreateStages,
                      WaitStages, PublishStages
  <2> QED
    BY <1>3, <2>1, EnterOnly DEF LeadersElected
<1>4. CASE IsACLBootstrapped
  <2>1. Enterable("tokenReadSelf", cur, left)
    BY <1>4, <1>c DEF IsACLBootstrapped, Enterable, Active, StageInv, PlanStages,
                      MasterStages, CreateStages, WaitStages, PublishStages
  <2> QED
    BY <1>4, <2>1, EnterOnly DEF IsACLBootstrapped, GoTo
<1>5. CASE TokenReadSelf
  <2>1. Enterable("bootstrap", cur, left)
    BY <1>5, <1>c DEF TokenReadSelf, Enterable, Active, StageInv, PlanStages,
                      MasterStages, CreateStages, WaitStages, PublishStages
  <2> QED
    BY <1>5, <2>1, EnterOnly DEF TokenReadSelf, GoTo
<1>6. CASE ACLBootstrap
  <2>1. Enterable("saveMaster", cur, left)
    BY <1>6, <1>c DEF ACLBootstrap, Enterable, Active, StageInv, PlanStages,
                      MasterStages, CreateStages, WaitStages, PublishStages
  <2>2. TypeWalk' /\ StageInv' /\ WalkInv' /\ WaitInv'
    BY <1>6, <2>1, EnterKeeps DEF ACLBootstrap, GoTo
  <2>3. TypeMemory' /\ TypeWorld'
    BY <1>6, <1>c, PublishedFacts DEF ACLBootstrap, TypeMemory, TypeWorld
  <2>4. TypeDisk' /\ PublishedTokensWork'
    BY <1>6, DiskKept DEF ACLBootstrap, disk
  <2> QED
    BY <2>2, <2>3, <2>4
<1>7. CASE ACLBootstrapRefused
  BY <1>7, EndOnly DEF ACLBootstrapRefused, Ended
<1>8. CASE SaveMaster
  <2>1. Enterable("waitInitialManagement", cur, left)
    BY <1>8, <1>c DEF SaveMaster, Enterable, Active, StageInv, PlanStages, StagesOf,
                      PrimaryStages, MasterStages, CreateStages, WaitStages, PublishStages
  <2>2. TypeWalk' /\ StageInv' /\ WalkInv' /\ WaitInv'
    BY <1>8, <2>1, EnterKeeps DEF SaveMaster, GoTo
  <2>3. TypeDisk' /\ PublishedTokensWork'
    BY <1>8 DEF SaveMaster, TypeMemory, TypeDisk, world, PublishedTokensWork
  <2> QED
    BY <1>8, <2>2, <2>3, MemoryKept, WorldKept DEF SaveMaster
<1>9. CASE Bootstrapped
  <2>1. Enterable("initPrimary", cur, Authorities)
    BY <1>a, <1>c DEF Enterable, Active, PlanStages, MasterStages, CreateStages,
                      WaitStages, PublishStages
  <2> QED
    BY <1>9, <2>1, EnterOnly DEF Bootstrapped
<1> QED
  BY <1>1, <1>2, <1>3, <1>4, <1>5, <1>6, <1>7, <1>8, <1>9 DEF Bootstrap

(* The steps initPrimaryCluster and initSecondaryDCs share.                *)
LEMMA CreateClientsStep ==
    ASSUME Inv, NEW c \in Clusters, CreateClients(c)
    PROVE  Inv'
<1> USE DEF Inv, TypeOK
<1>1. Enterable(Plan(c)[stage], c, left \ {c})
  <2>1. CASE stage = "initPrimary"
    <3>1. c \in Authorities /\ left \ {c} \subseteq Authorities /\ left \ {c} \subseteq Clusters
      BY <2>1 DEF CreateClients, StageInv, TypeWalk
    <3>2. Plan(c)[stage] \in Active \cap PlanStages /\ Plan(c)[stage] \in StagesOf(c)
      BY <2>1, <3>1, AuthorityIsNotSecondary, FirstStageFacts
    <3> QED
      BY <3>1, <3>2, AuthorityIsNotSecondary DEF Enterable, PlanStages, MasterStages,
         CreateStages, WaitStages, PublishStages
  <2>2. CASE stage = "initSecondary"
    <3>1. c \in Secondaries /\ left \ {c} \subseteq Secondaries /\ left \ {c} \subseteq Clusters
      BY <2>2 DEF CreateClients, StageInv, TypeWalk
    <3>2. Plan(c)[stage] \in Active \cap PlanStages /\ Plan(c)[stage] \in StagesOf(c)
      BY <2>2, <3>1, SecondaryFacts, FirstStageFacts
    <3> QED
      BY <3>1, <3>2, SecondaryFacts DEF Enterable, PlanStages, MasterStages,
         CreateStages, WaitStages, PublishStages
  <2> QED
    BY <2>1, <2>2 DEF CreateClients
<1>2. TypeWalk' /\ StageInv' /\ WalkInv' /\ WaitInv'
  BY <1>1, EnterKeeps DEF CreateClients
<1>3. TypeMemory'
  BY PublishedFacts DEF CreateClients, TypeMemory
<1>4. TypeDisk' /\ PublishedTokensWork'
  BY DiskKept DEF CreateClients, disk, world
<1> QED
  BY <1>2, <1>3, <1>4, WorldKept DEF CreateClients

LEMMA PlanNext ==
    ASSUME Inv, stage \in PlanStages
    PROVE  Enterable(Plan(cur)[stage], cur, left)
<1>1. stage \in StagesOf(cur) /\ cur \in Clusters /\ left \subseteq Clusters
      /\ left \subseteq IF Secondary(cur) THEN Secondaries ELSE Authorities
  BY DEF Inv, TypeOK, TypeWalk, StageInv
<1>2. \A st \in PlanStages : st \notin MasterStages
                            /\ st \notin {"bootstrap", "initPrimary", "initSecondary"}
  BY DEF PlanStages, MasterStages, CreateStages, WaitStages, PublishStages
<1>3. {"bootstrap", "initPrimary", "initSecondary"} \cap (PlanStages \cup MasterStages) = {}
  BY <1>2 DEF MasterStages
<1> QED
  BY <1>1, <1>2, <1>3, PlanFacts DEF Enterable

LEMMA WalkTokenStep ==
    ASSUME Inv, NEW t \in Tokens, WalkToken(t)
    PROVE  Inv'
<1> USE DEF Inv, TypeOK
<1>1. CASE CreateOrUpdateToken(t)
  <2>1. TypeWalk' /\ StageInv' /\ WalkInv' /\ WaitInv'
    BY <1>1 DEF CreateOrUpdateToken, TypeWalk, StageInv, WalkInv, WaitInv
  <2>2. TypeMemory' /\ TypeWorld'
    BY <1>1 DEF CreateOrUpdateToken, TypeMemory, TypeWorld
  <2> QED
    BY <1>1, <2>1, <2>2, DiskKept DEF CreateOrUpdateToken, disk
<1>2. CASE BeginWait(t)
  <2>1. TypeWalk'
    BY <1>2, PublishedFacts DEF BeginWait, TypeWalk
  <2>2. StageInv' /\ WalkInv'
    BY <1>2 DEF BeginWait, StageInv, WalkInv
  <2>3. WaitInv'
    BY <1>2 DEF BeginWait, WaitInv
  <2> QED
    BY <1>2, <2>1, <2>2, <2>3, MemoryKept, DiskKept, WorldKept DEF BeginWait, disk, world
<1>3. CASE InjectAgentToken(t)
  <2>1. TypeWalk' /\ StageInv' /\ WalkInv' /\ WaitInv'
    BY <1>3 DEF InjectAgentToken, TypeWalk, StageInv, WalkInv, WaitInv
  <2>2. TypeWorld'
    BY <1>3, PublishedFacts DEF InjectAgentToken, TypeWorld, WalkInv, TypeWalk
  <2> QED
    BY <1>3, <2>1, <2>2, MemoryKept, DiskKept DEF InjectAgentToken, disk
<1>4. CASE WriteServiceRegistrationFile(t)
  <2>1. TypeWalk' /\ StageInv' /\ WalkInv' /\ WaitInv'
    BY <1>4 DEF WriteServiceRegistrationFile, TypeWalk, StageInv, WalkInv, WaitInv, world
  <2>2. TypeDisk' /\ PublishedTokensWork'
    BY <1>4 DEF WriteServiceRegistrationFile, TypeDisk, WalkInv, PublishedTokensWork, world
  <2> QED
    BY <1>4, <2>1, <2>2, MemoryKept, WorldKept DEF WriteServiceRegistrationFile
<1> QED
  BY <1>1, <1>2, <1>3, <1>4 DEF WalkToken

LEMMA WalkServerStep ==
    ASSUME Inv, NEW s \in AllServers, WalkServer(s)
    PROVE  Inv'
<1> USE DEF Inv, TypeOK
<1>1. CASE WaitForTokenOnServer(s)
  <2>1. TypeWalk' /\ StageInv' /\ WalkInv' /\ WaitInv'
    BY <1>1 DEF WaitForTokenOnServer, TypeWalk, StageInv, WalkInv, WaitInv, world
  <2> QED
    BY <1>1, <2>1, MemoryKept, DiskKept, WorldKept DEF WaitForTokenOnServer, disk, world
<1>2. CASE InjectReplicationToken(s)
  <2>1. TypeWalk' /\ StageInv' /\ WalkInv' /\ WaitInv'
    BY <1>2 DEF InjectReplicationToken, TypeWalk, StageInv, WalkInv, WaitInv,
                WaitStages, PublishStages
  <2>2. TypeWorld'
    BY <1>2 DEF InjectReplicationToken, TypeWorld
  <2> QED
    BY <1>2, <2>1, <2>2, MemoryKept, DiskKept DEF InjectReplicationToken, disk
<1> QED
  BY <1>1, <1>2 DEF WalkServer

(* The step that writes a token file: the wait it follows has seen the     *)
(* token on every server of the cluster the token is for.                  *)
LEMMA TokenReadyStep ==
    ASSUME Inv, TokenReady
    PROVE  Inv'
<1> USE DEF Inv, TypeOK
<1>1. TypeWalk' /\ StageInv' /\ WalkInv' /\ WaitInv'
  BY DEF TokenReady, TypeWalk, StageInv, WalkInv, WaitInv, world
<1>2. ASSUME stage \in PublishStages PROVE TypeDisk' /\ PublishedTokensWork'
  <2>1. /\ tok \in PublishedTokens(cur) /\ cur \in Clusters
        /\ \A s \in Servers[cur] : tok \in known[s]
    BY <1>2 DEF TokenReady, WaitInv, TypeWalk, WaitStages
  <2>2. TypeDisk'
    BY <1>2, <2>1, PublishedFacts DEF TokenReady, TypeDisk, TypeWorld, world
  <2>3. ASSUME NEW c \in Clusters, NEW t \in PublishedTokens(c), cache'[t] = life',
               NEW s \in Servers[c]
        PROVE  t \in known'[s]
    <3>1. CASE t = tok
      BY <2>1, <2>3, <3>1, PublishedForOneCluster DEF TokenReady, world
    <3>2. CASE t # tok
      BY <1>2, <2>3, <3>2, PublishedFacts DEF TokenReady, PublishedTokensWork, TypeDisk, world
    <3> QED
      BY <3>1, <3>2
  <2>4. PublishedTokensWork'
    BY <2>3 DEF PublishedTokensWork
  <2> QED
    BY <2>2, <2>4
<1>3. ASSUME stage \notin PublishStages PROVE TypeDisk' /\ PublishedTokensWork'
  BY <1>3, DiskKept DEF TokenReady, world
<1> QED
  BY <1>1, <1>2, <1>3, MemoryKept, WorldKept DEF TokenReady

(* A stage outside the plans can be entered for any cluster in Clusters.   *)
FreeStages == {"writeRegistrations", "injectReplication", "crossKV", "peer",
               "establish", "waitForCompletion", "waitForLeader"}

LEMMA FreelyEnterable ==
    ASSUME NEW st \in FreeStages, NEW c \in Clusters, NEW cs \in SUBSET Clusters
    PROVE  Enterable(st, c, cs)
BY DEF Enterable, FreeStages, Active, PlanStages, MasterStages, CreateStages,
       WaitStages, PublishStages

(* A step that only crosses a cluster off the list of those to visit.      *)
LEMMA LeftShrinks ==
    ASSUME Inv, NEW c, stage \in FreeStages, left' = left \ {c},
           UNCHANGED <<stage, cur, todo, tok, awaiting, Memory, disk, world>>
    PROVE  Inv'
<1> USE DEF Inv, TypeOK
<1>1. TypeWalk' /\ StageInv' /\ WalkInv' /\ WaitInv'
  BY DEF TypeWalk, StageInv, WalkInv, WaitInv, world, FreeStages, PlanStages, MasterStages,
         CreateStages, WaitStages, PublishStages
<1> QED
  BY <1>1, MemoryKept, DiskKept, WorldKept DEF disk, world

LEMMA LinkingStep == Inv /\ Linking => Inv'
<1> SUFFICES ASSUME Inv, Linking PROVE Inv'
  OBVIOUS
<1>c. cur \in Clusters /\ left \subseteq Clusters
  BY DEF Inv, TypeOK, TypeWalk
<1>p. Processed \subseteq Clusters
  BY TopologyAssumption DEF Processed, TopologyAssumption
<1>1. CASE ReplicationInjected
  <2>1. Enterable("initSecondary", cur, Secondaries)
    BY <1>c, SecondaryFacts DEF Enterable, Active, PlanStages, MasterStages, CreateStages,
                                WaitStages, PublishStages
  <2> QED
    BY <1>1, <2>1, EnterOnly DEF ReplicationInjected
<1>2. CASE SecondariesReady
  BY <1>2, <1>c, FreelyEnterable, EnterOnly DEF SecondariesReady, GoTo, FreeStages
<1>3. CASE WaitForCrossDatacenterKV
  BY <1>3, <1>c, <1>p, FreelyEnterable, EnterOnly DEF WaitForCrossDatacenterKV, FreeStages
<1>4. ASSUME NEW c \in Clusters, AlreadyPeered(c) PROVE Inv'
  BY <1>4, LeftShrinks DEF AlreadyPeered, FreeStages
<1>5. ASSUME NEW c \in Clusters, GeneratePeeringToken(c) PROVE Inv'
  <2>1. Enterable("establish", c, left \ {c})
    BY <1>c, FreelyEnterable DEF FreeStages
  <2>2. TypeWalk' /\ StageInv' /\ WalkInv' /\ WaitInv'
    BY <1>5, <2>1, EnterKeeps DEF GeneratePeeringToken
  <2>3. TypeWorld'
    BY <1>5 DEF GeneratePeeringToken, Inv, TypeOK, TypeWorld, acls
  <2> QED
    BY <1>5, <2>2, <2>3, MemoryKept, DiskKept DEF GeneratePeeringToken, Inv, TypeOK, disk, acls
<1>6. CASE EstablishPeering
  <2>1. Enterable("peer", cur, left)
    BY <1>c, FreelyEnterable DEF FreeStages
  <2>2. TypeWalk' /\ StageInv' /\ WalkInv' /\ WaitInv'
    BY <1>6, <2>1, EnterKeeps DEF EstablishPeering, GoTo
  <2>3. TypeWorld'
    BY <1>6, <1>c DEF EstablishPeering, Inv, TypeOK, TypeWorld, acls
  <2> QED
    BY <1>6, <2>2, <2>3, MemoryKept, DiskKept DEF EstablishPeering, Inv, TypeOK, disk, acls
<1>7. CASE PeersLinked
  BY <1>7, <1>c, <1>p, FreelyEnterable, EnterOnly DEF PeersLinked, FreeStages
<1> QED
  BY <1>1, <1>2, <1>3, <1>4, <1>5, <1>6, <1>7 DEF Linking

LEMMA ProcessStepKeepsInv == Inv /\ ProcessStep => Inv'
<1> SUFFICES ASSUME Inv, ProcessStep PROVE Inv'
  OBVIOUS
<1>c. cur \in Clusters /\ left \subseteq Clusters
  BY DEF Inv, TypeOK, TypeWalk
<1>p. Processed \subseteq Clusters
  BY TopologyAssumption DEF Processed, TopologyAssumption
<1>1. CASE Bootstrap
  BY <1>1, BootstrapStep
<1>2. ASSUME NEW c \in Clusters, CreateClients(c) PROVE Inv'
  BY <1>2, CreateClientsStep
<1>3. ASSUME NEW c \in Clusters, WaitForCompletion(c) PROVE Inv'
  BY <1>3, LeftShrinks DEF WaitForCompletion, FreeStages
<1>4. ASSUME NEW t \in Tokens, WalkToken(t) PROVE Inv'
  BY <1>4, WalkTokenStep
<1>5. ASSUME NEW s \in AllServers, WalkServer(s) PROVE Inv'
  BY <1>5, WalkServerStep
<1>6. CASE TokenReady
  BY <1>6, TokenReadyStep
<1>7. CASE Panic
  BY <1>7, EndOnly DEF Panic, Ended
<1>8. CASE NodeUpdates
  <2>1. stage \in PlanStages /\ "injectAgents" \in PlanStages
    BY <1>8 DEF NodeUpdates, PlanStages
  <2>2. Enterable(Plan(cur)[stage], cur, left)
    BY <2>1, PlanNext
  <2>3. Enterable("injectAgents", cur, left)
    BY <2>1, <1>c DEF Enterable, Inv, StageInv, StagesOf, PrimaryStages, SecondaryStages,
       Active, PlanStages, MasterStages, CreateStages, WaitStages, PublishStages
  <2> QED
    BY <1>8, <2>2, <2>3, EnterOnly DEF NodeUpdates, GoTo
<1>9. CASE WalkDone
  <2>1. stage \in PlanStages
    BY <1>9 DEF WalkDone, PlanStages
  <2> QED
    BY <1>9, <2>1, PlanNext, EnterOnly DEF WalkDone, GoTo
<1>10. CASE PrimariesReady
  BY <1>10, <1>c, FreelyEnterable, EnterOnly DEF PrimariesReady, GoTo, FreeStages
<1>11. CASE RegistrationsWritten
  <2>1. PICK st \in FreeStages, cs \in SUBSET Clusters : Enter(st, cur, cs)
    BY <1>11, <1>c, <1>p DEF RegistrationsWritten, GoTo, FreeStages
  <2> QED
    BY <1>11, <2>1, <1>c, FreelyEnterable, EnterOnly DEF RegistrationsWritten
<1>12. CASE Linking
  BY <1>12, LinkingStep
<1>13. CASE Completed
  BY <1>13, EndOnly DEF Completed, Ended
<1> QED
  BY <1>1, <1>2, <1>3, <1>4, <1>5, <1>6, <1>7, <1>8, <1>9, <1>10, <1>11, <1>12, <1>13
     DEF ProcessStep

LEMMA OperatorKeepsInv == Inv /\ Operator => Inv'
<1> SUFFICES ASSUME Inv, Operator PROVE Inv'
  OBVIOUS
<1> USE DEF Inv, TypeOK
<1>c. cur \in Clusters /\ left \subseteq Clusters
  BY DEF TypeWalk
<1>1. ASSUME NEW po \in BOOLEAN, StartUp(po) PROVE Inv'
  <2>1. running' \subseteq Clusters /\ Primary \in Clusters
    BY <1>1, TopologyAssumption DEF StartUp, TopologyAssumption
  <2>2. TypeWalk' /\ StageInv' /\ WalkInv' /\ WaitInv'
    BY <1>1, <2>1, FreelyEnterable, EnterKeeps DEF StartUp, FreeStages
  <2>3. TypeMemory' /\ TypeWorld'
    BY <1>1, <2>1 DEF StartUp, TypeMemory, TypeWorld, acls
  <2> QED
    BY <1>1, <2>2, <2>3, DiskKept DEF StartUp, disk, acls
<1>2. CASE Interrupt
  BY <1>2, EndOnly DEF Interrupt, Ended
<1>3. CASE TokenReadSelfError
  <2>1. Enterable("bootstrap", cur, left)
    BY <1>3, <1>c DEF TokenReadSelfError, Enterable, Active, StageInv, PlanStages,
                      MasterStages, CreateStages, WaitStages, PublishStages
  <2>2. TypeWalk' /\ StageInv' /\ WalkInv' /\ WaitInv'
    BY <1>3, <2>1, EnterKeeps DEF TokenReadSelfError, GoTo
  <2>3. TypeDisk' /\ PublishedTokensWork'
    BY <1>3 DEF TokenReadSelfError, TypeDisk, PublishedTokensWork, world
  <2> QED
    BY <1>3, <2>2, <2>3, MemoryKept, WorldKept DEF TokenReadSelfError
<1>4. ASSUME DownDestroy \/ DownFiles \/ DownInterrupted
      PROVE  TypeWalk' /\ TypeMemory' /\ StageInv' /\ WalkInv' /\ WaitInv'
  <2>1. /\ stage' \in {"down", "idle", "failed"}
        /\ UNCHANGED <<Walk, Memory>>
    BY <1>4 DEF DownDestroy, DownFiles, DownInterrupted
  <2>2. stage' \notin PlanStages \cup MasterStages \cup PublishStages \cup WaitStages
        /\ stage' \notin {"bootstrap", "initPrimary", "initSecondary", "writeRegistrations",
                         "injectAgents"}
    BY <2>1 DEF PlanStages, MasterStages, CreateStages, WaitStages, PublishStages
  <2>3. TypeWalk'
    BY <2>1 DEF TypeWalk, Ended, Walk
  <2>4. StageInv' /\ WalkInv' /\ WaitInv'
    BY <2>2 DEF StageInv, WalkInv, WaitInv
  <2> QED
    BY <2>1, <2>3, <2>4, MemoryKept
<1>5. CASE DownDestroy
  <2>1. life' = life + 1 /\ \A t \in Published : cache'[t] <= life /\ cache'[t] \in Nat
    BY <1>5 DEF DownDestroy, TypeDisk, disk
  <2>2. TypeDisk' /\ TypeWorld'
    BY <1>5, <2>1 DEF DownDestroy, TypeDisk, TypeWorld, disk
  <2>3. PublishedTokensWork'
    <3> SUFFICES ASSUME NEW c \in Clusters, NEW t \in PublishedTokens(c)
                 PROVE  cache'[t] # life'
      BY DEF PublishedTokensWork
    <3> QED
      BY <2>1, PublishedFacts DEF TypeWorld
  <2> QED
    BY <1>4, <1>5, <2>2, <2>3
<1>6. CASE DownFiles
  <2>1. TypeDisk' /\ PublishedTokensWork'
    BY <1>6, PublishedFacts DEF DownFiles, TypeDisk, TypeWorld, PublishedTokensWork, world
  <2> QED
    BY <1>4, <1>6, <2>1, WorldKept DEF DownFiles
<1>7. CASE DownInterrupted
  <2>1. \A t \in Published : cache'[t] \in {0, cache[t]}
    BY <1>7 DEF DownInterrupted
  <2>2. TypeDisk'
    BY <1>7, <2>1 DEF DownInterrupted, TypeDisk, TypeWorld, world
  <2>3. PublishedTokensWork'
    BY <1>7, <2>1, PublishedFacts DEF DownInterrupted, TypeWorld, PublishedTokensWork, world
  <2> QED
    BY <1>4, <1>7, <2>2, <2>3, WorldKept DEF DownInterrupted
<1> QED
  BY <1>1, <1>2, <1>3, <1>5, <1>6, <1>7 DEF Operator

(* Consul and the sidecars: tokens only ever spread.                       *)
LEMMA ConsulStepKeepsInv ==
    ASSUME Inv, NEW c \in Clusters, ConsulStep(c)
    PROVE  Inv'
<1> USE DEF Inv, TypeOK
<1>k. ASSUME UNCHANGED <<process, disk, life>>,
             \A s \in AllServers : known[s] \subseteq known'[s], TypeWorld'
      PROVE  Inv'
  <2>1. TypeWalk' /\ TypeMemory' /\ StageInv' /\ WalkInv'
    BY <1>k DEF process, TypeWalk, TypeMemory, StageInv, WalkInv
  <2>2. TypeDisk'
    BY <1>k DEF disk, TypeDisk
  <2>3. WaitInv'
    BY <1>k, PublishedFacts DEF process, WaitInv, TypeWalk
  <2>4. PublishedTokensWork'
    BY <1>k, PublishedFacts DEF disk, PublishedTokensWork
  <2> QED
    BY <1>k, <2>1, <2>2, <2>3, <2>4
<1>1. ASSUME NEW s \in Servers[c], ElectLeader(c, s) PROVE Inv'
  <2>1. TypeWorld'
    BY <1>1, PublishedFacts DEF ElectLeader, TypeWorld
  <2> QED
    BY <1>1, <1>k, <2>1 DEF ElectLeader
<1>2. ASSUME NEW s \in Servers[c], NEW t \in TokensAt(c), Replicate(c, s, t) PROVE Inv'
  <2>1. TypeWorld' /\ \A r \in AllServers : known[r] \subseteq known'[r]
    BY <1>2, PublishedFacts DEF Replicate, TypeWorld
  <2> QED
    BY <1>2, <1>k, <2>1 DEF Replicate
<1>3. ASSUME NEW t \in AgentTokens(c), AgentSync(c, t) PROVE Inv'
  <2>1. TypeWorld'
    BY <1>3 DEF AgentSync, TypeWorld, acls
  <2> QED
    BY <1>3, <1>k, <2>1 DEF AgentSync, acls
<1>4. ASSUME NEW t \in PublishedTokens(c), SidecarRegister(c, t) \/ SidecarPass(c, t)
      PROVE  Inv'
  <2>1. TypeWorld'
    BY <1>4 DEF SidecarRegister, SidecarPass, TypeWorld, acls
  <2> QED
    BY <1>4, <1>k, <2>1 DEF SidecarRegister, SidecarPass, acls
<1> QED
  BY <1>1, <1>2, <1>3, <1>4 DEF ConsulStep

LEMMA StutterKeepsInv == Inv /\ UNCHANGED vars => Inv'
<1> SUFFICES ASSUME Inv, UNCHANGED vars PROVE Inv'
  OBVIOUS
<1> USE DEF Inv, TypeOK, vars
<1>1. TypeWalk' /\ TypeMemory' /\ StageInv' /\ WalkInv'
  BY DEF process, TypeWalk, TypeMemory, StageInv, WalkInv
<1>2. WaitInv'
  BY DEF process, world, WaitInv
<1> QED
  BY <1>1, <1>2, DiskKept, WorldKept DEF disk, world

THEOREM InvInductive == Inv /\ [Next]_vars => Inv'
BY ProcessStepKeepsInv, OperatorKeepsInv, ConsulStepKeepsInv, StutterKeepsInv DEF Next

-----------------------------------------------------------------------------
(* Inv holds in every reachable state.                                     *)
THEOREM InvHolds == Spec => []Inv
BY InitInv, InvInductive, PTL DEF Spec

(* Every variable keeps its type: no file holds a secret of a life that    *)
(* has not begun, no wait ever addresses anything but a server, and no run *)
(* leaves the plans of runBoot.                                            *)
THEOREM TypeCorrect == Spec => []TypeOK
BY InvHolds, PTL DEF Inv

(* A current secret in a token file is resolved by every server of the     *)
(* cluster the file is for, for every topology, through interrupted runs,  *)
(* reruns and destroyed environments.                                      *)
THEOREM PublishedTokensAlwaysWork == Spec => []PublishedTokensWork
BY InvHolds, PTL DEF Inv
=============================================================================

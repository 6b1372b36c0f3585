----------------------------- MODULE BootProofs -----------------------------
(***************************************************************************)
(* Further theorems about BringUp, for every topology, any number of runs  *)
(* and of lives: what a successful run has done (BootComplete), that the   *)
(* agents' tokens work when they are injected (InjectedTokensWork), that   *)
(* the one panic there is loses nothing (PanicKeepsMasterToken), that      *)
(* BringUp implements TokenHandoff, and what can be said of its waits      *)
(* without fairness: a run never waits for what cannot come (WaitsCanEnd), *)
(* it never goes back but to inject tokens again (UpAdvances), and the     *)
(* management token is lost in two ways only (MasterTokenKept), for good   *)
(* until the environment is destroyed (LostTokenNeedsDown).                *)
(***************************************************************************)
EXTENDS BringUpProofs

-----------------------------------------------------------------------------
(* The calls the loops of initPrimaryCluster and initSecondaryDCs make for *)
(* each cluster, and the place of a stage among them.                      *)

ClusterStages == PlanStages \ {"waitInitialManagement"}

Rank(c) ==
    IF Secondary(c)
    THEN [createMeshGateway |-> 1, createAgents |-> 2, createServices |-> 3,
          waitMaster |-> 4, publishMeshGateway |-> 5, waitAgents |-> 6,
          publishServices |-> 7, injectAgents |-> 8, nodeUpdates |-> 9]
    ELSE [createReplication |-> 1, waitReplication |-> 2, createMeshGateway |-> 3,
          publishMeshGateway |-> 4, createAgents |-> 5, waitAgents |-> 6,
          injectAgents |-> 7, nodeUpdates |-> 8, createAnonymous |-> 9,
          createServices |-> 10, publishServices |-> 11]

Precedes(c, x, y) ==
    /\ x \in DOMAIN Rank(c) /\ y \in DOMAIN Rank(c)
    /\ Rank(c)[x] < Rank(c)[y]

(* What a stage has achieved for a token it has visited.                   *)
Handled(st, c, t) ==
    /\ st = "createAgents" \/ (st = "createReplication" /\ ~Peered) => t \in mem
    /\ st \in CreateStages /\ (st = "createReplication" => ~Peered) => t \in store
    /\ st = "waitAgents" => \A s \in Servers[c] : t \in known[s]
    /\ st \in PublishStages => cache[t] = life
    /\ st = "injectAgents" => t \in agentTok

(* Everything the calls before stage st do for cluster c has been done.    *)
Reached(st, c) ==
    /\ \A x \in PlanStages : Precedes(c, x, st) =>
          \A t \in Work(x, c) : Handled(x, c, t)
    /\ Precedes(c, "nodeUpdates", st) => AgentTokens(c) \subseteq registered
    /\ st \in ClusterStages => Servers[c] \subseteq clients

TokensInv ==
    /\ Reached(stage, cur)
    /\ stage \in PlanStages =>
          \A t \in Work(stage, cur) \ (todo \cup {tok}) : Handled(stage, cur, t)
    /\ stage \in WaitStages => awaiting \subseteq Servers[cur]

(* Where the management token is.                                          *)
MasterInv ==
    /\ stage \in Active \ {"waitForLeader", "bootstrap", "aclBootstrap"} => masterToken # 0
    /\ stage = "bootstrap" => masterToken # 0 \/ left = Authorities
    /\ stage \in {"aclBootstrap", "saveMaster", "waitInitialManagement", "panic"} => ~InitialToken
    /\ stage \in {"saveMaster", "waitInitialManagement"} => masterToken = life
    /\ stage \in {"waitInitialManagement", "panic"} => masterFile = life

-----------------------------------------------------------------------------
(* What the loops over the clusters have finished.                         *)

Ready(c) ==
    /\ AgentTokens(c) \subseteq agentTok \cap registered
    /\ \A t \in PublishedTokens(c) : cache[t] = life

LoopInv ==
    /\ stage = "initPrimary" => \A c \in Authorities \ left : Ready(c)
    /\ stage \in ClusterStages /\ ~Secondary(cur) =>
          \A c \in Authorities \ (left \cup {cur}) : Ready(c)
    /\ stage \in {"writeRegistrations", "injectReplication", "initSecondary", "crossKV",
                  "peer", "establish"} \/ (stage \in ClusterStages /\ Secondary(cur)) =>
          \A c \in Authorities : Ready(c)
    /\ stage = "initSecondary" => \A c \in Secondaries \ left : Ready(c)
    /\ stage \in ClusterStages /\ Secondary(cur) =>
          \A c \in Secondaries \ (left \cup {cur}) : Ready(c)
    /\ stage = "crossKV" => \A c \in Secondaries : Ready(c)
    /\ stage \in {"waitForCompletion", "done"} => \A c \in running : Ready(c)
    /\ stage \in Active \cup {"done"} => running = Processed

SecondaryServers == UNION {Servers[c] : c \in Secondaries}
Peers == Clusters \ {Primary}

(* The steps between and after the loops.                                  *)
LinkInv ==
    /\ (stage = "initPrimary" /\ Primary \notin left)
       \/ stage \in {"writeRegistrations", "injectReplication"} =>
          Peered \/ Replication \in mem
    /\ stage = "writeRegistrations" => AllServiceTokens \ todo \subseteq regFiles
    /\ stage \in {"injectReplication", "initSecondary", "crossKV", "peer", "establish",
                  "waitForCompletion", "done"} \/ (stage \in ClusterStages /\ Secondary(cur)) =>
          AllServiceTokens \subseteq regFiles
    /\ stage \in {"injectReplication", "initSecondary", "crossKV"} => ~Peered
    /\ stage = "injectReplication" => SecondaryServers \ awaiting \subseteq replTok
    /\ stage \in {"initSecondary", "crossKV"} \/ (stage \in ClusterStages /\ Secondary(cur))
       \/ (stage \in {"waitForCompletion", "done"} /\ ~primaryOnly) =>
          SecondaryServers \subseteq replTok
    /\ stage \in {"peer", "establish"} => Peered
    /\ stage = "peer" => Peers \ left \subseteq generated \cap established
    /\ stage = "establish" =>
          cur \in generated /\ Peers \ (left \cup {cur}) \subseteq generated \cap established
    /\ stage \in {"waitForCompletion", "done"} /\ Peered =>
          Peers \subseteq generated \cap established

BootInv == TokensInv /\ MasterInv /\ LoopInv /\ LinkInv /\ InjectedTokensWork

(* After `down` no token file holds a secret of the life that begins.      *)
DownInv == stage = "down" => \A t \in Published : cache[t] # life

-----------------------------------------------------------------------------
(* Facts about the plans.                                                  *)

LEMMA RankedStages ==
    ASSUME NEW c \in Clusters
    PROVE  /\ DOMAIN Rank(c) \subseteq ClusterStages
           /\ \A st \in StagesOf(c) : st # "waitInitialManagement" => st \in DOMAIN Rank(c)
<1>1. CASE Secondary(c)
  BY <1>1 DEF StagesOf, Rank, SecondaryStages, ClusterStages, PlanStages,
              CreateStages, WaitStages, PublishStages
<1>2. CASE ~Secondary(c)
  BY <1>2 DEF StagesOf, Rank, PrimaryStages, ClusterStages, PlanStages,
              CreateStages, WaitStages, PublishStages
<1> QED
  BY <1>1, <1>2

(* What precedes the next call is what precedes this one, and this one.    *)
LEMMA RankNext ==
    ASSUME NEW c \in Clusters, NEW st \in DOMAIN Rank(c), NEW x,
           Precedes(c, x, Plan(c)[st])
    PROVE  Precedes(c, x, st) \/ x = st
<1>1. CASE Secondary(c)
  BY <1>1 DEF Precedes, Rank, Plan, SecondaryPlan
<1>2. CASE ~Secondary(c)
  BY <1>2 DEF Precedes, Rank, Plan, PrimaryPlan
<1> QED
  BY <1>1, <1>2

(* Before the first call nothing is left to do.                            *)
LEMMA RankFirst ==
    ASSUME NEW c \in Clusters, NEW x
    PROVE  /\ ~Secondary(c) /\ Precedes(c, x, Plan(c)["initPrimary"])
                => Peered /\ x \in {"createReplication", "waitReplication"}
           /\ Secondary(c) => ~Precedes(c, x, Plan(c)["initSecondary"])
<1>1. CASE Secondary(c)
  BY <1>1 DEF Precedes, Rank, Plan, SecondaryPlan
<1>2. CASE ~Secondary(c)
  BY <1>2 DEF Precedes, Rank, Plan, PrimaryPlan
<1> QED
  BY <1>1, <1>2

(* When the plan returns to the loop, every call has been made.            *)
LEMMA RankLast ==
    ASSUME NEW c \in Clusters, NEW st \in DOMAIN Rank(c), Plan(c)[st] \notin DOMAIN Rank(c),
           NEW x \in DOMAIN Rank(c)
    PROVE  /\ Precedes(c, x, st) \/ x = st
           /\ Secondary(c) => st = "nodeUpdates" /\ Plan(c)[st] = "initSecondary"
           /\ ~Secondary(c) => st = "publishServices" /\ Plan(c)[st] = "initPrimary"
<1>1. CASE Secondary(c)
  BY <1>1 DEF Precedes, Rank, Plan, SecondaryPlan
<1>2. CASE ~Secondary(c)
  BY <1>2 DEF Precedes, Rank, Plan, PrimaryPlan
<1> QED
  BY <1>1, <1>2

LEMMA RankFacts ==
    ASSUME NEW c \in Clusters
    PROVE  /\ {"createMeshGateway", "publishMeshGateway", "createAgents", "waitAgents",
               "injectAgents", "nodeUpdates", "publishServices"} \subseteq DOMAIN Rank(c)
           /\ ~Secondary(c) => {"createReplication"} \subseteq DOMAIN Rank(c)
           /\ Precedes(c, "createAgents", "injectAgents")
           /\ Precedes(c, "waitAgents", "injectAgents")
           /\ Precedes(c, "injectAgents", "nodeUpdates")
           /\ \A x : Precedes(c, x, "injectAgents") => Precedes(c, x, "nodeUpdates")
           /\ ~Precedes(c, "nodeUpdates", "nodeUpdates")
           /\ ~Precedes(c, "nodeUpdates", "injectAgents")
<1>1. CASE Secondary(c)
  BY <1>1 DEF Precedes, Rank
<1>2. CASE ~Secondary(c)
  BY <1>2 DEF Precedes, Rank
<1> QED
  BY <1>1, <1>2

-----------------------------------------------------------------------------
(* While a run works, and while Consul and the sidecars do, nothing that   *)
(* has been achieved is lost.                                              *)
Grows ==
    /\ life' = life
    /\ clients \subseteq clients' /\ mem \subseteq mem' /\ store \subseteq store'
    /\ \A s \in AllServers : known[s] \subseteq known'[s]
    /\ \A t \in Published : cache[t] = life => cache'[t] = life
    /\ regFiles \subseteq regFiles' /\ replTok \subseteq replTok'
    /\ agentTok \subseteq agentTok' /\ registered \subseteq registered'
    /\ generated \subseteq generated' /\ established \subseteq established'

LEMMA AllKept ==
    ASSUME UNCHANGED <<Memory, disk, world>>
    PROVE  Grows
BY DEF Grows, Memory, disk, world

LEMMA HandledStays ==
    ASSUME Grows, NEW st, NEW c \in Clusters, NEW t \in Work(st, c), Handled(st, c, t)
    PROVE  Handled(st, c, t)'
<1>1. st \in PublishStages => t \in Published
  BY WorkIsTokens, PublishedFacts
<1>2. Servers[c] \subseteq AllServers
  BY PublishedFacts
<1> QED
  BY <1>1, <1>2 DEF Handled, Grows

LEMMA ReachedStays ==
    ASSUME Grows, NEW st, NEW c \in Clusters, Reached(st, c)
    PROVE  Reached(st, c)'
<1>1. ASSUME NEW x \in PlanStages, Precedes(c, x, st), NEW t \in Work(x, c)
      PROVE  Handled(x, c, t)'
  BY <1>1, HandledStays DEF Reached
<1>2. Precedes(c, "nodeUpdates", st) => AgentTokens(c) \subseteq registered'
  BY DEF Reached, Grows
<1>3. st \in ClusterStages => Servers[c] \subseteq clients'
  BY DEF Reached, Grows
<1> QED
  BY <1>1, <1>2, <1>3 DEF Reached

LEMMA ReadyStays ==
    ASSUME Grows, NEW c \in Clusters, Ready(c)
    PROVE  Ready(c)'
BY PublishedFacts DEF Grows, Ready

(* Outside the loops over the clusters nothing is asked of the tokens.     *)
LEMMA ReachedOutside ==
    ASSUME NEW st, NEW c \in Clusters, st \notin ClusterStages
    PROVE  Reached(st, c) /\ Reached(st, c)'
BY RankedStages DEF Reached, Precedes

(* A stage is entered with everything still to do.                         *)
LEMMA EnterTokens ==
    ASSUME NEW st, NEW c \in Clusters, NEW cs, Enter(st, c, cs), Reached(st, c)'
    PROVE  TokensInv'
<1>1. stage' = st /\ cur' = c /\ todo' = Work(st, c)
  BY DEF Enter
<1>2. st \in WaitStages => awaiting' = {}
  BY DEF Enter, WaitStages, PublishStages
<1> QED
  BY <1>1, <1>2 DEF TokensInv

LEMMA InjectedKept ==
    ASSUME InjectedTokensWork, \A s \in AllServers : known[s] \subseteq known'[s],
           agentTok' = agentTok
    PROVE  InjectedTokensWork'
BY PublishedFacts DEF InjectedTokensWork

(* Steps that stay in the stage and with the cluster.                      *)
LEMMA LoopKept ==
    ASSUME LoopInv, Grows, UNCHANGED <<stage, cur, running, primaryOnly>>,
           TypeWalk, TypeWorld,
           left' = left \/ stage \in {"waitForLeader", "peer", "waitForCompletion"}
    PROVE  LoopInv'
<1>1. \A c \in Clusters : Ready(c) => Ready(c)'
  BY ReadyStays
<1>2. Authorities \subseteq Clusters /\ Secondaries \subseteq Clusters /\ running \subseteq Clusters
  BY AuthorityIsNotSecondary, SecondaryFacts DEF TypeWorld
<1>3. Processed' = Processed
  BY DEF Processed
<1>4. CASE left' = left
  BY <1>1, <1>2, <1>3, <1>4 DEF LoopInv
<1>5. CASE stage \in {"waitForLeader", "peer", "waitForCompletion"}
  <2>1. stage \notin ClusterStages
    BY <1>5 DEF ClusterStages, PlanStages, CreateStages, WaitStages, PublishStages
  <2> QED
    BY <1>1, <1>2, <1>3, <1>5, <2>1 DEF LoopInv
<1> QED
  BY <1>4, <1>5

LEMMA MasterEnter ==
    ASSUME MasterInv, stage \in Active \ {"waitForLeader", "bootstrap", "aclBootstrap"},
           stage' \notin {"bootstrap", "aclBootstrap", "saveMaster",
                          "waitInitialManagement", "panic"},
           masterToken' = masterToken
    PROVE  MasterInv'
BY DEF MasterInv

LEMMA MasterKept ==
    ASSUME MasterInv, UNCHANGED <<stage, masterToken, masterFile, life>>,
           stage = "bootstrap" => left' = left
    PROVE  MasterInv'
BY DEF MasterInv

(* A run that does not end in success, nor in the panic.                   *)
LEMMA EndBoot ==
    ASSUME Inv, BootInv, End("failed"), UNCHANGED <<disk, world>>
    PROVE  BootInv'
<1>1. "failed" \notin ClusterStages \cup PlanStages \cup WaitStages \cup Active \cup {"done"}
  BY DEF ClusterStages, PlanStages, CreateStages, WaitStages, PublishStages, Active
<1>2. cur' = cur /\ cur \in Clusters /\ stage' = "failed"
  BY DEF End, Inv, TypeOK, TypeWalk
<1>3. TokensInv'
  BY <1>1, <1>2, ReachedOutside DEF TokensInv
<1>4. MasterInv' /\ LoopInv' /\ LinkInv'
  BY <1>1, <1>2 DEF MasterInv, LoopInv, LinkInv
<1>5. InjectedTokensWork'
  BY InjectedKept DEF BootInv, world
<1> QED
  BY <1>3, <1>4, <1>5 DEF BootInv

-----------------------------------------------------------------------------
(* The steps of bootstrap.                                                 *)
MasterLoop == {"waitForLeader", "bootstrap"} \cup MasterStages

LEMMA MasterLoopFacts ==
    /\ MasterLoop \subseteq Active
    /\ MasterLoop \cap (ClusterStages \cup PlanStages \cup WaitStages) = {}
    /\ MasterLoop \cap {"initPrimary", "writeRegistrations", "injectReplication",
                        "initSecondary", "crossKV", "peer", "establish",
                        "waitForCompletion", "done"} = {}
BY DEF MasterLoop, MasterStages, ClusterStages, PlanStages, CreateStages, WaitStages,
       PublishStages, Active

(* In this loop nothing but the management token matters.                  *)
LEMMA MasterLoopEnter ==
    ASSUME Inv, BootInv, NEW st \in MasterLoop \cup {"waitInitialManagement"},
           NEW c \in Clusters, NEW cs, Enter(st, c, cs), stage \in MasterLoop,
           UNCHANGED <<running, primaryOnly, known, agentTok>>
    PROVE  TokensInv' /\ LoopInv' /\ LinkInv' /\ InjectedTokensWork'
<1>1. st \notin ClusterStages
  BY MasterLoopFacts DEF ClusterStages
<1>2. TokensInv'
  BY <1>1, ReachedOutside, EnterTokens
<1>3. /\ stage' = st /\ running = Processed /\ Processed' = Processed
      /\ st \notin {"initPrimary", "writeRegistrations", "injectReplication",
                    "initSecondary", "crossKV", "peer", "establish",
                    "waitForCompletion", "done"}
  BY MasterLoopFacts DEF Enter, BootInv, LoopInv, Processed
<1>4. LoopInv' /\ LinkInv'
  BY <1>1, <1>3 DEF LoopInv, LinkInv
<1>5. InjectedTokensWork'
  BY InjectedKept DEF BootInv
<1> QED
  BY <1>2, <1>4, <1>5

LEMMA BootstrapBoot ==
    ASSUME Inv, BootInv, Bootstrap
    PROVE  BootInv'
<1> USE DEF BootInv
<1>c. cur \in Clusters /\ left \subseteq Clusters /\ life \in Nat \ {0} /\ masterFile \in Nat
  BY DEF Inv, TypeOK, TypeWalk, TypeWorld, TypeDisk
<1>a. Authorities \subseteq Clusters /\ Authorities # {}
  BY AuthorityIsNotSecondary, TopologyAssumption DEF Authorities, TopologyAssumption
<1>m. {"waitForLeader", "bootstrap", "isACLBootstrapped", "tokenReadSelf", "aclBootstrap",
       "saveMaster"} = MasterLoop
  BY DEF MasterLoop, MasterStages
<1>1. ASSUME NEW c \in Clusters, WaitForLeader(c) PROVE BootInv'
  <2>1. stage \notin ClusterStages \cup PlanStages \cup WaitStages
    BY <1>1, <1>m, MasterLoopFacts DEF WaitForLeader
  <2>2. TokensInv'
    BY <1>1, <1>c, <2>1, ReachedOutside DEF WaitForLeader, TokensInv
  <2>3. Grows
    BY <1>1, AllKept DEF WaitForLeader
  <2>4. LoopInv'
    BY <1>1, <2>3, LoopKept DEF WaitForLeader, Inv, TypeOK, world, Memory
  <2>5. MasterInv' /\ LinkInv'
    BY <1>1, <2>1, MasterKept DEF WaitForLeader, LinkInv, Memory, disk, world
  <2> QED
    BY <1>1, <2>2, <2>4, <2>5, InjectedKept DEF WaitForLeader, world
<1>2. ASSUME NEW c \in Clusters, LoadMasterToken(c) PROVE BootInv'
  <2>1. TokensInv' /\ LoopInv' /\ LinkInv' /\ InjectedTokensWork'
    BY <1>2, <1>m, MasterLoopEnter DEF LoadMasterToken, world
  <2>2. MasterInv'
    BY <1>2 DEF LoadMasterToken, Enter, MasterInv
  <2> QED
    BY <2>1, <2>2
<1>3. CASE LeadersElected
  <2>1. TokensInv' /\ LoopInv' /\ LinkInv' /\ InjectedTokensWork'
    BY <1>3, <1>c, <1>m, MasterLoopEnter DEF LeadersElected, world, Memory
  <2>2. MasterInv'
    BY <1>3 DEF LeadersElected, Enter, MasterInv
  <2> QED
    BY <2>1, <2>2
<1>4. CASE IsACLBootstrapped
  <2>1. TokensInv' /\ LoopInv' /\ LinkInv' /\ InjectedTokensWork'
    BY <1>4, <1>c, <1>m, MasterLoopEnter DEF IsACLBootstrapped, GoTo, world, Memory
  <2>2. MasterInv'
    BY <1>4 DEF IsACLBootstrapped, GoTo, Enter, MasterInv, Memory, Active
  <2> QED
    BY <2>1, <2>2
<1>5. CASE TokenReadSelf
  <2>1. TokensInv' /\ LoopInv' /\ LinkInv' /\ InjectedTokensWork'
    BY <1>5, <1>c, <1>m, MasterLoopEnter DEF TokenReadSelf, GoTo, world, Memory
  <2>2. MasterInv'
    BY <1>5 DEF TokenReadSelf, GoTo, Enter, MasterInv, Memory, Active
  <2> QED
    BY <2>1, <2>2
<1>6. CASE ACLBootstrap
  <2>1. TokensInv' /\ LoopInv' /\ LinkInv' /\ InjectedTokensWork'
    BY <1>6, <1>c, <1>m, MasterLoopEnter DEF ACLBootstrap, GoTo
  <2>2. MasterInv'
    BY <1>6, <1>c DEF ACLBootstrap, GoTo, Enter, MasterInv
  <2> QED
    BY <2>1, <2>2
<1>7. CASE ACLBootstrapRefused
  BY <1>7, EndBoot DEF ACLBootstrapRefused
<1>8. CASE SaveMaster
  <2>1. TokensInv' /\ LoopInv' /\ LinkInv' /\ InjectedTokensWork'
    BY <1>8, <1>c, <1>m, MasterLoopEnter DEF SaveMaster, GoTo, world, Memory
  <2>2. MasterInv'
    BY <1>8, <1>c DEF SaveMaster, GoTo, Enter, MasterInv, Memory, world
  <2> QED
    BY <2>1, <2>2
<1>9. CASE Bootstrapped
  <2>1. stage' = "initPrimary" /\ left' = Authorities /\ cur' = cur
        /\ running' = running /\ primaryOnly' = primaryOnly /\ masterToken' = masterToken
        /\ stage = "bootstrap" /\ left = {}
    BY <1>9 DEF Bootstrapped, Enter, Memory, world
  <2>2. "initPrimary" \notin ClusterStages /\ {"bootstrap", "initPrimary"} \subseteq Active
    BY DEF ClusterStages, PlanStages, CreateStages, WaitStages, PublishStages, Active
  <2>3. TokensInv'
    BY <1>9, <1>c, <2>2, ReachedOutside, EnterTokens DEF Bootstrapped
  <2>4. LoopInv'
    BY <2>1, <2>2 DEF LoopInv, Processed
  <2>5. MasterInv'
    BY <1>a, <2>1 DEF MasterInv
  <2>6. Primary \in Authorities
    BY TopologyAssumption DEF Authorities, Authority, TopologyAssumption
  <2>7. LinkInv'
    BY <2>1, <2>2, <2>6 DEF LinkInv
  <2> QED
    BY <1>9, <2>3, <2>4, <2>5, <2>7, InjectedKept DEF Bootstrapped, world
<1> QED
  BY <1>1, <1>2, <1>3, <1>4, <1>5, <1>6, <1>7, <1>8, <1>9 DEF Bootstrap

-----------------------------------------------------------------------------
(* The steps of the loops over the clusters.                               *)

LEMMA ClusterStageFacts ==
    /\ ClusterStages \subseteq Active \ {"waitForLeader", "bootstrap", "aclBootstrap"}
    /\ ClusterStages \cap {"saveMaster", "waitInitialManagement", "panic", "initPrimary",
          "writeRegistrations", "injectReplication", "initSecondary", "crossKV", "peer",
          "establish", "waitForCompletion", "done"} = {}
    /\ CreateStages \cup PublishStages \cup {"waitAgents", "injectAgents", "nodeUpdates"}
          \subseteq ClusterStages
    /\ WaitStages \subseteq PlanStages /\ ClusterStages \subseteq PlanStages
    /\ PlanStages = ClusterStages \cup {"waitInitialManagement"}
BY DEF ClusterStages, PlanStages, CreateStages, WaitStages, PublishStages, Active

LEMMA CurIsRanked ==
    ASSUME Inv, stage \in ClusterStages
    PROVE  cur \in Clusters /\ stage \in DOMAIN Rank(cur)
<1>1. stage \in StagesOf(cur) /\ stage # "waitInitialManagement" /\ cur \in Clusters
  BY DEF Inv, TypeOK, TypeWalk, StageInv, ClusterStages
<1> QED
  BY <1>1, RankedStages

(* Steps that only go on with a walk of one cluster.                       *)
LEMMA WalkKept ==
    ASSUME Inv, BootInv, Grows, stage \in PlanStages,
           UNCHANGED <<stage, cur, left, primaryOnly, masterToken, masterFile, running>>
    PROVE  Reached(stage, cur)' /\ MasterInv' /\ LoopInv' /\ LinkInv'
<1>1. PICK st, c : st = stage /\ c = cur
  OBVIOUS
<1>2. Reached(stage, cur)'
  <2>1. c \in Clusters /\ Reached(st, c)
    BY <1>1 DEF BootInv, TokensInv, Inv, TypeOK, TypeWalk
  <2>2. Reached(st, c)' /\ stage' = st /\ cur' = c
    BY <1>1, <2>1, ReachedStays
  <2> QED
    BY <2>2
<1>3. MasterInv'
  BY MasterKept DEF BootInv, Grows
<1>4. LoopInv'
  BY LoopKept DEF BootInv, Inv, TypeOK
<1>5. stage \notin {"initPrimary", "writeRegistrations", "injectReplication", "initSecondary",
                    "crossKV", "peer", "establish", "waitForCompletion", "done"}
  BY ClusterStageFacts
<1>6. LinkInv'
  BY <1>5 DEF BootInv, LinkInv, Grows
<1> QED
  BY <1>2, <1>3, <1>4, <1>6

LEMMA CreateClientsBoot ==
    ASSUME Inv, BootInv, NEW c \in Clusters, CreateClients(c)
    PROVE  BootInv'
<1> USE DEF BootInv
<1>p. PICK st : st = Plan(c)[stage]
  OBVIOUS
<1>1. Grows
  BY DEF CreateClients, Grows, disk, world
<1>2. /\ stage = "initPrimary" => ~Secondary(c) /\ c \in Authorities
      /\ stage = "initSecondary" => Secondary(c) /\ c \in Secondaries
      /\ stage \in {"initPrimary", "initSecondary"} /\ c \in left
  BY AuthorityIsNotSecondary, SecondaryFacts DEF CreateClients, Inv, StageInv
<1>3. st \in ClusterStages
  BY <1>p, <1>2 DEF Plan, PrimaryPlan, SecondaryPlan, ClusterStages, PlanStages, CreateStages
<1>4. stage' = st /\ cur' = c /\ left' = left \ {c} /\ Enter(st, c, left \ {c})
  BY <1>p DEF CreateClients, Enter
<1>5. Reached(st, c)'
  <2>1. ASSUME NEW x \in PlanStages, Precedes(c, x, st), NEW t \in Work(x, c)
        PROVE  Handled(x, c, t)'
    <3>1. Peered /\ x \in {"createReplication", "waitReplication"}
      BY <1>p, <1>2, <2>1, RankFirst
    <3> QED
      BY <3>1 DEF Handled, PublishStages, CreateStages
  <2>2. ~Precedes(c, "nodeUpdates", st)
    BY <1>p, <1>2, RankFirst
  <2>3. Servers[c] \subseteq clients'
    BY DEF CreateClients
  <2> QED
    BY <2>1, <2>2, <2>3 DEF Reached
<1>6. TokensInv'
  BY <1>4, <1>5, EnterTokens
<1>7. MasterInv'
  <2>1. stage \in Active
    BY <1>2 DEF Active
  <2> QED
    BY <1>2, <1>3, <1>4, <2>1, ClusterStageFacts, MasterEnter DEF CreateClients
<1>8. LoopInv'
  <2>1. Authorities \subseteq Clusters /\ Secondaries \subseteq Clusters
    BY AuthorityIsNotSecondary, SecondaryFacts
  <2>2. \A d \in Clusters : Ready(d) => Ready(d)'
    BY <1>1, ReadyStays
  <2>3. running' = running /\ Processed' = Processed /\ stage \in Active
    BY <1>2 DEF CreateClients, world, Processed, Active
  <2> QED
    BY <1>2, <1>3, <1>4, <2>1, <2>2, <2>3, ClusterStageFacts DEF LoopInv
<1>9. LinkInv'
  BY <1>2, <1>3, <1>4, ClusterStageFacts DEF LinkInv, CreateClients, disk, world
<1> QED
  BY <1>6, <1>7, <1>8, <1>9, InjectedKept DEF CreateClients, world

(* The next call for the same cluster, or back to the loop.                *)
LEMMA StageDone ==
    ASSUME Inv, BootInv, NEW at \in ClusterStages, NEW c, stage = at, cur = c,
           \A t \in Work(at, c) : Handled(at, c, t),
           at = "nodeUpdates" => AgentTokens(c) \subseteq registered,
           GoTo(Plan(c)[at]), UNCHANGED <<Memory, disk, world>>
    PROVE  BootInv'
<1> DEFINE st == Plan(c)[at]
<1> USE DEF BootInv
<1>1. Grows
  BY AllKept
<1>2. c \in Clusters /\ at \in DOMAIN Rank(c)
  BY CurIsRanked
<1>3. stage' = st /\ cur' = c /\ left' = left /\ Enter(st, c, left)
  BY DEF GoTo, Enter
<1>4. \A d \in Clusters : Ready(d) => Ready(d)'
  BY <1>1, ReadyStays
<1>5. Authorities \subseteq Clusters /\ Secondaries \subseteq Clusters
      /\ (~Secondary(c) => \A d \in Secondaries : d # c)
  BY AuthorityIsNotSecondary, SecondaryFacts
<1>6. running' = running /\ Processed' = Processed /\ running = Processed
      /\ primaryOnly' = primaryOnly /\ masterToken' = masterToken
  BY ClusterStageFacts DEF world, Memory, Processed, LoopInv
<1>7. InjectedTokensWork'
  BY InjectedKept DEF world
<1>8. ASSUME NEW x, Precedes(c, x, at) \/ x = at, NEW t \in Work(x, c)
      PROVE  Handled(x, c, t) /\ Handled(x, c, t)'
  <2>1. x \in PlanStages
    BY <1>2, <1>8, RankedStages, ClusterStageFacts DEF Precedes
  <2>2. Handled(x, c, t)
    BY <1>8, <2>1 DEF TokensInv, Reached
  <2> QED
    BY <1>1, <1>2, <2>2, HandledStays
<1>9. CASE st \in DOMAIN Rank(c)
  <2>1. st \in ClusterStages
    BY <1>2, <1>9, RankedStages
  <2>2. Reached(st, c)'
    <3>1. ASSUME NEW x \in PlanStages, Precedes(c, x, st), NEW t \in Work(x, c)
          PROVE  Handled(x, c, t)'
      BY <1>2, <1>8, <3>1, RankNext
    <3>2. Precedes(c, "nodeUpdates", st) => AgentTokens(c) \subseteq registered'
      BY <1>2, RankNext DEF TokensInv, Reached, world
    <3>3. Servers[c] \subseteq clients'
      BY DEF TokensInv, Reached, Memory
    <3> QED
      BY <3>1, <3>2, <3>3 DEF Reached
  <2>3. TokensInv'
    BY <1>2, <1>3, <2>2, EnterTokens
  <2>4. MasterInv'
    BY <1>3, <1>6, <2>1, ClusterStageFacts, MasterEnter
  <2>5. LoopInv'
    BY <1>3, <1>4, <1>5, <1>6, <2>1, ClusterStageFacts DEF LoopInv
  <2>6. LinkInv'
    BY <1>3, <1>6, <2>1, ClusterStageFacts DEF LinkInv, disk, world
  <2> QED
    BY <1>7, <2>3, <2>4, <2>5, <2>6
<1>10. CASE st \notin DOMAIN Rank(c)
  <2>1. /\ Secondary(c) => st = "initSecondary" /\ at = "nodeUpdates"
        /\ ~Secondary(c) => st = "initPrimary" /\ at = "publishServices"
        /\ \A x \in DOMAIN Rank(c) : Precedes(c, x, at) \/ x = at
    BY <1>2, <1>10, RankLast, RankFacts
  <2>2. st \notin ClusterStages /\ st \in Active
        /\ st \notin {"bootstrap", "aclBootstrap", "saveMaster", "waitInitialManagement", "panic"}
    BY <2>1, ClusterStageFacts DEF Active
  <2>3. Ready(c)
    <3>1. ASSUME NEW t \in AgentTokens(c) PROVE t \in agentTok
      <4>1. t \in Work("injectAgents", c)
        BY DEF Work
      <4>2. Handled("injectAgents", c, t)
        BY <1>2, <1>8, <2>1, <4>1, RankFacts
      <4> QED
        BY <4>2 DEF Handled
    <3>2. AgentTokens(c) \subseteq registered
      BY <1>2, <2>1, RankFacts DEF TokensInv, Reached
    <3>3. ASSUME NEW t \in PublishedTokens(c) PROVE cache[t] = life
      <4>1. t \in Work("publishMeshGateway", c) \/ t \in Work("publishServices", c)
        BY DEF Work, PublishedTokens
      <4>2. Handled("publishMeshGateway", c, t) \/ Handled("publishServices", c, t)
        BY <1>2, <1>8, <2>1, <4>1, RankFacts
      <4> QED
        BY <4>2 DEF Handled, PublishStages
    <3> QED
      BY <3>1, <3>2, <3>3 DEF Ready
  <2>4. ~Secondary(c) => Peered \/ Replication \in mem
    <3>1. Replication \in Work("createReplication", c)
      BY DEF Work
    <3>2. ~Secondary(c) => Handled("createReplication", c, Replication)
      BY <1>2, <1>8, <2>1, <3>1, RankFacts
    <3> QED
      BY <3>2 DEF Handled
  <2>5. TokensInv'
    BY <1>2, <1>3, <2>2, ReachedOutside, EnterTokens
  <2>6. MasterInv'
    BY <1>3, <1>6, <2>2, ClusterStageFacts, MasterEnter
  <2>7. LoopInv'
    <3>1. CASE Secondary(c)
      <4>1. /\ stage' = "initSecondary" /\ "initSecondary" \notin ClusterStages
            /\ \A d \in Authorities \cup (Secondaries \ left) : Ready(d)
        BY <1>3, <2>1, <2>2, <2>3, <3>1 DEF LoopInv
      <4> QED
        BY <1>3, <1>4, <1>5, <1>6, <4>1 DEF LoopInv
    <3>2. CASE ~Secondary(c)
      <4>1. /\ stage' = "initPrimary" /\ "initPrimary" \notin ClusterStages
            /\ \A d \in Authorities \ left : Ready(d)
        BY <1>3, <2>1, <2>2, <2>3, <3>2 DEF LoopInv
      <4> QED
        BY <1>3, <1>4, <1>5, <1>6, <4>1 DEF LoopInv
    <3> QED
      BY <3>1, <3>2
  <2>8. LinkInv'
    BY <1>3, <1>6, <2>1, <2>2, <2>4, ClusterStageFacts
       DEF LinkInv, Secondary, disk, world, Memory
  <2> QED
    BY <1>7, <2>5, <2>6, <2>7, <2>8
<1> QED
  BY <1>9, <1>10

LEMMA AgentKinds ==
    ASSUME NEW c \in Clusters
    PROVE  /\ \A t \in AgentTokens(c) : t.kind = "agent" /\ t.cluster = c
           /\ Replication.kind = "replication"
BY DEF AgentTokens, Token, Replication

(* A walk ends with every token of the stage handled.                      *)
LEMMA WalkDoneBoot ==
    ASSUME Inv, BootInv, WalkDone
    PROVE  BootInv'
<1> USE DEF BootInv
<1>1. PICK at, c : at = stage /\ c = cur
  OBVIOUS
<1>2. c \in Clusters /\ at \in PlanStages /\ at # "nodeUpdates"
  BY <1>1 DEF WalkDone, PlanStages, CreateStages, WaitStages, PublishStages, Inv, TypeOK, TypeWalk
<1>3. CASE at = "waitInitialManagement"
  <2>1. Plan(c)[at] = "bootstrap"
    BY <1>1, <1>2, <1>3 DEF Plan, PrimaryPlan, SecondaryStages, StagesOf, Inv, StageInv
  <2>2. stage' = "bootstrap" /\ cur' = c /\ Enter("bootstrap", c, left)
        /\ UNCHANGED <<running, primaryOnly, known, agentTok, masterToken>>
    BY <1>1, <2>1 DEF WalkDone, GoTo, Enter, world, Memory
  <2>3. "bootstrap" \notin ClusterStages /\ "bootstrap" \notin PlanStages
        /\ "waitInitialManagement" \in Active
    BY DEF ClusterStages, PlanStages, CreateStages, WaitStages, PublishStages, Active
  <2>4. TokensInv'
    BY <1>2, <2>2, <2>3, ReachedOutside, EnterTokens
  <2>5. MasterInv'
    BY <1>1, <1>3, <2>2, <2>3 DEF MasterInv
  <2>6. LoopInv' /\ LinkInv'
    BY <1>1, <1>3, <2>2, <2>3 DEF LoopInv, LinkInv, Processed
  <2> QED
    BY <2>2, <2>4, <2>5, <2>6, InjectedKept
<1>4. CASE at # "waitInitialManagement"
  <2>1. at \in ClusterStages
    BY <1>2, <1>4, ClusterStageFacts
  <2>2. Work(at, c) \ (todo \cup {tok}) = Work(at, c)
    BY <1>2, WorkIsTokens, NoTokenIsNoToken DEF WalkDone
  <2>3. \A t \in Work(at, c) : Handled(at, c, t)
    BY <1>1, <1>2, <2>2 DEF TokensInv
  <2> QED
    BY <1>1, <1>2, <2>1, <2>3, StageDone DEF WalkDone
<1> QED
  BY <1>3, <1>4

LEMMA NodeUpdatesBoot ==
    ASSUME Inv, BootInv, NodeUpdates
    PROVE  BootInv'
<1> USE DEF BootInv
<1>1. PICK at, c : at = stage /\ c = cur
  OBVIOUS
<1>2. c \in Clusters /\ at = "nodeUpdates" /\ at \in ClusterStages
  BY <1>1, ClusterStageFacts DEF NodeUpdates, Inv, TypeOK, TypeWalk
<1>3. CASE AgentTokens(c) \subseteq registered
  <2>1. \A t \in Work(at, c) : Handled(at, c, t)
    BY <1>2 DEF Work
  <2> QED
    BY <1>1, <1>2, <1>3, <2>1, StageDone DEF NodeUpdates
<1>4. CASE ~(AgentTokens(c) \subseteq registered)
  <2>1. Enter("injectAgents", c, left) /\ UNCHANGED <<Memory, disk, world>>
    BY <1>1, <1>4 DEF NodeUpdates, GoTo
  <2>2. Reached("injectAgents", c)
    BY <1>1, <1>2, RankFacts, ClusterStageFacts DEF TokensInv, Reached
  <2>3. Grows
    BY <2>1, AllKept
  <2>4. Reached("injectAgents", c)'
    BY <1>2, <2>2, <2>3, ReachedStays
  <2>5. TokensInv'
    BY <1>2, <2>1, <2>4, EnterTokens
  <2>6. /\ stage' = "injectAgents" /\ cur' = c /\ left' = left
        /\ UNCHANGED <<running, primaryOnly, masterToken>> /\ Processed' = Processed
    BY <2>1 DEF Enter, world, Memory, Processed
  <2>7. MasterInv'
    BY <1>1, <1>2, <2>6, ClusterStageFacts, MasterEnter
  <2>8. \A d \in Clusters : Ready(d) => Ready(d)'
    BY <2>3, ReadyStays
  <2>9. Authorities \subseteq Clusters /\ Secondaries \subseteq Clusters
    BY AuthorityIsNotSecondary, SecondaryFacts
  <2>10. LoopInv'
    BY <1>1, <1>2, <2>6, <2>8, <2>9, ClusterStageFacts DEF LoopInv
  <2>11. LinkInv'
    BY <1>1, <1>2, <2>1, <2>6, ClusterStageFacts DEF LinkInv, disk, world
  <2> QED
    BY <2>1, <2>5, <2>7, <2>10, <2>11, InjectedKept DEF world
<1> QED
  BY <1>3, <1>4

LEMMA WalkTokenBoot ==
    ASSUME Inv, BootInv, NEW t \in Tokens, WalkToken(t)
    PROVE  BootInv'
<1> USE DEF BootInv
<1>c. cur \in Clusters
  BY DEF Inv, TypeOK, TypeWalk
<1>1. CASE CreateOrUpdateToken(t)
  <2>1. stage \in CreateStages /\ stage \in PlanStages /\ stage \notin WaitStages
        /\ stage \notin PublishStages /\ stage \notin {"waitAgents", "injectAgents"}
    BY <1>1 DEF CreateOrUpdateToken, PlanStages, CreateStages, WaitStages, PublishStages
  <2>2. Grows
    BY <1>1 DEF CreateOrUpdateToken, Grows, disk
  <2>3. Reached(stage, cur)' /\ MasterInv' /\ LoopInv' /\ LinkInv'
    BY <1>1, <2>1, <2>2, WalkKept DEF CreateOrUpdateToken, disk
  <2>4. ASSUME NEW x \in Work(stage, cur), x \notin todo', x # tok
        PROVE  Handled(stage, cur, x)'
    <3>1. CASE x = t
      <4>1. /\ stage = "createAgents" => x.kind = "agent"
            /\ stage = "createReplication" => x.kind = "replication"
        BY <1>c, <2>4, AgentKinds DEF Work
      <4> QED
        BY <1>1, <2>1, <3>1, <4>1 DEF CreateOrUpdateToken, Handled
    <3>2. CASE x # t
      <4>1. Handled(stage, cur, x)
        BY <1>1, <2>1, <2>4, <3>2 DEF CreateOrUpdateToken, TokensInv
      <4> QED
        BY <1>1, <2>1, <4>1 DEF CreateOrUpdateToken, Handled
    <3> QED
      BY <3>1, <3>2
  <2>5. TokensInv'
    BY <1>1, <2>1, <2>3, <2>4 DEF CreateOrUpdateToken, TokensInv
  <2> QED
    BY <1>1, <2>3, <2>5, InjectedKept DEF CreateOrUpdateToken
<1>2. CASE BeginWait(t)
  <2>1. stage \in WaitStages /\ stage \in PlanStages
    BY <1>2, ClusterStageFacts DEF BeginWait
  <2>2. Grows
    BY <1>2, AllKept DEF BeginWait
  <2>3. Reached(stage, cur)' /\ MasterInv' /\ LoopInv' /\ LinkInv'
    BY <1>2, <2>1, <2>2, WalkKept DEF BeginWait, disk, world, Memory
  <2>4. ASSUME NEW x \in Work(stage, cur), x \notin todo', x # tok'
        PROVE  Handled(stage, cur, x)'
    <3>1. x # NoToken
      BY <1>c, WorkIsTokens, NoTokenIsNoToken
    <3>2. Handled(stage, cur, x)
      BY <1>2, <2>1, <2>4, <3>1 DEF BeginWait, TokensInv
    <3> QED
      BY <1>2, <3>2 DEF BeginWait, Handled, Memory, disk, world
  <2>5. TokensInv'
    BY <1>2, <2>3, <2>4 DEF BeginWait, TokensInv
  <2> QED
    BY <1>2, <2>3, <2>5, InjectedKept DEF BeginWait, world
<1>3. CASE InjectAgentToken(t)
  <2>1. stage = "injectAgents" /\ stage \in PlanStages /\ stage \notin WaitStages
        /\ stage \notin PublishStages /\ stage \notin CreateStages
    BY <1>3 DEF InjectAgentToken, PlanStages, CreateStages, WaitStages, PublishStages
  <2>2. Grows
    BY <1>3 DEF InjectAgentToken, Grows, disk, Memory
  <2>3. Reached(stage, cur)' /\ MasterInv' /\ LoopInv' /\ LinkInv'
    BY <1>3, <2>1, <2>2, WalkKept DEF InjectAgentToken, disk, Memory
  <2>4. TokensInv'
    BY <1>3, <2>1, <2>3 DEF InjectAgentToken, TokensInv, Handled
  <2>5. t \in AgentTokens(cur)
    BY <1>3, <2>1 DEF InjectAgentToken, Inv, WalkInv
  <2>6. \A s \in Servers[cur] : t \in known[s]
    <3>1. "waitAgents" \in PlanStages /\ t \in Work("waitAgents", cur)
      BY <2>5, ClusterStageFacts DEF Work
    <3>2. Handled("waitAgents", cur, t)
      BY <1>c, <2>1, <3>1, RankFacts DEF TokensInv, Reached
    <3> QED
      BY <3>2 DEF Handled
  <2>7. InjectedTokensWork'
    BY <1>3, <1>c, <2>5, <2>6, AgentKinds DEF InjectAgentToken, InjectedTokensWork
  <2> QED
    BY <2>3, <2>4, <2>7
<1>4. CASE WriteServiceRegistrationFile(t)
  <2>1. stage = "writeRegistrations" /\ stage \notin PlanStages \cup ClusterStages \cup WaitStages
        /\ stage \notin {"waitForLeader", "bootstrap"}
    BY <1>4 DEF WriteServiceRegistrationFile, PlanStages, ClusterStages, CreateStages,
                WaitStages, PublishStages
  <2>2. Grows
    BY <1>4 DEF WriteServiceRegistrationFile, Grows, Memory, world
  <2>3. TokensInv'
    BY <1>4, <1>c, <2>1, ReachedOutside DEF WriteServiceRegistrationFile, TokensInv
  <2>4. MasterInv' /\ LinkInv'
    BY <1>4, <2>1, MasterKept DEF WriteServiceRegistrationFile, LinkInv, Memory, world
  <2>5. LoopInv'
    BY <1>4, <2>2, LoopKept DEF WriteServiceRegistrationFile, Memory, world, Inv, TypeOK
  <2> QED
    BY <1>4, <2>3, <2>4, <2>5, InjectedKept DEF WriteServiceRegistrationFile, world
<1> QED
  BY <1>1, <1>2, <1>3, <1>4 DEF WalkToken

LEMMA WalkServerBoot ==
    ASSUME Inv, BootInv, NEW s \in AllServers, WalkServer(s)
    PROVE  BootInv'
<1> USE DEF BootInv
<1>c. cur \in Clusters
  BY DEF Inv, TypeOK, TypeWalk
<1>1. CASE WaitForTokenOnServer(s)
  <2>1. stage \in WaitStages /\ stage \in PlanStages
    BY <1>1, ClusterStageFacts DEF WaitForTokenOnServer
  <2>2. Grows
    BY <1>1, AllKept DEF WaitForTokenOnServer
  <2>3. Reached(stage, cur)' /\ MasterInv' /\ LoopInv' /\ LinkInv'
    BY <1>1, <2>1, <2>2, WalkKept DEF WaitForTokenOnServer, disk, world, Memory
  <2>4. TokensInv'
    BY <1>1, <2>3 DEF WaitForTokenOnServer, TokensInv, Handled, Memory, disk, world
  <2> QED
    BY <1>1, <2>3, <2>4, InjectedKept DEF WaitForTokenOnServer, world
<1>2. CASE InjectReplicationToken(s)
  <2>1. stage = "injectReplication" /\ stage \notin PlanStages \cup ClusterStages \cup WaitStages
        /\ stage \notin {"waitForLeader", "bootstrap"}
    BY <1>2 DEF InjectReplicationToken, PlanStages, ClusterStages, CreateStages,
                WaitStages, PublishStages
  <2>2. Grows
    BY <1>2 DEF InjectReplicationToken, Grows, Memory, disk
  <2>3. TokensInv'
    BY <1>2, <1>c, <2>1, ReachedOutside DEF InjectReplicationToken, TokensInv
  <2>4. MasterInv' /\ LinkInv'
    BY <1>2, <2>1, MasterKept DEF InjectReplicationToken, LinkInv, Memory, disk
  <2>5. LoopInv'
    BY <1>2, <2>2, LoopKept DEF InjectReplicationToken, Memory, Inv, TypeOK
  <2> QED
    BY <1>2, <2>3, <2>4, <2>5, InjectedKept DEF InjectReplicationToken
<1> QED
  BY <1>1, <1>2 DEF WalkServer

LEMMA TokenReadyBoot ==
    ASSUME Inv, BootInv, TokenReady
    PROVE  BootInv'
<1> USE DEF BootInv
<1>c. cur \in Clusters
  BY DEF Inv, TypeOK, TypeWalk
<1>1. stage \in WaitStages /\ stage \in PlanStages
  BY ClusterStageFacts DEF TokenReady
<1>2. stage \in PublishStages => tok \in Published /\ cache'[tok] = life
  BY <1>c, PublishedFacts DEF TokenReady, Inv, WaitInv, TypeOK, TypeDisk
<1>3. \A t \in Published : cache[t] = life => cache'[t] = life
  BY DEF TokenReady, Inv, TypeOK, TypeDisk
<1>4. Grows
  BY <1>3 DEF TokenReady, Grows, Memory, world
<1>5. Reached(stage, cur)' /\ MasterInv' /\ LoopInv' /\ LinkInv'
  BY <1>1, <1>4, WalkKept DEF TokenReady, Memory, world
<1>6. ASSUME NEW x \in Work(stage, cur), x \notin todo
      PROVE  Handled(stage, cur, x)'
  <2>1. CASE x = tok
    <3>1. stage = "waitAgents" => \A s \in Servers[cur] : x \in known[s]
      BY <1>1, <2>1 DEF TokenReady, Inv, WaitInv
    <3>2. stage \notin CreateStages \cup {"createAgents", "createReplication", "injectAgents"}
      BY <1>1 DEF WaitStages, PublishStages, CreateStages
    <3> QED
      BY <1>2, <2>1, <3>1, <3>2 DEF TokenReady, Handled, world
  <2>2. CASE x # tok
    <3>1. Handled(stage, cur, x)
      BY <1>1, <1>6, <2>2 DEF TokensInv
    <3>2. stage \in PublishStages => x \in Published
      BY <1>c, <1>6, WorkIsTokens, PublishedFacts
    <3> QED
      BY <1>3, <3>1, <3>2 DEF TokenReady, Handled, Memory, world
  <2> QED
    BY <2>1, <2>2
<1>7. TokensInv'
  BY <1>5, <1>6 DEF TokenReady, TokensInv
<1> QED
  BY <1>5, <1>7, InjectedKept DEF TokenReady, world

-----------------------------------------------------------------------------
(* The stages between and after the loops.                                 *)

LinkStages == {"writeRegistrations", "injectReplication", "initSecondary", "crossKV",
               "peer", "establish", "waitForCompletion"}

LEMMA LinkStageFacts ==
    /\ LinkStages \cup {"initPrimary"}
          \subseteq Active \ {"waitForLeader", "bootstrap", "aclBootstrap"}
    /\ LinkStages \cap (ClusterStages \cup PlanStages \cup WaitStages) = {}
    /\ "initPrimary" \notin ClusterStages \cup PlanStages \cup WaitStages
BY DEF LinkStages, ClusterStages, PlanStages, CreateStages, WaitStages, PublishStages, Active

(* Going from one of them to the next.                                     *)
LEMMA LinkEnter ==
    ASSUME Inv, BootInv, NEW st \in LinkStages, NEW c \in Clusters, NEW cs,
           stage \in LinkStages \cup {"initPrimary"}, Enter(st, c, cs), Grows,
           UNCHANGED <<running, primaryOnly, masterToken, agentTok>>
    PROVE  /\ TokensInv' /\ MasterInv' /\ InjectedTokensWork'
           /\ running' = Processed' /\ stage' = st /\ cur' = c /\ left' = cs
           /\ stage' \notin ClusterStages
           /\ \A d \in Clusters : Ready(d) => Ready(d)'
<1>1. st \notin ClusterStages /\ stage \in Active
  BY LinkStageFacts
<1>2. stage' = st /\ cur' = c /\ left' = cs
  BY DEF Enter
<1>3. TokensInv'
  BY <1>1, ReachedOutside, EnterTokens
<1>4. MasterInv'
  BY <1>2, LinkStageFacts, MasterEnter DEF BootInv, LinkStages
<1>5. InjectedTokensWork'
  BY InjectedKept DEF BootInv, Grows
<1>6. running' = Processed'
  BY <1>1 DEF BootInv, LoopInv, Processed
<1>7. \A d \in Clusters : Ready(d) => Ready(d)'
  BY ReadyStays
<1> QED
  BY <1>1, <1>2, <1>3, <1>4, <1>5, <1>6, <1>7

LEMMA ClusterKinds ==
    /\ Authorities \subseteq Clusters /\ Secondaries \subseteq Clusters
    /\ Clusters \subseteq Authorities \cup Secondaries
    /\ Primary \in Authorities /\ Processed \subseteq Clusters
    /\ Peered => Authorities = Clusters /\ Secondaries = {}
    /\ Secondaries = {} => Clusters \subseteq Authorities
    /\ primaryOnly => Processed = {Primary}
BY AuthorityIsNotSecondary, TopologyAssumption
   DEF Authorities, Authority, Secondaries, Secondary, Processed, TopologyAssumption

LEMMA PrimariesReadyBoot ==
    ASSUME Inv, BootInv, PrimariesReady
    PROVE  BootInv'
<1> USE DEF BootInv
<1>1. PICK c : c = cur /\ c \in Clusters
  BY DEF Inv, TypeOK, TypeWalk
<1>2. PICK cs : cs = left
  OBVIOUS
<1>3. Enter("writeRegistrations", c, cs) /\ cs = {} /\ stage = "initPrimary"
  BY <1>1, <1>2 DEF PrimariesReady, GoTo
<1>4. Grows /\ UNCHANGED <<running, primaryOnly, masterToken, agentTok, mem, regFiles>>
  BY AllKept DEF PrimariesReady, world, Memory, disk
<1>5. /\ TokensInv' /\ MasterInv' /\ InjectedTokensWork'
      /\ running' = Processed' /\ stage' = "writeRegistrations" /\ cur' = c
      /\ stage' \notin ClusterStages /\ \A d \in Clusters : Ready(d) => Ready(d)'
  BY <1>1, <1>3, <1>4, LinkEnter DEF LinkStages
<1>6. LoopInv'
  BY <1>2, <1>3, <1>5, ClusterKinds DEF LoopInv
<1>7. LinkInv'
  <2>1. todo' = AllServiceTokens
    BY <1>3 DEF Enter, Work
  <2> QED
    BY <1>2, <1>3, <1>4, <1>5, <2>1, ClusterKinds DEF LinkInv
<1> QED
  BY <1>5, <1>6, <1>7

LEMMA RegistrationsWrittenBoot ==
    ASSUME Inv, BootInv, RegistrationsWritten
    PROVE  BootInv'
<1> USE DEF BootInv
<1>1. PICK c, cs : c = cur /\ cs = left /\ c \in Clusters
  BY DEF Inv, TypeOK, TypeWalk
<1>2. Grows /\ UNCHANGED <<running, primaryOnly, masterToken, agentTok, mem, regFiles, replTok,
                           generated, established>>
  BY AllKept DEF RegistrationsWritten, world, Memory, disk
<1>3. stage = "writeRegistrations" /\ AllServiceTokens \subseteq regFiles /\ stage \in Active
      /\ (Peered \/ Replication \in mem) /\ \A d \in Authorities : Ready(d)
  BY DEF RegistrationsWritten, LinkInv, LoopInv, Active
<1>4. CASE Peered /\ Enter("peer", c, Clusters \ {Primary})
  <2>1. /\ TokensInv' /\ MasterInv' /\ InjectedTokensWork'
        /\ running' = Processed' /\ stage' = "peer" /\ left' = Clusters \ {Primary}
        /\ stage' \notin ClusterStages /\ \A d \in Clusters : Ready(d) => Ready(d)'
    BY <1>1, <1>2, <1>3, <1>4, LinkEnter DEF LinkStages
  <2> QED
    BY <1>2, <1>3, <1>4, <2>1, ClusterKinds DEF LoopInv, LinkInv, Peers
<1>5. CASE ~primaryOnly /\ Secondaries # {} /\ Enter("injectReplication", c, cs)
  <2>1. /\ TokensInv' /\ MasterInv' /\ InjectedTokensWork'
        /\ running' = Processed' /\ stage' = "injectReplication"
        /\ stage' \notin ClusterStages /\ \A d \in Clusters : Ready(d) => Ready(d)'
    BY <1>1, <1>2, <1>3, <1>5, LinkEnter DEF LinkStages
  <2>2. awaiting' = SecondaryServers
    BY <1>5 DEF Enter, SecondaryServers
  <2> QED
    BY <1>2, <1>3, <1>5, <2>1, <2>2, ClusterKinds DEF LoopInv, LinkInv
<1>6. CASE /\ ~Peered /\ (primaryOnly \/ Secondaries = {})
           /\ Enter("waitForCompletion", c, Processed)
  <2>1. PICK p : p = Processed
    OBVIOUS
  <2>2. /\ TokensInv' /\ MasterInv' /\ InjectedTokensWork'
        /\ running' = Processed' /\ stage' = "waitForCompletion"
        /\ stage' \notin ClusterStages /\ \A d \in Clusters : Ready(d) => Ready(d)'
    BY <1>1, <1>2, <1>3, <1>6, <2>1, LinkEnter DEF LinkStages
  <2>3. Processed \subseteq Authorities /\ Processed' = Processed
    BY <1>2, <1>6, ClusterKinds DEF Processed
  <2>4. Secondaries = {} => SecondaryServers = {}
    BY DEF SecondaryServers
  <2>5. LoopInv'
    BY <1>3, <2>2, <2>3, ClusterKinds DEF LoopInv
  <2>6. LinkInv'
    BY <1>2, <1>3, <1>6, <2>2, <2>4 DEF LinkInv
  <2> QED
    BY <2>2, <2>5, <2>6
<1> QED
  BY <1>1, <1>4, <1>5, <1>6 DEF RegistrationsWritten, GoTo

LEMMA LinkingBoot ==
    ASSUME Inv, BootInv, Linking
    PROVE  BootInv'
<1> USE DEF BootInv
<1>c. PICK k, cs, p : k = cur /\ cs = left /\ p = Processed /\ k \in Clusters
  BY DEF Inv, TypeOK, TypeWalk
<1>1. CASE ReplicationInjected
  <2>1. Grows /\ UNCHANGED <<running, primaryOnly, masterToken, agentTok, regFiles, replTok>>
        /\ Enter("initSecondary", k, Secondaries) /\ stage = "injectReplication" /\ awaiting = {}
    BY <1>1, <1>c, AllKept DEF ReplicationInjected, world, Memory, disk
  <2>2. /\ TokensInv' /\ MasterInv' /\ InjectedTokensWork'
        /\ running' = Processed' /\ stage' = "initSecondary" /\ left' = Secondaries
        /\ stage' \notin ClusterStages /\ \A d \in Clusters : Ready(d) => Ready(d)'
    BY <1>c, <2>1, LinkEnter DEF LinkStages
  <2> QED
    BY <2>1, <2>2, ClusterKinds DEF LoopInv, LinkInv
<1>2. CASE SecondariesReady
  <2>1. Grows /\ UNCHANGED <<running, primaryOnly, masterToken, agentTok, regFiles, replTok>>
        /\ Enter("crossKV", k, cs) /\ stage = "initSecondary" /\ left = {}
    BY <1>2, <1>c, AllKept DEF SecondariesReady, GoTo, world, Memory, disk
  <2>2. /\ TokensInv' /\ MasterInv' /\ InjectedTokensWork'
        /\ running' = Processed' /\ stage' = "crossKV"
        /\ stage' \notin ClusterStages /\ \A d \in Clusters : Ready(d) => Ready(d)'
    BY <1>c, <2>1, LinkEnter DEF LinkStages
  <2> QED
    BY <2>1, <2>2, ClusterKinds DEF LoopInv, LinkInv
<1>3. CASE WaitForCrossDatacenterKV
  <2>1. Grows /\ UNCHANGED <<running, primaryOnly, masterToken, agentTok, regFiles, replTok>>
        /\ Enter("waitForCompletion", k, p) /\ stage = "crossKV"
    BY <1>3, <1>c, AllKept DEF WaitForCrossDatacenterKV, world, Memory, disk
  <2>2. /\ TokensInv' /\ MasterInv' /\ InjectedTokensWork'
        /\ running' = Processed' /\ stage' = "waitForCompletion"
        /\ stage' \notin ClusterStages /\ \A d \in Clusters : Ready(d) => Ready(d)'
    BY <1>c, <2>1, LinkEnter DEF LinkStages
  <2>3. running' \subseteq Clusters
    BY <2>1 DEF Inv, TypeOK, TypeWorld
  <2>4. LoopInv'
    BY <2>1, <2>2, <2>3, ClusterKinds DEF LoopInv
  <2>5. LinkInv'
    BY <2>1, <2>2 DEF LinkInv
  <2> QED
    BY <2>2, <2>4, <2>5
<1>4. ASSUME NEW c \in Clusters, AlreadyPeered(c) PROVE BootInv'
  <2>1. stage = "peer" /\ stage \in LinkStages /\ stage' = stage /\ cur' = cur
    BY <1>4 DEF AlreadyPeered, LinkStages
  <2>2. Grows
    BY <1>4, AllKept DEF AlreadyPeered
  <2>3. TokensInv'
    BY <1>c, <2>1, LinkStageFacts, ReachedOutside DEF TokensInv
  <2>4. LoopInv'
    BY <1>4, <2>1, <2>2, LoopKept DEF AlreadyPeered, world, Memory, Inv, TypeOK
  <2>5. MasterInv'
    BY <1>4, <2>1, MasterKept DEF AlreadyPeered, Memory, disk, world
  <2>6. LinkInv'
    BY <1>4, <2>1, LinkStageFacts DEF AlreadyPeered, LinkInv, Memory, disk, world
  <2> QED
    BY <1>4, <2>3, <2>4, <2>5, <2>6, InjectedKept DEF AlreadyPeered, world
<1>5. ASSUME NEW c \in Clusters, GeneratePeeringToken(c) PROVE BootInv'
  <2>1. Grows /\ UNCHANGED <<running, primaryOnly, masterToken, agentTok, regFiles, established>>
        /\ Enter("establish", c, cs \ {c}) /\ stage = "peer" /\ generated' = generated \cup {c}
    BY <1>5, <1>c DEF GeneratePeeringToken, Grows, acls, Memory, disk
  <2>2. /\ TokensInv' /\ MasterInv' /\ InjectedTokensWork'
        /\ running' = Processed' /\ stage' = "establish" /\ cur' = c /\ left' = cs \ {c}
        /\ stage' \notin ClusterStages /\ \A d \in Clusters : Ready(d) => Ready(d)'
    BY <2>1, LinkEnter DEF LinkStages
  <2>3. LoopInv'
    BY <2>1, <2>2, ClusterKinds DEF LoopInv
  <2>4. LinkInv'
    BY <1>c, <2>1, <2>2 DEF LinkInv
  <2> QED
    BY <2>2, <2>3, <2>4
<1>6. CASE EstablishPeering
  <2>1. Grows /\ UNCHANGED <<running, primaryOnly, masterToken, agentTok, regFiles, generated>>
        /\ Enter("peer", k, cs) /\ stage = "establish" /\ established' = established \cup {k}
    BY <1>6, <1>c DEF EstablishPeering, GoTo, Grows, acls, Memory, disk
  <2>2. /\ TokensInv' /\ MasterInv' /\ InjectedTokensWork'
        /\ running' = Processed' /\ stage' = "peer" /\ left' = cs
        /\ stage' \notin ClusterStages /\ \A d \in Clusters : Ready(d) => Ready(d)'
    BY <1>c, <2>1, LinkEnter DEF LinkStages
  <2>3. LoopInv'
    BY <2>1, <2>2, ClusterKinds DEF LoopInv
  <2>4. LinkInv'
    BY <1>c, <2>1, <2>2 DEF LinkInv
  <2> QED
    BY <2>2, <2>3, <2>4
<1>7. CASE PeersLinked
  <2>1. Grows /\ UNCHANGED <<running, primaryOnly, masterToken, agentTok, regFiles, generated,
                             established>>
        /\ Enter("waitForCompletion", k, p) /\ stage = "peer" /\ left = {}
    BY <1>7, <1>c, AllKept DEF PeersLinked, world, Memory, disk
  <2>2. /\ TokensInv' /\ MasterInv' /\ InjectedTokensWork'
        /\ running' = Processed' /\ stage' = "waitForCompletion"
        /\ stage' \notin ClusterStages /\ \A d \in Clusters : Ready(d) => Ready(d)'
    BY <1>c, <2>1, LinkEnter DEF LinkStages
  <2>3. running' \subseteq Clusters /\ SecondaryServers = {} /\ Peered
    BY <2>1, ClusterKinds DEF Inv, TypeOK, TypeWorld, LinkInv, SecondaryServers
  <2>4. LoopInv'
    BY <2>1, <2>2, <2>3, ClusterKinds DEF LoopInv
  <2>5. LinkInv'
    BY <2>1, <2>2, <2>3 DEF LinkInv
  <2> QED
    BY <2>2, <2>4, <2>5
<1> QED
  BY <1>1, <1>2, <1>3, <1>4, <1>5, <1>6, <1>7 DEF Linking

-----------------------------------------------------------------------------
(* The ends of a run.                                                      *)

(* Only the wait for the management token of a new environment can fail an *)
(* assertion: clients and remembered tokens are there everywhere else.     *)
LEMMA PanicBoot ==
    ASSUME Inv, BootInv, Panic
    PROVE  BootInv'
<1> USE DEF BootInv
<1>c. cur \in Clusters
  BY DEF Inv, TypeOK, TypeWalk
<1>1. ASSUME stage \in WaitStages, stage # "waitInitialManagement"
      PROVE  awaiting \subseteq clients /\ masterToken # 0
  <2>1. stage \in ClusterStages
    BY <1>1, ClusterStageFacts
  <2> QED
    BY <1>1, <2>1, ClusterStageFacts DEF TokensInv, Reached, MasterInv
<1>2. ASSUME stage = "injectAgents" PROVE todo \subseteq mem
  <2> SUFFICES ASSUME NEW t \in todo PROVE t \in mem
    OBVIOUS
  <2>1. t \in Work("createAgents", cur) /\ "createAgents" \in PlanStages
    BY <1>2, ClusterStageFacts DEF Inv, WalkInv, Work, CreateStages
  <2>2. Handled("createAgents", cur, t)
    BY <1>c, <1>2, <2>1, RankFacts DEF TokensInv, Reached
  <2> QED
    BY <2>2 DEF Handled
<1>3. ASSUME stage = "injectReplication" PROVE Replication \in mem
  BY <1>3 DEF LinkInv
<1>4. stage = "waitInitialManagement"
  BY <1>1, <1>2, <1>3 DEF Panic, AssertionFails
<1>5. /\ stage' = "panic" /\ cur' = cur
      /\ "panic" \notin ClusterStages \cup PlanStages \cup WaitStages \cup Active \cup {"done"}
  BY DEF Panic, End, ClusterStages, PlanStages, CreateStages, WaitStages, PublishStages, Active
<1>6. TokensInv'
  BY <1>c, <1>5, ReachedOutside DEF TokensInv
<1>7. MasterInv'
  BY <1>4, <1>5 DEF MasterInv, Panic, disk, world
<1>8. LoopInv' /\ LinkInv'
  BY <1>5 DEF LoopInv, LinkInv
<1> QED
  BY <1>6, <1>7, <1>8, InjectedKept DEF Panic, world

LEMMA CompletedBoot ==
    ASSUME Inv, BootInv, Completed
    PROVE  BootInv'
<1> USE DEF BootInv
<1>c. cur \in Clusters
  BY DEF Inv, TypeOK, TypeWalk
<1>1. stage = "waitForCompletion" /\ stage \in Active
  BY DEF Completed, Active
<1>2. /\ stage' = "done" /\ cur' = cur /\ primaryOnly' = primaryOnly
      /\ UNCHANGED <<running, cache, life, agentTok, registered, regFiles, replTok,
                     generated, established>>
      /\ "done" \notin ClusterStages \cup PlanStages \cup WaitStages \cup Active
  BY DEF Completed, End, disk, world, ClusterStages, PlanStages, CreateStages, WaitStages,
         PublishStages, Active
<1>3. TokensInv' /\ MasterInv'
  BY <1>c, <1>2, ReachedOutside DEF TokensInv, MasterInv
<1>4. LoopInv'
  BY <1>1, <1>2 DEF LoopInv, Ready, Processed
<1>5. LinkInv'
  BY <1>1, <1>2 DEF LinkInv
<1> QED
  BY <1>3, <1>4, <1>5, InjectedKept DEF Completed, world

LEMMA ProcessStepBoot ==
    ASSUME Inv, BootInv, ProcessStep
    PROVE  BootInv'
<1>1. ASSUME NEW c \in Clusters, WaitForCompletion(c) PROVE BootInv'
  <2> USE DEF BootInv
  <2>1. stage = "waitForCompletion" /\ stage \in LinkStages /\ stage' = stage /\ cur' = cur
        /\ cur \in Clusters
    BY <1>1 DEF WaitForCompletion, LinkStages, Inv, TypeOK, TypeWalk
  <2>2. Grows
    BY <1>1, AllKept DEF WaitForCompletion
  <2>3. TokensInv'
    BY <2>1, LinkStageFacts, ReachedOutside DEF TokensInv
  <2>4. LoopInv'
    BY <1>1, <2>1, <2>2, LoopKept DEF WaitForCompletion, world, Memory, Inv, TypeOK
  <2>5. MasterInv'
    BY <1>1, <2>1, MasterKept DEF WaitForCompletion, Memory, disk, world
  <2>6. LinkInv'
    BY <1>1, <2>1, LinkStageFacts DEF WaitForCompletion, LinkInv, Memory, disk, world
  <2> QED
    BY <1>1, <2>3, <2>4, <2>5, <2>6, InjectedKept DEF WaitForCompletion, world
<1>2. \A c \in Clusters : CreateClients(c) => BootInv'
  BY CreateClientsBoot
<1>3. \A t \in Tokens : WalkToken(t) => BootInv'
  BY WalkTokenBoot
<1>4. \A s \in AllServers : WalkServer(s) => BootInv'
  BY WalkServerBoot
<1> QED
  BY <1>1, <1>2, <1>3, <1>4, BootstrapBoot, TokenReadyBoot, PanicBoot, NodeUpdatesBoot,
     WalkDoneBoot, PrimariesReadyBoot, RegistrationsWrittenBoot, LinkingBoot, CompletedBoot
     DEF ProcessStep

LEMMA OperatorBoot ==
    ASSUME Inv, BootInv, Operator
    PROVE  BootInv'
<1> USE DEF BootInv
<1>c. cur \in Clusters
  BY DEF Inv, TypeOK, TypeWalk
<1>1. ASSUME NEW po \in BOOLEAN, StartUp(po) PROVE BootInv'
  <2>1. PICK cs : cs = running'
    OBVIOUS
  <2>2. /\ Enter("waitForLeader", Primary, cs) /\ Primary \in Clusters
        /\ stage' = "waitForLeader" /\ cur' = Primary /\ running' = Processed'
        /\ UNCHANGED <<known, agentTok>>
    BY <1>1, <2>1, TopologyAssumption
       DEF StartUp, Enter, Processed, TopologyAssumption, acls
  <2>3. "waitForLeader" \notin ClusterStages
    BY MasterLoopFacts DEF MasterLoop
  <2>4. TokensInv'
    BY <2>2, <2>3, ReachedOutside, EnterTokens
  <2>5. MasterInv' /\ LoopInv' /\ LinkInv'
    BY <2>2, <2>3 DEF MasterInv, LoopInv, LinkInv
  <2> QED
    BY <2>2, <2>4, <2>5, InjectedKept
<1>2. CASE Interrupt
  BY <1>2, EndBoot DEF Interrupt
<1>3. CASE TokenReadSelfError
  <2>1. TokensInv' /\ LoopInv' /\ LinkInv' /\ InjectedTokensWork'
    BY <1>3, <1>c, MasterLoopEnter
       DEF TokenReadSelfError, GoTo, world, Memory, MasterLoop, MasterStages
  <2>2. MasterInv'
    BY <1>3 DEF TokenReadSelfError, GoTo, Enter, MasterInv, Memory, Active
  <2> QED
    BY <2>1, <2>2
<1>4. CASE DownDestroy \/ DownFiles \/ DownInterrupted
  <2>1. stage' \in {"down", "idle", "failed"} /\ cur' = cur
    BY <1>4 DEF DownDestroy, DownFiles, DownInterrupted, Walk
  <2>2. stage' \notin ClusterStages \cup PlanStages \cup WaitStages \cup Active \cup {"done"}
    BY <2>1 DEF ClusterStages, PlanStages, CreateStages, WaitStages, PublishStages, Active
  <2>3. TokensInv'
    BY <1>c, <2>1, <2>2, ReachedOutside DEF TokensInv
  <2>4. MasterInv' /\ LoopInv' /\ LinkInv'
    BY <2>1, <2>2 DEF MasterInv, LoopInv, LinkInv
  <2>5. InjectedTokensWork'
    <3>1. CASE DownDestroy
      BY <3>1 DEF DownDestroy, InjectedTokensWork
    <3>2. CASE DownFiles \/ DownInterrupted
      BY <3>2, InjectedKept DEF DownFiles, DownInterrupted, world
    <3> QED
      BY <1>4, <3>1, <3>2
  <2> QED
    BY <2>3, <2>4, <2>5
<1> QED
  BY <1>1, <1>2, <1>3, <1>4 DEF Operator

(* Consul and the sidecars only add to what has been achieved.             *)
LEMMA GrowthBoot ==
    ASSUME Inv, BootInv, Grows, UNCHANGED <<process, masterFile, running, agentTok>>
    PROVE  BootInv'
<1> USE DEF BootInv
<1>1. UNCHANGED <<stage, primaryOnly, cur, left, todo, tok, awaiting, masterToken, mem>>
  BY DEF process
<1>2. PICK st, c : st = stage /\ c = cur /\ c \in Clusters
  BY DEF Inv, TypeOK, TypeWalk
<1>3. TokensInv'
  <2>1. Reached(st, c)'
    BY <1>2, ReachedStays DEF TokensInv
  <2>2. ASSUME st \in PlanStages, NEW t \in Work(st, c) \ (todo' \cup {tok'})
        PROVE  Handled(st, c, t)'
    <3>1. Handled(st, c, t)
      BY <1>1, <1>2, <2>2 DEF TokensInv
    <3> QED
      BY <1>2, <3>1, HandledStays
  <2> QED
    BY <1>1, <1>2, <2>1, <2>2 DEF TokensInv
<1>4. MasterInv'
  BY <1>1, MasterKept DEF Grows
<1>5. LoopInv'
  BY <1>1, LoopKept DEF Inv, TypeOK
<1>6. LinkInv'
  BY <1>1 DEF LinkInv, Grows
<1> QED
  BY <1>3, <1>4, <1>5, <1>6, InjectedKept DEF Grows

LEMMA ConsulStepBoot ==
    ASSUME Inv, BootInv, NEW c \in Clusters, ConsulStep(c)
    PROVE  BootInv'
<1> SUFFICES Grows /\ UNCHANGED <<process, masterFile, running, agentTok>>
  BY GrowthBoot
<1> USE DEF Grows, process, disk, acls
<1>1. ASSUME NEW s \in Servers[c], ElectLeader(c, s)
      PROVE  Grows /\ UNCHANGED <<process, masterFile, running, agentTok>>
  BY <1>1 DEF ElectLeader
<1>2. ASSUME NEW s \in Servers[c], NEW t \in TokensAt(c), Replicate(c, s, t)
      PROVE  Grows /\ UNCHANGED <<process, masterFile, running, agentTok>>
  BY <1>2 DEF Replicate, Inv, TypeOK, TypeWorld
<1>3. ASSUME NEW t \in AgentTokens(c), AgentSync(c, t)
      PROVE  Grows /\ UNCHANGED <<process, masterFile, running, agentTok>>
  BY <1>3 DEF AgentSync
<1>4. ASSUME NEW t \in PublishedTokens(c), SidecarRegister(c, t) \/ SidecarPass(c, t)
      PROVE  Grows /\ UNCHANGED <<process, masterFile, running, agentTok>>
  BY <1>4 DEF SidecarRegister, SidecarPass
<1> QED
  BY <1>1, <1>2, <1>3, <1>4 DEF ConsulStep

-----------------------------------------------------------------------------
LEMMA InitBoot == Init => BootInv
<1> SUFFICES ASSUME Init PROVE BootInv
  OBVIOUS
<1>1. stage = "idle" /\ cur = Primary /\ Primary \in Clusters
      /\ "idle" \notin ClusterStages \cup PlanStages \cup WaitStages \cup Active \cup {"done"}
  BY TopologyAssumption DEF Init, TopologyAssumption, ClusterStages, PlanStages, CreateStages,
     WaitStages, PublishStages, Active
<1>2. TokensInv
  BY <1>1, ReachedOutside DEF TokensInv
<1>3. MasterInv /\ LoopInv /\ LinkInv
  BY <1>1 DEF MasterInv, LoopInv, LinkInv
<1>4. InjectedTokensWork
  BY DEF Init, InjectedTokensWork
<1> QED
  BY <1>2, <1>3, <1>4 DEF BootInv

LEMMA BootInductive == Inv /\ BootInv /\ [Next]_vars => BootInv'
<1> SUFFICES ASSUME Inv, BootInv, [Next]_vars PROVE BootInv'
  OBVIOUS
<1>1. CASE UNCHANGED vars
  <2>1. Grows /\ UNCHANGED <<process, masterFile, running, agentTok>>
    BY <1>1, AllKept DEF vars, process, disk, world, Memory
  <2> QED
    BY <2>1, GrowthBoot
<1>2. \A c \in Clusters : ConsulStep(c) => BootInv'
  BY ConsulStepBoot
<1> QED
  BY <1>1, <1>2, ProcessStepBoot, OperatorBoot DEF Next

(* BootInv holds in every reachable state.                                 *)
THEOREM BootInvHolds == Spec => []BootInv
<1>1. Init => BootInv
  BY InitBoot
<1>2. Inv /\ BootInv /\ [Next]_vars => BootInv'
  BY BootInductive
<1> QED
  BY <1>1, <1>2, InvHolds, PTL DEF Spec

(* An agent never holds a token that a server of its cluster does not      *)
(* resolve: createAgentTokensDelayWrite has come before injectAgentTokens  *)
(* in every order of calls, for every topology.                            *)
THEOREM InjectedTokensAlwaysWork == Spec => []InjectedTokensWork
BY BootInvHolds, PTL DEF BootInv

(* A run that reports success has finished every cluster it booted,        *)
(* whatever earlier runs were interrupted in, for every topology.          *)
THEOREM BootAlwaysComplete == Spec => []BootComplete
<1>1. Inv /\ BootInv => BootComplete
  <2> SUFFICES ASSUME Inv, BootInv, stage = "done" PROVE BootComplete
    BY DEF BootComplete
  <2>1. \A c \in running : Ready(c)
    BY DEF BootInv, LoopInv
  <2>2. AllServiceTokens \subseteq regFiles
    BY DEF BootInv, LinkInv
  <2>3. \A c \in running : ServiceTokens(c) \subseteq regFiles
    BY <2>2, PublishedFacts DEF Inv, TypeOK, TypeWorld
  <2>4. ~primaryOnly => \A c \in Secondaries : Servers[c] \subseteq replTok
    BY DEF BootInv, LinkInv, SecondaryServers
  <2>5. Peered => Clusters \ {Primary} \subseteq generated \cap established
    BY DEF BootInv, LinkInv, Peers
  <2> QED
    BY <2>1, <2>3, <2>4, <2>5 DEF BootComplete, Ready
<1> QED
  BY <1>1, InvHolds, BootInvHolds, PTL

(* The panic of the first run loses no token: it is on disk by then.       *)
THEOREM PanicAlwaysKeepsMasterToken == Spec => []PanicKeepsMasterToken
<1>1. BootInv => PanicKeepsMasterToken
  BY DEF BootInv, MasterInv, PanicKeepsMasterToken, MasterSecret
<1> QED
  BY <1>1, BootInvHolds, PTL

(* With a configured initial_master_token no assertion of the bring-up     *)
(* ever fails: clients and remembered tokens are there when needed.        *)
THEOREM ConfiguredTokenNeverPanics == Spec => [](InitialToken => NoPanic)
<1>1. BootInv => (InitialToken => NoPanic)
  BY DEF BootInv, MasterInv, NoPanic
<1> QED
  BY <1>1, BootInvHolds, PTL

-----------------------------------------------------------------------------
(* BringUp implements TokenHandoff.                                        *)

Minted  == store \cap Published
Usable  == {p \in Published \X AllServers : p[1] \in known[p[2]]}
InFiles == {t \in Published : cache[t] = life}

LEMMA PublishedKinds ==
    /\ \A t \in Published : /\ t.kind \in {"mesh-gateway", "service"}
                            /\ t.cluster \in Clusters /\ t \in PublishedTokens(t.cluster)
                            /\ Servers[t.cluster] \subseteq AllServers
    /\ \A c \in Clusters : Master(c) \notin Published
<1>1. ASSUME NEW c \in Clusters, NEW t \in PublishedTokens(c)
      PROVE  t.kind \in {"mesh-gateway", "service"} /\ t.cluster = c
  BY <1>1 DEF PublishedTokens, MeshGateway, ServiceTokens, Token
<1>2. \A t \in Published : \E c \in Clusters : t \in PublishedTokens(c)
  BY DEF Published
<1>3. \A c \in Clusters : Master(c).kind = "master"
  BY DEF Master, Token
<1> QED
  BY <1>1, <1>2, <1>3, PublishedFacts

(* Steps that neither mint nor spread nor publish.                         *)
LEMMA HandoffStutter ==
    ASSUME UNCHANGED <<Minted, known, InFiles>>
    PROVE  UNCHANGED Handoff!vars
BY DEF Handoff!vars, Minted, Usable, InFiles

LEMMA HandoffUntouched ==
    ASSUME UNCHANGED <<store, known, cache, life>>
    PROVE  UNCHANGED Handoff!vars
BY HandoffStutter DEF Minted, InFiles

LEMMA HandoffMint ==
    ASSUME NEW t, store' = store \cup {t}, UNCHANGED <<known, cache, life>>
    PROVE  Handoff!Next \/ UNCHANGED Handoff!vars
<1>1. CASE t \in Published
  BY <1>1 DEF Handoff!Next, Handoff!Mint
<1>2. CASE t \notin Published
  BY <1>2, HandoffStutter DEF Minted, InFiles
<1> QED
  BY <1>1, <1>2

LEMMA HandoffPublish ==
    ASSUME Inv, TokenReady
    PROVE  Handoff!Next \/ UNCHANGED Handoff!vars
<1>1. UNCHANGED <<store, known, life>>
  BY DEF TokenReady, world
<1>2. CASE stage \in PublishStages
  <2>1. PICK t, c : t = tok /\ c = cur
    OBVIOUS
  <2>2. /\ c \in Clusters /\ t \in PublishedTokens(c) /\ t \in Published
        /\ \A s \in Servers[c] : t \in known[s]
    BY <1>2, <2>1, PublishedFacts DEF TokenReady, Inv, WaitInv, TypeOK, TypeWalk, WaitStages
  <2>3. t.cluster = c
    BY <2>2, PublishedKinds, PublishedForOneCluster
  <2>4. cache' = [cache EXCEPT ![t] = life]
    BY <1>2, <2>1 DEF TokenReady
  <2>5. InFiles' = InFiles \cup {t}
    BY <1>1, <2>2, <2>4 DEF InFiles, Inv, TypeOK, TypeDisk
  <2>6. \A s \in Servers[t.cluster] : <<t, s>> \in Usable
    BY <2>2, <2>3, PublishedFacts DEF Usable
  <2>7. Handoff!Publish(t)
    BY <1>1, <2>2, <2>5, <2>6 DEF Handoff!Publish, Usable, InFiles
  <2> QED
    BY <2>2, <2>7 DEF Handoff!Next
<1>3. CASE stage \notin PublishStages
  BY <1>1, <1>3, HandoffUntouched DEF TokenReady
<1> QED
  BY <1>2, <1>3

LEMMA HandoffSpread ==
    ASSUME Inv, NEW c \in Clusters, NEW s \in Servers[c], NEW t \in TokensAt(c),
           Replicate(c, s, t)
    PROVE  Handoff!Next \/ UNCHANGED Handoff!vars
<1>1. /\ UNCHANGED <<store, cache, life>> /\ s \in AllServers /\ t \in store
      /\ known' = [known EXCEPT ![s] = @ \cup {t}] /\ known \in [AllServers -> SUBSET Tokens]
  BY PublishedFacts DEF Replicate, disk, Inv, TypeOK, TypeWorld
<1>2. CASE t \in Published
  <2>1. t.cluster = c
    BY <1>2, PublishedKinds
       DEF TokensAt, Master, AgentTokens, PublishedTokens, MeshGateway, ServiceTokens,
           Replication, Token
  <2>2. Usable' = Usable \cup {<<t, s>>}
    BY <1>1, <1>2 DEF Usable
  <2>3. Handoff!Spread(t, s)
    BY <1>1, <1>2, <2>2 DEF Handoff!Spread, Usable
  <2> QED
    BY <1>2, <2>1, <2>3 DEF Handoff!Next
<1>3. CASE t \notin Published
  <2>1. Usable' = Usable
    BY <1>1, <1>3 DEF Usable
  <2> QED
    BY <1>1, <2>1 DEF Handoff!vars, Usable
<1> QED
  BY <1>2, <1>3

LEMMA HandoffDown ==
    ASSUME Inv, DownInv, DownDestroy \/ DownFiles \/ DownInterrupted
    PROVE  Handoff!Next \/ UNCHANGED Handoff!vars
<1> USE DEF Inv, TypeOK, TypeDisk, TypeWorld
<1>1. CASE DownDestroy
  <2>1. Minted' = {} /\ Usable' = {} /\ InFiles' = {}
    BY <1>1 DEF DownDestroy, Minted, Usable, InFiles, disk
  <2>2. Handoff!Destroy
    BY <2>1 DEF Handoff!Destroy, Minted, Usable, InFiles
  <2> QED
    BY <2>2 DEF Handoff!Next
<1>2. CASE DownFiles \/ DownInterrupted
  <2>1. stage = "down" /\ UNCHANGED <<store, known, life>>
        /\ \A t \in Published : cache'[t] \in {0, cache[t]}
    BY <1>2 DEF DownFiles, DownInterrupted, world
  <2>2. InFiles = {} /\ InFiles' = {}
    BY <2>1 DEF InFiles, DownInv
  <2> QED
    BY <2>1, <2>2, HandoffStutter DEF Minted
<1> QED
  BY <1>1, <1>2

LEMMA HandoffProcess ==
    ASSUME Inv, ProcessStep
    PROVE  Handoff!Next \/ UNCHANGED Handoff!vars
<1> DEFINE Goal == Handoff!Next \/ UNCHANGED Handoff!vars
<1> USE DEF disk, world, acls
<1>1. ASSUME Bootstrap PROVE Goal
  <2>1. CASE ACLBootstrap
    <3>1. PICK t : t = Master(cur)
      OBVIOUS
    <3> QED
      BY <2>1, <3>1, HandoffMint DEF ACLBootstrap
  <2>2. CASE ~ACLBootstrap
    <3>1. UNCHANGED <<store, known, cache, life>>
      BY <1>1, <2>2 DEF Bootstrap, WaitForLeader, LoadMasterToken, LeadersElected,
         IsACLBootstrapped, TokenReadSelf, ACLBootstrapRefused, SaveMaster, Bootstrapped
    <3> QED
      BY <3>1, HandoffUntouched
  <2> QED
    BY <2>1, <2>2
<1>2. ASSUME NEW c \in Clusters, CreateClients(c) \/ WaitForCompletion(c) PROVE Goal
  BY <1>2, HandoffUntouched DEF CreateClients, WaitForCompletion
<1>3. ASSUME NEW t \in Tokens, WalkToken(t) PROVE Goal
  <2>1. CASE CreateOrUpdateToken(t)
    BY <2>1, HandoffMint DEF CreateOrUpdateToken
  <2>2. CASE BeginWait(t) \/ InjectAgentToken(t) \/ WriteServiceRegistrationFile(t)
    BY <2>2, HandoffUntouched DEF BeginWait, InjectAgentToken, WriteServiceRegistrationFile
  <2> QED
    BY <1>3, <2>1, <2>2 DEF WalkToken
<1>4. ASSUME NEW s \in AllServers, WalkServer(s) PROVE Goal
  BY <1>4, HandoffUntouched DEF WalkServer, WaitForTokenOnServer, InjectReplicationToken
<1>5. ASSUME Panic \/ NodeUpdates \/ WalkDone \/ PrimariesReady \/ RegistrationsWritten
             \/ Completed
      PROVE  Goal
  BY <1>5, HandoffUntouched
     DEF Panic, NodeUpdates, WalkDone, PrimariesReady, RegistrationsWritten, Completed
<1>6. ASSUME Linking PROVE Goal
  <2>1. UNCHANGED <<store, known, cache, life>>
    BY <1>6 DEF Linking, ReplicationInjected, SecondariesReady, WaitForCrossDatacenterKV,
       AlreadyPeered, GeneratePeeringToken, EstablishPeering, PeersLinked
  <2> QED
    BY <2>1, HandoffUntouched
<1> QED
  BY <1>1, <1>2, <1>3, <1>4, <1>5, <1>6, HandoffPublish DEF ProcessStep

LEMMA HandoffStep ==
    Inv /\ DownInv /\ [Next]_vars => [Handoff!Next]_(Handoff!vars)
<1> SUFFICES ASSUME Inv, DownInv, [Next]_vars
             PROVE  Handoff!Next \/ UNCHANGED Handoff!vars
  OBVIOUS
<1> USE DEF disk, world, acls
<1>1. ASSUME Operator PROVE Handoff!Next \/ UNCHANGED Handoff!vars
  <2>1. CASE DownDestroy \/ DownFiles \/ DownInterrupted
    BY <2>1, HandoffDown
  <2>2. CASE (\E po \in BOOLEAN : StartUp(po)) \/ Interrupt \/ TokenReadSelfError
    BY <2>2, HandoffUntouched DEF StartUp, Interrupt, TokenReadSelfError
  <2> QED
    BY <1>1, <2>1, <2>2 DEF Operator
<1>2. ASSUME NEW c \in Clusters, ConsulStep(c) PROVE Handoff!Next \/ UNCHANGED Handoff!vars
  <2>1. ASSUME NEW s \in Servers[c], ElectLeader(c, s)
        PROVE  Handoff!Next \/ UNCHANGED Handoff!vars
    <3>1. UNCHANGED <<known, cache, life>>
          /\ (store' = store \cup {Master(c)} \/ store' = store)
      BY <2>1 DEF ElectLeader
    <3> QED
      BY <3>1, HandoffMint, HandoffUntouched
  <2>2. \A s \in Servers[c] : \A t \in TokensAt(c) :
           Replicate(c, s, t) => Handoff!Next \/ UNCHANGED Handoff!vars
    BY HandoffSpread
  <2>3. ASSUME NEW t, AgentSync(c, t) \/ SidecarRegister(c, t) \/ SidecarPass(c, t)
        PROVE  UNCHANGED Handoff!vars
    BY <2>3, HandoffUntouched DEF AgentSync, SidecarRegister, SidecarPass
  <2> QED
    BY <1>2, <2>1, <2>2, <2>3 DEF ConsulStep
<1>3. CASE UNCHANGED vars
  BY <1>3, HandoffUntouched DEF vars
<1> QED
  BY <1>1, <1>2, <1>3, HandoffProcess DEF Next

(* After `down` has destroyed the volumes no file speaks of the new life:  *)
(* nothing but `down` leads there, and no run works meanwhile.             *)
LEMMA PlannedStages ==
    ASSUME Inv, NEW c \in Clusters
    PROVE  /\ stage \in PlanStages => Plan(cur)[stage] # "down"
           /\ CreateClients(c) => Plan(c)[stage] # "down"
<1>1. "down" \notin Active
  BY DEF Active, CreateStages, WaitStages, PublishStages
<1>2. stage \in PlanStages => Plan(cur)[stage] \in Active
  BY PlanNext DEF Enterable
<1>3. ASSUME CreateClients(c) PROVE Plan(c)[stage] \in Active
  BY <1>3, FirstStageFacts, AuthorityIsNotSecondary, SecondaryFacts
     DEF CreateClients, Inv, StageInv
<1> QED
  BY <1>1, <1>2, <1>3

LEMMA ProcessAvoidsDown ==
    ASSUME Inv, ProcessStep
    PROVE  stage # "down" /\ stage' # "down"
<1> USE DEF GoTo, Enter, End
<1>1. ASSUME Bootstrap PROVE stage # "down" /\ stage' # "down"
  BY <1>1 DEF Bootstrap, WaitForLeader, LoadMasterToken, LeadersElected, IsACLBootstrapped,
     TokenReadSelf, ACLBootstrap, ACLBootstrapRefused, SaveMaster, Bootstrapped
<1>2. ASSUME NEW c \in Clusters, CreateClients(c) \/ WaitForCompletion(c)
      PROVE  stage # "down" /\ stage' # "down"
  BY <1>2, PlannedStages DEF CreateClients, WaitForCompletion
<1>3. "down" \notin WaitStages \cup CreateStages \cup PlanStages
  BY DEF WaitStages, PublishStages, CreateStages, PlanStages
<1>4. ASSUME NEW t \in Tokens, WalkToken(t) PROVE stage # "down" /\ stage' # "down"
  BY <1>3, <1>4 DEF WalkToken, CreateOrUpdateToken, BeginWait, InjectAgentToken,
     WriteServiceRegistrationFile
<1>5. ASSUME NEW s \in AllServers, WalkServer(s) PROVE stage # "down" /\ stage' # "down"
  BY <1>3, <1>5 DEF WalkServer, WaitForTokenOnServer, InjectReplicationToken
<1>6. ASSUME TokenReady \/ Panic \/ PrimariesReady \/ RegistrationsWritten \/ Completed
      PROVE  stage # "down" /\ stage' # "down"
  BY <1>3, <1>6 DEF TokenReady, Panic, AssertionFails, PrimariesReady, RegistrationsWritten,
     Completed
<1>7. ASSUME NodeUpdates \/ WalkDone PROVE stage # "down" /\ stage' # "down"
  <2>1. stage \in PlanStages
    BY <1>7 DEF NodeUpdates, WalkDone, PlanStages
  <2>2. Plan(cur)[stage] # "down"
    BY <2>1, TopologyAssumption, PlannedStages DEF TopologyAssumption
  <2> QED
    BY <1>3, <1>7, <2>1, <2>2 DEF NodeUpdates, WalkDone
<1>8. ASSUME Linking PROVE stage # "down" /\ stage' # "down"
  BY <1>8 DEF Linking, ReplicationInjected, SecondariesReady, WaitForCrossDatacenterKV,
     AlreadyPeered, GeneratePeeringToken, EstablishPeering, PeersLinked
<1> QED
  BY <1>1, <1>2, <1>4, <1>5, <1>6, <1>7, <1>8 DEF ProcessStep

LEMMA DownInductive == Inv /\ DownInv /\ [Next]_vars => DownInv'
<1> SUFFICES ASSUME Inv, DownInv, [Next]_vars, stage' = "down"
             PROVE  \A t \in Published : cache'[t] # life'
  BY DEF DownInv
<1>1. CASE DownDestroy
  BY <1>1 DEF DownDestroy, disk, Inv, TypeOK, TypeDisk, TypeWorld
<1>2. CASE UNCHANGED <<stage, cache, life>>
  BY <1>2 DEF DownInv
<1>3. ASSUME Operator, ~DownDestroy PROVE FALSE
  BY <1>3 DEF Operator, StartUp, Interrupt, TokenReadSelfError, DownFiles, DownInterrupted,
     GoTo, Enter, End
<1>4. ASSUME NEW c \in Clusters, ConsulStep(c) PROVE UNCHANGED <<stage, cache, life>>
  BY <1>4 DEF ConsulStep, ElectLeader, Replicate, AgentSync, SidecarRegister, SidecarPass,
     process, disk
<1>5. UNCHANGED vars => UNCHANGED <<stage, cache, life>>
  BY DEF vars, process, disk, world
<1> QED
  BY <1>1, <1>2, <1>3, <1>4, <1>5, ProcessAvoidsDown DEF Next

(* The token files are handed over as TokenHandoff promises: no token is   *)
(* published before every server it is meant for resolves it, and nothing  *)
(* but the destruction of the environment takes a token back.              *)
THEOREM ImplementsHandoff == Spec => HandoffSpec
<1>1. Init => Handoff!Init /\ DownInv
  BY DEF Init, Handoff!Init, DownInv
<1>2. Inv /\ DownInv /\ [Next]_vars => DownInv'
  BY DownInductive
<1>3. Inv /\ DownInv /\ [Next]_vars => [Handoff!Next]_(Handoff!vars)
  BY HandoffStep
<1> QED
  BY <1>1, <1>2, <1>3, InvHolds, PTL DEF Spec, HandoffSpec, Handoff!Spec

-----------------------------------------------------------------------------
(* What the waits of a run need.                                           *)

(* The clusters whose leaders a run relies on have them.                   *)
LeaderInv ==
    /\ \A c \in Clusters : leader[c] \in Servers[c] \cup {NoServer}
    /\ InitialToken => \A c \in Authorities : leader[c] # NoServer => Master(c) \in store
    /\ stage = "waitForLeader" => \A c \in running \ left : leader[c] # NoServer
    /\ stage \in Active \ {"waitForLeader"} => \A c \in running : leader[c] # NoServer

(* Which secret the process and the file hold.                             *)
MintedInv ==
    /\ InitialToken => {masterToken, masterFile} \subseteq {0, 1}
    /\ ~InitialToken =>
          /\ masterToken <= life /\ masterFile <= life
          /\ masterToken = life \/ masterFile = life => Master(Primary) \in store
    /\ stage \notin Active => masterToken = 0
    /\ stage \in Active \ {"waitForLeader", "bootstrap", "isACLBootstrapped", "aclBootstrap"} =>
          masterToken = MasterSecret
    /\ stage = "bootstrap" => left = Authorities \/ masterToken = MasterSecret
    /\ stage = "down" /\ ~InitialToken => Master(Primary) \notin store

(* Which tokens a walk visits, and which clusters a run works on.          *)
FlowInv ==
    /\ stage \in PlanStages =>
          todo \subseteq Work(stage, cur) /\ tok \in Work(stage, cur) \cup {NoToken}
    /\ stage \in {"createReplication", "waitReplication"} => ~Peered
    /\ primaryOnly => ~Peered
    /\ stage \in {"injectReplication", "initSecondary", "crossKV"}
       \/ (stage \in ClusterStages /\ Secondary(cur)) => ~primaryOnly
    /\ stage \in {"waitForLeader", "waitForCompletion"} => left \subseteq running

SupplyInv == LeaderInv /\ MintedInv /\ FlowInv

(* Once the loop over the authorities is behind it, a run touches neither  *)
(* the containers nor the management token, and does not come back.        *)
LEMMA PlanBeyond ==
    ASSUME NEW c \in Clusters, NEW st \in StagesOf(c)
    PROVE  /\ Plan(c)[st] \in Active \ (MasterLoop \ {"bootstrap"})
           /\ Plan(c)[st] = "bootstrap" => st = "waitInitialManagement"
           /\ Plan(c)[st] \notin {"createReplication", "injectReplication", "crossKV",
                                  "waitForCompletion"}
           /\ Plan(c)[st] = "waitReplication" => st = "createReplication"
           /\ Plan(c)[st] = "initSecondary" => Secondary(c)
<1> USE DEF Plan, Active, CreateStages, WaitStages, PublishStages, MasterLoop, MasterStages
<1>1. CASE Secondary(c)
  BY <1>1 DEF StagesOf, SecondaryStages, SecondaryPlan
<1>2. CASE ~Secondary(c)
  BY <1>2 DEF StagesOf, PrimaryStages, PrimaryPlan
<1> QED
  BY <1>1, <1>2

Beyond == Active \ (MasterLoop \ {"bootstrap"})

LEMMA BeyondBootstrap ==
    ASSUME Inv, ProcessStep, ~Bootstrap
    PROVE  /\ stage \in Active \ MasterLoop
           /\ UNCHANGED <<life, running, leader, primaryOnly, masterFile>> /\ store \subseteq store'
           /\ \/ stage' \in {"done", "panic"} /\ masterToken' = 0
              \/ /\ stage' \in Beyond /\ masterToken' = masterToken
                 /\ stage' = "bootstrap" => stage = "waitInitialManagement"
<1> DEFINE Goal ==
              /\ stage \in Active \ MasterLoop
              /\ UNCHANGED <<life, running, leader, primaryOnly, masterFile>> /\ store \subseteq store'
              /\ \/ stage' \in {"done", "panic"} /\ masterToken' = 0
                 \/ /\ stage' \in Beyond /\ masterToken' = masterToken
                    /\ stage' = "bootstrap" => stage = "waitInitialManagement"
<1> USE DEF Beyond, Memory, disk, world, acls
<1>a. /\ LinkStages \cup PlanStages \cup {"initPrimary"} \subseteq Active \ MasterLoop
      /\ CreateStages \cup WaitStages \cup {"injectAgents", "nodeUpdates"} = PlanStages
  BY DEF LinkStages, PlanStages, MasterLoop, MasterStages, Active, CreateStages, WaitStages,
         PublishStages
<1>b. /\ {"writeRegistrations", "injectReplication", "initSecondary", "crossKV", "peer",
          "establish", "waitForCompletion"} = LinkStages
      /\ "bootstrap" \notin LinkStages \cup PlanStages
  BY DEF LinkStages, PlanStages, CreateStages, WaitStages, PublishStages
<1>1. ASSUME NEW c \in Clusters, CreateClients(c) PROVE Goal
  <2>1. Plan(c)[stage] \in StagesOf(c) /\ Plan(c)[stage] \in PlanStages
    BY <1>1, FirstStageFacts, AuthorityIsNotSecondary, SecondaryFacts
       DEF CreateClients, Inv, StageInv
  <2> QED
    BY <1>1, <1>a, <1>b, <2>1 DEF CreateClients, Enter
<1>2. ASSUME NEW c \in Clusters, WaitForCompletion(c) PROVE Goal
  BY <1>2, <1>a, <1>b DEF WaitForCompletion
<1>3. ASSUME NEW t \in Tokens, WalkToken(t) PROVE Goal
  BY <1>3, <1>a, <1>b DEF WalkToken, CreateOrUpdateToken, BeginWait, InjectAgentToken,
     WriteServiceRegistrationFile
<1>4. ASSUME NEW s \in AllServers, WalkServer(s) PROVE Goal
  BY <1>4, <1>a, <1>b DEF WalkServer, WaitForTokenOnServer, InjectReplicationToken
<1>5. CASE TokenReady
  BY <1>5, <1>a, <1>b DEF TokenReady
<1>6. CASE Panic
  BY <1>6, <1>a, <1>b DEF Panic, AssertionFails, End
<1>7. CASE NodeUpdates \/ WalkDone
  <2>1. stage \in PlanStages /\ cur \in Clusters
    BY <1>7, <1>a DEF NodeUpdates, WalkDone, Inv, TypeOK, TypeWalk
  <2>2. stage \in StagesOf(cur)
    BY <2>1 DEF Inv, StageInv
  <2> QED
    BY <1>7, <1>a, <1>b, <2>1, <2>2, PlanBeyond DEF NodeUpdates, WalkDone, GoTo, Enter
<1>8. CASE PrimariesReady \/ RegistrationsWritten
  BY <1>8, <1>a, <1>b DEF PrimariesReady, RegistrationsWritten, GoTo, Enter
<1>9. CASE Linking
  BY <1>9, <1>a, <1>b DEF Linking, ReplicationInjected, SecondariesReady, GoTo, Enter,
     WaitForCrossDatacenterKV, AlreadyPeered, GeneratePeeringToken, EstablishPeering, PeersLinked
<1>10. CASE Completed
  BY <1>10, <1>a, <1>b DEF Completed, End
<1> QED
  BY <1>1, <1>2, <1>3, <1>4, <1>5, <1>6, <1>7, <1>8, <1>9, <1>10 DEF ProcessStep

LEMMA LeaderKept ==
    ASSUME Inv, BootInv, LeaderInv, [Next]_vars
    PROVE  LeaderInv'
<1>a. Authorities \subseteq Clusters
  BY ClusterKinds
<1>1. CASE ProcessStep /\ ~Bootstrap
  <2>1. stage \in Active \ {"waitForLeader"} /\ stage' # "waitForLeader"
        /\ UNCHANGED <<running, leader>> /\ store \subseteq store'
    BY <1>1, BeyondBootstrap DEF Beyond, MasterLoop
  <2> QED
    BY <2>1 DEF LeaderInv
<1>2. CASE Bootstrap
  <2>1. ASSUME NEW c \in Clusters, WaitForLeader(c) PROVE LeaderInv'
    BY <2>1 DEF WaitForLeader, LeaderInv, world
  <2>2. CASE LeadersElected
    BY <2>2 DEF LeadersElected, Enter, LeaderInv, world
  <2>3. ASSUME ~LeadersElected, \A c \in Clusters : ~WaitForLeader(c) PROVE LeaderInv'
    <3>1. stage \in Active \ {"waitForLeader"} /\ stage' # "waitForLeader"
          /\ UNCHANGED <<running, leader>> /\ store \subseteq store'
      BY <1>2, <2>3 DEF Bootstrap, LoadMasterToken, IsACLBootstrapped, TokenReadSelf,
         ACLBootstrap, ACLBootstrapRefused, SaveMaster, Bootstrapped, GoTo, Enter, End, world,
         Active
    <3> QED
      BY <3>1 DEF LeaderInv
  <2> QED
    BY <1>2, <2>1, <2>2, <2>3 DEF Bootstrap
<1>3. CASE Operator
  <2>1. ASSUME NEW po \in BOOLEAN, StartUp(po) PROVE LeaderInv'
    BY <2>1, <1>a DEF StartUp, Enter, LeaderInv, acls
  <2>2. CASE Interrupt \/ TokenReadSelfError
    <3>1. stage \in Active \ {"waitForLeader"} \/ stage' \notin Active
      BY <2>2 DEF Interrupt, TokenReadSelfError, End, Active, CreateStages, WaitStages,
         PublishStages
    <3> QED
      BY <2>2, <3>1 DEF Interrupt, TokenReadSelfError, GoTo, Enter, End, LeaderInv, world
  <2>3. CASE DownDestroy \/ DownFiles \/ DownInterrupted
    <3>1. stage' \notin Active
      BY <2>3 DEF DownDestroy, DownFiles, DownInterrupted, Active, CreateStages, WaitStages,
         PublishStages
    <3>2. CASE DownDestroy
      BY <1>a, <3>1, <3>2 DEF DownDestroy, LeaderInv, Active
    <3>3. CASE DownFiles \/ DownInterrupted
      BY <3>1, <3>3 DEF DownFiles, DownInterrupted, LeaderInv, world, Active
    <3> QED
      BY <2>3, <3>2, <3>3
  <2> QED
    BY <1>3, <2>1, <2>2, <2>3 DEF Operator
<1>4. ASSUME NEW c \in Clusters, ConsulStep(c) PROVE LeaderInv'
  <2>1. ASSUME NEW s \in Servers[c], ElectLeader(c, s) PROVE LeaderInv'
    <3>1. s # NoServer /\ leader \in [Clusters -> AllServers \cup {NoServer}]
      BY TopologyAssumption DEF TopologyAssumption, Inv, TypeOK, TypeWorld
    <3>2. leader' = [leader EXCEPT ![c] = s] /\ UNCHANGED <<stage, left, running>>
          /\ store \subseteq store'
      BY <2>1 DEF ElectLeader, process
    <3>3. \A d \in Clusters : leader'[d] = IF d = c THEN s ELSE leader[d]
      BY <3>1, <3>2
    <3>4. InitialToken /\ c \in Authorities => Master(c) \in store'
      BY <2>1, AuthorityIsNotSecondary DEF ElectLeader
    <3> QED
      BY <1>a, <3>1, <3>2, <3>3, <3>4 DEF LeaderInv, Inv, TypeOK, TypeWorld, TypeWalk
  <2>2. ASSUME \A s \in Servers[c] : ~ElectLeader(c, s)
        PROVE  UNCHANGED <<stage, left, running, leader, store>>
    BY <1>4, <2>2 DEF ConsulStep, Replicate, AgentSync, SidecarRegister, SidecarPass,
       process, acls
  <2> QED
    BY <2>1, <2>2 DEF LeaderInv
<1>5. CASE UNCHANGED vars
  BY <1>5 DEF vars, process, world, LeaderInv
<1> QED
  BY <1>1, <1>2, <1>3, <1>4, <1>5 DEF Next, ProcessStep

LEMMA MintedKept ==
    ASSUME Inv, BootInv, LeaderInv, MintedInv, [Next]_vars
    PROVE  MintedInv'
<1>a. /\ life \in Nat \ {0} /\ masterToken \in Nat /\ masterFile \in Nat
      /\ Master(Primary) = Token("master", Primary, Primary)
  BY DEF Inv, TypeOK, TypeWorld, TypeDisk, TypeMemory, Master, Authority
<1>b. Peered => InitialToken
  BY TopologyAssumption DEF TopologyAssumption
<1>1. CASE ProcessStep /\ ~Bootstrap
  <2>1. /\ stage \in Active \ MasterLoop /\ life' = life /\ masterFile' = masterFile
        /\ store \subseteq store'
        /\ \/ stage' \in {"done", "panic"} /\ masterToken' = 0
           \/ stage' \in Beyond /\ masterToken' = masterToken
    BY <1>1, BeyondBootstrap
  <2>2. masterToken = MasterSecret /\ MasterSecret' = MasterSecret
    BY <2>1 DEF MintedInv, MasterLoop, MasterStages, MasterSecret
  <2>3. Beyond \subseteq Active /\ {"done", "panic", "down"} \cap Active = {}
    BY DEF Beyond, Active, CreateStages, WaitStages, PublishStages
  <2> QED
    BY <1>a, <2>1, <2>2, <2>3 DEF MintedInv
<1>2. CASE Bootstrap
  <2> USE DEF MintedInv, MasterSecret
  <2>1. ASSUME NEW c \in Clusters, WaitForLeader(c) PROVE MintedInv'
    BY <2>1 DEF WaitForLeader, Memory, disk, world
  <2>2. ASSUME NEW c \in Clusters, LoadMasterToken(c) PROVE MintedInv'
    <3>1. stage \in Active /\ {"aclBootstrap", "isACLBootstrapped"} \subseteq Active
      BY <2>2 DEF LoadMasterToken, Active
    <3> QED
      BY <1>a, <2>2, <3>1 DEF LoadMasterToken, Enter, world
  <2>3. CASE LeadersElected
    BY <2>3 DEF LeadersElected, Enter, Memory, disk, world, Active
  <2>4. CASE IsACLBootstrapped \/ TokenReadSelf
    BY <2>4 DEF IsACLBootstrapped, TokenReadSelf, Authorized, GoTo, Enter, Memory, disk, world,
       Active
  <2>5. CASE ACLBootstrap
    <3>1. ~InitialToken /\ Master(cur) = Master(Primary)
      BY <1>b, <2>5 DEF ACLBootstrap, BootInv, MasterInv, Master, Authority
    <3> QED
      BY <1>a, <2>5, <3>1 DEF ACLBootstrap, GoTo, Enter, disk, Active
  <2>6. CASE ACLBootstrapRefused
    BY <1>a, <2>6 DEF ACLBootstrapRefused, End, disk, world, Active, CreateStages, WaitStages,
       PublishStages
  <2>7. CASE SaveMaster
    BY <1>a, <2>7 DEF SaveMaster, BootInv, MasterInv, GoTo, Enter, Memory, world, Active,
       WaitStages
  <2>8. CASE Bootstrapped
    <3>1. Authorities # {}
      BY ClusterKinds
    <3> QED
      BY <2>8, <3>1 DEF Bootstrapped, Enter, Memory, disk, world, Active
  <2> QED
    BY <1>2, <2>1, <2>2, <2>3, <2>4, <2>5, <2>6, <2>7, <2>8 DEF Bootstrap
<1>3. CASE Operator
  <2> USE DEF MintedInv, MasterSecret
  <2>a. {"down", "idle", "failed"} \cap Active = {} /\ Ended \cap Active = {}
    BY DEF Active, CreateStages, WaitStages, PublishStages, Ended
  <2>1. ASSUME NEW po \in BOOLEAN, StartUp(po) PROVE MintedInv'
    BY <2>1 DEF StartUp, Enter, disk, acls, Active
  <2>2. CASE Interrupt
    BY <1>a, <2>2, <2>a DEF Interrupt, End, disk, world
  <2>3. CASE TokenReadSelfError
    BY <1>a, <2>3 DEF TokenReadSelfError, GoTo, Enter, Memory, world, Active
  <2>4. CASE DownDestroy
    BY <1>a, <2>4, <2>a DEF DownDestroy, Memory, disk
  <2>5. CASE DownFiles \/ DownInterrupted
    <3>1. stage = "down" /\ masterToken = 0 /\ masterFile' \in {0, masterFile}
          /\ UNCHANGED <<masterToken, life, store>> /\ stage' \in {"idle", "failed"}
      BY <2>5, <2>a DEF DownFiles, DownInterrupted, Memory, world
    <3> QED
      BY <1>a, <3>1, <2>a
  <2> QED
    BY <1>3, <2>1, <2>2, <2>3, <2>4, <2>5 DEF Operator
<1>4. ASSUME UNCHANGED <<stage, left, masterToken, masterFile, life>>, store \subseteq store',
             InitialToken \/ store' = store
      PROVE  MintedInv'
  BY <1>4 DEF MintedInv, MasterSecret
<1>5. ASSUME NEW c \in Clusters, ConsulStep(c)
      PROVE  /\ UNCHANGED <<stage, left, masterToken, masterFile, life>>
             /\ store \subseteq store' /\ (InitialToken \/ store' = store)
  BY <1>5 DEF ConsulStep, ElectLeader, Replicate, AgentSync, SidecarRegister, SidecarPass,
     process, disk, acls
<1>6. CASE UNCHANGED vars
  BY <1>4, <1>6 DEF vars, process, disk, world
<1> QED
  BY <1>1, <1>2, <1>3, <1>4, <1>5, <1>6 DEF Next, ProcessStep

(* Entering a stage, FlowInv needs to know of that stage only.             *)
LEMMA FlowEnter ==
    ASSUME NEW st, NEW c, NEW cs, Enter(st, c, cs), primaryOnly' => ~Peered,
           st \in {"createReplication", "waitReplication"} => ~Peered,
           st \in {"injectReplication", "initSecondary", "crossKV"}
           \/ (st \in ClusterStages /\ Secondary(c)) => ~primaryOnly',
           st \in {"waitForLeader", "waitForCompletion"} => cs \subseteq running'
    PROVE  FlowInv'
BY DEF FlowInv, Enter

LEMMA FlowProcess ==
    ASSUME Inv, BootInv, FlowInv, ProcessStep
    PROVE  FlowInv'
<1> USE DEF FlowInv
<1>1. CASE Bootstrap
  <2>1. ASSUME NEW c \in Clusters, WaitForLeader(c) PROVE FlowInv'
    BY <2>1, MasterLoopFacts DEF WaitForLeader, Memory, world, MasterLoop
  <2>2. ASSUME ~\E c \in Clusters : WaitForLeader(c) PROVE FlowInv'
    <3>1. /\ stage' \in (MasterLoop \ {"waitForLeader"})
                \cup {"waitInitialManagement", "initPrimary", "failed"}
          /\ primaryOnly' = primaryOnly
          /\ stage' = "waitInitialManagement" =>
                todo' = Work("waitInitialManagement", cur') /\ tok' = NoToken
      BY <1>1, <2>2 DEF Bootstrap, LoadMasterToken, LeadersElected, IsACLBootstrapped,
         TokenReadSelf, ACLBootstrap, ACLBootstrapRefused, SaveMaster, Bootstrapped, GoTo,
         Enter, End, Memory, MasterLoop, MasterStages
    <3>2. /\ {"waitInitialManagement", "initPrimary", "failed"} \cap ClusterStages = {}
          /\ {"initPrimary", "failed"} \cap PlanStages = {}
      BY DEF ClusterStages, PlanStages, CreateStages, WaitStages, PublishStages
    <3>3. stage' \notin ClusterStages /\ (stage' \in PlanStages => stage' = "waitInitialManagement")
      BY <3>1, <3>2, MasterLoopFacts
    <3>4. stage' \notin {"createReplication", "waitReplication", "injectReplication",
                        "initSecondary", "crossKV", "waitForLeader", "waitForCompletion"}
      BY <3>1 DEF MasterLoop, MasterStages
    <3> QED
      BY <3>1, <3>3, <3>4
  <2> QED
    BY <2>1, <2>2
<1>2. ASSUME NEW c \in Clusters, CreateClients(c) PROVE FlowInv'
  <2>1. PICK st, cs : st = Plan(c)[stage] /\ cs = left \ {c}
    OBVIOUS
  <2>2. Enter(st, c, cs) /\ primaryOnly' = primaryOnly
    BY <1>2, <2>1 DEF CreateClients
  <2>3. \/ stage = "initPrimary" /\ ~Secondary(c)
        \/ stage = "initSecondary" /\ Secondary(c)
    BY <1>2, AuthorityIsNotSecondary, SecondaryFacts DEF CreateClients, Inv, StageInv
  <2>4. st \in PlanStages /\ st # "waitReplication" /\ (st = "createReplication" => ~Peered)
    <3>1. /\ ~Secondary(c) => Plan(c)["initPrimary"] =
                IF Peered THEN "createMeshGateway" ELSE "createReplication"
          /\ Secondary(c) => Plan(c)["initSecondary"] = "createMeshGateway"
      BY DEF Plan, PrimaryPlan, SecondaryPlan
    <3> QED
      BY <2>1, <2>3, <3>1 DEF PlanStages, CreateStages
  <2>5. st \notin {"injectReplication", "initSecondary", "crossKV", "waitForLeader",
                   "waitForCompletion"}
    BY <2>4 DEF PlanStages, CreateStages, WaitStages, PublishStages
  <2> QED
    BY <2>2, <2>3, <2>4, <2>5, FlowEnter
<1>3. ASSUME NodeUpdates \/ WalkDone PROVE FlowInv'
  <2>1. PICK st, c, cs : /\ st = IF stage = "nodeUpdates" /\ ~(AgentTokens(cur) \subseteq registered)
                                 THEN "injectAgents" ELSE Plan(cur)[stage]
                         /\ c = cur /\ cs = left
    OBVIOUS
  <2>2. stage \in PlanStages /\ cur \in Clusters /\ stage \in StagesOf(cur)
    BY <1>3 DEF NodeUpdates, WalkDone, PlanStages, Inv, TypeOK, TypeWalk, StageInv
  <2>3. Enter(st, c, cs) /\ primaryOnly' = primaryOnly
    <3>1. "nodeUpdates" \notin CreateStages \cup WaitStages \cup {"injectAgents"}
      BY DEF CreateStages, WaitStages, PublishStages
    <3> QED
      BY <1>3, <2>1, <3>1 DEF NodeUpdates, WalkDone, GoTo, Memory
  <2>4. /\ st = "createReplication" => FALSE
        /\ st = "waitReplication" => ~Peered
        /\ st \notin {"injectReplication", "crossKV", "waitForLeader", "waitForCompletion"}
        /\ st = "initSecondary" => Secondary(cur)
    BY <2>1, <2>2, PlanBeyond DEF MasterLoop
  <2>5. Secondary(cur) => stage \in ClusterStages
    BY <2>2 DEF StagesOf, SecondaryStages, ClusterStages
  <2> QED
    BY <2>1, <2>3, <2>4, <2>5, FlowEnter
<1>4. ASSUME NEW t \in Tokens, WalkToken(t) PROVE FlowInv'
  <2>1. UNCHANGED <<stage, cur, left, primaryOnly, running>>
    BY <1>4 DEF WalkToken, CreateOrUpdateToken, BeginWait, InjectAgentToken,
       WriteServiceRegistrationFile, Memory, world
  <2>2. todo' \subseteq todo /\ tok' \in todo \cup {tok}
    BY <1>4 DEF WalkToken, CreateOrUpdateToken, BeginWait, InjectAgentToken,
       WriteServiceRegistrationFile
  <2> QED
    BY <2>1, <2>2
<1>5. ASSUME NEW s \in AllServers, WalkServer(s) PROVE FlowInv'
  BY <1>5 DEF WalkServer, WaitForTokenOnServer, InjectReplicationToken, Memory, world
<1>6. CASE TokenReady
  BY <1>6 DEF TokenReady, Memory, world
<1>7. CASE Panic \/ Completed
  <2>1. stage' \in {"panic", "done"} /\ primaryOnly' = primaryOnly
    BY <1>7 DEF Panic, Completed, End
  <2>2. {"panic", "done"} \cap PlanStages = {} /\ {"panic", "done"} \cap ClusterStages = {}
    BY DEF ClusterStages, PlanStages, CreateStages, WaitStages, PublishStages
  <2> QED
    BY <2>1, <2>2
<1>8. ASSUME NEW c \in Clusters, WaitForCompletion(c) PROVE FlowInv'
  BY <1>8 DEF WaitForCompletion, Memory, world
<1>9. ASSUME PrimariesReady \/ RegistrationsWritten \/ Linking PROVE FlowInv'
  <2>1. stage \in LinkStages \cup {"initPrimary"} /\ stage \notin ClusterStages
        /\ running = Processed
    <3>1. stage \in LinkStages \cup {"initPrimary"}
      BY <1>9 DEF PrimariesReady, RegistrationsWritten, Linking, ReplicationInjected,
         SecondariesReady, WaitForCrossDatacenterKV, AlreadyPeered, GeneratePeeringToken,
         EstablishPeering, PeersLinked, LinkStages
    <3> QED
      BY <3>1, LinkStageFacts DEF BootInv, LoopInv
  <2>2. /\ UNCHANGED <<running, primaryOnly>>
        /\ stage' \in LinkStages
        /\ stage' \in {"injectReplication", "initSecondary", "crossKV"} => ~primaryOnly
        /\ stage' = "waitForCompletion" => left' = Processed
    BY <1>9 DEF PrimariesReady, RegistrationsWritten, Linking, ReplicationInjected,
       SecondariesReady, WaitForCrossDatacenterKV, AlreadyPeered, GeneratePeeringToken,
       EstablishPeering, PeersLinked, GoTo, Enter, Memory, world, LinkStages
  <2>3. stage' \notin PlanStages \cup ClusterStages
        /\ stage' \notin {"createReplication", "waitReplication", "waitForLeader"}
    BY <2>2, LinkStageFacts DEF LinkStages
  <2> QED
    BY <2>1, <2>2, <2>3
<1> QED
  BY <1>1, <1>2, <1>3, <1>4, <1>5, <1>6, <1>7, <1>8, <1>9 DEF ProcessStep

LEMMA FlowKept ==
    ASSUME Inv, BootInv, FlowInv, [Next]_vars
    PROVE  FlowInv'
<1>a. {"idle", "done", "failed", "down"} \cap (PlanStages \cup ClusterStages) = {}
      /\ {"bootstrap", "waitForLeader"} \cap (PlanStages \cup ClusterStages) = {}
  BY DEF ClusterStages, PlanStages, CreateStages, WaitStages, PublishStages
<1>1. ASSUME NEW po \in BOOLEAN, StartUp(po) PROVE FlowInv'
  BY <1>1, <1>a DEF StartUp, Enter, FlowInv
<1>2. CASE Interrupt \/ DownDestroy \/ DownFiles \/ DownInterrupted
  <2>1. stage' \in {"failed", "down", "idle"} /\ primaryOnly' = primaryOnly
    BY <1>2 DEF Interrupt, DownDestroy, DownFiles, DownInterrupted, End, Memory
  <2> QED
    BY <1>a, <2>1 DEF FlowInv
<1>3. CASE TokenReadSelfError
  BY <1>3, <1>a DEF TokenReadSelfError, GoTo, Enter, Memory, FlowInv
<1>4. ASSUME UNCHANGED <<stage, cur, left, todo, tok, primaryOnly, running>> PROVE FlowInv'
  BY <1>4 DEF FlowInv
<1>5. ASSUME NEW c \in Clusters, ConsulStep(c)
      PROVE  UNCHANGED <<stage, cur, left, todo, tok, primaryOnly, running>>
  BY <1>5 DEF ConsulStep, ElectLeader, Replicate, AgentSync, SidecarRegister, SidecarPass,
     process
<1>6. CASE UNCHANGED vars
  BY <1>4, <1>6 DEF vars, process, world
<1> QED
  BY <1>1, <1>2, <1>3, <1>4, <1>5, <1>6, FlowProcess DEF Next, Operator

LEMMA InitSupply == Init => SupplyInv
<1> SUFFICES ASSUME Init PROVE SupplyInv
  OBVIOUS
<1>1. stage = "idle" /\ "idle" \notin Active \cup ClusterStages \cup PlanStages
  BY DEF Init, Active, ClusterStages, PlanStages, CreateStages, WaitStages, PublishStages
<1>2. Authorities \subseteq Clusters
  BY ClusterKinds
<1> QED
  BY <1>1, <1>2 DEF Init, SupplyInv, LeaderInv, MintedInv, FlowInv

(* SupplyInv, from which WaitsCanEnd follows, holds in every reachable     *)
(* state.                                                                  *)
THEOREM SupplyInvHolds == Spec => []SupplyInv
<1>1. Init => SupplyInv
  BY InitSupply
<1>2. Inv /\ BootInv /\ SupplyInv /\ [Next]_vars => SupplyInv'
  BY LeaderKept, MintedKept, FlowKept DEF SupplyInv
<1> QED
  BY <1>1, <1>2, InvHolds, BootInvHolds, PTL DEF Spec

(* A leader runs for every cluster a run works on once it is past          *)
(* waitForLeader, and the authorities have their management tokens.        *)
LEMMA Led ==
    ASSUME Inv, BootInv, SupplyInv, stage \in Active \ {"waitForLeader"}, NEW c \in Processed
    PROVE  /\ c \in running /\ leader[c] # NoServer /\ leader[c] \in Servers[c]
           /\ InitialToken /\ ~Secondary(c) => Master(c) \in store
<1>1. running = Processed /\ c \in Clusters
  BY ClusterKinds DEF BootInv, LoopInv
<1>2. ~Secondary(c) => c \in Authorities
  BY <1>1, ClusterKinds DEF Secondaries
<1> QED
  BY <1>1, <1>2 DEF SupplyInv, LeaderInv

(* Every call made past bootstrap is authorized.                           *)
LEMMA AllAuthorized ==
    ASSUME Inv, BootInv, SupplyInv, NEW c \in Clusters,
           stage \in Active \ {"waitForLeader", "bootstrap", "isACLBootstrapped", "aclBootstrap"}
    PROVE  Authorized(c)
<1>1. masterToken = MasterSecret
  BY DEF SupplyInv, MintedInv
<1>2. CASE InitialToken
  <2>1. Authority(c) \in Clusters /\ ~Secondary(Authority(c)) /\ Master(Authority(c)) = Master(c)
    BY TopologyAssumption DEF TopologyAssumption, Authority, Secondary, Master
  <2>2. Authority(c) \in Processed
    BY <2>1, TopologyAssumption
       DEF Processed, Authority, SupplyInv, FlowInv, TopologyAssumption
  <2> QED
    BY <1>1, <1>2, <2>1, <2>2, Led DEF Authorized
<1>3. CASE ~InitialToken
  <2>1. Master(c) = Master(Primary)
    BY <1>3, TopologyAssumption DEF TopologyAssumption, Master, Authority
  <2> QED
    BY <1>1, <1>3, <2>1 DEF Authorized, MasterSecret, SupplyInv, MintedInv
<1> QED
  BY <1>2, <1>3

(* The tokens of a stage that waits have been created before it.           *)
LEMMA WorkCreated ==
    ASSUME Inv, BootInv, SupplyInv, stage \in WaitStages, NEW t \in Work(stage, cur)
    PROVE  t \in store \cap TokensAt(cur)
<1>1. PICK at, c : at = stage /\ c = cur
  OBVIOUS
<1>2. c \in Clusters /\ at \in WaitStages /\ at \in StagesOf(c) /\ at \in Active
  BY <1>1, ClusterStageFacts DEF Inv, TypeOK, TypeWalk, StageInv, Active
<1>3. CASE at \in {"waitInitialManagement", "waitMaster"}
  <2>1. t = Master(c)
    BY <1>1, <1>3 DEF Work
  <2>2. at \notin {"waitForLeader", "bootstrap", "isACLBootstrapped", "aclBootstrap"}
    BY <1>3
  <2>3. Authorized(c)
    BY <1>1, <1>2, <2>2, AllAuthorized
  <2> QED
    BY <1>1, <2>1, <2>3 DEF Authorized, TokensAt
<1>4. ASSUME NEW x \in CreateStages, x = "createReplication" => ~Peered,
             Work(x, c) = Work(at, c), Precedes(c, x, at)
      PROVE  t \in store
  <2>1. x \in PlanStages
    BY <1>4, ClusterStageFacts DEF CreateStages
  <2>2. Handled(x, c, t)
    BY <1>1, <1>4, <2>1 DEF BootInv, TokensInv, Reached
  <2> QED
    BY <1>4, <2>2 DEF Handled
<1>5. CASE at = "waitReplication"
  <2>1. ~Peered /\ ~Secondary(c)
    BY <1>1, <1>2, <1>5 DEF SupplyInv, FlowInv, StagesOf, SecondaryStages
  <2>2. c = Primary /\ t = Replication
    BY <1>1, <1>2, <1>5, <2>1 DEF Secondary, Work
  <2>3. Precedes(c, "createReplication", at)
    BY <1>5, <2>1 DEF Precedes, Rank
  <2>4. Work("createReplication", c) = Work(at, c)
    BY <1>5 DEF Work
  <2> QED
    BY <1>1, <1>4, <2>1, <2>2, <2>3, <2>4 DEF TokensAt, CreateStages
<1>6. CASE at \in {"publishMeshGateway", "waitAgents", "publishServices"}
  <2>1. PICK x : /\ x \in CreateStages /\ x # "createReplication"
                 /\ Work(x, c) = Work(at, c) /\ Precedes(c, x, at)
    <3>1. /\ Precedes(c, "createMeshGateway", "publishMeshGateway")
          /\ Precedes(c, "createAgents", "waitAgents")
          /\ Precedes(c, "createServices", "publishServices")
      <4>1. CASE Secondary(c)
        BY <4>1 DEF Precedes, Rank
      <4>2. CASE ~Secondary(c)
        BY <4>2 DEF Precedes, Rank
      <4> QED
        BY <4>1, <4>2
    <3>2. /\ Work("createMeshGateway", c) = Work("publishMeshGateway", c)
          /\ Work("createAgents", c) = Work("waitAgents", c)
          /\ Work("createServices", c) = Work("publishServices", c)
      BY DEF Work
    <3> QED
      BY <1>6, <3>1, <3>2 DEF CreateStages
  <2>2. t \in store
    BY <1>4, <2>1
  <2>3. t \in TokensAt(c)
    BY <1>1, <1>6 DEF Work, TokensAt, PublishedTokens
  <2> QED
    BY <1>1, <2>2, <2>3
<1> QED
  BY <1>2, <1>3, <1>5, <1>6 DEF WaitStages, PublishStages

LEMMA WaitsEnd ==
    ASSUME Inv, BootInv, SupplyInv
    PROVE  WaitsCanEnd
<1>c. cur \in Clusters /\ stage \in Ended \cup Active \cup {"down"}
  BY DEF Inv, TypeOK, TypeWalk
<1>a. ASSUME stage \in PlanStages PROVE cur \in Processed
  <2>1. stage = "waitInitialManagement" => ~Secondary(cur)
    BY DEF Inv, StageInv, PlanStages, WaitStages, StagesOf, SecondaryStages
  <2>2. ~Peered /\ ~Secondary(cur) => cur = Primary
    BY <1>c DEF Secondary
  <2> QED
    BY <1>c, <1>a, <2>1, <2>2, ClusterStageFacts DEF SupplyInv, FlowInv, Processed
<1>b. ASSUME stage \in ClusterStages, Secondary(cur), cur \in Processed
      PROVE  leader[cur] \in replTok
  <2>1. SecondaryServers \subseteq replTok /\ cur \in Secondaries
    BY <1>b, <1>c DEF BootInv, LinkInv, Secondaries
  <2>2. leader[cur] \in Servers[cur]
    BY <1>b, <1>c, ClusterStageFacts, Led
  <2> QED
    BY <2>1, <2>2 DEF SecondaryServers
<1>1. stage = "waitForLeader" => left \subseteq running
  BY DEF SupplyInv, FlowInv
<1>2. ASSUME stage = "isACLBootstrapped", masterToken = MasterSecret PROVE Authorized(cur)
  <2>1. ~Secondary(cur)
    BY <1>2 DEF Inv, StageInv, MasterStages
  <2>2. CASE InitialToken
    <3>1. cur \in Processed
      BY <1>c, <2>1 DEF Secondary, Processed, SupplyInv, FlowInv
    <3> QED
      BY <1>2, <2>1, <2>2, <3>1, Led DEF Authorized, Active
  <2>3. CASE ~InitialToken
    <3>1. Master(cur) = Master(Primary)
      BY <2>3, TopologyAssumption DEF TopologyAssumption, Master, Authority
    <3> QED
      BY <1>2, <2>3, <3>1 DEF Authorized, MasterSecret, SupplyInv, MintedInv
  <2> QED
    BY <2>2, <2>3
<1>3. ASSUME stage \in CreateStages PROVE Authorized(cur)
  <2>1. stage \in Active \ {"waitForLeader", "bootstrap", "isACLBootstrapped", "aclBootstrap"}
    BY <1>3 DEF Active, CreateStages
  <2> QED
    BY <1>c, <2>1, AllAuthorized
<1>4. ASSUME stage \in WaitStages, NEW t \in Work(stage, cur) PROVE Supplied(cur, t)
  <2>1. stage \in Active \ {"waitForLeader"} /\ stage \in PlanStages
    BY <1>4, ClusterStageFacts DEF Active, WaitStages, PublishStages
  <2>2. cur \in running /\ leader[cur] # NoServer
    BY <1>a, <2>1, Led
  <2>3. t \in store \cap TokensAt(cur)
    BY <1>4, WorkCreated
  <2>4. Secondary(cur) => stage \in ClusterStages
    BY <2>1 DEF Inv, StageInv, StagesOf, SecondaryStages, ClusterStages
  <2> QED
    BY <1>a, <1>b, <2>1, <2>2, <2>3, <2>4 DEF Supplied
<1>5. ASSUME stage = "nodeUpdates"
      PROVE  /\ cur \in running
             /\ \A t \in AgentTokens(cur) :
                   t \in agentTok /\ \E s \in Servers[cur] : t \in known[s]
  <2>1. /\ "nodeUpdates" \in Active \ {"waitForLeader"}
        /\ {"nodeUpdates", "injectAgents", "waitAgents"} \subseteq PlanStages
    BY DEF Active, PlanStages, WaitStages
  <2>2. cur \in running /\ leader[cur] \in Servers[cur]
    BY <1>5, <1>a, <2>1, Led
  <2>3. ASSUME NEW t \in AgentTokens(cur)
        PROVE  t \in agentTok /\ \A s \in Servers[cur] : t \in known[s]
    <3>1. t \in Work("injectAgents", cur) /\ t \in Work("waitAgents", cur)
      BY DEF Work
    <3>2. Precedes(cur, "waitAgents", "nodeUpdates") /\ Precedes(cur, "injectAgents", "nodeUpdates")
      BY <1>c, RankFacts
    <3>3. Handled("injectAgents", cur, t) /\ Handled("waitAgents", cur, t)
      BY <1>5, <2>1, <3>1, <3>2 DEF BootInv, TokensInv, Reached
    <3> QED
      BY <3>3 DEF Handled
  <2> QED
    BY <2>2, <2>3
<1>6. ASSUME stage = "crossKV", NEW c \in Clusters PROVE Supplied(c, Master(c))
  <2>1. ~primaryOnly /\ "crossKV" \in Active \ {"waitForLeader"} /\ c \in Processed
    BY <1>6 DEF SupplyInv, FlowInv, Active, Processed
  <2>2. c \in running /\ leader[c] # NoServer /\ leader[c] \in Servers[c]
    BY <1>6, <2>1, Led
  <2>3. Secondary(c) => leader[c] \in replTok
    BY <1>6, <2>2 DEF BootInv, LinkInv, SecondaryServers, Secondaries
  <2>4. Authorized(c)
    BY <1>6, AllAuthorized DEF Active
  <2> QED
    BY <2>2, <2>3, <2>4 DEF Supplied, Authorized, TokensAt
<1>7. ASSUME stage = "waitForCompletion", NEW c \in left
      PROVE  c \in running /\ leader[c] # NoServer
  BY <1>7 DEF SupplyInv, FlowInv, LeaderInv, Active
<1> QED
  BY <1>1, <1>2, <1>3, <1>4, <1>5, <1>6, <1>7 DEF WaitsCanEnd

(* No run ever waits for something that cannot come: for every topology,   *)
(* whatever earlier runs were interrupted in.                              *)
THEOREM WaitsCanAlwaysEnd == Spec => []WaitsCanEnd
BY WaitsEnd, InvHolds, BootInvHolds, SupplyInvHolds, PTL

-----------------------------------------------------------------------------
(* The management token of an environment.                                 *)

(* While it does not come from the configuration, only ac.Bootstrap mints  *)
(* it, and only the ways MasterTokenKept names lose it.                    *)
LEMMA MasterNotCreated ==
    ASSUME Inv, SupplyInv, NEW t, CreateOrUpdateToken(t)
    PROVE  t # Master(Primary)
<1>1. PICK at, c : at = stage /\ c = cur
  OBVIOUS
<1>2. at \in CreateStages /\ c \in Clusters /\ t \in Work(at, c)
  BY <1>1, ClusterStageFacts
     DEF CreateOrUpdateToken, Inv, TypeOK, TypeWalk, SupplyInv, FlowInv
<1>3. /\ Master(Primary).kind = "master" /\ Replication.kind = "replication"
      /\ MeshGateway(c).kind = "mesh-gateway" /\ Anonymous(c).kind = "anonymous"
      /\ \A x \in AgentTokens(c) : x.kind = "agent"
      /\ \A x \in ServiceTokens(c) : x.kind = "service"
  BY DEF Master, Replication, MeshGateway, Anonymous, AgentTokens, ServiceTokens, Token
<1> QED
  BY <1>2, <1>3 DEF Work, CreateStages

(* The steps that neither mint the management token nor touch its copies.  *)
TokenUntouched ==
    /\ UNCHANGED <<masterFile, life>>
    /\ Master(Primary) \in store' <=> Master(Primary) \in store

LEMMA ProcessLeavesToken ==
    ASSUME Inv, BootInv, SupplyInv, ProcessStep, ~InitialToken
    PROVE  /\ stage # "saveMaster" /\ ~ACLBootstrap => TokenUntouched
           /\ stage = "saveMaster" => SaveMaster
<1> USE DEF TokenUntouched
<1>1. CASE Bootstrap
  BY <1>1 DEF Bootstrap, WaitForLeader, LoadMasterToken, LeadersElected, IsACLBootstrapped,
     TokenReadSelf, ACLBootstrap, ACLBootstrapRefused, SaveMaster, Bootstrapped, Memory, disk,
     world
<1>2. CASE ~Bootstrap
  <2>1. stage # "saveMaster" /\ UNCHANGED <<masterFile, life>> /\ store \subseteq store'
    BY <1>2, BeyondBootstrap DEF MasterLoop, MasterStages
  <2>2. ASSUME NEW t, CreateOrUpdateToken(t) PROVE TokenUntouched
    BY <2>1, <2>2, MasterNotCreated DEF CreateOrUpdateToken
  <2>3. ASSUME ~\E t \in Tokens : CreateOrUpdateToken(t) PROVE store' = store
    BY <1>2, <2>3 DEF ProcessStep, CreateClients, WaitForCompletion, WalkToken, BeginWait,
       InjectAgentToken, WriteServiceRegistrationFile, WalkServer, WaitForTokenOnServer,
       InjectReplicationToken, TokenReady, Panic, NodeUpdates, WalkDone, PrimariesReady,
       RegistrationsWritten, Linking, ReplicationInjected, SecondariesReady,
       WaitForCrossDatacenterKV, AlreadyPeered, GeneratePeeringToken, EstablishPeering,
       PeersLinked, Completed, world, acls
  <2> QED
    BY <2>1, <2>2, <2>3
<1> QED
  BY <1>1, <1>2

LEMMA MasterKeptStep ==
    ASSUME Inv, BootInv, SupplyInv, [Next]_vars, ~MasterTokenLost, MasterTokenLost'
    PROVE  \/ stage = "saveMaster" /\ stage' = "failed"
           \/ stage = "tokenReadSelf" /\ masterFile' = 0
<1> USE DEF MasterTokenLost, MasterTokenAtHand
<1>1. CASE ProcessStep
  <2>1. CASE ACLBootstrap
    BY <2>1 DEF ACLBootstrap, GoTo, Enter
  <2>2. CASE stage = "saveMaster"
    BY <1>1, <2>2, ProcessLeavesToken
       DEF SaveMaster, GoTo, Enter, BootInv, MasterInv, Memory, world
  <2> QED
    BY <1>1, <2>1, <2>2, ProcessLeavesToken DEF TokenUntouched
<1>2. ASSUME NEW po \in BOOLEAN, StartUp(po) PROVE FALSE
  BY <1>2 DEF StartUp, Ended, disk, acls
<1>3. CASE Interrupt
  BY <1>3 DEF Interrupt, End, disk, world
<1>4. CASE TokenReadSelfError
  BY <1>4 DEF TokenReadSelfError
<1>5. ASSUME DownDestroy \/ DownFiles \/ DownInterrupted PROVE FALSE
  BY <1>5 DEF DownDestroy, DownFiles, DownInterrupted, SupplyInv, MintedInv, world
<1>6. ASSUME UNCHANGED <<stage, masterToken, masterFile, life, store>> PROVE FALSE
  BY <1>6
<1>7. ASSUME NEW c \in Clusters, ConsulStep(c)
      PROVE  UNCHANGED <<stage, masterToken, masterFile, life, store>>
  BY <1>7 DEF ConsulStep, ElectLeader, Replicate, AgentSync, SidecarRegister, SidecarPass,
     process, disk, acls
<1>8. CASE UNCHANGED vars
  BY <1>6, <1>8 DEF vars, process, disk, world
<1> QED
  BY <1>1, <1>2, <1>3, <1>4, <1>5, <1>6, <1>7, <1>8 DEF Next, Operator

(* The only management token of an environment is not lost but in the two  *)
(* ways the source leaves open, for every topology and history of runs.    *)
THEOREM MasterTokenAlwaysKept == Spec => MasterTokenKept
<1>1. Inv /\ BootInv /\ SupplyInv /\ [Next]_vars =>
      [ ~MasterTokenLost =>
          \/ ~MasterTokenLost'
          \/ stage = "saveMaster" /\ stage' = "failed"
          \/ stage = "tokenReadSelf" /\ masterFile' = 0 ]_vars
  BY MasterKeptStep
<1> QED
  BY <1>1, InvHolds, BootInvHolds, SupplyInvHolds, PTL DEF Spec, MasterTokenKept

(* Nobody has the management token any more: neither the file nor a run.   *)
TokenGone == MasterTokenLost /\ masterToken # life

(* Once that is so, no run succeeds until the environment is destroyed:    *)
(* every further `up` ends in failure or waits in vain.                    *)
LostTokenNeedsDown ==
    [][ TokenGone /\ life' = life => TokenGone' /\ (stage' = "done" => stage = "done") ]_vars

LEMMA GoneStep ==
    ASSUME Inv, BootInv, SupplyInv, [Next]_vars, TokenGone, life' = life
    PROVE  TokenGone' /\ (stage' = "done" => stage = "done")
<1> USE DEF TokenGone, MasterTokenLost, MasterTokenAtHand
<1>a. /\ ~InitialToken /\ Master(Primary) \in store /\ masterFile # life /\ masterToken # life
      /\ MasterSecret = life /\ life \in Nat \ {0}
  BY DEF MasterSecret, Inv, TypeOK, TypeWorld
<1>b. stage \in Active =>
        stage \in {"waitForLeader", "bootstrap", "isACLBootstrapped", "aclBootstrap"}
  BY <1>a DEF SupplyInv, MintedInv
<1>1. CASE ProcessStep
  <2>1. Bootstrap
    BY <1>1, <1>b, BeyondBootstrap DEF MasterLoop, MasterStages
  <2>2. stage = "bootstrap" => left = Authorities /\ left # {}
    BY <1>a, ClusterKinds DEF SupplyInv, MintedInv
  <2>3. stage \in MasterStages => Master(cur) = Master(Primary)
    BY <1>a, TopologyAssumption
       DEF TopologyAssumption, Inv, StageInv, Secondary, Master, Authority
  <2>4. ~ACLBootstrap /\ ~Bootstrapped /\ ~IsACLBootstrapped /\ ~TokenReadSelf /\ ~SaveMaster
    BY <1>a, <1>b, <2>2, <2>3
       DEF ACLBootstrap, Bootstrapped, IsACLBootstrapped, Authorized, TokenReadSelf, SaveMaster,
           MasterStages, Active
  <2>5. ASSUME NEW c \in Clusters, WaitForLeader(c) PROVE TokenGone' /\ stage' # "done"
    BY <1>a, <2>5 DEF WaitForLeader, Memory, disk, world
  <2>6. ASSUME NEW c \in Clusters, LoadMasterToken(c) PROVE TokenGone' /\ stage' # "done"
    BY <1>a, <2>6 DEF LoadMasterToken, Enter, world
  <2>7. CASE LeadersElected
    BY <1>a, <2>7 DEF LeadersElected, Enter, Memory, disk, world
  <2>8. CASE ACLBootstrapRefused
    BY <1>a, <2>8 DEF ACLBootstrapRefused, End, disk, world
  <2> QED
    BY <2>1, <2>4, <2>5, <2>6, <2>7, <2>8 DEF Bootstrap
<1>2. ASSUME NEW po \in BOOLEAN, StartUp(po) PROVE TokenGone' /\ stage' # "done"
  BY <1>a, <1>2 DEF StartUp, Enter, disk, acls
<1>3. CASE Interrupt
  BY <1>a, <1>3 DEF Interrupt, End, disk, world
<1>4. ~TokenReadSelfError
  BY <1>b DEF TokenReadSelfError, Active
<1>5. ~DownDestroy
  BY <1>a DEF DownDestroy
<1>6. ~DownFiles /\ ~DownInterrupted
  BY <1>a DEF DownFiles, DownInterrupted, SupplyInv, MintedInv
<1>7. ASSUME UNCHANGED <<stage, masterToken, masterFile, life, store>>
      PROVE  TokenGone' /\ (stage' = "done" => stage = "done")
  BY <1>7
<1>8. ASSUME NEW c \in Clusters, ConsulStep(c)
      PROVE  UNCHANGED <<stage, masterToken, masterFile, life, store>>
  BY <1>a, <1>8 DEF ConsulStep, ElectLeader, Replicate, AgentSync, SidecarRegister, SidecarPass,
     process, disk, acls
<1>9. CASE UNCHANGED vars
  BY <1>7, <1>9 DEF vars, process, disk, world
<1> QED
  BY <1>1, <1>2, <1>3, <1>4, <1>5, <1>6, <1>7, <1>8, <1>9 DEF Next, Operator

(* An environment whose management token is lost is beyond repair: `up`    *)
(* never succeeds there again, whatever is started or interrupted, until   *)
(* `down` has destroyed it (bootstrap, boot.go:640).                       *)
THEOREM LostTokenEndsTheEnvironment == Spec => LostTokenNeedsDown
<1>1. Inv /\ BootInv /\ SupplyInv /\ [Next]_vars =>
      [ TokenGone /\ life' = life => TokenGone' /\ (stage' = "done" => stage = "done") ]_vars
  BY GoneStep
<1> QED
  BY <1>1, InvHolds, BootInvHolds, SupplyInvHolds, PTL DEF Spec, LostTokenNeedsDown

-----------------------------------------------------------------------------
(* The order in which a run advances.                                      *)

BootstrapStages == {"bootstrap", "waitInitialManagement"} \cup MasterStages

(* The part of runBoot a stage belongs to.                                 *)
Phase(st, c) ==
    CASE st = "waitForLeader" -> 1
      [] st \in BootstrapStages -> 2
      [] st = "initPrimary" \/ (st \in ClusterStages /\ ~Secondary(c)) -> 3
      [] st = "writeRegistrations" -> 4
      [] st = "injectReplication" -> 5
      [] st = "initSecondary" \/ (st \in ClusterStages /\ Secondary(c)) -> 6
      [] st \in {"crossKV", "peer", "establish"} -> 7
      [] OTHER -> 8

(* Its place in the body of a loop, whose head comes last.                 *)
Place(st, c) ==
    CASE st \in ClusterStages -> Rank(c)[st]
      [] st \in {"isACLBootstrapped", "aclBootstrap", "establish"} -> 1
      [] st \in {"tokenReadSelf", "saveMaster"} -> 2
      [] st = "waitInitialManagement" -> 3
      [] OTHER -> 12

Shrinks(S, T) == T \subseteq S /\ T # S

(* The run gets to a later part; or its loop has fewer clusters to visit;  *)
(* or it gets to a later call of the loop's body; or the call's walk has   *)
(* less to visit: an order in which finitely many clusters, tokens and     *)
(* servers leave room for finitely many steps.                             *)
Advances ==
    \/ Phase(stage', cur') > Phase(stage, cur)
    \/ /\ Phase(stage', cur') = Phase(stage, cur)
       /\ \/ Shrinks(left, left')
          \/ left' = left /\ Place(stage', cur') > Place(stage, cur)
          \/ /\ UNCHANGED <<stage, cur, left>>
             /\ \/ Shrinks(todo, todo')
                \/ UNCHANGED <<todo, awaiting>> /\ tok # NoToken /\ tok' = NoToken
                \/ UNCHANGED <<todo, tok>> /\ Shrinks(awaiting, awaiting')

(* The one way back: some agent has not posted its node yet.               *)
InjectsAgain ==
    /\ stage = "nodeUpdates" /\ stage' = "injectAgents" /\ UNCHANGED <<cur, left>>
    /\ ~(AgentTokens(cur) \subseteq registered)

(* A run never returns to what it has done, but for the loop that injects  *)
(* the agents' tokens until every node update was posted: all its other    *)
(* loops end (runBoot).                                                    *)
UpAdvances ==
    [][ {stage, stage'} \subseteq Active =>
          Advances \/ InjectsAgain \/ process' = process ]_vars

LEMMA PhaseFacts ==
    ASSUME NEW c \in Clusters
    PROVE  /\ Phase("waitForLeader", c) = 1
           /\ \A st \in BootstrapStages : Phase(st, c) = 2
           /\ Phase("initPrimary", c) = 3
           /\ \A st \in ClusterStages : Phase(st, c) = IF Secondary(c) THEN 6 ELSE 3
           /\ Phase("writeRegistrations", c) = 4 /\ Phase("injectReplication", c) = 5
           /\ Phase("initSecondary", c) = 6
           /\ \A st \in {"crossKV", "peer", "establish"} : Phase(st, c) = 7
           /\ Phase("waitForCompletion", c) = 8
<1>1. /\ BootstrapStages \cap ClusterStages = {}
      /\ "waitForLeader" \notin BootstrapStages \cup ClusterStages
      /\ LinkStages \cap (BootstrapStages \cup ClusterStages) = {}
      /\ "initPrimary" \notin BootstrapStages \cup ClusterStages
  BY DEF BootstrapStages, MasterStages, ClusterStages, LinkStages, PlanStages, CreateStages,
         WaitStages, PublishStages
<1>2. \A st \in BootstrapStages :
          st \notin ClusterStages \cup {"waitForLeader", "initPrimary"} \cup LinkStages
  BY <1>1
<1>3. \A st \in ClusterStages : st \notin {"waitForLeader", "initPrimary"} \cup LinkStages
  BY <1>1
<1>4. LinkStages = {"writeRegistrations", "injectReplication", "initSecondary", "crossKV",
                    "peer", "establish", "waitForCompletion"}
  BY DEF LinkStages
<1>5. \A st \in BootstrapStages : Phase(st, c) = 2
  BY <1>2, <1>4 DEF Phase
<1>6. \A st \in ClusterStages : Phase(st, c) = IF Secondary(c) THEN 6 ELSE 3
  BY <1>1, <1>3, <1>4 DEF Phase
<1>7. Phase("waitForLeader", c) = 1 /\ Phase("initPrimary", c) = 3
  BY <1>1 DEF Phase
<1>8. /\ Phase("writeRegistrations", c) = 4 /\ Phase("injectReplication", c) = 5
      /\ Phase("initSecondary", c) = 6 /\ Phase("waitForCompletion", c) = 8
      /\ Phase("crossKV", c) = 7 /\ Phase("peer", c) = 7 /\ Phase("establish", c) = 7
  BY <1>1, <1>4 DEF Phase
<1> QED
  BY <1>5, <1>6, <1>7, <1>8

LEMMA PlaceFacts ==
    ASSUME NEW c \in Clusters
    PROVE  /\ \A st \in ClusterStages : Place(st, c) = Rank(c)[st]
           /\ Place("isACLBootstrapped", c) = 1 /\ Place("aclBootstrap", c) = 1
           /\ Place("establish", c) = 1 /\ Place("tokenReadSelf", c) = 2
           /\ Place("saveMaster", c) = 2 /\ Place("waitInitialManagement", c) = 3
           /\ Place("bootstrap", c) = 12 /\ Place("initPrimary", c) = 12
           /\ Place("initSecondary", c) = 12 /\ Place("peer", c) = 12
<1>1. {"isACLBootstrapped", "aclBootstrap", "establish", "tokenReadSelf", "saveMaster",
       "waitInitialManagement", "bootstrap", "initPrimary", "initSecondary", "peer"}
          \cap ClusterStages = {}
  BY DEF ClusterStages, PlanStages, CreateStages, WaitStages, PublishStages
<1>2. \A st \in ClusterStages : Place(st, c) = Rank(c)[st]
  BY <1>1 DEF Place
<1> QED
  BY <1>1, <1>2 DEF Place

(* Within the loop over the clusters the plan only leads forward.          *)
LEMMA PlanAdvances ==
    ASSUME NEW c \in Clusters, NEW st \in StagesOf(c), st # "waitInitialManagement"
    PROVE  /\ Phase(Plan(c)[st], c) = Phase(st, c)
           /\ Place(Plan(c)[st], c) > Place(st, c)
<1>1. st \in ClusterStages /\ st \in DOMAIN Rank(c)
  BY RankedStages
<1>2. /\ Plan(c)[st] \in DOMAIN Rank(c) => Rank(c)[Plan(c)[st]] > Rank(c)[st]
      /\ Rank(c)[st] \in 1..11
      /\ Plan(c)[st] \notin DOMAIN Rank(c) =>
            Plan(c)[st] = IF Secondary(c) THEN "initSecondary" ELSE "initPrimary"
  <2>1. CASE Secondary(c)
    BY <1>1, <2>1 DEF Rank, Plan, SecondaryPlan
  <2>2. CASE ~Secondary(c)
    BY <1>1, <2>2 DEF Rank, Plan, PrimaryPlan
  <2> QED
    BY <2>1, <2>2
<1>3. CASE Plan(c)[st] \in DOMAIN Rank(c)
  <2>1. Plan(c)[st] \in ClusterStages
    BY <1>3, RankedStages
  <2> QED
    BY <1>1, <1>2, <1>3, <2>1, PhaseFacts, PlaceFacts
<1>4. CASE Plan(c)[st] \notin DOMAIN Rank(c)
  BY <1>1, <1>2, <1>4, PhaseFacts, PlaceFacts
<1> QED
  BY <1>3, <1>4

(* Going on to another stage, an advance depends on these only.            *)
LEMMA EnterAdvances ==
    ASSUME NEW at, NEW st, NEW c, NEW d, stage = at, cur = c, Enter(st, d, left'),
           \/ Phase(st, d) > Phase(at, c)
           \/ /\ Phase(st, d) = Phase(at, c)
              /\ Shrinks(left, left') \/ (left' = left /\ Place(st, d) > Place(at, c))
    PROVE  Advances
<1>1. stage' = st /\ cur' = d
  BY DEF Enter
<1> QED
  BY <1>1 DEF Advances

LEMMA WalkAdvances ==
    ASSUME UNCHANGED <<stage, cur>>,
           \/ Shrinks(left, left')
           \/ left' = left /\ Shrinks(todo, todo')
           \/ UNCHANGED <<left, todo, awaiting>> /\ tok # NoToken /\ tok' = NoToken
           \/ UNCHANGED <<left, todo, tok>> /\ Shrinks(awaiting, awaiting')
    PROVE  Advances
<1>1. Phase(stage', cur') = Phase(stage, cur)
  OBVIOUS
<1> QED
  BY <1>1 DEF Advances

LEMMA BootstrapAdvances ==
    ASSUME Inv, Bootstrap, stage' \in Active
    PROVE  Advances
<1>c. PICK c : c = cur /\ c \in Clusters
  BY DEF Inv, TypeOK, TypeWalk
<1>a. {"bootstrap", "waitInitialManagement", "isACLBootstrapped", "tokenReadSelf",
       "aclBootstrap", "saveMaster"} = BootstrapStages
  BY DEF BootstrapStages, MasterStages
<1>1. ASSUME NEW d \in Clusters, WaitForLeader(d) PROVE Advances
  BY <1>1, WalkAdvances DEF WaitForLeader, Shrinks
<1>2. ASSUME NEW d \in Clusters, LoadMasterToken(d) PROVE Advances
  <2>1. PICK st : st \in {"aclBootstrap", "isACLBootstrapped"} /\ Enter(st, d, left \ {d})
    BY <1>2 DEF LoadMasterToken
  <2>2. stage = "bootstrap" /\ Enter(st, d, left') /\ Shrinks(left, left')
    BY <1>2, <2>1 DEF LoadMasterToken, Enter, Shrinks
  <2> QED
    BY <1>a, <1>c, <2>1, <2>2, PhaseFacts, EnterAdvances
<1>3. CASE LeadersElected
  <2>1. stage = "waitForLeader" /\ Enter("bootstrap", c, left')
    BY <1>c, <1>3 DEF LeadersElected, Enter
  <2> QED
    BY <1>a, <1>c, <2>1, PhaseFacts, EnterAdvances
<1>4. CASE IsACLBootstrapped \/ TokenReadSelf \/ ACLBootstrap \/ SaveMaster
  <2>1. PICK st : /\ Enter(st, c, left') /\ left' = left
                  /\ \/ stage = "isACLBootstrapped" /\ st = "tokenReadSelf"
                     \/ stage = "tokenReadSelf" /\ st = "bootstrap"
                     \/ stage = "aclBootstrap" /\ st = "saveMaster"
                     \/ stage = "saveMaster" /\ st = "waitInitialManagement"
    BY <1>c, <1>4 DEF IsACLBootstrapped, TokenReadSelf, ACLBootstrap, SaveMaster, GoTo, Enter
  <2>2. /\ Phase(st, c) = Phase(stage, c) /\ Place(st, c) > Place(stage, c)
    BY <1>a, <1>c, <2>1, PhaseFacts, PlaceFacts
  <2>3. PICK at : at = stage
    OBVIOUS
  <2> QED
    BY <1>c, <2>1, <2>2, <2>3, EnterAdvances
<1>5. ~ACLBootstrapRefused
  BY DEF ACLBootstrapRefused, End, Active, CreateStages, WaitStages, PublishStages
<1>6. CASE Bootstrapped
  <2>1. stage = "bootstrap" /\ Enter("initPrimary", c, left')
    BY <1>c, <1>6 DEF Bootstrapped, Enter
  <2> QED
    BY <1>a, <1>c, <2>1, PhaseFacts, EnterAdvances
<1> QED
  BY <1>1, <1>2, <1>3, <1>4, <1>5, <1>6 DEF Bootstrap

LEMMA LoopAdvances ==
    ASSUME Inv, NodeUpdates \/ WalkDone
    PROVE  Advances \/ InjectsAgain
<1>1. PICK at, c : at = stage /\ c = cur
  OBVIOUS
<1>2. c \in Clusters /\ at \in StagesOf(c) /\ at \in PlanStages
  BY <1>1 DEF NodeUpdates, WalkDone, PlanStages, Inv, StageInv, TypeOK, TypeWalk
<1>3. ASSUME stage = "nodeUpdates", ~(AgentTokens(cur) \subseteq registered)
      PROVE  InjectsAgain
  <2>1. stage \notin CreateStages \cup WaitStages \cup {"injectAgents"}
    BY <1>3 DEF CreateStages, WaitStages, PublishStages
  <2> QED
    BY <1>3, <2>1 DEF NodeUpdates, WalkDone, GoTo, Enter, InjectsAgain
<1>4. ASSUME stage = "nodeUpdates" => AgentTokens(cur) \subseteq registered
      PROVE  Advances
  <2>1. PICK st : st = Plan(c)[at]
    OBVIOUS
  <2>2. Enter(st, c, left') /\ left' = left
    BY <1>1, <1>4, <2>1 DEF NodeUpdates, WalkDone, GoTo, Enter
  <2>3. CASE at # "waitInitialManagement"
    BY <1>1, <1>2, <2>1, <2>2, <2>3, PlanAdvances, EnterAdvances
  <2>4. CASE at = "waitInitialManagement"
    <3>1. st = "bootstrap"
      BY <1>2, <2>1, <2>4 DEF StagesOf, SecondaryStages, Plan, PrimaryPlan
    <3>2. {"bootstrap", "waitInitialManagement"} \subseteq BootstrapStages
      BY DEF BootstrapStages
    <3> QED
      BY <1>1, <1>2, <2>2, <2>4, <3>1, <3>2, PhaseFacts, PlaceFacts, EnterAdvances
  <2> QED
    BY <2>3, <2>4
<1> QED
  BY <1>3, <1>4

LEMMA LinkAdvances ==
    ASSUME Inv, PrimariesReady \/ RegistrationsWritten \/ Linking
    PROVE  Advances
<1>c. PICK c : c = cur /\ c \in Clusters
  BY DEF Inv, TypeOK, TypeWalk
<1>1. ASSUME NEW d \in Clusters, AlreadyPeered(d) PROVE Advances
  BY <1>1, WalkAdvances DEF AlreadyPeered, Shrinks
<1>2. ASSUME NEW d \in Clusters, GeneratePeeringToken(d) PROVE Advances
  <2>1. stage = "peer" /\ Enter("establish", d, left') /\ Shrinks(left, left')
    BY <1>2 DEF GeneratePeeringToken, Enter, Shrinks
  <2> QED
    BY <1>c, <2>1, PhaseFacts, EnterAdvances
<1>3. CASE EstablishPeering
  <2>1. stage = "establish" /\ Enter("peer", c, left') /\ left' = left
    BY <1>c, <1>3 DEF EstablishPeering, GoTo, Enter
  <2> QED
    BY <1>c, <2>1, PhaseFacts, PlaceFacts, EnterAdvances
<1>4. ASSUME ~EstablishPeering, ~\E d \in Clusters : AlreadyPeered(d) \/ GeneratePeeringToken(d)
      PROVE  Advances
  <2>1. PICK at, st :
           /\ stage = at /\ Enter(st, c, left')
           /\ <<at, st>> \in {<<"initPrimary", "writeRegistrations">>,
                 <<"writeRegistrations", "peer">>, <<"writeRegistrations", "injectReplication">>,
                 <<"writeRegistrations", "waitForCompletion">>,
                 <<"injectReplication", "initSecondary">>, <<"initSecondary", "crossKV">>,
                 <<"crossKV", "waitForCompletion">>, <<"peer", "waitForCompletion">>}
    <3>1. CASE PrimariesReady
      BY <1>c, <3>1 DEF PrimariesReady, GoTo, Enter
    <3>2. CASE RegistrationsWritten
      BY <1>c, <3>2 DEF RegistrationsWritten, GoTo, Enter
    <3>3. CASE Linking
      BY <1>c, <1>4, <3>3 DEF Linking, ReplicationInjected, SecondariesReady,
         WaitForCrossDatacenterKV, PeersLinked, GoTo, Enter
    <3> QED
      BY <3>1, <3>2, <3>3
  <2>2. Phase(st, c) > Phase(at, c)
    BY <1>c, <2>1, PhaseFacts
  <2> QED
    BY <1>c, <2>1, <2>2, EnterAdvances
<1> QED
  BY <1>1, <1>2, <1>3, <1>4

LEMMA ProcessAdvances ==
    ASSUME Inv, ProcessStep, stage' \in Active
    PROVE  Advances \/ InjectsAgain
<1>1. ASSUME NEW c \in Clusters, CreateClients(c) PROVE Advances
  <2>1. PICK at, d, st : at = stage /\ d = cur /\ st = Plan(c)[at]
    OBVIOUS
  <2>2. Enter(st, c, left') /\ Shrinks(left, left')
    BY <1>1, <2>1 DEF CreateClients, Enter, Shrinks
  <2>3. /\ \/ at = "initPrimary" /\ ~Secondary(c)
           \/ at = "initSecondary" /\ Secondary(c)
        /\ d \in Clusters
    BY <1>1, <2>1, AuthorityIsNotSecondary, SecondaryFacts
       DEF CreateClients, Inv, StageInv, TypeOK, TypeWalk
  <2>4. st \in ClusterStages
    <3>1. st \in StagesOf(c)
      BY <2>1, <2>3, FirstStageFacts
    <3>2. st # "waitInitialManagement"
      BY <2>1, <2>3 DEF Plan, PrimaryPlan, SecondaryPlan
    <3> QED
      BY <3>1, <3>2, RankedStages
  <2> QED
    BY <2>1, <2>2, <2>3, <2>4, PhaseFacts, EnterAdvances
<1>2. ASSUME NEW c \in Clusters, WaitForCompletion(c) PROVE Advances
  BY <1>2, WalkAdvances DEF WaitForCompletion, Shrinks
<1>3. ASSUME NEW t \in Tokens, WalkToken(t) PROVE Advances
  <2>1. UNCHANGED <<stage, cur, left>> /\ Shrinks(todo, todo')
    BY <1>3 DEF WalkToken, CreateOrUpdateToken, BeginWait, InjectAgentToken,
       WriteServiceRegistrationFile, Shrinks
  <2> QED
    BY <2>1, WalkAdvances
<1>4. ASSUME NEW s \in AllServers, WalkServer(s) PROVE Advances
  <2>1. UNCHANGED <<stage, cur, left, todo, tok>> /\ Shrinks(awaiting, awaiting')
    BY <1>4 DEF WalkServer, WaitForTokenOnServer, InjectReplicationToken, Shrinks
  <2> QED
    BY <2>1, WalkAdvances
<1>5. CASE TokenReady
  BY <1>5, WalkAdvances DEF TokenReady
<1>6. ~Panic /\ ~Completed
  BY DEF Panic, Completed, End, Active, CreateStages, WaitStages, PublishStages
<1> QED
  BY <1>1, <1>2, <1>3, <1>4, <1>5, <1>6, BootstrapAdvances, LoopAdvances, LinkAdvances
     DEF ProcessStep

(* The loops of runBoot go one way, for every topology and history of runs:*)
(* with WaitsCanAlwaysEnd, the part of UpTerminates that needs no fairness.*)
THEOREM UpAlwaysAdvances == Spec => UpAdvances
<1>1. ASSUME Inv, [Next]_vars, {stage, stage'} \subseteq Active
      PROVE  Advances \/ InjectsAgain \/ process' = process
  <2>1. CASE ProcessStep
    BY <1>1, <2>1, ProcessAdvances
  <2>2. CASE TokenReadSelfError
    <3>1. PICK c : c = cur /\ c \in Clusters
      BY <1>1 DEF Inv, TypeOK, TypeWalk
    <3>2. stage = "tokenReadSelf" /\ Enter("bootstrap", c, left') /\ left' = left
      BY <2>2, <3>1 DEF TokenReadSelfError, GoTo, Enter
    <3>3. {"tokenReadSelf", "bootstrap"} \subseteq BootstrapStages
      BY DEF BootstrapStages, MasterStages
    <3> QED
      BY <3>1, <3>2, <3>3, PhaseFacts, PlaceFacts, EnterAdvances
  <2>3. ASSUME Operator, ~TokenReadSelfError PROVE FALSE
    BY <1>1, <2>3 DEF Operator, StartUp, Interrupt, DownDestroy, DownFiles, DownInterrupted,
       End, Ended, Active, CreateStages, WaitStages, PublishStages
  <2>4. ASSUME NEW c \in Clusters, ConsulStep(c) PROVE process' = process
    BY <2>4 DEF ConsulStep, ElectLeader, Replicate, AgentSync, SidecarRegister, SidecarPass
  <2>5. CASE UNCHANGED vars
    BY <2>5 DEF vars
  <2> QED
    BY <1>1, <2>1, <2>2, <2>3, <2>4, <2>5 DEF Next
<1>2. Inv /\ [Next]_vars =>
      [ {stage, stage'} \subseteq Active =>
          Advances \/ InjectsAgain \/ process' = process ]_vars
  BY <1>1
<1> QED
  BY <1>2, InvHolds, PTL DEF Spec, UpAdvances
=============================================================================

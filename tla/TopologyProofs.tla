--------------------------- MODULE TopologyProofs ---------------------------
(***************************************************************************)
(* What holds of the addresses, ports and certificates of every            *)
(* configuration that CompileTopology accepts, whatever its size.          *)
(***************************************************************************)
EXTENDS Rendering, TLAPS

(* A configuration as app.New leaves it to the program.                    *)
Compiled(f) ==
    /\ f.clusters \subseteq Names /\ Primary \in f.clusters
    /\ f.servers \in [Names -> Int]
    /\ f.clients \in [Names -> Int]
    /\ f.gateways \in [Names -> Int]
    /\ ~CompileRefused(f)

(* parseConfig leaves nothing undefined that CompileTopology works with.   *)
LEMMA CompletedIsCompiled ==
    ASSUME NEW raw, IsFile(raw), ~CompileRefused(Completed(raw))
    PROVE  Compiled(Completed(raw))
<1> DEFINE given == IF raw.datacenters # {} THEN raw.datacenters ELSE raw.clusters
           With(count, n) == IF Primary \in given THEN count
                                                  ELSE [count EXCEPT ![Primary] = n]
<1>1. /\ given \subseteq Names
      /\ With(raw.servers, 1) \in [Names -> Int]
      /\ With(raw.clients, 2) \in [Names -> Int]
      /\ With(raw.gateways, 0) \in [Names -> Int]
  BY PrimaryAssumption DEF IsFile
<1>2. /\ Completed(raw).clusters = given \cup {Primary}
      /\ Completed(raw).servers  = With(raw.servers, 1)
      /\ Completed(raw).clients  = With(raw.clients, 2)
      /\ Completed(raw).gateways = With(raw.gateways, 0)
  BY DEF Completed
<1>3. QED  BY <1>1, <1>2, PrimaryAssumption DEF Compiled

-----------------------------------------------------------------------------
(* Nodes.                                                                  *)

(* Every node is a numbered server, a numbered client, or the infra node   *)
(* of its cluster.                                                         *)
LEMMA NodeForm ==
    ASSUME NEW f, Compiled(f), NEW n \in Walked(f)
    PROVE  /\ n.cluster \in f.clusters
           /\ n = Node(n.cluster, n.class, n.num)
           /\ \/ n.class = "server" /\ n.num \in 1..f.servers[n.cluster]
              \/ n.class = "client" /\ n.num \in 1..NumClients(f, n.cluster)
              \/ n.class = "infra" /\ n.num = 1
<1>1. PICK c \in f.clusters : n \in ServersOf(f, c) \cup ClientsOf(f, c) \cup {Infra(c)}
  BY DEF Walked
<1>2. CASE n \in ServersOf(f, c)
  BY <1>2 DEF ServersOf, Server, Node
<1>3. CASE n \in ClientsOf(f, c)
  BY <1>3 DEF ClientsOf, Client, Node
<1>4. CASE n = Infra(c)
  BY <1>4 DEF Infra, Node
<1>5. QED  BY <1>1, <1>2, <1>3, <1>4

(* The bounds CompileTopology checks.                                      *)
LEMMA Sizes ==
    ASSUME NEW f, Compiled(f), NEW c \in f.clusters
    PROVE  /\ f.servers[c] \in Int /\ f.servers[c] >= 1
           /\ f.clients[c] \in Int /\ f.gateways[c] \in Nat
           /\ NumClients(f, c) \in 1..50
           /\ IndexOf[c] \in Nat
  BY IndexAssumption DEF Compiled, CompileRefused, ClusterRefused, NumClients

(* The first server of a cluster is a node.                                *)
LEMMA FirstServer ==
    ASSUME NEW f, Compiled(f), NEW c \in f.clusters
    PROVE  /\ Server(c, 1) \in Nodes(f)
           /\ Server(c, 1) \in ServersOf(f, c)
           /\ Server(c, 1).cluster = c /\ Server(c, 1).class = "server"
<1>1. 1 \in 1..f.servers[c]
  BY Sizes
<1>2. Server(c, 1) \in ServersOf(f, c)
  BY <1>1 DEF ServersOf
<1>3. Server(c, 1).cluster = c /\ Server(c, 1).class = "server"
  BY DEF Server, Node
<1>4. QED  BY <1>2, <1>3 DEF Nodes, Walked, Dead

-----------------------------------------------------------------------------
(* Servers end in 11..20, clients in 21..70, the infra node in 100.        *)
LEMMA HostInjective ==
    ASSUME NEW n, NEW m, Host(n) = Host(m),
           n.class \in {"server", "client", "infra"}, n.num \in Int,
           m.class \in {"server", "client", "infra"}, m.num \in Int,
           n.class = "server" => n.num \in 1..10,
           n.class = "client" => n.num \in 1..50,
           m.class = "server" => m.num \in 1..10,
           m.class = "client" => m.num \in 1..50
    PROVE  n.class = m.class /\ (n.class # "infra" => n.num = m.num)
  BY DEF Host

(* No two nodes share an address, if clusters have at most ten servers and *)
(* different numbers: the arithmetic of forCluster in CompileTopology.     *)
THEOREM AddressesAreUnique ==
    ASSUME NEW f, Compiled(f), WellNumbered(f)
    PROVE  UniqueAddresses(f)
<1> SUFFICES ASSUME NEW n \in Nodes(f), NEW m \in Nodes(f),
                    NEW a \in Addresses(f, n), NEW b \in Addresses(f, m), a.ip = b.ip
             PROVE  n = m
  BY DEF UniqueAddresses
<1>1. n \in Walked(f) /\ m \in Walked(f)
  BY DEF Nodes
<1>2. /\ a.ip \in {LocalAddress(n), PublicAddress(n)}
      /\ b.ip \in {LocalAddress(m), PublicAddress(m)}
  BY DEF Addresses
<1>3. IndexOf[n.cluster] = IndexOf[m.cluster] /\ Host(n) = Host(m)
  BY <1>2 DEF LocalAddress, PublicAddress
<1>4. n.cluster = m.cluster
  BY <1>1, <1>3, NodeForm DEF WellNumbered
<1>5. /\ n.class \in {"server", "client", "infra"} /\ n.num \in Int
      /\ n.class = "server" => n.num \in 1..10
      /\ n.class = "client" => n.num \in 1..50
      /\ n.class = "infra" => n.num = 1
  BY <1>1, NodeForm, Sizes DEF WellNumbered
<1>6. /\ m.class \in {"server", "client", "infra"} /\ m.num \in Int
      /\ m.class = "server" => m.num \in 1..10
      /\ m.class = "client" => m.num \in 1..50
      /\ m.class = "infra" => m.num = 1
  BY <1>1, NodeForm, Sizes DEF WellNumbered
<1>7. n.class = m.class /\ n.num = m.num
  BY <1>3, <1>5, <1>6, HostInjective
<1>8. QED  BY <1>1, <1>4, <1>7, NodeForm

-----------------------------------------------------------------------------
(* The addresses of a node.                                                *)
LEMMA OwnAddresses ==
    ASSUME NEW f, NEW n
    PROVE  /\ [network |-> NetworkName(f, n.cluster), ip |-> LocalAddress(n)]
                 \in Addresses(f, n)
           /\ OnWAN(f, n) =>
                [network |-> "wan", ip |-> PublicAddress(n)] \in Addresses(f, n)
  BY DEF Addresses

(* A node reaches the local address of a node on a network of its own.     *)
LEMMA ReachesLocal ==
    ASSUME NEW f, NEW n, NEW m \in Nodes(f),
           NetworkName(f, m.cluster) = NetworkName(f, n.cluster)
    PROVE  Reaches(f, n, LocalAddress(m))
<1> DEFINE a == [network |-> NetworkName(f, m.cluster), ip |-> LocalAddress(m)]
           b == [network |-> NetworkName(f, n.cluster), ip |-> LocalAddress(n)]
<1>1. a \in Addresses(f, m) /\ b \in Addresses(f, n)
  BY OwnAddresses
<1>2. a.ip = LocalAddress(m) /\ a.network = b.network
  OBVIOUS
<1>3. QED  BY <1>1, <1>2 DEF Reaches

(* Two nodes on the WAN reach each other there.                            *)
LEMMA ReachesPublic ==
    ASSUME NEW f, NEW n, NEW m \in Nodes(f), OnWAN(f, n), OnWAN(f, m)
    PROVE  Reaches(f, n, PublicAddress(m))
<1> DEFINE a == [network |-> "wan", ip |-> PublicAddress(m)]
           b == [network |-> "wan", ip |-> PublicAddress(n)]
<1>1. a \in Addresses(f, m) /\ b \in Addresses(f, n)
  BY OwnAddresses
<1>2. a.ip = PublicAddress(m) /\ a.network = b.network
  OBVIOUS
<1>3. QED  BY <1>1, <1>2 DEF Reaches

LEMMA ShapesAre ==
    ASSUME NEW f, Compiled(f)
    PROVE  f.shape = "flat" \/ f.shape = "dual" \/ f.shape = "islands"
  BY DEF Compiled, CompileRefused, OptionsRefused, Shapes

(* What a server is told to join over the WAN, if not through gateways.    *)
LEMMA JoinsWAN ==
    ASSUME NEW f, Compiled(f), NEW n \in Nodes(f), n.class = "server",
           f.shape # "islands", NEW c \in f.clusters
    PROVE  Reaches(f, n, LeaderIP(f, c, f.shape = "dual"))
<1>1. Server(c, 1) \in Nodes(f) /\ Server(c, 1).class = "server"
  BY FirstServer
<1>2. CASE f.shape = "dual"
  <2>1. OnWAN(f, n) /\ OnWAN(f, Server(c, 1))
    BY <1>1, <1>2 DEF OnWAN
  <2>2. LeaderIP(f, c, f.shape = "dual") = PublicAddress(Server(c, 1))
    BY <1>2 DEF LeaderIP
  <2>3. QED  BY <1>1, <2>1, <2>2, ReachesPublic
<1>3. CASE f.shape = "flat"
  <2>1. NetworkName(f, Server(c, 1).cluster) = NetworkName(f, n.cluster)
    BY <1>3 DEF NetworkName
  <2>2. LeaderIP(f, c, f.shape = "dual") = LocalAddress(Server(c, 1))
    BY <1>3 DEF LeaderIP
  <2>3. QED  BY <1>1, <2>1, <2>2, ReachesLocal
<1>4. QED  BY <1>2, <1>3, ShapesAre

(* A gateway of the primary is reached from the servers of secondaries.    *)
LEMMA ReachesGateway ==
    ASSUME NEW f, Compiled(f), NEW n \in Nodes(f), Secondary(f, n),
           f.shape = "islands", NEW g \in Nodes(f), MeshGateway(f, g)
    PROVE  OnWAN(f, n) /\ OnWAN(f, g) /\ Reaches(f, n, PublicAddress(g))
<1>1. OnWAN(f, n) /\ OnWAN(f, g)
  BY DEF OnWAN, Secondary
<1>2. QED  BY <1>1, ReachesPublic

(* Every address a container dials belongs to a node on a network it is    *)
(* attached to, in every shape: LeaderIP, ServerIPs and GatewayAddrs as    *)
(* GenerateAgentHCL and the containers use them.                           *)
THEOREM DialsAreReachable ==
    ASSUME NEW f, Compiled(f), NEW n \in Nodes(f)
    PROVE  DialsReachable(f, n)
<1>1. n.cluster \in f.clusters
  BY NodeForm DEF Nodes
<1>2. ASSUME NEW ip \in LocalDials(f, n)
      PROVE  Reaches(f, n, ip)
  <2>1. PICK s \in Nodes(f) : s.cluster = n.cluster /\ ip = LocalAddress(s)
    <3>1. CASE Kind(f, n) = "dataplane"
      <4>1. ip = LocalAddress(Server(n.cluster, 1))
        BY <3>1 DEF LocalDials, LeaderIP
      <4>2. QED  BY <1>1, <4>1, FirstServer
    <3>2. CASE Kind(f, n) # "dataplane"
      <4>1. PICK s \in ServersOf(f, n.cluster) : ip = LocalAddress(s)
        BY <3>2 DEF LocalDials, ServerIPs
      <4>2. s.cluster = n.cluster /\ s.class = "server"
        BY DEF ServersOf, Server, Node
      <4>3. s \in Nodes(f)
        BY <1>1, <4>2 DEF Nodes, Walked, Dead
      <4>4. QED  BY <4>1, <4>2, <4>3
    <3>3. QED  BY <3>1, <3>2
  <2>2. QED  BY <2>1, ReachesLocal
<1>3. ASSUME NEW ip \in WANDials(f, n)
      PROVE  Reaches(f, n, ip) \/ ip \in {PublicAddress(g) : g \in RetainedGateways(f)}
  <2>1. n.class = "server"
    BY DEF WANDials
  <2>2. CASE f.shape # "islands"
    <3>1. PICK c \in f.clusters : ip = LeaderIP(f, c, f.shape = "dual")
      BY <2>2 DEF WANDials
    <3>2. QED  BY <2>1, <2>2, <3>1, JoinsWAN
  <2>3. CASE f.shape = "islands"
    <3>1. Secondary(f, n) /\ ip \in GatewayAddrs(f, Primary)
      BY <2>3 DEF WANDials
    <3>2. \/ \E g \in Nodes(f) : MeshGateway(f, g) /\ ip = PublicAddress(g)
          \/ \E g \in RetainedGateways(f) : ip = PublicAddress(g)
      BY <3>1 DEF GatewayAddrs
    <3>3. QED  BY <2>3, <3>1, <3>2, ReachesGateway
  <2>4. QED  BY <2>2, <2>3
<1>4. QED  BY <1>2, <1>3 DEF DialsReachable

(* A server of a secondary is led to the primary, if the primary of        *)
(* islands has a gateway.                                                  *)
THEOREM SecondariesFindPrimary ==
    ASSUME NEW f, Compiled(f), NEW n \in Nodes(f), Secondary(f, n), Linked(f)
    PROVE  LeadsToPrimary(f, n)
<1> SUFFICES \E m \in Nodes(f) : \E a \in Addresses(f, m), b \in Addresses(f, n) :
                m.cluster = Primary /\ a.ip \in WANDials(f, n) /\ a.network = b.network
  BY DEF LeadsToPrimary
<1>1. n.class = "server" /\ f.link = "federate" /\ n.cluster # Primary
  BY DEF Secondary
<1>2. Primary \in f.clusters
  BY DEF Compiled
<1>3. CASE f.shape = "islands"
  <2>1. PICK g \in Nodes(f) : g.cluster = Primary /\ MeshGateway(f, g)
    BY <1>3 DEF Linked
  <2>2. PublicAddress(g) \in WANDials(f, n)
    BY <1>1, <1>3, <2>1 DEF WANDials, GatewayAddrs
  <2>3. OnWAN(f, n) /\ OnWAN(f, g)
    BY <1>3, <2>1, ReachesGateway
  <2> DEFINE a == [network |-> "wan", ip |-> PublicAddress(g)]
             b == [network |-> "wan", ip |-> PublicAddress(n)]
  <2>4. a \in Addresses(f, g) /\ b \in Addresses(f, n)
    BY <2>3, OwnAddresses
  <2>5. a.ip \in WANDials(f, n) /\ a.network = b.network
    BY <2>2
  <2>6. QED  BY <2>1, <2>4, <2>5
<1>4. CASE f.shape # "islands"
  <2>1. PICK m \in Nodes(f) : m = Server(Primary, 1)
    BY <1>2, FirstServer
  <2>2. m.cluster = Primary
    BY <1>2, <2>1, FirstServer
  <2>3. LeaderIP(f, Primary, f.shape = "dual") \in WANDials(f, n)
    BY <1>1, <1>2, <1>4 DEF WANDials
  <2>4. Reaches(f, n, LeaderIP(f, Primary, f.shape = "dual"))
    BY <1>1, <1>2, <1>4, JoinsWAN
  <2>5. CASE f.shape = "dual"
    <3>1. OnWAN(f, n) /\ OnWAN(f, m)
      BY <1>1, <1>2, <2>1, <2>5, FirstServer DEF OnWAN
    <3> DEFINE a == [network |-> "wan", ip |-> PublicAddress(m)]
               b == [network |-> "wan", ip |-> PublicAddress(n)]
    <3>2. a \in Addresses(f, m) /\ b \in Addresses(f, n)
      BY <3>1, OwnAddresses
    <3>3. a.ip \in WANDials(f, n) /\ a.network = b.network
      BY <2>1, <2>3, <2>5 DEF LeaderIP
    <3>4. QED  BY <2>2, <3>2, <3>3
  <2>6. CASE f.shape = "flat"
    <3> DEFINE a == [network |-> NetworkName(f, m.cluster), ip |-> LocalAddress(m)]
               b == [network |-> NetworkName(f, n.cluster), ip |-> LocalAddress(n)]
    <3>1. a \in Addresses(f, m) /\ b \in Addresses(f, n)
      BY OwnAddresses
    <3>2. a.ip \in WANDials(f, n) /\ a.network = b.network
      BY <2>1, <2>3, <2>6 DEF LeaderIP, NetworkName
    <3>3. QED  BY <2>2, <3>1, <3>2
  <2>7. QED  BY <1>4, <2>5, <2>6, ShapesAre
<1>5. QED  BY <1>3, <1>4

-----------------------------------------------------------------------------
(* Every proxy dials an open gRPC port, but for dataplanes when only       *)
(* server_tls_grpc is set: the ports of GenerateAgentHCL against           *)
(* DP_CONSUL_GRPC_PORT and SBOOT_AGENT_GRPC_TLS.                           *)
THEOREM ProxiesFindPorts ==
    ASSUME NEW f, NEW n
    PROVE  \/ PortsMatch(f, n)
           \/ f.serverTLSGRPC /\ ~f.tlsGRPC /\ Kind(f, n) = "dataplane"
<1>1. CASE f.tlsGRPC
  BY <1>1 DEF PortsMatch, OpenGRPC, TLSOnGRPC, DialedGRPC
<1>2. CASE ~f.tlsGRPC /\ Kind(f, n) = "dataplane"
  BY <1>2 DEF PortsMatch, OpenGRPC, TLSOnGRPC, DialedGRPC
<1>3. CASE ~f.tlsGRPC /\ Kind(f, n) # "dataplane"
  <2>1. HasProxy(f, n) => n.class = "client"
    BY DEF HasProxy, HasService, MeshGateway
  <2>2. GRPCServer(f, n) = n
    BY <1>3 DEF GRPCServer
  <2>3. QED  BY <1>3, <2>1, <2>2 DEF PortsMatch, OpenGRPC, TLSOnGRPC, DialedGRPC
<1>4. QED  BY <1>1, <1>2, <1>3
=============================================================================

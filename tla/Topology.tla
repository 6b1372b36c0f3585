------------------------------ MODULE Topology ------------------------------
(***************************************************************************)
(* infra/: CompileTopology turns a configuration into clusters, nodes and  *)
(* their addresses; pure functions of the configuration `f`.               *)
(*                                                                         *)
(* A node is named by cluster, class and number ("dc1-client2").  An       *)
(* address "10.x.y.z" is <<x, y, z>>; y is the number in the name of the   *)
(* cluster.                                                                *)
(***************************************************************************)
EXTENDS Configuration, FiniteSets

CONSTANTS
    IndexOf    \* the number n of a name "dcn", -1 for any other name

ASSUME IndexAssumption ==
    IndexOf \in [Names -> Int] /\ {"lan", "wan"} \cap Names = {}

Node(c, class, i) == [cluster |-> c, class |-> class, num |-> i]
Server(c, i)      == Node(c, "server", i)
Client(c, i)      == Node(c, "client", i)
Infra(c)          == Node(c, "infra", 1)

(* What a node without a block gets: "yay zero value!".                    *)
NoBlock ==
    [mode |-> "", dead |-> FALSE, retain |-> FALSE, dns |-> FALSE,
     builtin |-> FALSE, extra |-> FALSE, segment |-> "", partition |-> "",
     tenancy |-> FALSE, upstreamDatacenter |-> FALSE, upstreamPeer |-> FALSE]

(* getNode                                                                 *)
Block(f, n) == IF n \in DOMAIN f.nodes THEN f.nodes[n] ELSE NoBlock

(* c.Clients += c.MeshGateways: the gateways are just fancy clients.       *)
NumClients(f, c) == f.clients[c] + f.gateways[c]

ServersOf(f, c) == {Server(c, i) : i \in 1..f.servers[c]}
ClientsOf(f, c) == {Client(c, i) : i \in 1..NumClients(f, c)}

(* Every node forCluster walks over, the dead ones included.               *)
Walked(f) ==
    UNION {ServersOf(f, c) \cup ClientsOf(f, c) \cup {Infra(c)} : c \in f.clusters}

Dead(f, n) == n.class = "client" /\ Block(f, n).dead

(* The nodes of the topology: the dead are not added.                      *)
Nodes(f) == {n \in Walked(f) : ~Dead(f, n)}

(* The last clients of a cluster are its gateways.                         *)
MeshGateway(f, n) == n.class = "client" /\ n.num > f.clients[n.cluster]

Kind(f, n) ==
    IF n.class # "client" THEN n.class
    ELSE IF Block(f, n).mode = "agent" THEN "client"
    ELSE IF Block(f, n).mode = "dataplane" \/ f.mode = "dataplane" THEN "dataplane"
    ELSE "client"

IsAgent(f, n) == Kind(f, n) \in {"server", "client"}

HasService(f, n) == n.class = "client" /\ ~MeshGateway(f, n)

(* PartitionOrDefault                                                      *)
Partition(f, n) ==
    IF Block(f, n).partition = "" THEN "default" ELSE Block(f, n).partition

Canary(f, n) ==
    n.class = "client" /\ CanaryConfigured(f) /\ n \in f.canary.nodes

-----------------------------------------------------------------------------
(* Networks and addresses.                                                 *)

Shapes == {"flat", "dual", "islands"}

NetworkName(f, c) == IF f.shape = "flat" THEN "lan" ELSE c

Networks(f) == IF f.shape = "flat" THEN {"lan"} ELSE {"wan"} \cup f.clusters

(* Fault: servers beyond the ninth share addresses with clients.           *)
Host_ClientsAt19(n) ==
    CASE n.class = "server" -> 10 + n.num
      [] n.class = "infra"  -> 100
      [] OTHER              -> 19 + n.num

(* The last byte of every address of a node.                               *)
Host(n) ==
    CASE n.class = "server" -> 10 + n.num
      [] n.class = "infra"  -> 100
      [] OTHER              -> 20 + n.num

LocalAddress(n)  == <<0, IndexOf[n.cluster], Host(n)>>
PublicAddress(n) == <<1, IndexOf[n.cluster], Host(n)>>

(* The nodes with an address on the WAN.  In the islands shape these are   *)
(* the gateways and the servers of the secondaries.                        *)
OnWAN(f, n) ==
    /\ f.shape # "flat"
    /\ \/ n.class = "server" /\ (f.shape = "dual" \/ n.cluster # Primary)
       \/ MeshGateway(f, n)

Addresses(f, n) ==
    {[network |-> NetworkName(f, n.cluster), ip |-> LocalAddress(n)]}
        \cup (IF OnWAN(f, n)
                THEN {[network |-> "wan", ip |-> PublicAddress(n)]} ELSE {})

(* ServerIPs; LeaderIP, the first server: a wide-area address only if it   *)
(* is asked for.  Names of servers sort with server1 first.                *)
ServerIPs(f, c) == {LocalAddress(s) : s \in ServersOf(f, c)}

LeaderIP(f, c, wan) ==
    IF wan THEN PublicAddress(Server(c, 1)) ELSE LocalAddress(Server(c, 1))

(* additionalPrimaryGateways: gateways of the primary that are dead and    *)
(* yet kept in the list.                                                   *)
RetainedGateways(f) ==
    {n \in Walked(f) : /\ f.link = "federate"
                       /\ n.cluster = Primary /\ MeshGateway(f, n)
                       /\ Dead(f, n) /\ Block(f, n).retain}

GatewayAddrs(f, c) ==
    {PublicAddress(n) :
        n \in {m \in Nodes(f) : m.cluster = c /\ MeshGateway(f, m)}
                \cup RetainedGateways(f)}

-----------------------------------------------------------------------------
(* Refusals.                                                               *)

OptionsRefused(f) ==
    \/ f.shape \notin Shapes
    \/ f.link \notin {"peer", "federate"}
    \/ f.mode \notin {"agent", "dataplane"}
    \/ \E n \in DOMAIN f.nodes : f.nodes[n].mode \notin {"agent", "dataplane", ""}
    \/ f.shape # "flat" /\ f.link = "peer"
    \/ f.shape = "islands" /\ ~f.tls
    \/ f.shape # "flat" /\ f.prometheus

ClusterRefused(f, c) ==
    \/ f.gateways[c] < 0 \/ f.servers[c] <= 0
    \/ NumClients(f, c) <= 0 \/ NumClients(f, c) > 50
    \/ IndexOf[c] < 0

(* A block of a server must say mode = "agent"; gateways live in the       *)
(* default partition; a DNS name only serves a gateway of a flat network.  *)
NodeOptionsRefused(f, n) ==
    \/ n.class = "server" /\ n \in DOMAIN f.nodes /\ f.nodes[n].mode # "agent"
    \/ n.class = "client"
         /\ \/ MeshGateway(f, n) /\ Partition(f, n) # "default"
            \/ Block(f, n).dns /\ ~(MeshGateway(f, n) /\ f.shape = "flat")

CompileRefused(f) ==
    \/ OptionsRefused(f)
    \/ \E c \in f.clusters : ClusterRefused(f, c)
    \/ \E n \in Walked(f) : NodeOptionsRefused(f, n)

(* PublicAddress panics on a node without an address on the WAN.  (Where a *)
(* configuration is also refused, which comes first makes no difference:   *)
(* either way the process ends before it has done anything.)               *)
CompilePanics(f) == \E n \in RetainedGateways(f) : ~OnWAN(f, n)

(* app.New: the configuration the process starts with, if it starts.       *)
Starts(raw) ==
    /\ ~LoadConfigFails(raw)
    /\ ~CompileRefused(Completed(raw))
    /\ ~CompilePanics(Completed(raw))

-----------------------------------------------------------------------------
(* What CompileTopology does not check: fewer than eleven servers, and no  *)
(* two clusters with the same number ("dc1", "dc01").                      *)
WellNumbered(f) ==
    /\ \A c \in f.clusters : f.servers[c] <= 10
    /\ \A c, d \in f.clusters : IndexOf[c] = IndexOf[d] => c = d

UniqueAddresses(f) ==
    \A n, m \in Nodes(f) :
        \A a \in Addresses(f, n), b \in Addresses(f, m) : a.ip = b.ip => n = m
=============================================================================

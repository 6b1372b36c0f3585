----------------------------- MODULE Rendering ------------------------------
(***************************************************************************)
(* app/gen.go, app/gen_catalog.go, app/tfgen/: what the generated files    *)
(* make containers refer to - addresses, ports, certificates, images and   *)
(* files - as pure functions of the configuration `f`.  The text around    *)
(* the references is left out.                                             *)
(***************************************************************************)
EXTENDS Topology

(* generateConfigs: `primary` leaves the pods of other clusters empty.     *)
Populated(f, only) ==
    {n \in Nodes(f) : only => n.cluster = Primary}

Secondary(f, n) ==
    n.class = "server" /\ f.link = "federate" /\ n.cluster # Primary

-----------------------------------------------------------------------------
(* Whom a container of a node dials.                                       *)

(* Fault: retry_join_wan always takes local addresses.                     *)
WANDials_Local(f, n) ==
    IF n.class # "server" \/ f.link = "peer" THEN {}
    ELSE IF f.shape # "islands"
           THEN {LeaderIP(f, c, FALSE) : c \in f.clusters}
         ELSE IF Secondary(f, n) THEN GatewayAddrs(f, Primary) ELSE {}

(* retry_join_wan or primary_gateways of a server.                         *)
WANDials(f, n) ==
    IF n.class # "server" \/ f.link = "peer" THEN {}
    ELSE IF f.shape # "islands"
           THEN {LeaderIP(f, c, f.shape = "dual") : c \in f.clusters}
         ELSE IF Secondary(f, n) THEN GatewayAddrs(f, Primary) ELSE {}

(* retry_join of an agent, DP_CONSUL_ADDRESSES of a dataplane, -consul-ip  *)
(* of the catalog-sync container of the infra node.                        *)
LocalDials(f, n) ==
    IF Kind(f, n) = "dataplane" THEN {LeaderIP(f, n.cluster, FALSE)}
                                ELSE ServerIPs(f, n.cluster)

-----------------------------------------------------------------------------
(* Ports of the gRPC API: what an agent opens, and what is dialed by the   *)
(* dataplane (at a server) and by the sidecars (at the agent of the pod).  *)

(* Fault: tls_grpc only concerns servers.                                  *)
TLSOnGRPC_ServersOnly(f, n) == n.class = "server" /\ (f.tlsGRPC \/ f.serverTLSGRPC)

TLSOnGRPC(f, n) == f.tlsGRPC \/ (n.class = "server" /\ f.serverTLSGRPC)

OpenGRPC(f, n) == IF TLSOnGRPC(f, n) THEN 8503 ELSE 8502

DialedGRPC(f) == IF f.tlsGRPC THEN 8503 ELSE 8502

GRPCServer(f, n) ==
    IF Kind(f, n) = "dataplane" THEN Server(n.cluster, 1) ELSE n

(* Those with a proxy that dials: a service, or a mesh gateway.            *)
HasProxy(f, n) == HasService(f, n) \/ MeshGateway(f, n)

-----------------------------------------------------------------------------
(* Certificates: the prefix of the pair an agent is told to load.          *)

Prefix(c, type, i) == [cluster |-> c, type |-> type, index |-> i]

AgentPrefix(f, n) ==
    Prefix(n.cluster, IF n.class = "server" THEN "server" ELSE "client", n.num - 1)

-----------------------------------------------------------------------------
(* Images: those docker.tf declares, and those containers refer to.        *)

DeclaredImages(f) ==
    {"pause", "consul", "consul-envoy", "consul-dataplane", "pingpong", "clustertool"}
        \cup (IF f.canary.envoy THEN {"consul-envoy-canary"} ELSE {})
        \cup (IF f.canary.dataplane THEN {"consul-dataplane-canary"} ELSE {})
        \cup (IF f.prometheus THEN {"prometheus", "grafana"} ELSE {})

ProxyImage(f, n) ==
    CASE MeshGateway(f, n)          -> "consul-envoy"
      [] Kind(f, n) = "dataplane"   -> IF Canary(f, n) THEN "consul-dataplane-canary"
                                                       ELSE "consul-dataplane"
      [] OTHER                      -> IF Canary(f, n) THEN "consul-envoy-canary"
                                                       ELSE "consul-envoy"

NodeImages(f, n) ==
    {"pause"} \cup (IF IsAgent(f, n) THEN {"consul"} ELSE {})
              \cup (IF HasProxy(f, n) THEN {ProxyImage(f, n)} ELSE {})
              \cup (IF HasService(f, n) THEN {"pingpong"} ELSE {})
              \cup (IF n.class = "infra" THEN {"clustertool"} ELSE {})

-----------------------------------------------------------------------------
(* Catalog definitions and panics.                                         *)

(* generateCatalogInfo: the clusters it writes a definition for.           *)
Defined(f, only) == IF only THEN {Primary} ELSE f.clusters

(* An upstream_extra_hcl of a dataplane: "cannot do this".                 *)
CatalogPanics(f, only) ==
    \E n \in Populated(f, only) :
        Kind(f, n) = "dataplane" /\ HasService(f, n) /\ Block(f, n).extra

(* Definitions the containers of the infra nodes hash; a missing one is an *)
(* error.                                                                  *)
HashedDefinitions(f, only) == {n.cluster : n \in {m \in Populated(f, only) :
                                                     m.class = "infra"}}

(* A builtin proxy of a dataplane is "not possible"; a mesh gateway as a   *)
(* dataplane: "figure this out".                                           *)
RenderPanics(f, only) ==
    \E n \in Populated(f, only) :
        /\ Kind(f, n) = "dataplane"
        /\ MeshGateway(f, n) \/ Block(f, n).builtin

-----------------------------------------------------------------------------
(* Some node has this address on a network n is attached to.               *)
Reaches(f, n, ip) ==
    \E m \in Nodes(f) : \E a \in Addresses(f, m), b \in Addresses(f, n) :
        a.ip = ip /\ a.network = b.network

(* Every address a container of n dials is reachable, but those of dead    *)
(* gateways that are kept on purpose.                                      *)
DialsReachable(f, n) ==
    /\ \A ip \in LocalDials(f, n) : Reaches(f, n, ip)
    /\ \A ip \in WANDials(f, n) :
          Reaches(f, n, ip) \/ ip \in {PublicAddress(g) : g \in RetainedGateways(f)}

(* One of the addresses a server of a secondary dials is in the primary    *)
(* and reachable.  Islands without a gateway in the primary pass every     *)
(* check of the program and are left out.                                  *)
LeadsToPrimary(f, n) ==
    \E m \in Nodes(f) : \E a \in Addresses(f, m), b \in Addresses(f, n) :
        m.cluster = Primary /\ a.ip \in WANDials(f, n) /\ a.network = b.network

Linked(f) ==
    f.shape = "islands" => \E n \in Nodes(f) : n.cluster = Primary /\ MeshGateway(f, n)

(* Every proxy dials a port its gRPC server opens.                         *)
PortsMatch(f, n) ==
    HasProxy(f, n) => OpenGRPC(f, GRPCServer(f, n)) = DialedGRPC(f)
=============================================================================

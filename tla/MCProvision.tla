---------------------------- MODULE MCProvision -----------------------------
(* Configurations for Provision: one for each path through the checks, the *)
(* address plan and the rendering, and a few to edit between.              *)
EXTENDS Provision, TLC

MCNames   == {"dc1", "dc2", "dc02", "east"}
MCIndexOf == [c \in MCNames |-> CASE c = "dc1" -> 1 [] c = "east" -> -1 [] OTHER -> 2]

Counts(a, b) == [c \in MCNames |-> IF c = "dc1" THEN a ELSE b]
NoNodes      == [n \in {} |-> NoBlock]

\* Two federated clusters, one server and one client each, nothing encrypted.
Base ==
    [shape |-> "", link |-> "", mode |-> "",
     clusters |-> {"dc1", "dc2"}, datacenters |-> {},
     servers |-> Counts(1, 1), clients |-> Counts(1, 1), gateways |-> Counts(0, 0),
     nodes |-> NoNodes,
     acls |-> TRUE, masterToken |-> TRUE,
     tls |-> FALSE, tlsAPI |-> FALSE, tlsGRPC |-> FALSE, serverTLSGRPC |-> FALSE,
     k8s |-> FALSE, prometheus |-> FALSE, enterprise |-> FALSE, license |-> FALSE,
     segments |-> {}, partitions |-> <<>>,
     canary |-> [consul |-> FALSE, envoy |-> FALSE, dataplane |-> FALSE, nodes |-> {}],
     oldEntries |-> FALSE, entries |-> FALSE]

Blocks(n, b) == (n :> b)

\* Shapes and links.
Solo      == [Base EXCEPT !.clusters = {"dc1"}]
SoloTLS   == [Solo EXCEPT !.tls = TRUE]
WiderTLS  == [SoloTLS EXCEPT !.servers = Counts(2, 1), !.gateways = Counts(1, 0)]
Dual      == [Base EXCEPT !.shape = "dual", !.gateways = Counts(1, 1)]
Islands   == [Base EXCEPT !.shape = "islands", !.tls = TRUE, !.gateways = Counts(1, 1)]
Retained  == [Islands EXCEPT !.clients = Counts(1, 0), !.gateways = Counts(2, 1), !.tlsAPI = TRUE,
                !.nodes = Blocks(Client("dc1", 3), [NoBlock EXCEPT !.dead = TRUE, !.retain = TRUE])]
Closed    == [Islands EXCEPT !.gateways = Counts(0, 1)]
Peers     == [Base EXCEPT !.shape = "flat", !.link = "peer", !.tls = TRUE,
                !.serverTLSGRPC = TRUE, !.mode = "dataplane"]
AgentPeer == [Peers EXCEPT !.clients = Counts(1, 0), !.tlsGRPC = TRUE, 
                !.mode = "agent", !.gateways = Counts(0, 1)]
Ten       == [Base EXCEPT !.datacenters = {"dc2"}, !.clusters = {}, !.servers = Counts(1, 10)]
Eleven    == [Ten EXCEPT !.servers = Counts(1, 11)]
Twins     == [Base EXCEPT !.clusters = {"dc1", "dc2", "dc02"}]
Insecure  == [Solo EXCEPT !.acls = FALSE, !.masterToken = FALSE]

\* Node blocks.
One(b)    == [Solo EXCEPT !.nodes = Blocks(Client("dc1", 1), b)]
Mixed     == One([NoBlock EXCEPT !.mode = "dataplane"])
Builtin   == [Mixed EXCEPT !.nodes = Blocks(Client("dc1", 1),
                [NoBlock EXCEPT !.mode = "dataplane", !.builtin = TRUE])]
Extra     == [Mixed EXCEPT !.nodes = Blocks(Client("dc1", 1),
                [NoBlock EXCEPT !.mode = "dataplane", !.extra = TRUE])]
FlatGone  == [Solo EXCEPT !.gateways = Counts(1, 0),
                !.nodes = Blocks(Client("dc1", 2), [NoBlock EXCEPT !.dead = TRUE, !.retain = TRUE])]
PlaneGate == [Solo EXCEPT !.gateways = Counts(1, 0), !.mode = "dataplane",
                !.nodes = Blocks(Client("dc1", 1), [NoBlock EXCEPT !.mode = "agent"])]

\* Canaries and Kubernetes.
NewProxy  == [Solo EXCEPT !.canary =
                [consul |-> TRUE, envoy |-> TRUE, dataplane |-> FALSE,
                 nodes |-> {Client("dc1", 1)}]]
NewPlane  == [NewProxy EXCEPT !.canary.dataplane = TRUE, !.mode = "dataplane"]
Dangling  == [NewProxy EXCEPT !.mode = "dataplane"]
Kube      == [Solo EXCEPT !.k8s = TRUE]
KubeFed   == [Base EXCEPT !.k8s = TRUE]

\* Refused.
Refused ==
    {[Peers EXCEPT !.masterToken = FALSE], [Peers EXCEPT !.serverTLSGRPC = FALSE],
     [Peers EXCEPT !.shape = "dual"], [Islands EXCEPT !.tls = FALSE],
     [Base EXCEPT !.datacenters = {"dc2"}], [Base EXCEPT !.clusters = {"east"}],
     [Dual EXCEPT !.prometheus = TRUE], [Insecure EXCEPT !.prometheus = TRUE],
     [Solo EXCEPT !.clients = Counts(0, 0)], [Solo EXCEPT !.clients = Counts(51, 0)],
     [Solo EXCEPT !.gateways = Counts(-1, 0)], [Solo EXCEPT !.canary.envoy = TRUE],
     One([NoBlock EXCEPT !.dns = TRUE]), One([NoBlock EXCEPT !.partition = "a"]),
     [Solo EXCEPT !.nodes = Blocks(Server("dc1", 1), [NoBlock EXCEPT !.dead = TRUE])],
     FlatGone}

Varied ==
    {Solo, SoloTLS, WiderTLS, Dual, Retained, Closed, Peers, AgentPeer, Ten,
     Eleven, Twins, Insecure, Mixed, Builtin, Extra, PlaneGate, NewProxy, NewPlane,
     Dangling, Kube, KubeFed, [Solo EXCEPT !.prometheus = TRUE]} \cup Refused

\* What an operator edits: TLS off and on, another server and a gateway,
\* Kubernetes off and on, canaries, and the repair of a file that panics.
Changes ==
    {<<Solo, SoloTLS>>, <<SoloTLS, Solo>>, <<SoloTLS, WiderTLS>>,
     <<Solo, Kube>>, <<Kube, Solo>>, <<Solo, NewProxy>>, <<FlatGone, Solo>>}
=============================================================================

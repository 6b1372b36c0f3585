--------------------------- MODULE Configuration ----------------------------
(***************************************************************************)
(* config/parse.go: what LoadConfig makes of config.hcl, and which files   *)
(* it refuses.  A configuration is a record; `raw` is what the file says,  *)
(* `conf` what the program works with.  Of free text (images, log levels,  *)
(* meta data) only whether it is given is kept.                            *)
(*                                                                         *)
(*   shape, link, mode        network_shape, link_mode, node_mode, or ""   *)
(*   clusters, datacenters    names of the cluster blocks and of the       *)
(*                            deprecated datacenter blocks                 *)
(*   servers, clients, gateways   numbers of each, per cluster             *)
(*   nodes                    node blocks, by the name of their node       *)
(*   acls, masterToken        ~disable_acls; an initial_master_token given *)
(*   tls, tlsAPI, tlsGRPC, serverTLSGRPC     security.encryption           *)
(*   k8s, prometheus, enterprise, license, segments, partitions            *)
(*   canary                   canary_proxies: which versions are given,    *)
(*                            and the names of its nodes                   *)
(*   oldEntries, entries      config_entries and cluster_config given      *)
(***************************************************************************)
EXTENDS Integers, Sequences

CONSTANTS
    Names,     \* names a cluster can be given
    Primary    \* config.PrimaryCluster, "dc1"

ASSUME PrimaryAssumption == Primary \in Names

(* A file that can be decoded: what TLC and the proofs rely on.            *)
IsFile(raw) ==
    /\ raw.clusters \subseteq Names /\ raw.datacenters \subseteq Names
    /\ raw.servers \in [Names -> Int]
    /\ raw.clients \in [Names -> Int]
    /\ raw.gateways \in [Names -> Int]

(* What parseConfig fills in: defaults, datacenter for cluster, and the    *)
(* primary cluster with one server and two clients if it is missing.       *)
Completed(raw) ==
    LET given == IF raw.datacenters # {} THEN raw.datacenters ELSE raw.clusters
        With(count, n) ==
            IF Primary \in given THEN count ELSE [count EXCEPT ![Primary] = n]
        Or(value, default) == IF value = "" THEN default ELSE value
    IN  [shape       |-> Or(raw.shape, "flat"),
         link        |-> Or(raw.link, "federate"),
         mode        |-> Or(raw.mode, "agent"),
         datacenters |-> {},
         clusters    |-> given \cup {Primary},
         servers     |-> With(raw.servers, 1),
         clients     |-> With(raw.clients, 2),
         gateways    |-> With(raw.gateways, 0),
         license     |-> raw.license /\ raw.enterprise,
         nodes |-> raw.nodes, acls |-> raw.acls, masterToken |-> raw.masterToken,
         tls |-> raw.tls, tlsAPI |-> raw.tlsAPI, tlsGRPC |-> raw.tlsGRPC,
         serverTLSGRPC |-> raw.serverTLSGRPC, k8s |-> raw.k8s,
         prometheus |-> raw.prometheus, enterprise |-> raw.enterprise,
         segments |-> raw.segments, partitions |-> raw.partitions,
         canary |-> raw.canary, oldEntries |-> raw.oldEntries,
         entries |-> raw.entries]

(* The errors of parseConfig.                                              *)
ParseRefused(raw) ==
    \/ raw.acls /\ raw.link = "peer" /\ ~raw.masterToken
    \/ raw.datacenters # {} /\ raw.clusters # {}
    \/ raw.oldEntries /\ raw.entries
    \/ \E n \in DOMAIN raw.nodes :
          raw.nodes[n].upstreamDatacenter /\ raw.nodes[n].upstreamPeer

-----------------------------------------------------------------------------
(* validateConfig, by topic.                                               *)

EnterpriseRefused(conf) ==
    \/ conf.enterprise /\ conf.k8s
    \/ conf.enterprise /\ ~conf.license
    \/ ~conf.enterprise /\ conf.segments # {}
    \/ ~conf.enterprise /\ conf.partitions # <<>>

(* `tenancy`: an upstream_partition or a namespace is given.               *)
NodeRefused(conf, block) ==
    IF conf.enterprise
      THEN block.segment \notin conf.segments \cup {""}
      ELSE block.segment # "" \/ block.partition # "" \/ block.tenancy

Repeated(s) == \E i, j \in DOMAIN s : i # j /\ s[i] = s[j]

PartitionsRefused(conf) ==
    /\ conf.partitions # <<>>
    /\ \/ conf.link = "federate" /\ conf.clusters # {Primary}
       \/ Repeated([i \in DOMAIN conf.partitions |-> conf.partitions[i].name])
       \/ \E i \in DOMAIN conf.partitions :
             LET ap == conf.partitions[i]
             IN  \/ ap.name = ""
                 \/ Repeated(ap.namespaces)
                 \/ \E j \in DOMAIN ap.namespaces : ap.namespaces[j] = ""

EncryptionRefused(conf) ==
    \/ conf.link = "peer" /\ ~(conf.tls /\ (conf.tlsGRPC \/ conf.serverTLSGRPC))
    \/ (conf.tlsAPI \/ conf.tlsGRPC) /\ ~conf.tls

CanaryRefused(canary) ==
    IF canary.consul THEN ~canary.envoy /\ ~canary.dataplane
                     ELSE canary.envoy \/ canary.dataplane

Invalid(conf) ==
    \/ EnterpriseRefused(conf)
    \/ \E n \in DOMAIN conf.nodes : NodeRefused(conf, conf.nodes[n])
    \/ PartitionsRefused(conf)
    \/ EncryptionRefused(conf)
    \/ CanaryRefused(conf.canary)
    \/ conf.prometheus /\ ~conf.acls

(* LoadConfig                                                              *)
LoadConfigFails(raw) == ParseRefused(raw) \/ Invalid(Completed(raw))

(* CanaryInfo: canaries need a version of Consul and one of Envoy.         *)
CanaryConfigured(conf) == conf.canary.consul /\ conf.canary.envoy
=============================================================================

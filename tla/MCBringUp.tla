----------------------------- MODULE MCBringUp ------------------------------
(* Small environments for BringUp: two federated or two peered clusters.   *)
EXTENDS BringUp, TLC

CONSTANTS dc1, dc2,    \* clusters
          p1, p2, q1, q2,  \* agents
          web              \* a service

\* One server per cluster, a service on a client agent of the second one.
PairServers  == (dc1 :> {p1}) @@ (dc2 :> {q1})
PairClients  == (dc1 :> {}) @@ (dc2 :> {q2})
PairServices == (dc1 :> {}) @@ (dc2 :> {web})

\* A second cluster with two servers; the mesh gateway is the only workload.
WideServers == (dc1 :> {p1}) @@ (dc2 :> {q1, q2})
Nothing     == (dc1 :> {}) @@ (dc2 :> {})

\* A single cluster with two servers.
SoloServers  == dc1 :> {p1, p2}
SoloClients  == dc1 :> {q1}
SoloServices == dc1 :> {web}
Nothing1     == dc1 :> {}

WideSymmetry == Permutations({q1, q2})
SoloSymmetry == Permutations({p1, p2})
=============================================================================

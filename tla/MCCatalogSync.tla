--------------------------- MODULE MCCatalogSync ----------------------------
(* Small catalogs for CatalogSync: two dataplane nodes and two services.   *)
EXTENDS CatalogSync

CONSTANTS n1, n2,      \* dataplane nodes
          ping, pong   \* services

At(n, a) == [node |-> n, app |-> a]

\* Definitions in which a node goes, a service moves to another node, and a
\* node changes its service.
Moving == {{At(n1, ping)}, {At(n1, pong), At(n2, ping)}, {At(n2, pong)}}

\* One definition, with a service on each node.
Fixed == {{At(n1, ping), At(n2, pong)}}

\* A second service that comes and goes.
Coming == {{At(n1, ping)}, {At(n1, ping), At(n2, pong)}}
=============================================================================

----------------------------- MODULE MCLifecycle ----------------------------
(* Small sets of configurations for Lifecycle.                             *)
EXTENDS Lifecycle

CONSTANTS flat, islands,  \* network shapes
          v1, v2,         \* versions of images
          d1, d2          \* nodes and services

Cfg(n, v, d, g) == [net |-> n, versions |-> v, def |-> d, gossip |-> g]

\* Another shape, other services, other versions and no gossip key.
Varied ==
    {Cfg(flat, v1, d1, TRUE), Cfg(islands, v1, d2, TRUE), Cfg(flat, v2, d1, FALSE)}
=============================================================================

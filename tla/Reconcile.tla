----------------------------- MODULE Reconcile ------------------------------
(***************************************************************************)
(* What devconsul promises wherever it brings a store of Consul into       *)
(* agreement with what a file declares: the nodes and services of the      *)
(* virtual catalog (initialSync), the central configuration entries        *)
(* (writeCentralConfigs), the partitions (createPartitions).  A run writes *)
(* what is declared and only then removes what else there is ("register    *)
(* missing", "remove all strays"), so that nothing declared is ever        *)
(* missing because of it; it may be stopped anywhere and another run take  *)
(* over with another declaration.                                          *)
(***************************************************************************)
CONSTANTS
    Foreign,     \* items Consul adds by itself
    Hidden(_)    \* items that are not listed, and so not removed

VARIABLES
    phase,       \* "idle", "prepare", "sync", "settled"
    wanted,      \* the items the run has to establish
    allowed,     \* the items it may write
    stored       \* the items that are there

vars == <<phase, wanted, allowed, stored>>

Init == phase = "idle" /\ wanted = {} /\ allowed = {} /\ stored = {}

(* A run starts, with a declaration.                                       *)
Begin ==
    /\ phase \in {"idle", "settled"}
    /\ phase' \in {"prepare", "sync"}
    /\ wanted' \subseteq allowed'
    /\ stored' = stored

(* Before it comes to the items, what contains them may be removed, and    *)
(* they with it: none that is wanted.                                      *)
Drop ==
    /\ phase = "prepare"
    /\ stored' \subseteq stored /\ wanted \cap stored \subseteq stored'
    /\ UNCHANGED <<phase, wanted, allowed>>

BeginSync ==
    /\ phase = "prepare" /\ phase' = "sync"
    /\ UNCHANGED <<wanted, allowed, stored>>

Write ==
    /\ phase = "sync"
    /\ \E i \in allowed : stored' = stored \cup {i}
    /\ UNCHANGED <<phase, wanted, allowed>>

(* Once everything wanted is there, what is not may go.                    *)
Remove ==
    /\ phase = "sync"
    /\ stored' \subseteq stored /\ wanted \subseteq stored'
    /\ UNCHANGED <<phase, wanted, allowed>>

Settle ==
    /\ phase = "sync" /\ phase' = "settled"
    /\ wanted \subseteq stored
    /\ \A i \in stored : i \in allowed \cup Foreign \/ Hidden(i)
    /\ UNCHANGED <<wanted, allowed, stored>>

(* The run fails, is killed or replaced.                                   *)
Stop ==
    /\ phase' = "idle" /\ wanted' = {} /\ allowed' = {}
    /\ stored' = stored

AddForeign ==
    /\ stored \subseteq stored' /\ stored' \subseteq stored \cup Foreign
    /\ UNCHANGED <<phase, wanted, allowed>>

Next ==
    Begin \/ Drop \/ BeginSync \/ Write \/ Remove \/ Settle \/ Stop \/ AddForeign

Spec == Init /\ [][Next]_vars
=============================================================================

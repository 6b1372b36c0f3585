---------------------------- MODULE TokenHandoff ----------------------------
(***************************************************************************)
(* What `devconsul up` promises about the ACL tokens it hands to workloads *)
(* through files in cache/ (mesh gateways, service sidecars): a token is   *)
(* minted in the cluster that owns it, spreads to the servers of the       *)
(* cluster it is meant for, and its file appears only when every one of    *)
(* those servers resolves it ("Make sure we wait for it before letting it  *)
(* manifest in the cache store", app/boot.go).  Destroying the environment *)
(* forgets everything at once.  How the order is obtained is left to       *)
(* module BringUp, which implements this one.                              *)
(***************************************************************************)
CONSTANTS
    Tokens,      \* the tokens handed over through files
    ServersOf    \* ServersOf[t]: the servers that have to resolve token t

VARIABLES
    minted,      \* tokens that exist in their authority's ACL store
    usable,      \* pairs <<t, s>>: server s resolves token t
    published    \* tokens whose file holds their current secret

vars == <<minted, usable, published>>

TypeOK ==
    /\ minted \subseteq Tokens
    /\ \A p \in usable : p[1] \in Tokens /\ p[2] \in ServersOf[p[1]]
    /\ published \subseteq Tokens

Init == minted = {} /\ usable = {} /\ published = {}

Mint(t) ==
    /\ minted' = minted \cup {t}
    /\ UNCHANGED <<usable, published>>

Spread(t, s) ==
    /\ t \in minted
    /\ usable' = usable \cup {<<t, s>>}
    /\ UNCHANGED <<minted, published>>

Publish(t) ==
    /\ \A s \in ServersOf[t] : <<t, s>> \in usable
    /\ published' = published \cup {t}
    /\ UNCHANGED <<minted, usable>>

Destroy == minted' = {} /\ usable' = {} /\ published' = {}

Next ==
    \/ \E t \in Tokens :
          \/ Mint(t)
          \/ \E s \in ServersOf[t] : Spread(t, s)
          \/ Publish(t)
    \/ Destroy

Spec == Init /\ [][Next]_vars
=============================================================================

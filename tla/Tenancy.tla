------------------------------ MODULE Tenancy -------------------------------
(***************************************************************************)
(* Partitions and namespaces of a cluster (Consul Enterprise): what        *)
(* initPrimaryCluster in app/boot.go makes of enterprise.partitions, with  *)
(* createPartitions and createNamespaces, each time `up` runs.             *)
(*                                                                         *)
(* A file f has f.enterprise, f.acls and f.partitions, a sequence of       *)
(* [name, namespaces].  What the other steps of `up` do is left to the     *)
(* modules that extend this one.                                           *)
(***************************************************************************)
EXTENDS Integers, Sequences, FiniteSets

CONSTANTS
    Configs,         \* contents of config.hcl at first
    Edits,           \* pairs of contents: what it may be changed from and to
    None,            \* no configuration
    MaxEdits,        \* bound: edits of config.hcl
    MaxInterrupts    \* bound: interrupted commands

Files == Configs \cup {e[2] : e \in Edits}

ASSUME NoneIsNoFile == None \notin Files

IsList(s) == Len(s) \in Nat /\ DOMAIN s = 1..Len(s)

(* validateConfig refuses two partitions with one name.                    *)
ASSUME PartitionsAssumption ==
    \A f \in Files :
        /\ f.enterprise \in BOOLEAN /\ IsList(f.partitions)
        /\ \A i \in DOMAIN f.partitions : IsList(f.partitions[i].namespaces)
        /\ \A i, j \in DOMAIN f.partitions :
              f.partitions[i].name = f.partitions[j].name => i = j

VARIABLES
    config,      \* config.hcl
    \* the process
    pc,          \* the loop being executed; "idle", "failed", "rejected", "done"
    conf,        \* the configuration it loaded
    at,          \* the partition createNamespaces has come to
    next,        \* the next element of the list the loop goes through
    listed,      \* currentMap: names Consul listed and the file did not claim
    \* Consul
    parts,       \* partitions
    spaces,      \* namespaces, as <<partition, name>>
    policies,    \* partitions with the policy cross-ns-catalog-read
    \* history
    spent        \* bounds used up

tenants     == <<parts, spaces, policies>>
tenancyVars == <<config, pc, conf, at, next, listed, tenants, spent>>

Ended == {"idle", "failed", "rejected", "done"}

TenancyInit ==
    /\ config \in Configs
    /\ pc = "idle" /\ conf = None /\ at = 0 /\ next = 0 /\ listed = {}
    /\ parts = {"default"} /\ spaces = {<<"default", "default">>} /\ policies = {}
    /\ spent = [edits |-> 0, interrupts |-> 0]

Spend(what, bound) ==
    /\ spent[what] < bound
    /\ spent' = [spent EXCEPT ![what] = @ + 1]

Goto(st) == pc' = st /\ at' = 0 /\ next' = 1 /\ listed' = {}

EditConfig(e) ==
    /\ config = e[1]
    /\ Spend("edits", MaxEdits)
    /\ config' = e[2]
    /\ UNCHANGED <<pc, conf, at, next, listed, tenants>>

(* `up` has come to createPartitions, which lists them; nothing is done    *)
(* without Enterprise.                                                     *)
Start ==
    /\ pc \in Ended
    /\ conf' = config
    /\ IF config.enterprise
         THEN pc' = "partitions" /\ at' = 0 /\ next' = 1 /\ listed' = parts
         ELSE Goto("list")
    /\ UNCHANGED <<config, tenants, spent>>

Stop(st) ==
    /\ pc' = st /\ conf' = None /\ at' = 0 /\ next' = 0 /\ listed' = {}
    /\ UNCHANGED config

(* ^C or a failing call.                                                   *)
Interrupt ==
    /\ pc \notin Ended
    /\ Spend("interrupts", MaxInterrupts)
    /\ Stop("failed")
    /\ UNCHANGED tenants

-----------------------------------------------------------------------------
(* createPartitions                                                        *)

CreatePartition ==
    /\ pc = "partitions" /\ next \in DOMAIN conf.partitions
    /\ LET name    == conf.partitions[next].name
           missing == name \notin listed /\ name # "default"
       IN  /\ parts'  = IF missing THEN parts \cup {name} ELSE parts
           /\ spaces' = IF missing THEN spaces \cup {<<name, "default">>} ELSE spaces
           /\ listed' = listed \ {name}
    /\ next' = next + 1
    /\ UNCHANGED <<config, pc, conf, at, policies, spent>>

Unclaimed == listed \ {"default"}

(* With a partition goes what is in it.                                    *)
DeletePartition(p) ==
    /\ pc = "partitions" /\ next \notin DOMAIN conf.partitions
    /\ p \in Unclaimed
    /\ parts' = parts \ {p} /\ policies' = policies \ {p}
    /\ spaces' = {s \in spaces : s[1] # p}
    /\ listed' = listed \ {p}
    /\ UNCHANGED <<config, pc, conf, at, next, spent>>

PartitionsCreated ==
    /\ pc = "partitions" /\ next \notin DOMAIN conf.partitions
    /\ Unclaimed = {}
    /\ pc' = "policy" /\ at' = 1 /\ next' = 1 /\ listed' = {}
    /\ UNCHANGED <<config, conf, tenants, spent>>

-----------------------------------------------------------------------------
(* createNamespaces, one partition after the other.                        *)

Current == conf.partitions[at]

(* createCrossNamespaceCatalogReadPolicy, which fails without ACLs; then   *)
(* the namespaces of the partition are listed.                             *)
CreatePolicy ==
    /\ pc = "policy" /\ at \in DOMAIN conf.partitions
    /\ conf.acls
    /\ policies' = policies \cup {Current.name}
    /\ listed' = {s[2] : s \in {t \in spaces : t[1] = Current.name}}
    /\ pc' = "namespaces" /\ next' = 1
    /\ UNCHANGED <<config, conf, at, parts, spaces, spent>>

PolicyRefused ==
    /\ pc = "policy" /\ at \in DOMAIN conf.partitions
    /\ ~conf.acls
    /\ Stop("failed")
    /\ UNCHANGED <<tenants, spent>>

(* The list was of the partition; Create and Delete are given no options   *)
(* and so are about the default partition.  Assumed of Consul Enterprise:  *)
(* it accepts that a namespace is created which exists already, and one    *)
(* that is deleted is gone at once.                                        *)
CreateNamespace ==
    /\ pc = "namespaces" /\ next \in DOMAIN Current.namespaces
    /\ LET ns == Current.namespaces[next]
       IN  /\ spaces' = IF ns \in listed THEN spaces
                                         ELSE spaces \cup {<<"default", ns>>}
           /\ listed' = listed \ {ns}
    /\ next' = next + 1
    /\ UNCHANGED <<config, pc, conf, at, parts, policies, spent>>

DeleteNamespace(ns) ==
    /\ pc = "namespaces" /\ next \notin DOMAIN Current.namespaces
    /\ ns \in Unclaimed
    /\ spaces' = spaces \ {<<"default", ns>>}
    /\ listed' = listed \ {ns}
    /\ UNCHANGED <<config, pc, conf, at, next, parts, policies, spent>>

NamespacesCreated ==
    /\ pc = "namespaces" /\ next \notin DOMAIN Current.namespaces
    /\ Unclaimed = {}
    /\ pc' = "policy" /\ at' = at + 1 /\ next' = 1 /\ listed' = {}
    /\ UNCHANGED <<config, conf, tenants, spent>>

TenancyDone ==
    /\ pc = "policy" /\ at \notin DOMAIN conf.partitions
    /\ Goto("list")
    /\ UNCHANGED <<config, conf, tenants, spent>>

TenancyStep ==
    \/ CreatePartition \/ (\E p \in listed : DeletePartition(p)) \/ PartitionsCreated
    \/ CreatePolicy \/ PolicyRefused
    \/ CreateNamespace \/ (\E ns \in listed : DeleteNamespace(ns)) \/ NamespacesCreated
    \/ TenancyDone

-----------------------------------------------------------------------------
Parted(f) == {f.partitions[i] : i \in DOMAIN f.partitions}

NamespacesOf(ap) == {ap.namespaces[i] : i \in DOMAIN ap.namespaces}

(* The tenants a file declares and gets: the default namespace of every    *)
(* partition and the namespaces of the default partition.                  *)
Tenants(f) ==
    {<<"default", "default">>}
        \cup (IF f.enterprise
                THEN {<<ap.name, "default">> : ap \in Parted(f)}
                       \cup UNION {{<<"default", ns>> : ns \in NamespacesOf(ap)} :
                                     ap \in {q \in Parted(f) : q.name = "default"}}
                ELSE {})

(* What else may be there: namespaces meant for another partition, and any *)
(* namespace if the default partition is not in the file.                  *)
Astray(f) ==
    IF \E ap \in Parted(f) : ap.name = "default"
      THEN {<<"default", ns>> : ns \in UNION {NamespacesOf(ap) : ap \in Parted(f)}}
      ELSE {s \in spaces : s[1] = "default"}

TenancyReady(f) ==
    /\ Tenants(f) \subseteq spaces
    /\ f.enterprise => spaces \subseteq Tenants(f) \cup Astray(f)

(* The partitions besides the default one, as Reconcile sees them.         *)
PartitionsPhase ==
    IF conf = None \/ ~conf.enterprise THEN "idle"
    ELSE IF pc = "partitions" THEN "sync" ELSE "settled"

WantedPartitions ==
    IF conf = None \/ ~conf.enterprise THEN {}
    ELSE {ap.name : ap \in Parted(conf)} \ {"default"}

Unlisted(p) == FALSE

Partitions ==
    INSTANCE Reconcile WITH
        phase <- PartitionsPhase, wanted <- WantedPartitions,
        allowed <- WantedPartitions, stored <- parts \ {"default"},
        Foreign <- {}, Hidden <- Unlisted

(* Partitions are created before others are deleted, with all that is in   *)
(* them, and namespaces are only looked after when they are exactly those  *)
(* of the file (createPartitions).                                         *)
PartitionsReconciled == Partitions!Spec

TenancyTypeOK ==
    /\ config \in Files
    /\ parts = {s[1] : s \in spaces} /\ "default" \in parts
    /\ policies \subseteq parts
    /\ pc \in {"partitions", "policy", "namespaces"} => conf.enterprise
    /\ pc = "namespaces" => at \in DOMAIN conf.partitions
=============================================================================

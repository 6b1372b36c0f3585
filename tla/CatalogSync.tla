---------------------------- MODULE CatalogSync -----------------------------
(***************************************************************************)
(* `clustertool catalog-sync` (clustertool/catalog-sync.go): the daemon    *)
(* that registers the services of dataplane nodes, which have no agent, in *)
(* the catalog of their cluster and then keeps the status of their health  *)
(* checks up to date.  One instance runs per cluster in a container that   *)
(* Docker restarts; `devconsul up` rewrites the definition it reads and    *)
(* replaces the container when the definition has changed.                 *)
(*                                                                         *)
(* A service is known by its placement: a node and an app.  Every app has  *)
(* a proxy beside it, and the generator (app/gen_catalog.go) gives both    *)
(* checks the same CheckID; Consul keeps one check per node and CheckID,   *)
(* that of the last registration.  Partitions and namespaces are part of   *)
(* the names.  The lists of a definition are walked in any order.          *)
(***************************************************************************)
EXTENDS Naturals

CONSTANTS
    Nodes,        \* names of dataplane nodes
    Apps,         \* names of services
    Definitions,  \* the contents catalog_def.<cluster>.json may have
    LostReplies,  \* the reply to an applied status write may be lost
    MaxCrashes,   \* bound: crashes and failed calls of the initial sync
    MaxFaults,    \* bound: failed or lost status writes
    MaxFlips,     \* bound: ports opened or closed
    MaxEdits      \* bound: rewritten definitions

Places == [node : Nodes, app : Apps]

(* A definition is the set of places of its apps: a node is listed when it *)
(* runs a service, a proxy is listed for every service.                    *)
ASSUME DefinitionsAssumption ==
    /\ Definitions \subseteq SUBSET Places
    /\ Definitions # {}
    /\ LostReplies \in BOOLEAN

Entries == [node : Nodes, app : Apps, kind : {"app", "proxy"}]

Entry(p, kind) == [node |-> p.node, app |-> p.app, kind |-> kind]
Place(x)       == [node |-> x.node, app |-> x.app]

NodesOf(d)     == {p.node : p \in d}
EntriesOf(d)   == {x \in Entries : Place(x) \in d}
ServicesOf(d)  == {x \in EntriesOf(d) : x.kind = "app"}
ProxiesOf(d)   == {x \in EntriesOf(d) : x.kind = "proxy"}

Statuses == {"passing", "critical"}
Check(kind, status) == [of |-> kind, status |-> status]
NoCheck == Check("none", "passing")

VARIABLES
    \* the daemon
    pc,           \* what it is doing
    token,        \* the token it read: "good" or "stale"
    conf,         \* c.conf
    dump,         \* curr of initialSync
    nodesLeft,    \* nodes the current loop has not handled
    left,         \* services the current loop has not handled
    pending,      \* the status about to be written, by place
    last,         \* c.last
    \* the files it reads
    file,         \* catalog_def.<cluster>.json
    tokenFile,    \* master-token.val: "none", "stale" or "good"
    \* the catalog, as far as it is virtual
    nodes, entries, checks,
    \* the services
    open,         \* places whose TCP port accepts connections
    spent         \* crashes, faults, flips and edits so far

memory  == <<token, conf, dump, nodesLeft, left, pending, last>>
files   == <<file, tokenFile>>
catalog == <<nodes, entries, checks>>
vars    == <<pc, memory, files, catalog, open, spent>>

Spend(what, bound) ==
    /\ spent[what] < bound
    /\ spent' = [spent EXCEPT ![what] = @ + 1]

Unknown == [p \in Places |-> "unknown"]
Idle    == [p \in {} |-> "unknown"]

Init ==
    /\ pc = "exited" /\ token = "stale" /\ conf = {}
    /\ dump = [nodes |-> {}, entries |-> {}]
    /\ nodesLeft = {} /\ left = {} /\ pending = Idle /\ last = Unknown
    /\ file \in Definitions /\ tokenFile \in {"none", "stale"}
    /\ nodes = {} /\ entries = {} /\ checks = [p \in Places |-> NoCheck]
    /\ open = {}
    /\ spent = [crashes |-> 0, faults |-> 0, flips |-> 0, edits |-> 0]

-----------------------------------------------------------------------------
(* Run: wait until the token file exists, read it and the definition.      *)
Start ==
    /\ pc = "exited"
    /\ tokenFile # "none"
    /\ pc' = "dump"
    /\ token' = tokenFile
    /\ conf' = file
    /\ last' = Unknown
    /\ UNCHANGED <<dump, nodesLeft, left, pending, files, catalog, open, spent>>

(* dumpCurrentCatalog, then the first loop of initialSync.                 *)
DumpCurrentCatalog ==
    /\ pc = "dump"
    /\ token = "good"
    /\ dump' = [nodes |-> nodes, entries |-> entries]
    /\ pc' = "nodes"
    /\ nodesLeft' = NodesOf(conf)
    /\ UNCHANGED <<token, conf, left, pending, last, files, catalog, open, spent>>

(* Consul does not know the token: Run returns an error.                   *)
DumpRefused ==
    /\ pc = "dump"
    /\ token = "stale"
    /\ pc' = "exited"
    /\ UNCHANGED <<memory, files, catalog, open, spent>>

RegisterNode(n) ==
    /\ pc = "nodes"
    /\ n \in nodesLeft
    /\ nodes' = nodes \cup {n}
    /\ nodesLeft' = nodesLeft \ {n}
    /\ UNCHANGED <<pc, token, conf, dump, left, pending, last, files, entries,
                   checks, open, spent>>

NodesRegistered ==
    /\ pc = "nodes"
    /\ nodesLeft = {}
    /\ pc' = "services"
    /\ left' = ServicesOf(conf)
    /\ UNCHANGED <<token, conf, dump, nodesLeft, pending, last, files, catalog,
                   open, spent>>

(* Catalog().Register of ToAPI: a service and its check, which takes the   *)
(* place of a check of the same CheckID.                                   *)
Register(x, status) ==
    /\ entries' = entries \cup {x}
    /\ checks' = [checks EXCEPT ![Place(x)] = Check(x.kind, status)]

(* An app or a proxy: ToAPI gives a new check the status "passing".        *)
RegisterService(x) ==
    /\ pc \in {"services", "proxies"}
    /\ x \in left
    /\ Register(x, "passing")
    /\ left' = left \ {x}
    /\ UNCHANGED <<pc, token, conf, dump, nodesLeft, pending, last, files, nodes,
                   open, spent>>

ServicesRegistered ==
    /\ pc = "services"
    /\ left = {}
    /\ pc' = "proxies"
    /\ left' = ProxiesOf(conf)
    /\ UNCHANGED <<token, conf, dump, nodesLeft, pending, last, files, catalog,
                   open, spent>>

(* Fault: services that moved away from a node that stays are forgotten.   *)
ProxiesRegistered_NodesOnly ==
    /\ pc = "proxies"
    /\ left = {}
    /\ pc' = "strays"
    /\ nodesLeft' = dump.nodes \ NodesOf(conf)
    /\ left' = {}
    /\ UNCHANGED <<token, conf, dump, pending, last, files, catalog, open, spent>>

(* Fault: all that was dumped is removed, whether it is expected or not.   *)
ProxiesRegistered_RemoveAll ==
    /\ pc = "proxies"
    /\ left = {}
    /\ pc' = "strays"
    /\ nodesLeft' = dump.nodes \ NodesOf(conf)
    /\ left' = {x \in dump.entries : x.node \in NodesOf(conf)}
    /\ UNCHANGED <<token, conf, dump, pending, last, files, catalog, open, spent>>

(* The strays: dumped nodes that are not expected, and dumped services not *)
(* expected on a node that is.                                             *)
ProxiesRegistered ==
    /\ pc = "proxies"
    /\ left = {}
    /\ pc' = "strays"
    /\ nodesLeft' = dump.nodes \ NodesOf(conf)
    /\ left' = {x \in dump.entries \ EntriesOf(conf) : x.node \in NodesOf(conf)}
    /\ UNCHANGED <<token, conf, dump, pending, last, files, catalog, open, spent>>

(* With a node go its services and checks.                                 *)
DeregisterNode(n) ==
    /\ pc = "strays"
    /\ n \in nodesLeft
    /\ nodes' = nodes \ {n}
    /\ entries' = {x \in entries : x.node # n}
    /\ checks' = [p \in Places |-> IF p.node = n THEN NoCheck ELSE checks[p]]
    /\ nodesLeft' = nodesLeft \ {n}
    /\ UNCHANGED <<pc, token, conf, dump, left, pending, last, files, open, spent>>

DeregisterService(x) ==
    /\ pc = "strays"
    /\ x \in left
    /\ entries' = entries \ {x}
    /\ checks' = IF checks[Place(x)].of = x.kind
                 THEN [checks EXCEPT ![Place(x)] = NoCheck] ELSE checks
    /\ left' = left \ {x}
    /\ UNCHANGED <<pc, token, conf, dump, nodesLeft, pending, last, files, nodes,
                   open, spent>>

InitialSyncDone ==
    /\ pc = "strays"
    /\ nodesLeft = {} /\ left = {}
    /\ pc' = "health"
    /\ left' = ServicesOf(conf)
    /\ UNCHANGED <<token, conf, dump, nodesLeft, pending, last, files, catalog,
                   open, spent>>

-----------------------------------------------------------------------------
(* detectAndSyncHealthOnce.                                                *)

Observed(p) == IF p \in open THEN "passing" ELSE "critical"

(* Fault: only failures are synced.                                        *)
CheckTCP_FailuresOnly(x) ==
    /\ pc = "health"
    /\ pending = Idle
    /\ x \in left
    /\ left' = left \ {x}
    /\ pending' = IF last[Place(x)] = Observed(Place(x))
                     \/ (Observed(Place(x)) = "passing"
                           /\ last[Place(x)] # "unknown")
                  THEN Idle ELSE [p \in {Place(x)} |-> Observed(p)]
    /\ UNCHANGED <<pc, token, conf, dump, nodesLeft, last, files, catalog, open,
                   spent>>

(* Fault: the remembered status is written, not the observed one.          *)
CheckTCP_WritesUnknown(x) ==
    /\ pc = "health"
    /\ pending = Idle
    /\ x \in left
    /\ left' = left \ {x}
    /\ pending' = IF last[Place(x)] = Observed(Place(x)) THEN Idle
                  ELSE [p \in {Place(x)} |-> last[p]]
    /\ UNCHANGED <<pc, token, conf, dump, nodesLeft, last, files, catalog, open,
                   spent>>

(* checkTCP, compared with the last result.                                *)
CheckTCP(x) ==
    /\ pc = "health"
    /\ pending = Idle
    /\ x \in left
    /\ left' = left \ {x}
    /\ pending' = IF last[Place(x)] = Observed(Place(x)) THEN Idle
                  ELSE [p \in {Place(x)} |-> Observed(p)]
    /\ UNCHANGED <<pc, token, conf, dump, nodesLeft, last, files, catalog, open,
                   spent>>

(* syncHealth registers the app again, with the new status; last is set    *)
(* when the call has returned.                                             *)
SyncHealth ==
    /\ pc = "health"
    /\ \E p \in DOMAIN pending :
          /\ Register(Entry(p, "app"), pending[p])
          /\ last' = [last EXCEPT ![p] = pending[p]]
    /\ pending' = Idle
    /\ UNCHANGED <<pc, token, conf, dump, nodesLeft, left, files, nodes, open,
                   spent>>

(* Fault: the `continue` after a failed write is missing.                  *)
SyncHealthFails_Remembered ==
    /\ pc = "health"
    /\ Spend("faults", MaxFaults)
    /\ \E p \in DOMAIN pending : last' = [last EXCEPT ![p] = pending[p]]
    /\ pending' = Idle
    /\ UNCHANGED <<pc, token, conf, dump, nodesLeft, left, files, catalog, open>>

(* The write fails: the next round tries again.                            *)
SyncHealthFails ==
    /\ pc = "health"
    /\ Spend("faults", MaxFaults)
    /\ pending # Idle
    /\ pending' = Idle
    /\ UNCHANGED <<pc, token, conf, dump, nodesLeft, left, last, files, catalog,
                   open>>

(* The write is applied but an error comes back.                           *)
SyncHealthLost ==
    /\ pc = "health"
    /\ LostReplies
    /\ Spend("faults", MaxFaults)
    /\ \E p \in DOMAIN pending : Register(Entry(p, "app"), pending[p])
    /\ pending' = Idle
    /\ UNCHANGED <<pc, token, conf, dump, nodesLeft, left, last, files, nodes, open>>

RoundDone ==
    /\ pc = "health"
    /\ pending = Idle
    /\ left = {}
    /\ left' = ServicesOf(conf)
    /\ UNCHANGED <<pc, token, conf, dump, nodesLeft, pending, last, files, catalog,
                   open, spent>>

-----------------------------------------------------------------------------
Exit ==
    /\ pc' = "exited"
    /\ nodesLeft' = {} /\ left' = {} /\ pending' = Idle
    /\ conf' = {} /\ dump' = [nodes |-> {}, entries |-> {}]
    /\ UNCHANGED <<token, last>>

(* A call of initialSync returns an error, before or after it was applied, *)
(* or the container is killed.  Docker starts it again.                    *)
Crash ==
    /\ pc # "exited"
    /\ Spend("crashes", MaxCrashes)
    /\ Exit
    /\ UNCHANGED <<files, catalog, open>>

(* `devconsul up` writes the definition (generateCatalogInfo) ...          *)
EditDefinition(d) ==
    /\ d # file
    /\ Spend("edits", MaxEdits)
    /\ file' = d
    /\ UNCHANGED <<pc, memory, tokenFile, catalog, open>>

(* ... replaces a container made for another one ...                       *)
ReplaceContainer ==
    /\ pc # "exited"
    /\ conf # file
    /\ Exit
    /\ UNCHANGED <<files, catalog, open, spent>>

(* ... and saves the management token.                                     *)
SaveMasterToken ==
    /\ tokenFile' = "good"
    /\ UNCHANGED <<pc, memory, file, catalog, open, spent>>

(* A service starts or stops listening.                                    *)
Flip(p) ==
    /\ Spend("flips", MaxFlips)
    /\ open' = (open \ {p}) \cup ({p} \ open)
    /\ UNCHANGED <<pc, memory, files, catalog>>

-----------------------------------------------------------------------------
InitialSync ==
    \/ DumpCurrentCatalog \/ DumpRefused
    \/ \E n \in Nodes : RegisterNode(n) \/ DeregisterNode(n)
    \/ \E x \in Entries : RegisterService(x) \/ DeregisterService(x)
    \/ NodesRegistered \/ ServicesRegistered \/ ProxiesRegistered
    \/ InitialSyncDone

DetectAndSyncHealth ==
    \/ \E x \in Entries : CheckTCP(x)
    \/ SyncHealth \/ RoundDone

Daemon == Start \/ InitialSync \/ DetectAndSyncHealth

Environment ==
    \/ SyncHealthFails \/ SyncHealthLost \/ Crash
    \/ \E d \in Definitions : EditDefinition(d)
    \/ ReplaceContainer \/ SaveMasterToken
    \/ \E p \in Places : Flip(p)

Next == Daemon \/ Environment

Spec == Init /\ [][Next]_vars

(* The daemon keeps going, restarted by Docker when it has exited.         *)
LiveSpec == Spec /\ WF_vars(Daemon)

-----------------------------------------------------------------------------
(* Properties.                                                             *)

TypeOK ==
    /\ pc \in {"exited", "dump", "nodes", "services", "proxies", "strays",
               "health"}
    /\ token \in {"stale", "good"} /\ conf \in SUBSET Places
    /\ dump \in [nodes : SUBSET Nodes, entries : SUBSET Entries]
    /\ nodesLeft \subseteq Nodes /\ left \subseteq Entries
    /\ pending = Idle \/ \E p \in Places : pending \in [{p} -> Statuses]
    /\ last \in [Places -> Statuses \cup {"unknown"}]
    /\ file \in SUBSET Places /\ tokenFile \in {"none", "stale", "good"}
    /\ nodes \subseteq Nodes /\ entries \subseteq Entries
    /\ checks \in [Places -> [of : {"none", "app", "proxy"}, status : Statuses]]
    /\ open \subseteq Places
    /\ spent \in [{"crashes", "faults", "flips", "edits"} -> Nat]

(* Once the initial sync is over, the virtual part of the catalog is the   *)
(* definition, no more and no less, whatever earlier instances with other  *)
(* definitions registered before they were killed (initialSync: "register  *)
(* missing ...", "remove all strays").                                     *)
SyncedCatalog ==
    pc = "health" => nodes = NodesOf(conf) /\ entries = EntriesOf(conf)

(* A service of the definition the daemon runs with never disappears from  *)
(* the catalog: a restart registers before it removes.                     *)
DeclaredStays ==
    [][\A x \in entries \ entries' : x \notin EntriesOf(conf)]_vars

(* The catalog and its daemon as Reconcile sees them.                      *)
SyncPhase ==
    CASE pc = "exited" -> "idle"
      [] pc = "dump"   -> "prepare"
      [] pc = "health" -> "settled"
      [] OTHER         -> "sync"

Expected    == IF pc = "exited" THEN {} ELSE NodesOf(conf) \cup EntriesOf(conf)
Unlisted(i) == FALSE

Reconciliation ==
    INSTANCE Reconcile WITH
        phase <- SyncPhase, wanted <- Expected, allowed <- Expected,
        stored <- nodes \cup entries, Foreign <- {}, Hidden <- Unlisted

(* Wherever daemons are killed and whatever definitions they are given:    *)
(* nothing is removed before all the nodes and services of the definition  *)
(* are registered, nothing but strays is removed then, and the health      *)
(* rounds start with exactly the definition (initialSync).                 *)
ReconcileSpec == Reconciliation!Spec

(* As long as replies are not lost, what the daemon believes of a service  *)
(* is what the catalog says of the app, although the proxy's registration  *)
(* takes the shared check away (detectAndSyncHealthOnce: last).            *)
KnownHealthIsRecorded ==
    ~LostReplies /\ pc # "exited" =>
        \A p \in conf :
            last[p] # "unknown" => checks[p] = Check("app", last[p])

(* With a good token the catalog comes to say of each service what its     *)
(* port says, again and again: when ports stop changing, for good          *)
(* (detectAndSyncHealth).                                                  *)
Recorded(p) ==
    pc = "health" /\ (p \in conf => checks[p] = Check("app", Observed(p)))

CatalogFollowsHealth ==
    tokenFile = "good" ~> \A p \in Places : Recorded(p)
=============================================================================

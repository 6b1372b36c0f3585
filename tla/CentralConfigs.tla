--------------------------- MODULE CentralConfigs ---------------------------
(***************************************************************************)
(* writeCentralConfigs in app/boot.go: the configuration entries of a      *)
(* cluster, those of config.hcl and the stock ones (metrics of proxies,    *)
(* intentions), are written and what else there is gets deleted.  After    *)
(* the tenants, each time `up` runs.  Clusters that are peered have        *)
(* entries of their own; federated ones only in the primary.               *)
(*                                                                         *)
(* A file f also has                                                       *)
(*   entries      a sequence of [kind, name, ns, part, val]; ns and part   *)
(*                may be ""                                                *)
(*   links        the services of the topology: [src, dst], each of them   *)
(*                [name, ns, part]                                         *)
(*   intentions   ~security.disable_default_intentions                     *)
(*   metrics      monitor.prometheus, in the primary                       *)
(* Of an entry's contents val keeps the protocol it sets, the sources it   *)
(* allows and whether it has the address for metrics.                      *)
(***************************************************************************)
EXTENDS Tenancy

ASSUME EntriesAssumption ==
    \A f \in Files : IsList(f.entries)

VARIABLES
    stored,      \* Consul's entries: contents by key
    current,     \* currentEntries: keys that were listed and not written
    extra        \* stock entries still to be written

vars == <<tenancyVars, stored, current, extra>>

OrDefault(s) == IF s = "" THEN "default" ELSE s

Key(e) == [kind |-> e.kind, name |-> e.name,
           ns |-> OrDefault(e.ns), part |-> OrDefault(e.part)]

Plain == [protocol |-> "", sources |-> {}, metrics |-> FALSE]

(* Bootstrap entries in the configuration of servers (GenerateAgentHCL).   *)
Placeholder(kind) ==
    [kind |-> kind, name |-> "placeholder", ns |-> "default", part |-> "default"]

Bootstrap ==
    [k \in {Placeholder("service-defaults"), Placeholder("service-intentions")} |->
        IF k.kind = "service-defaults" THEN [Plain EXCEPT !.protocol = "grpc"]
                                       ELSE [Plain EXCEPT !.sources = {"placeholder-client"}]]

-----------------------------------------------------------------------------
(* The entries to be written.                                              *)

StockIntentions(f) ==
    {[kind |-> "service-intentions", name |-> d.name, ns |-> d.ns, part |-> d.part,
      val |-> [Plain EXCEPT !.sources = {l.src : l \in {m \in f.links : m.dst = d}}]] :
        d \in {l.dst : l \in f.links}}

StockProxyDefaults ==
    [kind |-> "proxy-defaults", name |-> "global", ns |-> "", part |-> "default",
     val |-> [Plain EXCEPT !.metrics = TRUE]]

Stock(f) ==
    (IF f.metrics THEN {StockProxyDefaults} ELSE {})
        \cup (IF f.intentions THEN StockIntentions(f) ELSE {})

SameName(e, g) == e.kind = g.kind /\ e.name = g.name

(* The first entry of the file that a stock entry finds.                   *)
Finds(f, i, stock) ==
    /\ SameName(f.entries[i], stock)
    /\ \A j \in 1..(i - 1) : ~SameName(f.entries[j], stock)

(* Fault: the stock proxy defaults take the place of the file's.           *)
Contents_StockWins(f, i) ==
    IF f.metrics /\ Finds(f, i, StockProxyDefaults) THEN StockProxyDefaults.val
                                                    ELSE f.entries[i].val

(* Proxy defaults of the file are merged with the stock ones, intentions   *)
(* deliberately not.                                                       *)
Contents(f, i) ==
    IF f.metrics /\ Finds(f, i, StockProxyDefaults)
      THEN [f.entries[i].val EXCEPT !.metrics = TRUE] ELSE f.entries[i].val

(* Stock entries that find none in the file, by kind and name.             *)
StockLeft(f) ==
    {e \in Stock(f) : \A i \in DOMAIN f.entries : ~SameName(f.entries[i], e)}

(* Of these, the ones that are appended: none that finds one appended      *)
(* before.  The order is that of a map, so of two with the same name       *)
(* either may come first.                                                  *)
Appended(f) ==
    {S \in SUBSET StockLeft(f) :
        /\ \A e \in StockLeft(f) : \E g \in S : SameName(g, e)
        /\ \A e, g \in S : SameName(g, e) => g = e}

(* Fault: only intentions are scrubbed.                                    *)
Scrubs_IntentionsOnly(f, kind) == ~f.enterprise /\ kind = "service-intentions"

(* Without Enterprise namespace and partition are removed from requests.   *)
Scrubs(f, kind) == ~f.enterprise /\ kind \in {"proxy-defaults", "service-intentions"}

Scrubbed(f, e) ==
    [kind |-> e.kind, name |-> e.name,
     ns   |-> IF Scrubs(f, e.kind) THEN "" ELSE e.ns,
     part |-> IF Scrubs(f, e.kind) THEN "" ELSE e.part]

-----------------------------------------------------------------------------
(* Consul.                                                                 *)

Put(st, k, v) == [j \in DOMAIN st \cup {k} |-> IF j = k THEN v ELSE st[j]]

Without(st, keys) == [j \in DOMAIN st \ keys |-> st[j]]

(* The protocol of the service an entry is about.                          *)
Protocol(st, k) ==
    LET own    == [kind |-> "service-defaults", name |-> k.name,
                   ns |-> k.ns, part |-> k.part]
        global == [kind |-> "proxy-defaults", name |-> "global",
                   ns |-> "default", part |-> k.part]
        Says(j) == j \in DOMAIN st /\ st[j].protocol # ""
    IN  IF Says(own) THEN st[own].protocol
        ELSE IF Says(global) THEN st[global].protocol ELSE "tcp"

(* Routers and splitters need a service that speaks HTTP; Consul refuses   *)
(* every write that would leave one without.                               *)
Routed == {"service-router", "service-splitter"}

Consistent(st) ==
    \A k \in DOMAIN st : k.kind \in Routed => Protocol(st, k) # "tcp"

(* Consul without Enterprise takes no request that names a tenant.         *)
NamesTenant(f, e) == ~f.enterprise /\ (e.ns # "" \/ e.part # "")

SetRefused(f, e, v) ==
    \/ NamesTenant(f, e)
    \/ <<Key(e).part, Key(e).ns>> \notin spaces
    \/ ~Consistent(Put(stored, Key(e), v))

(* A leader that is elected creates the bootstrap entries that are missing.*)
ElectLeader ==
    /\ stored' = [k \in DOMAIN stored \cup DOMAIN Bootstrap |->
                    IF k \in DOMAIN stored THEN stored[k] ELSE Bootstrap[k]]
    /\ UNCHANGED <<tenancyVars, current, extra>>

(* Entries go with their tenant.                                           *)
ChangeTenants ==
    /\ TenancyStep
    /\ stored' = Without(stored, {k \in DOMAIN stored : <<k.part, k.ns>> \notin spaces'})
    /\ UNCHANGED <<current, extra>>

-----------------------------------------------------------------------------
(* writeCentralConfigs                                                     *)

(* Fault: stock entries of a failed run are left to the next.              *)
Forget_Listed == current' = {} /\ UNCHANGED extra

Forget == current' = {} /\ extra' = {}

Kinds ==
    {"mesh", "service-intentions", "ingress-gateway", "terminating-gateway",
     "service-router", "service-splitter", "service-resolver", "service-defaults",
     "proxy-defaults", "exported-services"}

(* ListAllConfigEntries asks every partition for the kinds it knows, in    *)
(* the default namespace.  A kind Consul does not know ("version skew") is *)
(* passed over; Consul has stored no entry of it either.                   *)
ListEntries ==
    /\ pc = "list"
    /\ current' = {k \in DOMAIN stored : k.ns = "default" /\ k.kind \in Kinds}
    /\ extra' \in Appended(conf)
    /\ Goto("set")
    /\ UNCHANGED <<config, conf, tenants, spent, stored>>

(* Fault: the key taken off the list has the partition as it was written.  *)
Write_NotClaimed(e, v) ==
    /\ ~SetRefused(conf, e, v)
    /\ stored' = Put(stored, Key(e), v)
    /\ current' = current \ {[kind |-> e.kind, name |-> e.name, ns |-> "default",
                              part |-> e.part]}

(* Set an entry, and take it off the list.                                 *)
Write(e, v) ==
    /\ ~SetRefused(conf, e, v)
    /\ stored' = Put(stored, Key(e), v)
    /\ current' = current \ {Key(e)}

Refuse(e, v) ==
    /\ SetRefused(conf, e, v)
    /\ Stop("failed") /\ Forget
    /\ UNCHANGED <<tenants, spent, stored>>

SetEntry ==
    /\ pc = "set" /\ next \in DOMAIN conf.entries
    /\ LET e == Scrubbed(conf, conf.entries[next])
           v == Contents(conf, next)
       IN  \/ /\ Write(e, v)
              /\ next' = next + 1
              /\ UNCHANGED <<config, pc, conf, at, listed, tenants, spent, extra>>
           \/ Refuse(e, v)

SetStock(stock) ==
    /\ pc = "set" /\ next \notin DOMAIN conf.entries
    /\ stock \in extra
    /\ LET e == Scrubbed(conf, stock)
       IN  \/ /\ Write(e, stock.val)
              /\ extra' = extra \ {stock}
              /\ UNCHANGED tenancyVars
           \/ Refuse(e, stock.val)

(* Fault: what routers and splitters depend on goes before them.           *)
DeleteOrder_DefaultsFirst ==
    <<"service-intentions", "service-defaults", "proxy-defaults", "service-router",
      "service-splitter", "service-resolver", "exported-services">>

(* "The order that will make the graph happy during erasure."              *)
DeleteOrder ==
    <<"mesh", "service-intentions", "ingress-gateway", "terminating-gateway",
      "service-router", "service-splitter", "service-resolver", "service-defaults",
      "proxy-defaults", "exported-services">>

(* The loop over kinds, each of them with a loop over the list.            *)
Rank(k) == {a \in DOMAIN DeleteOrder : DeleteOrder[a] = k.kind}

Deleting == pc = "set" /\ next \notin DOMAIN conf.entries /\ extra = {}

IsNextToDelete(k) ==
    \E a \in Rank(k) : \A j \in current : \A b \in Rank(j) : a <= b

DeleteEntry(k) ==
    /\ Deleting
    /\ k \in current /\ IsNextToDelete(k)
    /\ Consistent(Without(stored, {k}))
    /\ stored' = Without(stored, {k})
    /\ current' = current \ {k}
    /\ UNCHANGED <<tenancyVars, extra>>

DeleteRejected(k) ==
    /\ Deleting
    /\ k \in current /\ IsNextToDelete(k)
    /\ ~Consistent(Without(stored, {k}))
    /\ Stop("rejected") /\ Forget
    /\ UNCHANGED <<tenants, spent, stored>>

(* The run goes on; to this module it is over, and conf says with what.    *)
EntriesWritten ==
    /\ Deleting /\ current = {}
    /\ pc' = "done" /\ at' = 0 /\ next' = 0 /\ listed' = {}
    /\ Forget
    /\ UNCHANGED <<config, conf, tenants, spent, stored>>

-----------------------------------------------------------------------------
Init == TenancyInit /\ stored = <<>> /\ current = {} /\ extra = {}

Process ==
    \/ ChangeTenants
    \/ ListEntries \/ SetEntry \/ (\E e \in extra : SetStock(e))
    \/ (\E k \in current : DeleteEntry(k) \/ DeleteRejected(k)) \/ EntriesWritten

Begin == Start /\ UNCHANGED <<stored, current, extra>>

Next ==
    \/ (\E e \in Edits : EditConfig(e)) /\ UNCHANGED <<stored, current, extra>>
    \/ Begin
    \/ Interrupt /\ Forget /\ UNCHANGED stored
    \/ ElectLeader
    \/ Process

Spec == Init /\ [][Next]_vars

(* The process runs, and the operator never stops trying `up`.             *)
LiveSpec == Spec /\ WF_vars(Process) /\ SF_vars(Begin)

-----------------------------------------------------------------------------
(* What the file asks for.                                                 *)

FileKey(f, i)  == Key(Scrubbed(f, f.entries[i]))
StockKey(f, e) == Key(Scrubbed(f, e))

FileKeys(f)  == {FileKey(f, i) : i \in DOMAIN f.entries}
StockKeys(f) == {StockKey(f, e) : e \in StockLeft(f)}

(* Stock entries that share their name with no other destination.          *)
Certain(f) == {e \in StockLeft(f) : \A g \in StockLeft(f) : SameName(e, g) => g = e}

Declared(f) == FileKeys(f) \cup {StockKey(f, e) : e \in Certain(f)}

(* What the last of the first n entries with this key says.                *)
Intended(f, n, k) ==
    LET i == CHOOSE j \in 1..n :
                FileKey(f, j) = k /\ \A h \in (j + 1)..n : FileKey(f, h) # k
    IN  IF f.metrics /\ Finds(f, i, StockProxyDefaults)
          THEN [f.entries[i].val EXCEPT !.metrics = TRUE] ELSE f.entries[i].val

(* What there is once the first n entries are written over those of st.    *)
Over(st, f, n) ==
    LET keys == {FileKey(f, i) : i \in 1..n}
    IN  [k \in DOMAIN st \cup keys |-> IF k \in keys THEN Intended(f, n, k) ELSE st[k]]

(* Entries that are never listed, and so never deleted.                    *)
Hidden(k) == k.ns # "default" \/ k.kind \notin Kinds

(* What a complete run leaves of the entries it did not append.            *)
Target(f) ==
    Over([k \in {j \in DOMAIN stored : Hidden(j)} |-> stored[k]], f, Len(f.entries))

(* Configurations `up` cannot write: tenants it does not create, or names  *)
(* without Enterprise; policies without ACLs; entries that do not fit      *)
(* together or do not fit those it never deletes; or an entry Consul       *)
(* refuses because of one that would only be deleted later.                *)
Blocked(f) ==
    \/ f.enterprise /\ ~f.acls /\ f.partitions # <<>>
    \/ \E i \in DOMAIN f.entries : NamesTenant(f, Scrubbed(f, f.entries[i]))
    \/ \E k \in FileKeys(f) \cup StockKeys(f) : <<k.part, k.ns>> \notin Tenants(f)
    \/ ~Consistent(Target(f))
    \/ \E n \in DOMAIN f.entries : ~Consistent(Over(stored, f, n))
    \/ /\ StockProxyDefaults \in StockLeft(f)
       /\ ~Consistent(Put(Over(stored, f, Len(f.entries)),
                          StockKey(f, StockProxyDefaults), StockProxyDefaults.val))

(* Every variable has its type; Consul only keeps what fits together.      *)
TypeOK ==
    /\ TenancyTypeOK
    /\ pc \in Ended \cup {"partitions", "policy", "namespaces", "list", "set"}
    /\ conf = None <=> pc \in Ended \ {"done"}
    /\ Consistent(stored)
    /\ \A k \in DOMAIN stored : <<k.part, k.ns>> \in spaces
    /\ current \subseteq {k \in DOMAIN stored : ~Hidden(k)}
    /\ extra \subseteq (IF conf = None THEN {} ELSE Stock(conf))

(* After a complete run the tenants are those of the file, every entry of  *)
(* the file is stored as it says, every destination without intentions in  *)
(* the file has the stock ones (of two with the same name, one of them),   *)
(* and nothing else is left but what leaders create and what devconsul     *)
(* never lists - whatever earlier files wrote and wherever they were       *)
(* stopped (createPartitions, createNamespaces, writeCentralConfigs).      *)
Converged ==
    pc = "done" =>
        /\ TenancyReady(conf)
        /\ \A k \in FileKeys(conf) :
              k \in DOMAIN stored /\ stored[k] = Intended(conf, Len(conf.entries), k)
        /\ \A e \in StockLeft(conf) : \E g \in StockLeft(conf) :
              /\ SameName(e, g)
              /\ StockKey(conf, g) \in DOMAIN stored
              /\ stored[StockKey(conf, g)] = g.val
        /\ \A k \in DOMAIN stored :
              \/ k \in FileKeys(conf) \cup StockKeys(conf)
              \/ k \in DOMAIN Bootstrap \/ Hidden(k)

(* A run never takes away, even for a moment, an entry its file declares   *)
(* in a tenant it declares: traffic is not cut by a repeated `up`.         *)
DeclaredKept ==
    [][\A k \in DOMAIN stored :
          pc \notin Ended /\ k \in Declared(conf) /\ <<k.part, k.ns>> \in Tenants(conf)
            => k \in DOMAIN stored']_vars

(* The entries and a run as Reconcile sees them.                           *)
SyncPhase ==
    CASE pc \in Ended \ {"done"} -> "idle"
      [] pc = "set"              -> "sync"
      [] pc = "done"             -> "settled"
      [] OTHER                   -> "prepare"

Wanted ==
    IF conf = None THEN {}
    ELSE {k \in Declared(conf) : <<k.part, k.ns>> \in Tenants(conf)}

Allowed == IF conf = None THEN {} ELSE FileKeys(conf) \cup StockKeys(conf)

Reconciliation ==
    INSTANCE Reconcile WITH
        phase <- SyncPhase, wanted <- Wanted, allowed <- Allowed,
        stored <- DOMAIN stored, Foreign <- DOMAIN Bootstrap

(* Whatever earlier files wrote and wherever runs are stopped: none of a   *)
(* run's deletions comes before all that its file declares is stored, none *)
(* takes away a declared entry, nor do its changes of tenants, and it ends *)
(* with nothing but what is declared, what leaders add and what is never   *)
(* listed (createPartitions, createNamespaces, writeCentralConfigs).       *)
ReconcileSpec == Reconciliation!Spec

(* Consul rejects none of the deletions, in the order of their kinds, if   *)
(* the entries of the file fit together and fit those never deleted.       *)
DeletesAccepted ==
    \A k \in current :
        Deleting /\ IsNextToDelete(k) /\ Consistent(Target(conf))
            => Consistent(Without(stored, {k}))

(* Of itself a run only fails with a file that is blocked as things stand: *)
(* whatever other files, interruptions and elections left behind, nothing  *)
(* else makes Consul refuse one of its requests.                           *)
FailsOnlyIfBlocked ==
    [][pc \notin Ended /\ pc' \in {"failed", "rejected"} /\ spent' = spent
         => Blocked(conf)]_vars

(* `up` brings the cluster to the file in the end, or the file is one that *)
(* is blocked for good.                                                    *)
EventuallyConverged ==
    []<>(pc = "done" /\ conf = config) \/ <>[]Blocked(config)
=============================================================================

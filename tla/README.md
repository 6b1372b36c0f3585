# A verification project for devconsul

`devconsul` builds a local multi-cluster Consul environment out of Docker
containers: it renders Terraform resources from `config.hcl`, applies them, and
then walks the whole topology to bootstrap ACLs, mint tokens, hand them to
agents, gateways and sidecars, link the clusters by federation or peering, and
wait for a healthy catalog. This directory holds TLA+ models of that program,
TLC configurations that check them on small environments, and TLAPS proofs of
the facts that matter most.

File names such as `app/boot.go` are relative to the root of the repository.

## 1. Inventory of the system

| part | code | state it keeps | operations | what makes it hard | what makes it correct |
|---|---|---|---|---|---|
| bring-up | `app/boot.go`, `app/commands.go` | `BootInfo` in memory (clients, tokens), `*.val` and `servicereg__*.hcl` files | `up`, `primary`, `restart` | one process against Consul's elections, replication and anti-entropy; every call may fail and the user reruns it; unbounded waiting loops | tokens are published and injected only when they work; each loop ends; a run that reports success did everything; reruns repair |
| cache store | `cachestore/store.go` | one file per value | save, load, delete | stale values after an interrupted `down` | a stale secret is replaced, never reused |
| sidecar, gateway and dataplane scripts | `sidecar-boot.sh`, `mesh-gateway-sidecar-boot.sh`, `dataplane-boot.sh` | none | wait for files, wait for the token, register | start before, during or after `up` | come up from the files `up` leaves |
| catalog-sync | `clustertool/catalog-sync.go` | `last` health results; the virtual part of the catalog | dump, register, remove strays, health rounds | restarts, changed definitions, lost replies | virtual catalog = definition; statuses follow the ports |
| lifecycle | `app/commands.go`, `app/once.go`, `app/gen.go`, `app/terraform.go`, `app/destroy.go`, `app/docker.go` | `init.done`, `docker.hash`, `networks.tf`, `docker.tf`, Terraform state | generate, apply, destroy, `-force` | interruption between file and apply; edited configuration | networks change only through `down`; state file outlives resources |
| TLS, gossip key, agent master token | `app/tls.go`, `app/serf.go`, `app/acl.go` | files | create what is missing | file pairs written by another program under an index it picks; interruptions | every agent finds the pair made for it |
| Vault and mesh CA | `app/boot_vault.go` | keys and tokens in `cache/`; Vault's volume; Consul's CA configuration | init, unseal, mount, tokens, CA updates | crash between init and saving the keys; three memories that are destroyed separately | no root token without its key; every CA as declared; a repeated `up` changes nothing |
| central configs, tenancy | `app/boot.go`, `consulfunc/*` | entries, partitions, namespaces in Consul | merge, write, delete strays | leftovers of earlier files and interrupted runs; dependencies between entries; elections | declared = stored; nothing declared is ever taken away; no deletion rejected |
| addressing and topology | `infra/*` | none | compile the configuration | index arithmetic; three shapes, two links, dead and retained gateways | addresses are unique and reachable |
| configuration | `config/*` | none | parse, validate | combinations of options | invalid combinations are refused |
| rendering | `app/tfgen/*` | none | text of resources | addresses, ports and file names computed in several places; panics | what is dialed is open and reachable; files and images exist |
| Kubernetes | `app/k8s.go` | `cache/k8s`, `k8s.hash` | generate once per configuration | markers and files removed separately | boot finds every file |
| tools | `app/debug.go`, `app/dumpconfig.go`, `grafana/api.go`, `app/runner` | none | run programs, print | - | - |

How they interact: `main.go` runs one command; `up` initialises TLS and keys,
runs the one-time operations, generates and applies the Terraform files
(`runGenerate`) and then boots (`runBoot`). Boot talks to Consul's HTTP API on
every server and agent, and to the containers only through files in `cache/`,
which all of them mount read-only under `/secrets`. The sidecars and
`catalog-sync` poll those files. `down` destroys containers and volumes and
removes the files.

## 2. Modules

### TokenHandoff (abstract)

What `up` promises about the tokens that reach workloads through files: a token
is minted (`Mint`), spreads to the servers of the cluster it is meant for
(`Spread`), and its file appears (`Publish`) only when all of them resolve it;
`Destroy` forgets everything. `BringUp` implements it: the definition `Handoff`
instantiates it with `minted` = published tokens in an ACL store, `usable` =
pairs of token and server that resolves it, `published` = files holding a secret
of the current life.

### Reconcile (abstract)

What devconsul promises wherever it brings a store of Consul into agreement with a
file: a run writes what is declared (`Write`), and only when all of it is there does
anything else go (`Remove`); it ends with what is declared and what it cannot see or
leaders add (`Settle`); it may be stopped anywhere and another one begin with another
declaration. `Drop` is the one removal allowed before: of partitions and namespaces
with all they contain, none of it wanted. Three parts of the code keep this promise,
and each module says so by an instance: `initialSync` (`CatalogSync!Reconciliation`:
nodes, services and proxies), `writeCentralConfigs` (`CentralConfigs!Reconciliation`:
entries; `Hidden` are those the listing does not see), `createPartitions`
(`Tenancy!Partitions`). Namespaces do not keep it (remark 12 of section 7).

### BringUp

The process of `runBoot` together with the part of Consul and of the sidecar
scripts it waits for.

| model | code |
|---|---|
| `stage` | the call of `runBoot` being executed; `Active` are its calls, `Ended` how a run may end |
| `PrimaryPlan`, `SecondaryPlan` | the order of the calls in `initPrimaryCluster` and in the loop of `initSecondaryDCs` |
| `cur`, `left`, `todo`, `awaiting` | where the loops over clusters, tokens and servers are |
| `clients`, `mem`, `masterToken` | `serverClients`, `tokens`, `masterToken` of `BootInfo`: lost when the process ends |
| `cache`, `masterFile`, `regFiles` | `mesh-gateway--*.val`, `service--*.val`; `master-token.val`; `servicereg__*.hcl` |
| `store`, `known` | tokens of the ACL systems; what each server resolves |
| `replTok`, `agentTok`, `registered`, `health` | replication tokens, agent tokens, posted nodes, catalog status of workloads |
| `generated`, `established` | the two sides of each peering |
| `life` | how often the volumes were recreated; a secret is written as the life it was minted in, 0 is the empty string |

Steps that both plans contain (create clients, create a token, wait for it, the
delayed write, inject) are one action each; `GoTo(Plan(cur)[stage])` is the next
statement. A walk over the topology visits a set in any order: every order the
code has is among them and no property depends on which. `Interrupt` is every
`return err` and ^C; `TokenReadSelfError` the branch that deletes
`master-token.val`; `Panic` the two assertions. `DownDestroy`, `DownFiles` and
`DownInterrupted` are `destroy()`. Consul and the scripts are `ElectLeader`,
`Replicate`, `AgentSync`, `SidecarRegister`, `SidecarPass`: external, as weak as
the waiting loops of the code allow (a secondary replicates only when its leader
was given the replication token; tokens arrive at servers one at a time and in
any order).

### CatalogSync

The daemon `clustertool catalog-sync` of one cluster, the files it reads and the
virtual part of the catalog.

| model | code |
|---|---|
| `pc` | the loop of `Run`, `initialSync` or `detectAndSyncHealth` the daemon is in; `"exited"` until Docker starts it again |
| `token`, `conf`, `dump`, `last` | the token it read, `c.conf`, `curr`, `c.last` |
| `nodesLeft`, `left` | what the current loop has not handled |
| `pending` | the status `syncHealth` is about to write, between probe and write |
| `file`, `tokenFile` | `catalog_def.<cluster>.json`, `master-token.val` |
| `nodes`, `entries`, `checks` | nodes, services and checks registered with Consul |

`RegisterNode` ... `DeregisterService` are one API call each, so that a `Crash`
(an error returned by `Run`, or a killed container) can fall between any two.
App and proxy of a place share one `CheckID`, as the generator writes it:
`checks` has one slot for both and `Register` overwrites it. `SyncHealthFails` and
`SyncHealthLost` are the two ways a status write can go wrong.
`ReplaceContainer` is Terraform noticing a changed `DEVCONSUL_HASH_VALUE`. The
hand-over to `BringUp` is `SaveMasterToken`, the only step of `up` it depends on.

### Lifecycle

What surrounds the bring-up: `up` until `runBoot`, `docker`, and `down`.

| model | code |
|---|---|
| `config`, `conf` | `config.hcl`; what the process loaded from it when it started |
| `pc` | `"secrets"` ... `"boot"` are the calls of `runBringUp` and `runGenerate`; `"destroy"`, `"remove"` those of `destroy`; `"idle"`: no process |
| `initDone`, `hash`, `keyFile`, `catalogDef`, `networksTf` | the files in `cache/` |
| `dockerTf`, `tfstate` | `docker.tf`, `terraform.tfstate` |
| `built`, `world` | versions of the local images; networks and containers that exist |
| `currentHash`, `toBuild`, `toRemove` | the hash computed before a build, where the builds and the removal of files are |

`Start` may reset the marker (`-force`). `Interrupt` is any failing call or ^C, and
may fall between any two effects. A container carries what `GenerateNodeContainers`
renders into it: its network, the gossip key and the hash of the catalog definition
on disk. `CreateResource` and `DestroyResource` are Terraform's steps, in the order
of dependencies; Terraform is taken to record each step. `Booted` stands for the
whole of `BringUp`, `world = {}` after `destroy` for its `DownDestroy`.

### VaultBoot

`initVault` and the mesh CA of each cluster. It composes with the other models at
`Provision` (Terraform's part of `Lifecycle`), `Destroy` (`DownDestroy`), and the
order of clusters of `BringUp`; nothing else is shared.

| model | code |
|---|---|
| `unsealKey`, `rootToken`, `caTokens` | `vaultUnsealKey`, `vaultToken`, `vaultCATokens` of `Core`: lost when the process ends |
| `keyFile`, `rootFile`, `caFile` | `vault-unseal-key.val`, `vault-token.val`, `vault-token-ca-<cluster>.val` |
| `vaultUp`, `vaultKey`, `sealed`, `kv`, `issued` | container and volume of Vault, what it was initialised with, its seal, its mounts, the tokens it issued |
| `ca` | what `CAGetConfig` returns in each cluster |
| `pc`, `at` | the statement of `initVault` or `ensureCAProvider`, and the cluster of the loop |
| `settled` | a history variable for `StaysSettled`: the configuration of the last complete bring-up, until something undoes it |

Each save and each delete is a step of its own, because `Interrupt` between two of
them is what the properties are about. `CheckStatus` is the label `CHECK_STATUS`,
`Reconfiguring` the jump back to `RECONFIG`. External are Vault (random keys,
sealed after a restart, answers to valid tokens only) and Consul's `CASetConfig`,
which needs both the new token and, to sign the new root, the old one
(`Acceptable`). `RecreateVault` is the advice of the error message "destroy and
recreate vault".

### Configuration, Topology, Rendering (pure functions)

What the code computes from `config.hcl` without keeping state. A configuration is
a record (see the head of `Configuration`); free text is reduced to whether it is
given.

| model | code |
|---|---|
| `Completed`, `ParseRefused`, `Invalid` | `parseConfig` with its defaults and errors, `validateConfig` by topic |
| `Nodes`, `Kind`, `Host`, `Addresses`, `CompileRefused`, `CompilePanics` | `CompileTopology`: nodes, addresses on the local and the wide-area network, errors, and a panic |
| `LeaderIP`, `ServerIPs`, `GatewayAddrs` | the methods of `Topology` the templates call |
| `WANDials`, `LocalDials`, `OpenGRPC`, `DialedGRPC`, `AgentPrefix`, `NodeImages`, `DeclaredImages` | what `tfgen` puts into containers and `docker.tf`: addresses, ports, certificates, images |
| `CatalogPanics`, `RenderPanics` | the `panic`s of `generateCatalogInfo` and of proxies |

An address `10.x.y.z` is `<<x, y, z>>`. `IndexOf` is the number in a cluster's name,
so that "dc2" and "dc02" can have the same one.

### Provision

`up` from its start to the end of `terraform apply`, seen from the files that
containers read: the part of the lifecycle that depends on what the configuration
says, where `Lifecycle` follows the files that depend on what exists.

| model | code |
|---|---|
| `config`, `conf` | `config.hcl`; what the process made of it when it started |
| `pc`, `todo`, `next`, `current` | the call being executed; the pairs `maybeInitTLS` has not come to, the file of `realRunK8SInit`, `currentHash` |
| `ca`, `pairs` | files in `cache/tls`: the CA, and pairs by prefix with the CA and the node they were made for |
| `token`, `initDone`, `k8s`, `k8sHash`, `imageHash`, `defs` | `agent-master-token.val`, `init.done`, `cache/k8s`, `k8s.hash`, `docker.hash`, `catalog_def.*.json` |
| `built` | local images |
| `torn`, `k8sVoid` | history: a step in `cache/tls` was cut in the middle; a marker says that Kubernetes is done when it is not |

`consul tls` is an external program that writes two files: `CreateCAInterrupted` and
`GenCertInterrupted` leave one of them, and `FreeIndex` is the index it picks by
itself, which the code only hopes to be the one it wants. `os.RemoveAll` may be cut
anywhere. `Panic` and `TerraformApplyFails` are what becomes of configurations
that pass every check. Hashes are the things they are computed from, which is why
`BuildDockerImages` and `BeginK8s` read `config` and not `conf`.

### Tenancy and CentralConfigs

What `initPrimaryCluster` writes into Consul besides tokens, in one cluster:
`Tenancy` is `createPartitions` and `createNamespaces` (Enterprise), and
`CentralConfigs` extends it by `writeCentralConfigs`, so that both are one process
in the order of the calls.

| model | code |
|---|---|
| `pc`, `at`, `next`, `listed` | the loop, the partition it has come to, the place in its list, `currentMap` |
| `parts`, `spaces`, `policies` | partitions, namespaces, and partitions with the policy cross-ns-catalog-read |
| `stored`, `current`, `extra` | entries in Consul; `currentEntries`; stock entries still to be written |
| `Stock`, `Contents`, `Appended` | stock intentions and proxy defaults, their merge with the file's entries, and those left over (in the order of a Go map: any) |
| `Scrubs`, `Key` | namespace and partition taken from requests without Enterprise; the key under which an entry is listed |
| `DeleteOrder` | "the order that will make the graph happy during erasure" |

Consul refuses an entry of a tenant that does not exist and any write that leaves a
router or splitter with a service that does not speak HTTP (`Consistent`), and a
leader that is elected creates the bootstrap entries of `GenerateAgentHCL` when they
are missing (`ElectLeader`). Both are external.

A definition with an underscore in its name (`TokenReady_NoWait`) is a faulty
variant of the one that follows it. It is part of no specification: putting it in
place of the original shows that a property can fail.

## 3. What the runs check

| run | expect | properties | shows |
|---|---|---|---|
| `bringup_federate` (`BringUp_federate.cfg`) | pass | `PublishedTokensWork`, `InjectedTokensWork`, `WaitsCanEnd`, `MasterTokenKept` | Two federated datacenters, the second with two servers, without initial_master_token: `up` or `primary` started three times and interrupted anywhere, ACL bootstrap and the panic of the first run included. Tokens are published and injected only when they work, nothing a run waits for lacks what brings it about, and the management token is lost in no other way than the two the code has. |
| `bringup_down` (`BringUp_down.cfg`) | pass | `TypeOK`, `BootComplete`, `HandoffSpec` | Two peered clusters, a client agent with a service, and a `down` that may be interrupted after the volumes are gone: no stale token file survives a successful `up`, a peering generated but not established is completed by the next run, and the files are handed over as TokenHandoff specifies. |
| `bringup_live` (`BringUp_live.cfg`) | pass | `UpTerminates`, `WorkloadsComeUp`, `NoPanic` | With fair Consul and a fair process every loop of `up` that waits is eventually left, in both runs and whatever the first left behind; the files a successful run leaves are all the mesh gateways need to register and become healthy; with an initial_master_token no assertion of the program trips. |
| `bringup_firstup` (`BringUp_firstup.cfg`) | violation | `NoPanic` | The first `up` of a configuration without initial_master_token panics: bootstrap waits for the management token through clients that do not exist yet. |
| `bringup_stale` (`BringUp_stale.cfg`) | violation | `StaleMasterTokenDropped` | With a master-token.val left over from a destroyed environment `up` loops for ever: the branch that would drop the file is not reached. |
| `catalog_sync` (`CatalogSync_sync.cfg`) | pass | `TypeOK`, `SyncedCatalog`, `ReconcileSpec` | Nodes that go, services that move and change, a daemon killed anywhere twice, lost replies and two rewritten definitions: after every complete initial sync the catalog is the definition, and the daemon implements Reconcile: nothing is removed before everything is registered, and then only strays. |
| `catalog_follow` (`CatalogSync_follow.cfg`) | pass | `KnownHealthIsRecorded`, `CatalogFollowsHealth` | Without lost replies the remembered status is the catalog's status of the app, although app and proxy share one CheckID, and with a fair daemon the catalog comes to agree with every port, through stale tokens, restarts, failed writes and a changed definition. |
| `lifecycle_updown` (`Lifecycle_updown.cfg`) | pass | `TypeOK`, `NoOrphans`, `NetworkGuarded`, `ImagesBuilt`, `UpToDate`, `EventuallyUp` | Three configurations that differ in network shape, services, image versions and encryption, two edits, two interruptions anywhere and two `down` or `docker` commands: no resource is forgotten, the guard of the networks and the run-once marker mean what they say, the bring-up starts from the declared environment, and nothing left behind blocks `up` for good. |
| `lifecycle_networks` (`Lifecycle_networks.cfg`) | violation | `NetworkChangesByDown` | After one refusal the second `up` finds networks.tf already rewritten, passes, and replaces the networks of a running environment. |
| `vault_mesh` (`VaultBoot_mesh.cfg`) | pass | `TypeOK`, `RootTokenHasKey`, `BootKnowsVault`, `BootedCAs`, `StaysSettled`, `EventuallyUp` | Two clusters and four uses of Vault, two edits, two interruptions between any two effects, a restart and a recreated Vault: key and token are never saved the wrong way round, the bring-up works with the keys of the Vault that runs, a successful one leaves every CA as declared, a repeated one changes nothing, and `down` after an error is always enough. |
| `provision_up` (`Provision_up.cfg`) | pass | `TypeOK`, `CertificatesReady`, `K8sFilesReady`, `AddressesUnique`, `AddressesReachable`, `PortsOpen`, `EventuallyBooted` | Thirty-eight contents of config.hcl, one for each way through the checks, the address plan and the rendering, with two edits, an interruption anywhere and a `down`: every agent gets its certificate, Kubernetes its files, every address is unique and reachable, every dialed port is open, and `up -force` gets to boot in the end. |
| `central_entries` (`CentralConfigs_entries.cfg`) | pass | `TypeOK`, `Converged`, `DeletesAccepted`, `ReconcileSpec`, `FailsOnlyIfBlocked`, `EventuallyConverged` | Fifteen files with and without Enterprise, two edits among seventeen, two interruptions and elections at any moment: a complete run leaves the tenants and the entries of its file and nothing it could have deleted, implements Reconcile on the way, has no deletion rejected, fails of itself only for a file that cannot be written, and gets there in the end for any other. |

## 4. Bounds, and why they are enough

`MaxRuns` bounds the starts of `up` and `MaxLives` the lives of the environment.
Two runs are enough for everything a first run leaves behind (a file, a token, a
half-made peering) to meet a second one; two lives for a file of a dead
environment to meet a live one; `bringup_federate` has three starts because the
first one panics and a second one may be interrupted before it uses the saved
token. One server in the primary and two in the secondary are the fewest for "one
server resolves the token, another does not yet" to occur in a cluster whose
tokens come from elsewhere; a client agent with one service adds the tokens and
files of services. `NoServer`, the clusters, servers and services are model
values; the symmetry sets permute servers of one cluster, which no definition
distinguishes, and is used in runs without liveness only.

`CatalogSync` runs with two nodes and two services: the fewest for a node that
goes, a service that moves and a node that changes its service (`Moving`).
`MaxCrashes = 2` and `MaxEdits = 2` let leftovers of two dead daemons with
different definitions meet a third; `MaxFlips`, `MaxFaults` bound port changes
and failed writes: a wrong status needs one of each and one more flip to be
noticed.

`Lifecycle` runs with three configurations, each differing from the first in what
one mechanism looks at (shape and services; versions and encryption), two edits,
so that one can go and come back, two interruptions, so that a repair can be
interrupted too, and two `down` or `docker` commands. `up` is not bounded. Two
local images are the fewest of which one can be built and the other not.

`VaultBoot` runs with two clusters, so that one can be in Vault and the other not,
and with four uses of Vault that two edits take in any order. One new Vault and one
restart are enough to meet every statement of `initVault`; ten tokens are more than
can be known to anyone at once (`Initialize` and `CreateToken` are never disabled
for want of one, or `EventuallyUp` would fail).

`Provision` starts from thirty-eight files: each is there for a way through the
checks, the address plan or the rendering that no other takes (three shapes, two
link modes, both node modes and their mixtures, dead and retained gateways, ten and
eleven servers, two clusters with one number, canaries, Kubernetes, sixteen files
that are refused or panic). Seven edits lead from a file to another; two in a row are
enough to switch TLS or Kubernetes off and on again. One interruption and one `down`
suffice for every leftover of one step to meet every later one. `MaxIndex` is the
highest index of a pair a file with TLS asks for; pairs beyond it are not recorded,
and nobody asks for them. An interrupted removal of `cache/tls` leaves at most two
files: enough for half a CA, half a pair, or a pair without its predecessor.

`CentralConfigs` has fifteen files and seventeen edits between them, chosen so that
an entry changes its kind, protocol or tenant, disappears, or stands in the way of
another, or names a tenant without Enterprise; two partitions and two namespaces are the fewest for a namespace to be
meant for another partition. Two interruptions let leftovers of two files meet a third.

## 5. Fairness

`LiveSpec` adds weak fairness of the process (it is running or sleeping 250 ms to
5 s in a loop, so an enabled step is taken), of elections, of replication for each
server and token, of each agent's anti-entropy and of each sidecar (Docker
restarts all of them, their loops never give up). Nothing obliges the operator,
an API call to fail, or `down` to be called. Each waiting loop is a disabled guard
and not a step, so a loop that waits for ever shows up as a stage never left.

`CatalogSync!LiveSpec` is weak fairness of the daemon alone, which includes its
start: the container has `restart = "on-failure"` and the health rounds are an
endless loop. No crash, edit, flip or failed write is obliged to happen. The
token must become good (`tokenFile = "good"` is the premise): that is `up`'s
part.

`Lifecycle!LiveSpec` has weak fairness of the process and of `StartUp`. The latter
is no promise of the code: it is the premise of `EventuallyUp`, which asks whether
*trying again* is enough. Interruptions, edits, `down` and `docker` are bounded and
not obliged to happen.

`VaultBoot!LiveSpec` has weak fairness of the process and of `StartUp`, strong
fairness of `CASetConfig` being answered otherwise than "RECONFIGURING" (Consul
finishes what it is doing) and of `RecoverByDown`: an operator whose `up` fails
again and again finally runs `down`. The last two are premises, not promises.

`Provision!LiveSpec` and `CentralConfigs!LiveSpec` have weak fairness of the process
and strong fairness of the operator starting it (`up -force`; `up`): again the premise
of properties that ask whether trying again is enough, strong because edits and
other commands may always come first. `EventuallyBooted` and `EventuallyConverged`
say for which files it is not: those that pass the checks but cannot be brought up
(`Workable`, `Blocked`), and `FailsOnlyIfBlocked` and `FailsOnlyForCause` that no other
reason makes a run fail, which does not need fairness.

## 6. What is proved

| theorem | module | establishes |
|---|---|---|
| `TypeCorrect` | `BringUpProofs` | Every variable of the bring-up has its type in every reachable state, for any topology and any bounds: no file holds a secret of a life that has not begun. |
| `PublishedTokensAlwaysWork` | `BringUpProofs` | For any topology, any number of runs, interruptions and `down`s: a token file with a secret of the current life is only seen when every server of its cluster resolves the token. |
| `ImplementsHandoff` | `BootProofs` | BringUp implements TokenHandoff for any topology and any number of runs, interruptions and `down`s: tokens are published only after they have spread, and only destruction takes them back. |
| `BootAlwaysComplete` | `BootProofs` | For any topology, link mode and any interrupted earlier runs: a run that reports success has finished every cluster it booted. |
| `InjectedTokensAlwaysWork` | `BootProofs` | For any topology: an agent never holds a token that a server of its cluster does not resolve. |
| `PanicAlwaysKeepsMasterToken` | `BootProofs` | Whenever the bring-up panics, the management token of the environment is on disk. |
| `ConfiguredTokenNeverPanics` | `BootProofs` | With initial_master_token no assertion of the bring-up fails: every client and remembered token is there when it is needed. |
| `WaitsCanAlwaysEnd` | `BootProofs` | For any topology and any earlier runs: whatever a run waits for, Consul and the agents have been given what they need to bring it about, and no token is created with credentials that are refused. |
| `UpAlwaysAdvances` | `BootProofs` | A run never returns to a call it has left, but for the loop that injects agent tokens until all nodes have posted: with WaitsCanAlwaysEnd, the safety half of UpTerminates. |
| `MasterTokenAlwaysKept` | `BootProofs` | For any topology, runs, interruptions and `down`s: the only management token is lost between ac.Bootstrap and SaveValue, or when a failed TokenReadSelf deletes the file, and never otherwise. |
| `LostTokenEndsTheEnvironment` | `BootProofs` | Once nobody has the management token, no run succeeds before the environment is destroyed. |
| `CatalogReconciles` | `CatalogSyncProofs` | CatalogSync implements Reconcile for any nodes, apps and definitions and wherever daemons are killed: a step is a registration, a removal after all registrations, the end of the sync with exactly the definition, or invisible. |
| `CatalogIsSynced` | `CatalogSyncProofs` | For any nodes, apps and definitions and any number of crashes: when the health rounds run, the virtual catalog is exactly the definition the daemon read. |
| `DeclaredServicesStay` | `CatalogSyncProofs` | No step of any behaviour takes a service of the running definition out of the catalog. |
| `KnownHealthStaysRecorded` | `CatalogSyncProofs` | Without lost replies a remembered status is always the status the catalog has for the app. |
| `CatalogTypeCorrect` | `CatalogSyncProofs` | Every variable of the catalog sync has its type in every reachable state. |
| `NothingIsOrphaned` | `LifecycleProofs` | For any configurations and any number of interruptions, edits and commands: every resource that exists is in Terraform's state file. |
| `NetworksStayGuarded` | `LifecycleProofs` | A network never exists without a networks.tf. |
| `ImagesAreBuilt` | `LifecycleProofs` | Nothing is applied before every local image has been built. |
| `BootIsUpToDate` | `LifecycleProofs` | When the bring-up begins, the environment is that of the configuration the process loaded, with the cached gossip key and the definition on disk. |
| `LifecycleTypeCorrect` | `LifecycleProofs` | Every variable of the lifecycle has its type in every reachable state. |
| `TerraformAlwaysMoves` | `LifecycleProofs` | Whatever an interrupted apply left in the state file, for any configurations: `apply` and `destroy` find a next step that the order of networks and containers allows. |
| `OnlyNetworksEndUp` | `LifecycleProofs` | Of itself a run of `up` ends early only for a networks.tf of another shape, which it leaves as the next run wants it: with TerraformAlwaysMoves the safety half of EventuallyUp. |
| `TokenIsNeverAlone` | `VaultBootProofs` | For any clusters, configurations and interruptions: whoever finds the root token of the running Vault in cache/ finds its unseal key too. |
| `BootIsInformed` | `VaultBootProofs` | After initVault the process, cache/ and the running Vault agree on key and token; without Vault nothing of a former one is left. |
| `DeclaredCAs` | `VaultBootProofs` | A successful bring-up has given every cluster the declared CA with the token in cache/. |
| `RepeatedUpIsIdle` | `VaultBootProofs` | No step of a repeated `up` issues a token or changes a CA or a remembered value. |
| `VaultFailsOnlyForCause` | `VaultBootProofs` | Of itself the process ends with an error only for a lost key, a restart of Vault under its hands, the token of a former Vault, or a mesh_ca without Vault. |
| `VaultLostOnlyByAccident` | `VaultBootProofs` | The key of Vault is lost only by an interruption between Init and the second save, the token of a CA only with its Vault. |
| `DownRepairsVault` | `VaultBootProofs` | A `down` that goes through leaves no lost key and no token of a former Vault, so that the next `up` does not fail for them: with VaultFailsOnlyForCause the safety half of EventuallyUp. |
| `VaultTypeCorrect` | `VaultBootProofs` | Every variable of the Vault model has its type in every reachable state. |
| `AddressesAreUnique` | `TopologyProofs` | For any configuration with at most ten servers per cluster and cluster numbers of their own: no two nodes have the same address. |
| `DialsAreReachable` | `TopologyProofs` | For any configuration that compiles: every address rendered into a container belongs to a node on a network it shares. |
| `SecondariesFindPrimary` | `TopologyProofs` | For any configuration that compiles: a federated server of a secondary dials a reachable node of the primary, given a gateway there in the islands shape. |
| `ProxiesFindPorts` | `TopologyProofs` | For any configuration: proxies dial the port that is open, but dataplanes with server_tls_grpc alone. |
| `AlwaysTypeOK` | `ProvisionProofs` | Every variable of the provisioning has its type in every reachable state. |
| `AlwaysCertificatesReady` | `ProvisionProofs` | For any configurations, edits and interruptions: agents find their pair, whole and of the CA at hand, unless the directory was torn. |
| `AlwaysK8sFilesReady` | `ProvisionProofs` | Boot finds every file of Kubernetes unless a marker outlived the files. |
| `AlwaysAddressesUnique` | `ProvisionProofs` | What is rendered has unique addresses. |
| `AlwaysAddressesReachable` | `ProvisionProofs` | What is rendered dials reachable addresses. |
| `AlwaysPortsOpen` | `ProvisionProofs` | What is rendered dials open ports. |
| `AlwaysFailsOnlyForCause` | `ProvisionProofs` | For any files, edits and interruptions: of itself `up` fails only for a file that cannot be brought up, for half a CA, or for images docker.hash does not vouch for; the safety half of EventuallyBooted. |
| `RenderFindsDefinitions` | `ProvisionProofs` | For any configurations, edits and interruptions: the containers of every infra node find the catalog definition they hash. |
| `AlwaysTypeOK` | `CentralConfigsProofs` | Every variable of tenants and entries has its type, and Consul's entries always fit together and have a tenant. |
| `AlwaysDeletesAccepted` | `CentralConfigsProofs` | For any files, edits, interruptions and elections: no deletion is rejected if the declared entries fit together with those never deleted. |
| `AlwaysConverged` | `CentralConfigsProofs` | A complete run leaves exactly the declared tenants and entries, whatever earlier files wrote and wherever they were stopped. |
| `AlwaysDeclaredKept` | `CentralConfigsProofs` | No step of a run takes away an entry its file declares. |
| `EntriesReconcile` | `CentralConfigsProofs` | writeCentralConfigs, after createPartitions and createNamespaces, implements Reconcile for any files, edits, interruptions and elections. |
| `PartitionsReconcile` | `CentralConfigsProofs` | createPartitions implements Reconcile as far as partitions are concerned, for any files and interruptions. |
| `AlwaysFailsOnlyIfBlocked` | `CentralConfigsProofs` | For any files, edits and leftovers: a run fails of itself only if Blocked says that its file cannot be written over what is stored; the safety half of EventuallyConverged. |

`BringUpProofs` proves its theorems for any clusters, servers, clients and
services, either link mode, with or without an initial token and for any bounds,
from `TopologyAssumption` alone. `PublishedTokensWork` is not inductive: that
`TokenReady` may write the file depends on what the walk over the servers has
seen. The inductive invariant is

    Inv == TypeOK /\ StageInv /\ WalkInv /\ WaitInv /\ PublishedTokensWork

where `StageInv` says which variables a stage leaves at their neutral value,
`WalkInv` that a walk only holds tokens of the current cluster's work
(`Work(stage, cur)`), and `WaitInv` that every server of `cur` that is no longer
in `awaiting` resolves `tok`. `InitInv` and `InvInductive` prove it, the latter
with one lemma per group of actions; `TypeOK` is needed because `cache[t] <= life`
is what makes a file of an earlier life harmless after `DownDestroy`. TLC checked
`Inv` as an invariant of the small instances before it was proved.

`BootProofs` builds on that invariant, from the same assumption. `BootInv` has five parts.
`TokensInv` says that every call that comes before the current one in the plan of the
current cluster (`Precedes`, from the place of a stage in `Rank`) has done its work for
every token it visits (`Handled`: remembered, resolved, published or injected), and the
current one for those it has visited. `MasterInv` follows the management token,
`LoopInv` says that the clusters a loop has left behind are `Ready`, and `LinkInv` what the
calls between and after the loops have done; `InjectedTokensWork` is inductive together
with them. The argument is growth: no step of a run, of Consul or of a sidecar takes
anything achieved away (`Grows`), so a step only has to be shown to add what the next
stage counts on. An interruption forgets the process and leaves nothing to show, since
the next run starts from `waitForLeader`. For `ImplementsHandoff` each step is mapped to
`Mint`, `Spread`, `Publish`, `Destroy` or a stutter; `DownInv`, that no file holds a secret
of the life that `down` has just begun, makes the removal of files a stutter.

Liveness is out of the prover's reach, so `BootProofs` proves the safety facts that
`UpTerminates` rests on. `UpAdvances` says that every step of a run moves forward in the
order of its calls (`Place`, `Phase`), shrinks the set a walk has left, or goes back from
`nodeUpdates` to `injectAgents` because a node has not posted: every loop but that one
is finite by its shape. `WaitsCanEnd` says that no loop waits for what cannot come: when
it is entered, and as long as it goes on, a leader runs, the token is in the ACL store
the servers replicate (`Supplied`), a secondary's leader has the replication token, the
agents hold tokens that work. It is not inductive. The invariant is

    SupplyInv == LeaderInv /\ MintedInv /\ FlowInv

`LeaderInv`: the clusters a run has to do with have a leader from the end of
`waitForLeader` on. `MintedInv`: which secret the process and
the file hold; one of the current life means that the token is in the store, and after
`bootstrap` the process has it. `FlowInv`: a walk only visits tokens of its stage, stages
of a link mode or of secondaries are only reached where they belong, and the loops over
clusters only hold clusters the run works on. The rest comes from `BootInv`. What fairness adds
(Consul and the agents do what they can do) stays with TLC, on `bringup_live`.

`MasterTokenKept` needs the same invariants: the token is created once per life
(`MasterInv`), and of the steps that touch `masterFile` or `masterToken` all but the two
it names leave one of them with the current secret. `LostTokenEndsTheEnvironment` is the
other half: when neither is left, `isACLBootstrapped` and `bootstrap` refuse every
later run, and the volumes have to go.

`CatalogSyncProofs` proves its theorems for any nodes, apps and definitions and
any number of crashes, faults, flips and edits, from `DefinitionsAssumption`. The
inductive invariant is

    Inv == TypeOK /\ LeftInv /\ RegisteredInv /\ StraysInv /\ UnknownInv
           /\ KnownHealthIsRecorded

`RegisteredInv` says that what the loops have passed is registered, `StraysInv`
that whatever is registered and not expected is either still in `dump` and to be
removed or was never there: it is the reason why dumping before registering
finds every leftover of a killed daemon. `LeftInv` types the loops and
`UnknownInv` says that nothing is remembered before the health rounds, which is
what makes the take-over of the check by the proxy harmless. `CatalogReconciles` maps
each step to one of `Reconcile`: the stages of the loops make every registration a
`Write`; with `RegisteredInv` all removals come after all of them; with `StraysInv` what is
left at the end is the definition (`Settle`).

`LifecycleProofs` proves its theorems for any configurations, images and bounds,
from `ConfigsAssumption` (`None` is not a configuration's value). The inductive
invariant is

    Inv == TypeOK /\ StateInv /\ NetworksInv /\ ImagesInv /\ GeneratedInv

`StateInv` says that the state file is exact and empty before files are removed,
`NetworksInv` that `networks.tf` exists before anything is applied, `ImagesInv`
that a marker or a hash implies built images and that a build has built what it no
longer lists, `GeneratedInv` what each step of `up` may rely on from the ones
before. Why `up` gets through after any interruptions has a safety half, and two theorems
prove it. `TerraformAlwaysMoves` needs `ShapeInv` besides: what is in the state file was
declared at some time, so a network is determined by its name and a container is not a
network; then containers nobody declares can go first, next the networks without
containers, and what is declared can be created network first. `OnlyNetworksEndUp` says
that the one error of `up` (a `networks.tf` of another shape) puts right what it complains
about.

`VaultBootProofs` proves its theorems for any clusters in any order without
repetition, any configurations and bounds, from `VaultAssumption`. The inductive
invariant is

    Inv == TypeOK /\ ProvisionedInv /\ KeysInv /\ MeshInv /\ SettledInv

`ProvisionedInv` says that from `init` on Vault is what the configuration wants and
that no Vault means no key; `KeysInv` that the process knows the files or is about
to save what Vault gave it, the key before the token, which makes the token (the
one Vault checks) vouch for the key; `MeshInv` that the clusters before `at` are as
declared; `SettledInv` that after a complete bring-up nothing is missing until
`settled` is cleared. All five are mutually dependent, so each is a lemma about one
step from the whole `Inv`. Three theorems explain errors. `VaultFailsOnlyForCause` takes
each step that ends with one and finds the cause in the state: what `initVault` loaded is
what the files say (`KeysInv`), and the token sent to Consul the one in cache/
(`MeshInv`). `VaultLostOnlyByAccident` needs `IssuedInv` besides, which says that Vault
knows a token about to be saved; with it only a new Vault loses tokens.
`DownRepairsVault` says that a `down` that goes through removes every cause but the
configuration's own and a further restart. TLC confirmed the three on the instance of
`vault_mesh`, where no mutant of theirs would say more than those of `EventuallyUp`; they
have no run.

`TopologyProofs` proves facts about the pure functions for any configuration that
passes `CompileRefused`, with any clusters and sizes, from `PrimaryAssumption` and
`IndexAssumption`: `AddressesAreUnique`, `DialsAreReachable`, `SecondariesFindPrimary`,
`ProxiesFindPorts`. `ProvisionProofs` carries them over to the process: `ConfInv` says
that a running process has loaded a file `app.New` accepted, so what is rendered is
compiled. The certificates need

    CertsInv == what is in cache/tls is whole, of one CA and made out to its node,
                and every pair of Wanted(conf) that is no longer in todo is there

and the lemma `FreeIndexIsNext`: because pairs are made in the order of their
indices, the index `consul tls cert create` picks is the one the code has in mind.
The invariant holds as long as nothing was torn; this is exactly what a crash takes
away. `K8sInv` says that a marker that is not void stands for all the files.

`AlwaysFailsOnlyForCause` is the safety half of `EventuallyBooted`: a run fails of itself
for one half of a CA, for a file that cannot be brought up (`Boots`), or for images
`docker.hash` does not vouch for, and then `-force` builds them. It needs `ImagesInv`: a
`docker.hash` of certain versions implies the images of those versions, whatever was
edited or interrupted since, because the hash is written after the builds and covers the
configuration that was loaded. `SpentInv` tells the faults, which are counted, from
failures of the program's own. `RenderFindsDefinitions` is why no file is missing
between `generateCatalogInfo` and `generateConfigs`, also when `primary` wrote only its own.

`CentralConfigsProofs` proves its theorems for any files, edits and bounds, from
`NoneIsNoFile`, `PartitionsAssumption` and `EntriesAssumption`. The inductive
invariant is

    Inv == TenancyInv /\ StoreInv /\ EntriesInv

where `TenancyInv` follows the loops over partitions and namespaces (what is listed
and not claimed, what has been created so far, who may be deleted), `StoreInv` keeps
what is stored consistent and with a tenant, and `EntriesInv` says that after `next`
entries of the file the store holds `Over(stored, conf, next)` where it matters
(`FileWritten`, `StockWritten`), and that what is written has left the list (`Stays`).
`EntriesReconcile` and `PartitionsReconcile` map its steps to `Reconcile`.

`AlwaysFailsOnlyIfBlocked` is the safety half of `EventuallyConverged`: the definition
`Blocked`, stated beforehand in terms of the file and of what is stored when the run
comes to its entries, is complete. The lemma that carries it is `NextIsPut`: when the
entries before `n` are written, writing the next one is `Over(stored, conf, n)`, so Consul refuses a write only if one of the stages `Blocked` enumerates is not
consistent. The proof found a case that the model had overlooked, and that no run could
meet because no file of the instance had it: without Enterprise only intentions and
proxy defaults are scrubbed, so an entry of another kind that names a namespace or
partition is sent as it is, and refused. `NamesTenant` and a fifteenth file were added.

Only model-checked: the liveness properties `UpTerminates`, `WorkloadsComeUp`,
`CatalogFollowsHealth`, `EventuallyUp`, `EventuallyBooted` and `EventuallyConverged`, for
which the theorems named above (`UpAlwaysAdvances`, `TerraformAlwaysMoves`,
`OnlyNetworksEndUp`, `VaultFailsOnlyForCause`, `DownRepairsVault` and others) are the safety
halves. `NoPanic` is false without `initial_master_token` (`bringup_firstup`) and proved
with it. Liveness under fairness and `ENABLED` are out of the prover's reach.

## 7. What the models say about the code

1. *The first `up` without `initial_master_token` panics* (`bringup_firstup`).
   `bootstrap` waits for the management token on the servers
   (`app/boot.go:659`) before `createClientsForServersInCluster` was ever called,
   so `waitForTokenOnServers` hits `panic("server client for ... was not
   created")`. The token was saved just before, so the next run succeeds; the
   theorem `PanicAlwaysKeepsMasterToken` says that this always is so. The two ways
   in which the token does get lost are those `MasterTokenKept` names (`app/boot.go:642`
   and `:634`), and then only `down` helps (`LostTokenEndsTheEnvironment`).
2. *Completion can be vacuous.* `waitForCompletion` is commented "ensure all services
   and proxies are healthy" but asks only about services the catalog lists already;
   `WorkloadsComeUp` is therefore about what happens in the end.
3. *A stale master token is not given up* (`bringup_stale`). With a
   `master-token.val` of a destroyed environment the loop at `NOT_BOOTED` takes
   "403 (ACL not found)" for "not ready yet", and the branch "master token doesn't
   work anymore" is never reached.
4. *A lost reply can leave the catalog wrong.* If a status write
   is applied but reported as failed, and the port changes back before the next
   round, the daemon's `last` agrees with the port and the catalog with neither;
   nothing is written until the port changes again
   (`clustertool/catalog-sync.go:362`). `CatalogFollowsHealth` is therefore checked
   with `LostReplies = FALSE` only; with `TRUE` it fails. No comment or document of
   the code promises otherwise.
5. *The network guard holds once* (`lifecycle_networks`). The refused contents of
   `networks.tf` are written before the error is returned, so the second `up`
   replaces the networks that "a full down/up cycle" was required for.
6. *A new Vault and an old token.* `initVault` advises to "destroy and recreate
   vault", but the token of a mesh CA survives in `cache/` and in Consul's
   configuration; both agree, so `up` changes nothing and succeeds with a CA whose
   token the new Vault does not know. No run claims otherwise: `BootedCAs` is about
   agreement with the declaration and the file. `down` is the complete remedy
   (`EventuallyUp`). Likewise a `mesh_ca` without `vault.enabled` passes validation and
   ends in a nil client (`app/boot_vault.go:217`); `EventuallyUp` excludes it.
7. *`cache/tls` is not repaired* (`torn` in `Provision`). After an interrupted
   `consul tls cert create` the next run makes a pair under the next index: the first
   agent still has half of one, the second loads the pair made for the first. Half a
   CA makes every later `up` fail until `down`.
8. *Markers outlive what they stand for* (`k8sVoid`). Switching Kubernetes off removes
   `cache/k8s` but neither `k8s.hash` nor `init.done`; switched on again, nothing is
   generated, with -force neither if the file is what it was, and boot misses its files.
9. *Addresses collide* beyond ten servers in a cluster (10 + 11 = 20 + 1) and for
   clusters whose names have the same number; `CompileTopology` checks neither
   (`WellNumbered`).
10. *A dataplane with `server_tls_grpc` alone* dials port 8502 of a server that only
   opens 8503 (`PortsOpen` makes the exception).
11. *Valid files that cannot be brought up* (`Workable`): a mesh gateway or a builtin
   proxy as a dataplane and `upstream_extra_hcl` of a dataplane panic; a canary node
   refers to an image that was not declared for its kind of proxy; Kubernetes with a
   second cluster is refused only after everything was applied.
12. *Namespaces of other partitions* are created in, and deleted from, the default
   partition: the list is of the partition, `Create` and `Delete` are given no options
   (`app/boot.go:774`). `TenancyReady` says what is left of the promise. How Consul
   Enterprise answers is assumed, since nothing of it is in the repository: that
   creating a namespace which exists already is accepted, and that a deleted one is
   gone at once.
13. *Some entries are never deleted, some edits never go through.* Entries outside the
   default namespace or of unlisted kinds are not listed (`Hidden`). Because all
   entries are set before any is deleted, a protocol cannot be taken from a service
   as long as a router of the former file is stored (`Blocked`). Nor does a file go
   through that names a namespace or partition in an entry without Enterprise, unless
   it is of the two kinds that are scrubbed (`app/boot.go:1421`, `NamesTenant`). There is
   no further reason for a run to fail (`AlwaysFailsOnlyIfBlocked`).
14. *The address table of the repository's `README.md`* (lines 90-109) puts clients right
   after the servers, at `.12` and `.13`; code, tests and `Topology` number them from
   `.21`. No property is about the table.

## 8. Not modelled

- `SecurityDisableACLs` in `BringUp` (nothing to wait for) and Grafana. Tenants, central
  configuration entries and Vault have modules of their own; their calls do not touch
  the variables of `BringUp`.
- `VaultBoot` leaves out `primary` (the same loop over the first cluster), expiry of
  tokens, and what policies grant. `CatalogSync` leaves out writes still in flight when
  a daemon dies, and the status of proxies, which are never probed.
- Servers do not lose tokens they resolved, and containers do not crash for good:
  Docker restarts them and Consul's state is on volumes.
- The auth method and the binding rules `initializeKubernetes` creates in Consul, and the
  kubectl calls behind the files of `cache/k8s`: one write each, without a state to
  come back to. Stopping containers before a `restart` changes no file; what follows is
  `up`.
- The text of HCL, JSON and shell templates: only what it refers to is in `Rendering`.
- Listing helpers (`consulfunc/catalog.go`) are guards of the models. `check-mesh`,
  `dump-logs`, `grafana`, `config` and other read-only commands, the wrappers around
  external programs and the upload of dashboards have no state of the program.

See the components of `PROJECT.json` for each part and the reason.

## 9. Plan

All modules of the plan are built: `TokenHandoff`, `Reconcile`, `BringUp`, `CatalogSync`,
`Lifecycle`, `VaultBoot`, `Configuration`, `Topology`, `Rendering`, `Provision`,
`Tenancy`, `CentralConfigs`, and proofs about each. What would add most:

1. a run for the promise of `initVault` that a recreated Vault is picked up
   (remark 6);
2. `primary` in `VaultBoot` and `CentralConfigs`.

------------------------------ MODULE VaultBoot -----------------------------
(***************************************************************************)
(* Vault as a secret store and as the mesh CA of Consul clusters           *)
(* (app/boot_vault.go): initVault initialises, unseals and pokes Vault,    *)
(* maybeInitVaultForMeshCA makes Consul's CA of each cluster the declared  *)
(* one.  Three memories have to agree: Vault's volume, the values in       *)
(* cache/ and Consul's CA configuration; Terraform, `down` and the         *)
(* operator each destroy some of them only.                                *)
(*                                                                         *)
(* A key or token is a member of Tokens; the unseal key and the root token *)
(* of one Vault are the same member, since Vault makes them together.      *)
(***************************************************************************)
EXTENDS Naturals, Sequences

CONSTANTS
    Clusters,       \* names of clusters
    Order,          \* the clusters in the order the bring-up visits them
    Configs,        \* contents of config.hcl: [vault, mesh]
    Tokens,         \* keys and tokens Vault can issue
    None,           \* no value
    MaxInterrupts,  \* bound: interrupted runs
    MaxEdits,       \* bound: edits of config.hcl
    MaxRestarts,    \* bound: restarts of the Vault container
    MaxCommands     \* bound: `down` or a new Vault that no failure asked for

ASSUME VaultAssumption ==
    /\ Order \in Seq(Clusters)
    /\ \A c \in Clusters : \E i \in DOMAIN Order : Order[i] = c
    /\ \A i, j \in DOMAIN Order : Order[i] = Order[j] => i = j
    /\ Configs \subseteq [vault : BOOLEAN, mesh : SUBSET Clusters]
    /\ Configs # {}
    /\ None \notin Tokens /\ None \notin Configs

Values == Tokens \cup {None}

(* Consul's CA configuration: as the servers chose it when they started,   *)
(* as ensureCAUsesConsul wants it (provider and fields that differ), or    *)
(* Vault's with a token.  The other fields depend on the cluster only.     *)
Default    == [provider |-> "default", token |-> None]
Consul     == [provider |-> "consul",  token |-> None]
InVault(t) == [provider |-> "vault",   token |-> t]

VARIABLES
    config,      \* config.hcl
    failed,      \* the last command ended with an error
    \* the process
    pc,          \* the call being executed
    conf,        \* the configuration it loaded
    at,          \* position in Order
    unsealKey,   \* c.vaultUnsealKey
    rootToken,   \* c.vaultToken
    caTokens,    \* c.vaultCATokens
    \* files in cache/
    keyFile,     \* vault-unseal-key.val
    rootFile,    \* vault-token.val
    caFile,      \* vault-token-ca-<cluster>.val
    \* Vault
    vaultUp,     \* the container and its volume exist
    vaultKey,    \* its unseal key and root token, None before initialisation
    sealed,      \* it has to be unsealed
    kv,          \* the secrets engine is mounted
    issued,      \* tokens issued for mesh CAs
    \* Consul
    ca,          \* CA configuration of each cluster
    settled,     \* the configuration of the last complete bring-up, if all of
                 \* Vault is still there; None otherwise (for StaysSettled)
    spent        \* bounds used up

process == <<pc, conf, at, unsealKey, rootToken, caTokens>>
memory  == <<unsealKey, rootToken, caTokens>>
files   == <<keyFile, rootFile, caFile>>
vault   == <<vaultUp, vaultKey, sealed, kv, issued>>
vars    == <<config, failed, process, files, vault, ca, settled, spent>>

Spend(what, bound) ==
    /\ spent[what] < bound
    /\ spent' = [spent EXCEPT ![what] = @ + 1]

Forgotten == [c \in Clusters |-> None]

Init ==
    /\ config \in Configs /\ conf = config /\ failed = FALSE
    /\ pc = "idle" /\ at = 1
    /\ unsealKey = None /\ rootToken = None /\ caTokens = Forgotten
    /\ keyFile = None /\ rootFile = None /\ caFile = Forgotten
    /\ vaultUp = FALSE /\ vaultKey = None /\ sealed = TRUE /\ kv = FALSE
    /\ issued = {}
    /\ ca = [c \in Clusters |-> Default]
    /\ settled = None
    /\ spent = [interrupts |-> 0, edits |-> 0, restarts |-> 0, commands |-> 0]

(* A value nobody has seen (one that everybody forgot may be used again).  *)
Unused ==
    Tokens \ (issued \cup {vaultKey, keyFile, rootFile, unsealKey, rootToken}
                \cup {caFile[c] : c \in Clusters} \cup {caTokens[c] : c \in Clusters}
                \cup {ca[c].token : c \in Clusters})

Fresh == CHOOSE t \in Unused : TRUE

(* An empty Vault: not initialised, which it reports as sealed.            *)
NewVault ==
    /\ vaultKey' = None /\ sealed' = TRUE /\ kv' = FALSE /\ issued' = {}

Fail == pc' = "idle" /\ failed' = TRUE

-----------------------------------------------------------------------------
(* The operator and the world.                                             *)

EditConfig(c) ==
    /\ c # config
    /\ Spend("edits", MaxEdits)
    /\ config' = c
    /\ UNCHANGED <<failed, process, files, vault, ca, settled>>

StartUp ==
    /\ pc = "idle"
    /\ pc' = "provision"
    /\ conf' = config
    /\ at' = 1
    /\ unsealKey' = None /\ rootToken' = None /\ caTokens' = Forgotten
    /\ UNCHANGED <<config, failed, files, vault, ca, settled, spent>>

StartDown ==
    /\ pc = "idle"
    /\ pc' = "destroy"
    /\ failed' = FALSE
    /\ UNCHANGED <<config, conf, at, memory, files, vault, ca, settled>>

(* After an error, any number of times.                                    *)
RecoverByDown == failed /\ StartDown /\ UNCHANGED spent

DownAnyway == ~failed /\ StartDown /\ Spend("commands", MaxCommands)

(* "destroy and recreate vault": its container and volume only.            *)
RecreateVault ==
    /\ pc = "idle"
    /\ vaultUp
    /\ Spend("commands", MaxCommands)
    /\ NewVault
    /\ settled' = None
    /\ UNCHANGED <<config, failed, process, files, vaultUp, ca>>

(* restart = "always": an initialised Vault comes back sealed.             *)
RestartVault ==
    /\ vaultUp /\ ~sealed
    /\ Spend("restarts", MaxRestarts)
    /\ sealed' = TRUE
    /\ UNCHANGED <<config, failed, process, files, vaultUp, vaultKey, kv, issued, ca,
                   settled>>

Interrupt ==
    /\ pc # "idle"
    /\ Spend("interrupts", MaxInterrupts)
    /\ pc' = "idle"
    /\ UNCHANGED <<config, failed, conf, at, memory, files, vault, ca, settled>>

-----------------------------------------------------------------------------
(* `up` until the bring-up: Terraform creates or destroys Vault; the CAs   *)
(* stay with Consul's servers.                                             *)
Provision ==
    /\ pc = "provision"
    /\ pc' = "init"
    /\ vaultUp' = conf.vault
    /\ IF vaultUp = conf.vault THEN UNCHANGED <<vaultKey, sealed, kv, issued>>
                               ELSE NewVault
    /\ settled' = IF settled = conf THEN conf ELSE None
    /\ UNCHANGED <<config, failed, conf, at, memory, files, ca, spent>>

(* initVault without Vault: values are deleted one file after the other.   *)
ForgetVault ==
    /\ pc = "init" /\ ~conf.vault
    /\ \/ keyFile # None /\ keyFile' = None /\ UNCHANGED <<rootFile, caFile>>
       \/ keyFile = None /\ rootFile # None /\ rootFile' = None
          /\ UNCHANGED <<keyFile, caFile>>
       \/ /\ keyFile = None /\ rootFile = None
          /\ \E c \in Clusters :
                caFile[c] # None /\ caFile' = [caFile EXCEPT ![c] = None]
          /\ UNCHANGED <<keyFile, rootFile>>
    /\ UNCHANGED <<config, failed, process, vault, ca, settled, spent>>

(* Fault: the tokens of the mesh CAs are not deleted.                      *)
WithoutVault_KeepTokens ==
    /\ pc = "init" /\ ~conf.vault
    /\ keyFile = None /\ rootFile = None
    /\ pc' = "mesh"
    /\ UNCHANGED <<config, failed, conf, at, memory, files, vault, ca, settled, spent>>

WithoutVault ==
    /\ pc = "init" /\ ~conf.vault
    /\ keyFile = None /\ rootFile = None /\ caFile = Forgotten
    /\ pc' = "mesh"
    /\ UNCHANGED <<config, failed, conf, at, memory, files, vault, ca, settled, spent>>

LoadValues ==
    /\ pc = "init" /\ conf.vault
    /\ unsealKey' = keyFile /\ rootToken' = rootFile
    /\ pc' = "status"
    /\ UNCHANGED <<config, failed, conf, at, caTokens, files, vault, ca, settled, spent>>

(* CHECK_STATUS, and what has to be remembered of an initialised Vault.    *)
CheckStatus ==
    /\ pc = "status"
    /\ IF vaultKey = None
       THEN pc' = "initialize" /\ UNCHANGED failed
       ELSE IF unsealKey = None \/ rootToken = None
       THEN Fail
       ELSE pc' = (IF sealed THEN "unseal" ELSE "poke") /\ UNCHANGED failed
    /\ UNCHANGED <<config, conf, at, memory, files, vault, ca, settled, spent>>

Initialize ==
    /\ pc = "initialize"
    /\ Unused # {}
    /\ vaultKey' = Fresh /\ unsealKey' = Fresh /\ rootToken' = Fresh
    /\ pc' = "saveKey"
    /\ UNCHANGED <<config, failed, conf, at, caTokens, files, vaultUp, sealed, kv,
                   issued, ca, settled, spent>>

(* Fault: both values are saved as the root token.                         *)
SaveUnsealKey_AsToken ==
    /\ pc = "saveKey"
    /\ rootFile' = unsealKey
    /\ pc' = "saveRoot"
    /\ UNCHANGED <<config, failed, conf, at, memory, keyFile, caFile, vault, ca, settled,
                   spent>>

SaveUnsealKey ==
    /\ pc = "saveKey"
    /\ keyFile' = unsealKey
    /\ pc' = "saveRoot"
    /\ UNCHANGED <<config, failed, conf, at, memory, rootFile, caFile, vault, ca, settled,
                   spent>>

(* The status read before Init said sealed.                                *)
SaveRootToken ==
    /\ pc = "saveRoot"
    /\ rootFile' = rootToken
    /\ pc' = "unseal"
    /\ UNCHANGED <<config, failed, conf, at, memory, keyFile, caFile, vault, ca, settled,
                   spent>>

Unseal ==
    /\ pc = "unseal"
    /\ IF unsealKey = vaultKey
       THEN sealed' = FALSE /\ pc' = "status" /\ UNCHANGED failed
       ELSE Fail /\ UNCHANGED sealed
    /\ UNCHANGED <<config, conf, at, memory, files, vaultUp, vaultKey, kv, issued, ca,
                   settled, spent>>

(* Vault answers the holder of the root token, unless it restarted.        *)
RootWorks == vaultUp /\ ~sealed /\ rootToken = vaultKey

PokeVault ==
    /\ pc = "poke"
    /\ IF RootWorks THEN kv' = TRUE /\ pc' = "mesh" /\ UNCHANGED failed
                    ELSE Fail /\ UNCHANGED kv
    /\ UNCHANGED <<config, conf, at, memory, files, vaultUp, vaultKey, sealed, issued, ca,
                   settled, spent>>

-----------------------------------------------------------------------------
(* The mesh CA of each cluster (maybeInitVaultForMeshCA).                  *)

InMesh(c) == c \in conf.mesh

KeepConsul ==
    /\ pc = "mesh" /\ at <= Len(Order)
    /\ ~InMesh(Order[at])
    /\ pc' = "readCA"
    /\ UNCHANGED <<config, failed, conf, at, memory, files, vault, ca, settled, spent>>

LoadToken ==
    /\ pc = "mesh" /\ at <= Len(Order)
    /\ InMesh(Order[at]) /\ caFile[Order[at]] # None
    /\ caTokens' = [caTokens EXCEPT ![Order[at]] = caFile[Order[at]]]
    /\ pc' = "readCA"
    /\ UNCHANGED <<config, failed, conf, at, unsealKey, rootToken, files, vault, ca,
                   settled, spent>>

(* Fault: the cached token is not looked for.                              *)
CreateToken_Always ==
    /\ pc = "mesh" /\ at <= Len(Order)
    /\ InMesh(Order[at])
    /\ IF conf.vault /\ RootWorks
       THEN /\ Unused # {}
            /\ issued' = issued \cup {Fresh}
            /\ caTokens' = [caTokens EXCEPT ![Order[at]] = Fresh]
            /\ pc' = "saveToken" /\ UNCHANGED failed
       ELSE Fail /\ UNCHANGED <<issued, caTokens>>
    /\ UNCHANGED <<config, conf, at, unsealKey, rootToken, files, vaultUp, vaultKey,
                   sealed, kv, ca, settled, spent>>

(* mesh_ca without vault.enabled passes the validation of the configuration *)
(* and gets here with a nil client, which is a panic.                      *)
CreateToken ==
    /\ pc = "mesh" /\ at <= Len(Order)
    /\ InMesh(Order[at]) /\ caFile[Order[at]] = None
    /\ IF conf.vault /\ RootWorks
       THEN /\ Unused # {}
            /\ issued' = issued \cup {Fresh}
            /\ caTokens' = [caTokens EXCEPT ![Order[at]] = Fresh]
            /\ pc' = "saveToken" /\ UNCHANGED failed
       ELSE Fail /\ UNCHANGED <<issued, caTokens>>
    /\ UNCHANGED <<config, conf, at, unsealKey, rootToken, files, vaultUp, vaultKey,
                   sealed, kv, ca, settled, spent>>

SaveToken ==
    /\ pc = "saveToken"
    /\ caFile' = [caFile EXCEPT ![Order[at]] = caTokens[Order[at]]]
    /\ pc' = "readCA"
    /\ UNCHANGED <<config, failed, conf, at, memory, keyFile, rootFile, vault, ca,
                   settled, spent>>

Update(c) == IF InMesh(c) THEN InVault(caTokens[c]) ELSE Consul

NextCluster == pc' = "mesh" /\ at' = at + 1

(* Fault: a CA with the right provider is left as it is.                   *)
ReadCA_ProviderOnly ==
    /\ pc = "readCA"
    /\ IF ca[Order[at]].provider = Update(Order[at]).provider
       THEN NextCluster
       ELSE pc' = "setCA" /\ UNCHANGED at
    /\ UNCHANGED <<config, failed, conf, memory, files, vault, ca, settled, spent>>

(* Nothing to do, a simple update or another provider: the last two are    *)
(* the same call.  The error "configuration differs" asks for a field that *)
(* is neither simple nor a function of cluster and provider: there is none. *)
ReadCA ==
    /\ pc = "readCA"
    /\ IF ca[Order[at]] = Update(Order[at])
       THEN NextCluster
       ELSE pc' = "setCA" /\ UNCHANGED at
    /\ UNCHANGED <<config, failed, conf, memory, files, vault, ca, settled, spent>>

(* Consul uses the new configuration's token, and the old one's to sign    *)
(* the new root.                                                           *)
Usable(cfg) ==
    cfg.provider = "vault" => vaultUp /\ ~sealed /\ cfg.token \in issued

Acceptable(c) == Usable(ca[c]) /\ Usable(Update(c))

(* Fault: the retry of one cluster's CA runs on into the next cluster.     *)
SetCA_RunOn ==
    /\ pc = "setCA"
    /\ Acceptable(Order[at])
    /\ ca' = [ca EXCEPT ![Order[at]] = Update(Order[at])]
    /\ pc' = "readCA" /\ at' = at + 1
    /\ UNCHANGED <<config, failed, conf, memory, files, vault, settled, spent>>

SetCA ==
    /\ pc = "setCA"
    /\ Acceptable(Order[at])
    /\ ca' = [ca EXCEPT ![Order[at]] = Update(Order[at])]
    /\ NextCluster
    /\ UNCHANGED <<config, failed, conf, memory, files, vault, settled, spent>>

(* "CA is already in state RECONFIGURING": read and try again.             *)
Reconfiguring ==
    /\ pc = "setCA"
    /\ pc' = "readCA"
    /\ UNCHANGED <<config, failed, conf, at, memory, files, vault, ca, settled, spent>>

RefusedCA ==
    /\ pc = "setCA"
    /\ ~Acceptable(Order[at])
    /\ Fail
    /\ UNCHANGED <<config, conf, at, memory, files, vault, ca, settled, spent>>

Booted ==
    /\ pc = "mesh" /\ at > Len(Order)
    /\ pc' = "booted"
    /\ failed' = FALSE
    /\ settled' = conf
    /\ UNCHANGED <<config, conf, at, memory, files, vault, ca, spent>>

Exit ==
    /\ pc = "booted"
    /\ pc' = "idle"
    /\ UNCHANGED <<config, failed, conf, at, memory, files, vault, ca, settled, spent>>

-----------------------------------------------------------------------------
(* `down`: the resources, Consul's servers with them, then cache/*.val in  *)
(* the order of their names.                                               *)

Destroy ==
    /\ pc = "destroy"
    /\ pc' = "remove"
    /\ vaultUp' = FALSE /\ NewVault
    /\ ca' = [c \in Clusters |-> Default]
    /\ settled' = None
    /\ UNCHANGED <<config, failed, conf, at, memory, files, spent>>

(* Fault: the glob of the files misses the tokens of the mesh CAs.         *)
RemoveFile_KeepTokens ==
    /\ pc = "remove"
    /\ \/ rootFile # None /\ rootFile' = None /\ UNCHANGED <<keyFile, caFile, pc>>
       \/ rootFile = None /\ keyFile # None /\ keyFile' = None
          /\ UNCHANGED <<rootFile, caFile, pc>>
       \/ rootFile = None /\ keyFile = None /\ pc' = "idle" /\ UNCHANGED files
    /\ UNCHANGED <<config, failed, conf, at, memory, vault, ca, settled, spent>>

RemoveFile ==
    /\ pc = "remove"
    /\ \/ /\ \E c \in Clusters :
                caFile[c] # None /\ caFile' = [caFile EXCEPT ![c] = None]
          /\ UNCHANGED <<rootFile, keyFile, pc>>
       \/ caFile = Forgotten /\ rootFile # None /\ rootFile' = None
          /\ UNCHANGED <<keyFile, caFile, pc>>
       \/ caFile = Forgotten /\ rootFile = None /\ keyFile # None /\ keyFile' = None
          /\ UNCHANGED <<rootFile, caFile, pc>>
       \/ caFile = Forgotten /\ rootFile = None /\ keyFile = None /\ pc' = "idle"
          /\ UNCHANGED files
    /\ UNCHANGED <<config, failed, conf, at, memory, vault, ca, settled, spent>>

-----------------------------------------------------------------------------
InitVault ==
    \/ ForgetVault \/ WithoutVault \/ LoadValues \/ CheckStatus \/ Initialize
    \/ SaveUnsealKey \/ SaveRootToken \/ Unseal \/ PokeVault

MeshCA ==
    \/ KeepConsul \/ LoadToken \/ CreateToken \/ SaveToken \/ ReadCA \/ SetCA
    \/ RefusedCA \/ Booted \/ Exit

Step == Provision \/ InitVault \/ MeshCA \/ Destroy \/ RemoveFile

Environment ==
    \/ \E c \in Configs : EditConfig(c)
    \/ StartUp \/ RecoverByDown \/ DownAnyway \/ RecreateVault \/ RestartVault
    \/ Interrupt

Next == Step \/ Reconfiguring \/ Environment

Spec == Init /\ [][Next]_vars

(* A CA is not being reconfigured for ever.  The operator keeps trying     *)
(* `up`, and `down` when `up` fails: the premise of EventuallyUp.          *)
LiveSpec ==
    /\ Spec /\ WF_vars(Step) /\ WF_vars(StartUp)
    /\ SF_vars(SetCA) /\ SF_vars(RefusedCA) /\ SF_vars(RecoverByDown)

-----------------------------------------------------------------------------
(* Properties.                                                             *)

InBoot == {"mesh", "saveToken", "readCA", "setCA", "booted"}

CAConfigs == {Default, Consul} \cup {InVault(t) : t \in Tokens}

(* Every variable has its type, and a cluster's CA is only looked at while *)
(* there is a cluster left (the loops of runBoot and initSecondaryDCs).    *)
TypeOK ==
    /\ config \in Configs /\ conf \in Configs /\ failed \in BOOLEAN
    /\ pc \in {"idle", "provision", "init", "status", "initialize", "saveKey",
               "saveRoot", "unseal", "poke", "destroy", "remove"} \cup InBoot
    /\ at \in 1..(Len(Order) + 1)
    /\ pc \in {"saveToken", "readCA", "setCA"} => at <= Len(Order)
    /\ unsealKey \in Values /\ rootToken \in Values /\ caTokens \in [Clusters -> Values]
    /\ keyFile \in Values /\ rootFile \in Values /\ caFile \in [Clusters -> Values]
    /\ vaultUp \in BOOLEAN /\ vaultKey \in Values /\ sealed \in BOOLEAN
    /\ kv \in BOOLEAN /\ issued \subseteq Tokens
    /\ ca \in [Clusters -> CAConfigs]
    /\ settled \in Configs \cup {None}
    /\ spent \in [{"interrupts", "edits", "restarts", "commands"} -> Nat]

(* Whoever finds Vault's root token in cache/ (vault.sh reads it there)    *)
(* also finds the key that opens this Vault after a restart, wherever the  *)
(* two saves of initVault were interrupted.                                *)
RootTokenHasKey == vaultKey # None /\ rootFile = vaultKey => keyFile = vaultKey

(* Past initVault the process, cache/ and the running Vault agree on key   *)
(* and root token, and the secrets engine is mounted; without Vault        *)
(* nothing of a former one is left in cache/.                              *)
BootKnowsVault ==
    pc \in InBoot =>
        IF conf.vault
        THEN /\ vaultUp /\ kv /\ vaultKey # None
             /\ {unsealKey, rootToken, keyFile, rootFile} = {vaultKey}
        ELSE ~vaultUp /\ keyFile = None /\ rootFile = None /\ caFile = Forgotten

(* When the bring-up has succeeded, the CA of every cluster is the         *)
(* declared one, with the token in cache/, whatever provider and token an  *)
(* earlier configuration or an earlier Vault left behind (ensureCAProvider). *)
BootedCAs ==
    pc = "booted" =>
        \A c \in Clusters :
            IF InMesh(c) THEN caFile[c] # None /\ ca[c] = InVault(caFile[c])
                         ELSE ca[c] = Consul

(* A further `up` with the configuration of a complete one changes nothing *)
(* that lasts: it issues no tokens and touches no CA and no value in       *)
(* cache/, however Vault restarts and runs are interrupted in between.     *)
StaysSettled ==
    [][settled = conf /\ pc \notin {"idle", "provision", "destroy", "remove"} =>
           UNCHANGED <<files, vaultKey, kv, issued, ca>>]_vars

(* mesh_ca without vault.enabled                                           *)
Broken(c) == c.mesh # {} /\ ~c.vault

(* "destroy and recreate vault": whatever interruptions, edits and a lost  *)
(* Vault leave behind, `down` after a failed `up` is enough for `up` to    *)
(* succeed with the configuration as it finally is.                        *)
EventuallyUp == []<>((pc = "booted" /\ conf = config) \/ Broken(config))
=============================================================================

-------------------------- MODULE VaultBootProofs ---------------------------
(* Proofs about VaultBoot, for any clusters, configurations and bounds.    *)
EXTENDS VaultBoot, TLAPS

InInit == {"init", "status", "initialize", "saveKey", "saveRoot", "unseal", "poke"}

(* What Terraform made of Vault is what the configuration says, until the  *)
(* next command; without a Vault there is no key.                          *)
ProvisionedInv ==
    /\ ~vaultUp => vaultKey = None
    /\ pc = "remove" => ~vaultUp
    /\ pc \in InInit \cup InBoot => vaultUp = conf.vault
    /\ pc \in (InInit \ {"init"}) \cup {"saveToken"} => conf.vault

(* The process knows what the files say, or is about to save it, the key   *)
(* before the token.                                                       *)
KeysInv ==
    /\ RootTokenHasKey
    /\ pc \in {"status", "unseal", "poke"} => unsealKey = keyFile /\ rootToken = rootFile
    /\ pc \in {"saveKey", "saveRoot", "unseal", "poke"} => vaultKey # None
    /\ pc \in {"saveKey", "saveRoot"} => unsealKey = vaultKey /\ rootToken = vaultKey
    /\ pc = "saveRoot" => keyFile = vaultKey
    /\ BootKnowsVault

(* The CA is what a configuration with these clusters in Vault declares.   *)
Declared(c, mesh) ==
    IF c \in mesh THEN caFile[c] # None /\ ca[c] = InVault(caFile[c])
                  ELSE ca[c] = Consul

(* Clusters the bring-up has passed, and the one it is at.                 *)
MeshInv ==
    /\ pc \in InInit \cup {"provision"} => at = 1
    /\ pc \in InBoot => \A i \in 1..(at - 1) : Declared(Order[i], conf.mesh)
    /\ pc = "booted" => at > Len(Order)
    /\ pc = "saveToken" =>
          Order[at] \in conf.mesh /\ caTokens[Order[at]] # None
    /\ pc \in {"readCA", "setCA"} /\ Order[at] \in conf.mesh =>
          /\ caFile[Order[at]] # None
          /\ caTokens[Order[at]] = caFile[Order[at]]

(* Nothing is missing as long as the last complete bring-up stands.        *)
SettledInv ==
    settled # None =>
        /\ \A c \in Clusters : Declared(c, settled.mesh)
        /\ vaultUp = settled.vault
        /\ IF settled.vault
           THEN kv /\ vaultKey # None /\ keyFile = vaultKey /\ rootFile = vaultKey
           ELSE keyFile = None /\ rootFile = None /\ caFile = Forgotten
        /\ pc \notin {"idle", "provision", "destroy"} => settled = conf
        /\ pc \notin {"initialize", "saveKey", "saveRoot", "saveToken", "setCA", "remove"}

(* The action of StaysSettled.                                             *)
Stable ==
    settled = conf /\ pc \notin {"idle", "provision", "destroy", "remove"} =>
        UNCHANGED <<files, vaultKey, kv, issued, ca>>

Inv == TypeOK /\ ProvisionedInv /\ KeysInv /\ MeshInv /\ SettledInv

-----------------------------------------------------------------------------
LEMMA OrderFacts ==
    /\ Len(Order) \in Nat /\ DOMAIN Order = 1..Len(Order)
    /\ \A i \in 1..Len(Order) : Order[i] \in Clusters
    /\ \A c \in Clusters : \E i \in 1..Len(Order) : Order[i] = c
    /\ \A i, j \in 1..Len(Order) : Order[i] = Order[j] => i = j
  BY VaultAssumption

LEMMA ConfigFacts ==
    ASSUME NEW c \in Configs
    PROVE  c.vault \in BOOLEAN /\ c.mesh \subseteq Clusters /\ c # None
  BY VaultAssumption

LEMMA FreshUnused ==
    ASSUME Unused # {}
    PROVE  /\ Fresh \in Tokens /\ Fresh # None
           /\ Fresh \notin issued
           /\ Fresh \notin {vaultKey, keyFile, rootFile}
  <1>1. Fresh \in Unused
    BY DEF Fresh
  <1> QED
    BY <1>1, VaultAssumption DEF Unused

LEMMA SpendType ==
    ASSUME TypeOK, NEW w \in {"interrupts", "edits", "restarts", "commands"}, NEW b,
           Spend(w, b)
    PROVE  spent' \in [{"interrupts", "edits", "restarts", "commands"} -> Nat]
  BY DEF TypeOK, Spend

THEOREM InitInv == Init => Inv
  <1> SUFFICES ASSUME Init PROVE Inv
    OBVIOUS
  <1>1. TypeOK
    <2>1. at \in 1..(Len(Order) + 1) /\ (pc \in InBoot => FALSE)
      BY OrderFacts DEF Init, InBoot
    <2>2. caTokens \in [Clusters -> Values] /\ caFile \in [Clusters -> Values]
      BY DEF Init, Values, Forgotten
    <2>3. ca \in [Clusters -> CAConfigs]
      BY DEF Init, CAConfigs
    <2>4. spent \in [{"interrupts", "edits", "restarts", "commands"} -> Nat]
      BY DEF Init
    <2> QED
      BY <2>1, <2>2, <2>3, <2>4 DEF Init, TypeOK, Values, InBoot
  <1>2. ProvisionedInv /\ KeysInv /\ MeshInv /\ SettledInv
    BY DEF Init, ProvisionedInv, KeysInv, RootTokenHasKey, BootKnowsVault, MeshInv,
           SettledInv, InInit, InBoot
  <1> QED
    BY <1>1, <1>2 DEF Inv
(* Only Provision, Destroy and RecreateVault touch Vault's existence.      *)
LEMMA ProvisionedStep == Inv /\ [Next]_vars => ProvisionedInv'
  <1> SUFFICES ASSUME Inv, [Next]_vars PROVE ProvisionedInv'
    OBVIOUS
  <1> USE DEF Inv
  <1>1. ASSUME NEW c \in Configs, EditConfig(c) PROVE ProvisionedInv'
    BY <1>1
       DEF ProvisionedInv, InInit, InBoot, EditConfig, process, memory, files,
           vault
  <1>2. CASE StartUp
    BY <1>2
       DEF ProvisionedInv, InInit, InBoot, StartUp, Forgotten, files, vault
  <1>3. CASE RecoverByDown
    BY <1>3
       DEF ProvisionedInv, InInit, InBoot, RecoverByDown, StartDown, memory,
           files, vault
  <1>4. CASE DownAnyway
    BY <1>4
       DEF ProvisionedInv, InInit, InBoot, DownAnyway, StartDown, memory,
           files, vault
  <1>5. CASE RecreateVault
    BY <1>5
       DEF ProvisionedInv, InInit, InBoot, RecreateVault, NewVault, process,
           memory, files
  <1>6. CASE RestartVault
    BY <1>6
       DEF ProvisionedInv, InInit, InBoot, RestartVault, process, memory, files
  <1>7. CASE Interrupt
    BY <1>7
       DEF ProvisionedInv, InInit, InBoot, Interrupt, memory, files, vault
  <1>8. CASE Reconfiguring
    BY <1>8
       DEF ProvisionedInv, InInit, InBoot, Reconfiguring, memory, files, vault
  <1>9. CASE Provision
    BY <1>9
       DEF ProvisionedInv, InInit, InBoot, Provision, NewVault, memory, files
  <1>10. CASE ForgetVault
    BY <1>10
       DEF ProvisionedInv, InInit, InBoot, ForgetVault, process, memory, vault
  <1>11. CASE WithoutVault
    BY <1>11
       DEF ProvisionedInv, InInit, InBoot, WithoutVault, memory, files, vault
  <1>12. CASE LoadValues
    BY <1>12
       DEF ProvisionedInv, InInit, InBoot, LoadValues, files, vault
  <1>13. CASE CheckStatus
    BY <1>13
       DEF ProvisionedInv, InInit, InBoot, CheckStatus, Fail, memory, files,
           vault
  <1>14. CASE Initialize
    BY <1>14
       DEF ProvisionedInv, InInit, InBoot, Initialize, files
  <1>15. CASE SaveUnsealKey
    BY <1>15
       DEF ProvisionedInv, InInit, InBoot, SaveUnsealKey, memory, vault
  <1>16. CASE SaveRootToken
    BY <1>16
       DEF ProvisionedInv, InInit, InBoot, SaveRootToken, memory, vault
  <1>17. CASE Unseal
    BY <1>17
       DEF ProvisionedInv, InInit, InBoot, Unseal, Fail, memory, files
  <1>18. CASE PokeVault
    BY <1>18
       DEF ProvisionedInv, InInit, InBoot, PokeVault, Fail, RootWorks, memory,
           files
  <1>19. CASE KeepConsul
    BY <1>19
       DEF ProvisionedInv, InInit, InBoot, KeepConsul, InMesh, memory, files,
           vault
  <1>20. CASE LoadToken
    BY <1>20
       DEF ProvisionedInv, InInit, InBoot, LoadToken, InMesh, files, vault
  <1>21. CASE CreateToken
    BY <1>21
       DEF ProvisionedInv, InInit, InBoot, CreateToken, InMesh, Fail,
           RootWorks, files
  <1>22. CASE SaveToken
    BY <1>22
       DEF ProvisionedInv, InInit, InBoot, SaveToken, memory, vault
  <1>23. CASE ReadCA
    BY <1>23
       DEF ProvisionedInv, InInit, InBoot, ReadCA, Update, InMesh, NextCluster,
           memory, files, vault
  <1>24. CASE SetCA
    BY <1>24
       DEF ProvisionedInv, InInit, InBoot, SetCA, Update, InMesh, NextCluster,
           memory, files, vault
  <1>25. CASE RefusedCA
    BY <1>25
       DEF ProvisionedInv, InInit, InBoot, RefusedCA, Fail, memory, files,
           vault
  <1>26. CASE Booted
    BY <1>26
       DEF ProvisionedInv, InInit, InBoot, Booted, memory, files, vault
  <1>27. CASE Exit
    BY <1>27
       DEF ProvisionedInv, InInit, InBoot, Exit, memory, files, vault
  <1>28. CASE Destroy
    BY <1>28
       DEF ProvisionedInv, InInit, InBoot, Destroy, NewVault, Forgotten,
           memory, files
  <1>29. CASE RemoveFile
    BY <1>29
       DEF ProvisionedInv, InInit, InBoot, RemoveFile, Forgotten, memory,
           files, vault
  <1>30. CASE UNCHANGED vars
    BY <1>30
       DEF ProvisionedInv, InInit, InBoot, vars, process, memory, files, vault
  <1> QED
    BY <1>1, <1>2, <1>3, <1>4, <1>5, <1>6, <1>7, <1>8, <1>9, <1>10, <1>11,
       <1>12, <1>13, <1>14, <1>15, <1>16, <1>17, <1>18, <1>19, <1>20, <1>21,
       <1>22, <1>23, <1>24, <1>25, <1>26, <1>27, <1>28, <1>29, <1>30
    DEF Next, Step, Environment, InitVault, MeshCA

(* The key is saved before the token, and Vault checks the token.          *)
LEMMA KeysStep == Inv /\ [Next]_vars => KeysInv'
  <1> SUFFICES ASSUME Inv, [Next]_vars PROVE KeysInv'
    OBVIOUS
  <1> USE DEF Inv
  <1>1. ASSUME NEW c \in Configs, EditConfig(c) PROVE KeysInv'
    BY <1>1
       DEF KeysInv, RootTokenHasKey, BootKnowsVault, InBoot, EditConfig,
           process, memory, files, vault
  <1>2. CASE StartUp
    BY <1>2
       DEF KeysInv, RootTokenHasKey, BootKnowsVault, InBoot, StartUp,
           Forgotten, files, vault
  <1>3. CASE RecoverByDown
    BY <1>3
       DEF KeysInv, RootTokenHasKey, BootKnowsVault, InBoot, RecoverByDown,
           StartDown, memory, files, vault
  <1>4. CASE DownAnyway
    BY <1>4
       DEF KeysInv, RootTokenHasKey, BootKnowsVault, InBoot, DownAnyway,
           StartDown, memory, files, vault
  <1>5. CASE RecreateVault
    BY <1>5
       DEF KeysInv, RootTokenHasKey, BootKnowsVault, InBoot, RecreateVault,
           NewVault, process, memory, files
  <1>6. CASE RestartVault
    BY <1>6
       DEF KeysInv, RootTokenHasKey, BootKnowsVault, InBoot, RestartVault,
           process, memory, files
  <1>7. CASE Interrupt
    BY <1>7
       DEF KeysInv, RootTokenHasKey, BootKnowsVault, InBoot, Interrupt, memory,
           files, vault
  <1>8. CASE Reconfiguring
    BY <1>8
       DEF KeysInv, RootTokenHasKey, BootKnowsVault, InBoot, Reconfiguring,
           memory, files, vault
  <1>9. CASE Provision
    BY <1>9
       DEF KeysInv, RootTokenHasKey, BootKnowsVault, InBoot, Provision,
           NewVault, memory, files
  <1>10. CASE ForgetVault
    BY <1>10
       DEF TypeOK, ProvisionedInv, KeysInv, RootTokenHasKey, BootKnowsVault,
           InInit, InBoot, ForgetVault, process, memory, vault
  <1>11. CASE WithoutVault
    BY <1>11
       DEF TypeOK, ProvisionedInv, KeysInv, RootTokenHasKey, BootKnowsVault,
           InInit, InBoot, WithoutVault, memory, files, vault
  <1>12. CASE LoadValues
    BY <1>12
       DEF KeysInv, RootTokenHasKey, BootKnowsVault, InBoot, LoadValues, files,
           vault
  <1>13. CASE CheckStatus
    BY <1>13
       DEF KeysInv, RootTokenHasKey, BootKnowsVault, InBoot, CheckStatus, Fail,
           memory, files, vault
  <1>14. CASE Initialize
    BY <1>14, ConfigFacts, FreshUnused
       DEF TypeOK, ProvisionedInv, KeysInv, RootTokenHasKey, BootKnowsVault,
           InInit, InBoot, Initialize, files
  <1>15. CASE SaveUnsealKey
    BY <1>15
       DEF KeysInv, RootTokenHasKey, BootKnowsVault, InBoot, SaveUnsealKey,
           memory, vault
  <1>16. CASE SaveRootToken
    BY <1>16
       DEF KeysInv, RootTokenHasKey, BootKnowsVault, InBoot, SaveRootToken,
           memory, vault
  <1>17. CASE Unseal
    BY <1>17
       DEF KeysInv, RootTokenHasKey, BootKnowsVault, InBoot, Unseal, Fail,
           memory, files
  <1>18. CASE PokeVault
    BY <1>18
       DEF TypeOK, ProvisionedInv, KeysInv, RootTokenHasKey, BootKnowsVault,
           InInit, InBoot, PokeVault, Fail, RootWorks, memory, files
  <1>19. CASE KeepConsul
    BY <1>19
       DEF KeysInv, RootTokenHasKey, BootKnowsVault, InBoot, KeepConsul,
           InMesh, memory, files, vault
  <1>20. CASE LoadToken
    BY <1>20
       DEF KeysInv, RootTokenHasKey, BootKnowsVault, InBoot, LoadToken, InMesh,
           files, vault
  <1>21. CASE CreateToken
    BY <1>21
       DEF KeysInv, RootTokenHasKey, BootKnowsVault, InBoot, CreateToken,
           InMesh, Fail, RootWorks, files
  <1>22. CASE SaveToken
    BY <1>22
       DEF TypeOK, ProvisionedInv, KeysInv, RootTokenHasKey, BootKnowsVault,
           InInit, InBoot, SaveToken, memory, vault
  <1>23. CASE ReadCA
    BY <1>23
       DEF KeysInv, RootTokenHasKey, BootKnowsVault, InBoot, ReadCA, Update,
           InMesh, NextCluster, memory, files, vault
  <1>24. CASE SetCA
    BY <1>24
       DEF KeysInv, RootTokenHasKey, BootKnowsVault, InBoot, SetCA, Update,
           InMesh, NextCluster, memory, files, vault
  <1>25. CASE RefusedCA
    BY <1>25
       DEF KeysInv, RootTokenHasKey, BootKnowsVault, InBoot, RefusedCA, Fail,
           memory, files, vault
  <1>26. CASE Booted
    BY <1>26
       DEF KeysInv, RootTokenHasKey, BootKnowsVault, InBoot, Booted, memory,
           files, vault
  <1>27. CASE Exit
    BY <1>27
       DEF KeysInv, RootTokenHasKey, BootKnowsVault, InBoot, Exit, memory,
           files, vault
  <1>28. CASE Destroy
    BY <1>28
       DEF KeysInv, RootTokenHasKey, BootKnowsVault, InBoot, Destroy, NewVault,
           Forgotten, memory, files
  <1>29. CASE RemoveFile
    BY <1>29
       DEF KeysInv, RootTokenHasKey, BootKnowsVault, InBoot, RemoveFile,
           Forgotten, memory, files, vault
  <1>30. CASE UNCHANGED vars
    BY <1>30
       DEF KeysInv, RootTokenHasKey, BootKnowsVault, InBoot, vars, process,
           memory, files, vault
  <1> QED
    BY <1>1, <1>2, <1>3, <1>4, <1>5, <1>6, <1>7, <1>8, <1>9, <1>10, <1>11,
       <1>12, <1>13, <1>14, <1>15, <1>16, <1>17, <1>18, <1>19, <1>20, <1>21,
       <1>22, <1>23, <1>24, <1>25, <1>26, <1>27, <1>28, <1>29, <1>30
    DEF Next, Step, Environment, InitVault, MeshCA

(* The types; that of a CA needs the token of MeshInv.                     *)
LEMMA TypeStep == Inv /\ [Next]_vars => TypeOK'
  <1> SUFFICES ASSUME Inv, [Next]_vars PROVE TypeOK'
    OBVIOUS
  <1> USE DEF Inv
  <1>1. ASSUME NEW c \in Configs, EditConfig(c) PROVE TypeOK'
    BY <1>1, SpendType
       DEF TypeOK, InBoot, EditConfig, process, memory, files, vault
  <1>2. CASE StartUp
    BY <1>2
       DEF TypeOK, InBoot, Values, StartUp, Forgotten, files, vault
  <1>3. CASE RecoverByDown
    BY <1>3
       DEF TypeOK, InBoot, RecoverByDown, StartDown, memory, files, vault
  <1>4. CASE DownAnyway
    BY <1>4, SpendType
       DEF TypeOK, InBoot, DownAnyway, StartDown, memory, files, vault
  <1>5. CASE RecreateVault
    BY <1>5, SpendType
       DEF TypeOK, InBoot, Values, RecreateVault, NewVault, process, memory,
           files
  <1>6. CASE RestartVault
    BY <1>6, SpendType
       DEF TypeOK, InBoot, RestartVault, process, memory, files
  <1>7. CASE Interrupt
    BY <1>7, SpendType
       DEF TypeOK, InBoot, Interrupt, memory, files, vault
  <1>8. CASE Reconfiguring
    BY <1>8
       DEF TypeOK, InBoot, Reconfiguring, memory, files, vault
  <1>9. CASE Provision
    <2>1. vaultUp' \in BOOLEAN
      BY <1>9, ConfigFacts DEF TypeOK, Provision
    <2>2. /\ vaultKey' \in Values /\ sealed' \in BOOLEAN /\ kv' \in BOOLEAN
          /\ issued' \subseteq Tokens
      BY <1>9 DEF TypeOK, Provision, NewVault, Values
    <2>3. settled' \in Configs \cup {None}
      BY <1>9 DEF TypeOK, Provision
    <2> QED
      BY <1>9, <2>1, <2>2, <2>3
         DEF TypeOK, Provision, InBoot, memory, files
  <1>10. CASE ForgetVault
    BY <1>10
       DEF TypeOK, InBoot, Values, ForgetVault, process, memory, vault
  <1>11. CASE WithoutVault
    BY <1>11
       DEF TypeOK, InBoot, WithoutVault, memory, files, vault
  <1>12. CASE LoadValues
    BY <1>12
       DEF TypeOK, InBoot, LoadValues, files, vault
  <1>13. CASE CheckStatus
    BY <1>13
       DEF TypeOK, InBoot, CheckStatus, Fail, memory, files, vault
  <1>14. CASE Initialize
    BY <1>14, VaultAssumption, OrderFacts, FreshUnused
       DEF TypeOK, InBoot, Values, Initialize, files
  <1>15. CASE SaveUnsealKey
    BY <1>15
       DEF TypeOK, InBoot, SaveUnsealKey, memory, vault
  <1>16. CASE SaveRootToken
    BY <1>16
       DEF TypeOK, InBoot, SaveRootToken, memory, vault
  <1>17. CASE Unseal
    BY <1>17
       DEF TypeOK, InBoot, Unseal, Fail, memory, files
  <1>18. CASE PokeVault
    BY <1>18
       DEF TypeOK, InBoot, PokeVault, Fail, RootWorks, memory, files
  <1>19. CASE KeepConsul
    BY <1>19
       DEF TypeOK, InBoot, KeepConsul, InMesh, memory, files, vault
  <1>20. CASE LoadToken
    BY <1>20
       DEF TypeOK, InBoot, LoadToken, InMesh, files, vault
  <1>21. CASE CreateToken
    <2>1. CASE conf.vault /\ RootWorks
      <3>1. Fresh \in Tokens /\ Fresh \in Values
        BY <1>21, <2>1, FreshUnused DEF CreateToken, Values
      <3>2. caTokens' \in [Clusters -> Values] /\ issued' \subseteq Tokens
        BY <1>21, <2>1, <3>1 DEF CreateToken, TypeOK
      <3> QED
        BY <1>21, <2>1, <3>2 DEF CreateToken, TypeOK, InBoot, files
    <2>2. CASE ~(conf.vault /\ RootWorks)
      BY <1>21, <2>2 DEF CreateToken, Fail, TypeOK, InBoot, files
    <2> QED
      BY <2>1, <2>2
  <1>22. CASE SaveToken
    BY <1>22
       DEF TypeOK, InBoot, SaveToken, memory, vault
  <1>23. CASE ReadCA
    BY <1>23
       DEF TypeOK, InBoot, ReadCA, Update, InMesh, NextCluster, memory, files,
           vault
  <1>24. CASE SetCA
    <2> DEFINE c == Order[at]
    <2>1. c \in Clusters /\ at + 1 \in 1..(Len(Order) + 1)
      BY <1>24, OrderFacts DEF SetCA, TypeOK
    <2>2. c \in conf.mesh => caTokens[c] \in Tokens
      BY <1>24, <2>1 DEF SetCA, TypeOK, MeshInv, Values
    <2>3. Update(c) \in CAConfigs
      BY <2>2 DEF Update, InMesh, CAConfigs
    <2>4. ca' \in [Clusters -> CAConfigs]
      BY <1>24, <2>1, <2>3 DEF SetCA, TypeOK
    <2> QED
      BY <1>24, <2>1, <2>4
         DEF SetCA, NextCluster, TypeOK, InBoot, memory, files, vault
  <1>25. CASE RefusedCA
    BY <1>25
       DEF TypeOK, InBoot, RefusedCA, Fail, memory, files, vault
  <1>26. CASE Booted
    BY <1>26
       DEF TypeOK, InBoot, Booted, memory, files, vault
  <1>27. CASE Exit
    BY <1>27
       DEF TypeOK, InBoot, Exit, memory, files, vault
  <1>28. CASE Destroy
    <2>1. ca' \in [Clusters -> CAConfigs]
      BY <1>28 DEF Destroy, CAConfigs
    <2> QED
      BY <1>28, <2>1
         DEF Destroy, NewVault, TypeOK, InBoot, Values, memory, files
  <1>29. CASE RemoveFile
    BY <1>29
       DEF TypeOK, InBoot, Values, RemoveFile, Forgotten, memory, files, vault
  <1>30. CASE UNCHANGED vars
    BY <1>30
       DEF TypeOK, InBoot, vars, process, memory, files, vault
  <1> QED
    BY <1>1, <1>2, <1>3, <1>4, <1>5, <1>6, <1>7, <1>8, <1>9, <1>10, <1>11,
       <1>12, <1>13, <1>14, <1>15, <1>16, <1>17, <1>18, <1>19, <1>20, <1>21,
       <1>22, <1>23, <1>24, <1>25, <1>26, <1>27, <1>28, <1>29, <1>30
    DEF Next, Step, Environment, InitVault, MeshCA

(* A step at one cluster leaves the clusters before it as they are.        *)
LEMMA MeshStep == Inv /\ [Next]_vars => MeshInv'
  <1> SUFFICES ASSUME Inv, [Next]_vars PROVE MeshInv'
    OBVIOUS
  <1> USE DEF Inv
  <1>1. ASSUME NEW c \in Configs, EditConfig(c) PROVE MeshInv'
    BY <1>1
       DEF MeshInv, Declared, InInit, InBoot, EditConfig, process, memory,
           files, vault
  <1>2. CASE StartUp
    BY <1>2
       DEF MeshInv, Declared, InInit, InBoot, StartUp, Forgotten, files, vault
  <1>3. CASE RecoverByDown
    BY <1>3
       DEF MeshInv, Declared, InInit, InBoot, RecoverByDown, StartDown, memory,
           files, vault
  <1>4. CASE DownAnyway
    BY <1>4
       DEF MeshInv, Declared, InInit, InBoot, DownAnyway, StartDown, memory,
           files, vault
  <1>5. CASE RecreateVault
    BY <1>5
       DEF MeshInv, Declared, InInit, InBoot, RecreateVault, NewVault, process,
           memory, files
  <1>6. CASE RestartVault
    BY <1>6
       DEF MeshInv, Declared, InInit, InBoot, RestartVault, process, memory,
           files
  <1>7. CASE Interrupt
    BY <1>7
       DEF MeshInv, Declared, InInit, InBoot, Interrupt, memory, files, vault
  <1>8. CASE Reconfiguring
    BY <1>8
       DEF MeshInv, Declared, InInit, InBoot, Reconfiguring, memory, files,
           vault
  <1>9. CASE Provision
    BY <1>9
       DEF MeshInv, Declared, InInit, InBoot, Provision, NewVault, memory,
           files
  <1>10. CASE ForgetVault
    BY <1>10
       DEF MeshInv, Declared, InInit, InBoot, ForgetVault, process, memory,
           vault
  <1>11. CASE WithoutVault
    BY <1>11
       DEF MeshInv, Declared, InInit, InBoot, WithoutVault, memory, files,
           vault
  <1>12. CASE LoadValues
    BY <1>12
       DEF MeshInv, Declared, InInit, InBoot, LoadValues, files, vault
  <1>13. CASE CheckStatus
    BY <1>13
       DEF MeshInv, Declared, InInit, InBoot, CheckStatus, Fail, memory, files,
           vault
  <1>14. CASE Initialize
    BY <1>14
       DEF MeshInv, Declared, InInit, InBoot, Initialize, files
  <1>15. CASE SaveUnsealKey
    BY <1>15
       DEF MeshInv, Declared, InInit, InBoot, SaveUnsealKey, memory, vault
  <1>16. CASE SaveRootToken
    BY <1>16
       DEF MeshInv, Declared, InInit, InBoot, SaveRootToken, memory, vault
  <1>17. CASE Unseal
    BY <1>17
       DEF MeshInv, Declared, InInit, InBoot, Unseal, Fail, memory, files
  <1>18. CASE PokeVault
    BY <1>18
       DEF MeshInv, Declared, InInit, InBoot, PokeVault, Fail, RootWorks,
           memory, files
  <1>19. CASE KeepConsul
    BY <1>19
       DEF MeshInv, Declared, InInit, InBoot, KeepConsul, InMesh, memory,
           files, vault
  <1>20. CASE LoadToken
    BY <1>20, OrderFacts
       DEF TypeOK, MeshInv, Declared, InInit, InBoot, LoadToken, InMesh, files,
           vault
  <1>21. CASE CreateToken
    BY <1>21, OrderFacts, FreshUnused
       DEF TypeOK, MeshInv, Declared, InInit, InBoot, CreateToken, InMesh,
           Fail, RootWorks, files
  <1>22. CASE SaveToken
    BY <1>22, OrderFacts
       DEF TypeOK, MeshInv, Declared, InInit, InBoot, SaveToken, memory, vault
  <1>23. CASE ReadCA
    BY <1>23
       DEF TypeOK, MeshInv, Declared, InInit, InBoot, ReadCA, Update, InMesh,
           NextCluster, memory, files, vault
  <1>24. CASE SetCA
    BY <1>24, OrderFacts
       DEF TypeOK, MeshInv, Declared, InInit, InBoot, SetCA, Update, InMesh,
           NextCluster, memory, files, vault
  <1>25. CASE RefusedCA
    BY <1>25
       DEF MeshInv, Declared, InInit, InBoot, RefusedCA, Fail, memory, files,
           vault
  <1>26. CASE Booted
    BY <1>26
       DEF MeshInv, Declared, InInit, InBoot, Booted, memory, files, vault
  <1>27. CASE Exit
    BY <1>27
       DEF MeshInv, Declared, InInit, InBoot, Exit, memory, files, vault
  <1>28. CASE Destroy
    BY <1>28
       DEF MeshInv, Declared, InInit, InBoot, Destroy, NewVault, Forgotten,
           memory, files
  <1>29. CASE RemoveFile
    BY <1>29
       DEF MeshInv, Declared, InInit, InBoot, RemoveFile, Forgotten, memory,
           files, vault
  <1>30. CASE UNCHANGED vars
    BY <1>30
       DEF MeshInv, Declared, InInit, InBoot, vars, process, memory, files,
           vault
  <1> QED
    BY <1>1, <1>2, <1>3, <1>4, <1>5, <1>6, <1>7, <1>8, <1>9, <1>10, <1>11,
       <1>12, <1>13, <1>14, <1>15, <1>16, <1>17, <1>18, <1>19, <1>20, <1>21,
       <1>22, <1>23, <1>24, <1>25, <1>26, <1>27, <1>28, <1>29, <1>30
    DEF Next, Step, Environment, InitVault, MeshCA

(* A complete bring-up is undone only by steps that clear settled.         *)
LEMMA SettledStep == Inv /\ [Next]_vars => SettledInv'
  <1> SUFFICES ASSUME Inv, [Next]_vars PROVE SettledInv'
    OBVIOUS
  <1> USE DEF Inv
  <1>1. ASSUME NEW c \in Configs, EditConfig(c) PROVE SettledInv'
    BY <1>1
       DEF SettledInv, Declared, InInit, InBoot, EditConfig, process, memory,
           files, vault
  <1>2. CASE StartUp
    BY <1>2
       DEF SettledInv, Declared, InInit, InBoot, StartUp, Forgotten, files,
           vault
  <1>3. CASE RecoverByDown
    BY <1>3
       DEF SettledInv, Declared, InInit, InBoot, RecoverByDown, StartDown,
           memory, files, vault
  <1>4. CASE DownAnyway
    BY <1>4
       DEF SettledInv, Declared, InInit, InBoot, DownAnyway, StartDown, memory,
           files, vault
  <1>5. CASE RecreateVault
    BY <1>5
       DEF SettledInv, Declared, InInit, InBoot, RecreateVault, NewVault,
           process, memory, files
  <1>6. CASE RestartVault
    BY <1>6
       DEF SettledInv, Declared, InInit, InBoot, RestartVault, process, memory,
           files
  <1>7. CASE Interrupt
    BY <1>7
       DEF SettledInv, Declared, InInit, InBoot, Interrupt, memory, files,
           vault
  <1>8. CASE Reconfiguring
    BY <1>8
       DEF SettledInv, Declared, InInit, InBoot, Reconfiguring, memory, files,
           vault
  <1>9. CASE Provision
    BY <1>9
       DEF SettledInv, Declared, InInit, InBoot, Provision, NewVault, memory,
           files
  <1>10. CASE ForgetVault
    <2>1. settled = None
      <3>1. CASE settled # None
        <4>1. keyFile = None /\ rootFile = None /\ caFile = Forgotten
          BY <1>10, <3>1 DEF ForgetVault, SettledInv
        <4> QED
          BY <1>10, <4>1 DEF ForgetVault, Forgotten
      <3> QED
        BY <3>1
    <2> QED
      BY <1>10, <2>1 DEF ForgetVault, SettledInv
  <1>11. CASE WithoutVault
    BY <1>11
       DEF SettledInv, Declared, InInit, InBoot, WithoutVault, memory, files,
           vault
  <1>12. CASE LoadValues
    BY <1>12
       DEF SettledInv, Declared, InInit, InBoot, LoadValues, files, vault
  <1>13. CASE CheckStatus
    BY <1>13
       DEF TypeOK, ProvisionedInv, KeysInv, BootKnowsVault, MeshInv,
           SettledInv, Declared, InInit, InBoot, CheckStatus, Fail, memory,
           files, vault
  <1>14. CASE Initialize
    BY <1>14
       DEF SettledInv, Declared, InInit, InBoot, Initialize, files
  <1>15. CASE SaveUnsealKey
    BY <1>15
       DEF SettledInv, Declared, InInit, InBoot, SaveUnsealKey, memory, vault
  <1>16. CASE SaveRootToken
    BY <1>16
       DEF SettledInv, Declared, InInit, InBoot, SaveRootToken, memory, vault
  <1>17. CASE Unseal
    BY <1>17
       DEF SettledInv, Declared, InInit, InBoot, Unseal, Fail, memory, files
  <1>18. CASE PokeVault
    BY <1>18
       DEF SettledInv, Declared, InInit, InBoot, PokeVault, Fail, RootWorks,
           memory, files
  <1>19. CASE KeepConsul
    BY <1>19
       DEF SettledInv, Declared, InInit, InBoot, KeepConsul, InMesh, memory,
           files, vault
  <1>20. CASE LoadToken
    BY <1>20
       DEF SettledInv, Declared, InInit, InBoot, LoadToken, InMesh, files,
           vault
  <1>21. CASE CreateToken
    BY <1>21, OrderFacts, ConfigFacts, FreshUnused
       DEF TypeOK, ProvisionedInv, KeysInv, BootKnowsVault, MeshInv,
           SettledInv, Declared, InInit, InBoot, CreateToken, InMesh, Fail,
           RootWorks, files
  <1>22. CASE SaveToken
    BY <1>22
       DEF SettledInv, Declared, InInit, InBoot, SaveToken, memory, vault
  <1>23. CASE ReadCA
    BY <1>23, OrderFacts, ConfigFacts
       DEF TypeOK, ProvisionedInv, KeysInv, BootKnowsVault, MeshInv,
           SettledInv, Declared, InInit, InBoot, ReadCA, Update, InMesh,
           NextCluster, memory, files, vault
  <1>24. CASE SetCA
    BY <1>24
       DEF SettledInv, Declared, InInit, InBoot, SetCA, Update, InMesh,
           NextCluster, memory, files, vault
  <1>25. CASE RefusedCA
    BY <1>25
       DEF SettledInv, Declared, InInit, InBoot, RefusedCA, Fail, memory,
           files, vault
  <1>26. CASE Booted
    <2>1. \A c \in Clusters : Declared(c, conf.mesh)
      <3> TAKE c \in Clusters
      <3>1. PICK i \in 1..Len(Order) : Order[i] = c
        BY OrderFacts
      <3>2. i \in 1..(at - 1)
        BY <1>26, OrderFacts DEF Booted, TypeOK
      <3> QED
        BY <1>26, <3>1, <3>2 DEF Booted, MeshInv, InBoot
    <2>2. (\A c \in Clusters : Declared(c, settled.mesh))'
      BY <1>26, <2>1 DEF Booted, Declared, files
    <2> QED
      BY <1>26, <2>2 DEF Booted, SettledInv, ProvisionedInv, KeysInv, BootKnowsVault,
                      InBoot, InInit, memory, files, vault
  <1>27. CASE Exit
    BY <1>27
       DEF SettledInv, Declared, InInit, InBoot, Exit, memory, files, vault
  <1>28. CASE Destroy
    BY <1>28
       DEF SettledInv, Declared, InInit, InBoot, Destroy, NewVault, Forgotten,
           memory, files
  <1>29. CASE RemoveFile
    BY <1>29
       DEF SettledInv, Declared, InInit, InBoot, RemoveFile, Forgotten, memory,
           files, vault
  <1>30. CASE UNCHANGED vars
    BY <1>30
       DEF SettledInv, Declared, InInit, InBoot, vars, process, memory, files,
           vault
  <1> QED
    BY <1>1, <1>2, <1>3, <1>4, <1>5, <1>6, <1>7, <1>8, <1>9, <1>10, <1>11,
       <1>12, <1>13, <1>14, <1>15, <1>16, <1>17, <1>18, <1>19, <1>20, <1>21,
       <1>22, <1>23, <1>24, <1>25, <1>26, <1>27, <1>28, <1>29, <1>30
    DEF Next, Step, Environment, InitVault, MeshCA

(* What a further `up` finds in place it leaves in place.                  *)
LEMMA StableStep == Inv /\ [Next]_vars => Stable
  <1> SUFFICES ASSUME Inv, [Next]_vars PROVE Stable
    OBVIOUS
  <1> USE DEF Inv
  <1>1. ASSUME NEW c \in Configs, EditConfig(c) PROVE Stable
    BY <1>1
       DEF Stable, SettledInv, Declared, EditConfig, process, memory, files,
           vault
  <1>2. CASE StartUp
    BY <1>2
       DEF Stable, SettledInv, Declared, StartUp, Forgotten, files, vault
  <1>3. CASE RecoverByDown
    BY <1>3
       DEF Stable, SettledInv, Declared, RecoverByDown, StartDown, memory,
           files, vault
  <1>4. CASE DownAnyway
    BY <1>4
       DEF Stable, SettledInv, Declared, DownAnyway, StartDown, memory, files,
           vault
  <1>5. CASE RecreateVault
    BY <1>5
       DEF Stable, SettledInv, Declared, RecreateVault, NewVault, process,
           memory, files
  <1>6. CASE RestartVault
    BY <1>6
       DEF Stable, SettledInv, Declared, RestartVault, process, memory, files
  <1>7. CASE Interrupt
    BY <1>7
       DEF Stable, SettledInv, Declared, Interrupt, memory, files, vault
  <1>8. CASE Reconfiguring
    BY <1>8
       DEF Stable, SettledInv, Declared, Reconfiguring, memory, files, vault
  <1>9. CASE Provision
    BY <1>9
       DEF Stable, SettledInv, Declared, Provision, NewVault, memory, files
  <1>10. CASE ForgetVault
    <2> SUFFICES ASSUME settled = conf PROVE FALSE
      BY <1>10 DEF Stable
    <2>1. keyFile = None /\ rootFile = None /\ caFile = Forgotten
      BY <1>10, ConfigFacts DEF ForgetVault, SettledInv, TypeOK
    <2> QED
      BY <1>10, <2>1 DEF ForgetVault, Forgotten
  <1>11. CASE WithoutVault
    BY <1>11
       DEF Stable, SettledInv, Declared, WithoutVault, memory, files, vault
  <1>12. CASE LoadValues
    BY <1>12
       DEF Stable, SettledInv, Declared, LoadValues, files, vault
  <1>13. CASE CheckStatus
    BY <1>13
       DEF Stable, SettledInv, Declared, CheckStatus, Fail, memory, files,
           vault
  <1>14. CASE Initialize
    BY <1>14, OrderFacts, ConfigFacts, FreshUnused
       DEF TypeOK, ProvisionedInv, MeshInv, SettledInv, Declared, Stable,
           InInit, InBoot, Initialize, files
  <1>15. CASE SaveUnsealKey
    BY <1>15, OrderFacts, ConfigFacts
       DEF TypeOK, ProvisionedInv, MeshInv, SettledInv, Declared, Stable,
           InInit, InBoot, SaveUnsealKey, memory, vault
  <1>16. CASE SaveRootToken
    BY <1>16, OrderFacts, ConfigFacts
       DEF TypeOK, ProvisionedInv, MeshInv, SettledInv, Declared, Stable,
           InInit, InBoot, SaveRootToken, memory, vault
  <1>17. CASE Unseal
    BY <1>17
       DEF Stable, SettledInv, Declared, Unseal, Fail, memory, files
  <1>18. CASE PokeVault
    BY <1>18, OrderFacts, ConfigFacts
       DEF TypeOK, ProvisionedInv, MeshInv, SettledInv, Declared, Stable,
           InInit, InBoot, PokeVault, Fail, RootWorks, memory, files
  <1>19. CASE KeepConsul
    BY <1>19
       DEF Stable, SettledInv, Declared, KeepConsul, InMesh, memory, files,
           vault
  <1>20. CASE LoadToken
    BY <1>20
       DEF Stable, SettledInv, Declared, LoadToken, InMesh, files, vault
  <1>21. CASE CreateToken
    BY <1>21, OrderFacts, ConfigFacts, FreshUnused
       DEF TypeOK, ProvisionedInv, MeshInv, SettledInv, Declared, Stable,
           InInit, InBoot, CreateToken, InMesh, Fail, RootWorks, files
  <1>22. CASE SaveToken
    BY <1>22, OrderFacts, ConfigFacts
       DEF TypeOK, ProvisionedInv, MeshInv, SettledInv, Declared, Stable,
           InInit, InBoot, SaveToken, memory, vault
  <1>23. CASE ReadCA
    BY <1>23
       DEF Stable, SettledInv, Declared, ReadCA, Update, InMesh, NextCluster,
           memory, files, vault
  <1>24. CASE SetCA
    BY <1>24, OrderFacts, ConfigFacts
       DEF TypeOK, ProvisionedInv, MeshInv, SettledInv, Declared, Stable,
           InInit, InBoot, SetCA, Update, InMesh, NextCluster, memory, files,
           vault
  <1>25. CASE RefusedCA
    BY <1>25
       DEF Stable, SettledInv, Declared, RefusedCA, Fail, memory, files, vault
  <1>26. CASE Booted
    BY <1>26
       DEF Stable, SettledInv, Declared, Booted, memory, files, vault
  <1>27. CASE Exit
    BY <1>27
       DEF Stable, SettledInv, Declared, Exit, memory, files, vault
  <1>28. CASE Destroy
    BY <1>28
       DEF Stable, SettledInv, Declared, Destroy, NewVault, Forgotten, memory,
           files
  <1>29. CASE RemoveFile
    BY <1>29
       DEF Stable, SettledInv, Declared, RemoveFile, Forgotten, memory, files,
           vault
  <1>30. CASE UNCHANGED vars
    BY <1>30
       DEF Stable, SettledInv, Declared, vars, process, memory, files, vault
  <1> QED
    BY <1>1, <1>2, <1>3, <1>4, <1>5, <1>6, <1>7, <1>8, <1>9, <1>10, <1>11,
       <1>12, <1>13, <1>14, <1>15, <1>16, <1>17, <1>18, <1>19, <1>20, <1>21,
       <1>22, <1>23, <1>24, <1>25, <1>26, <1>27, <1>28, <1>29, <1>30
    DEF Next, Step, Environment, InitVault, MeshCA

-----------------------------------------------------------------------------
(* The conjunction of all parts is inductive.                              *)
THEOREM Invariance == Spec => []Inv
  <1>1. Inv /\ [Next]_vars => Inv'
    BY ProvisionedStep, KeysStep, TypeStep, MeshStep, SettledStep DEF Inv
  <1> QED
    BY InitInv, <1>1, PTL DEF Spec

(* Every variable has its type in every reachable state, and no CA is read *)
(* or set beyond the last cluster.                                         *)
THEOREM VaultTypeCorrect == Spec => []TypeOK
  <1>1. Inv => TypeOK
    BY DEF Inv
  <1> QED
    BY Invariance, <1>1, PTL

(* Wherever initVault is cut short, and whatever `down` or a configuration *)
(* without Vault removes, a root token of the present Vault in cache/ is   *)
(* there together with the key that unseals it.                            *)
THEOREM TokenIsNeverAlone == Spec => []RootTokenHasKey
  <1>1. Inv => RootTokenHasKey
    BY DEF Inv, KeysInv
  <1> QED
    BY Invariance, <1>1, PTL

(* After initVault the process, cache/ and Vault hold the same key and     *)
(* token, and without Vault cache/ holds none.                             *)
THEOREM BootIsInformed == Spec => []BootKnowsVault
  <1>1. Inv => BootKnowsVault
    BY DEF Inv, KeysInv
  <1> QED
    BY Invariance, <1>1, PTL

(* A bring-up that succeeds has given every cluster the declared CA.       *)
THEOREM DeclaredCAs == Spec => []BootedCAs
  <1>1. Inv => BootedCAs
    <2> SUFFICES ASSUME Inv, pc = "booted", NEW c \in Clusters
                 PROVE  Declared(c, conf.mesh)
      BY DEF BootedCAs, Declared, InMesh
    <2>1. PICK i \in 1..Len(Order) : Order[i] = c
      BY OrderFacts
    <2>2. i \in 1..(at - 1)
      BY OrderFacts DEF Inv, TypeOK, MeshInv
    <2> QED
      BY <2>1, <2>2 DEF Inv, MeshInv, InBoot
  <1> QED
    BY Invariance, <1>1, PTL

(* Repeating a complete `up` neither issues tokens nor touches a CA or a   *)
(* remembered value.                                                       *)
THEOREM RepeatedUpIsIdle == Spec => StaysSettled
  <1>1. Inv /\ [Next]_vars => [Stable]_vars
    BY StableStep
  <1> QED
    BY Invariance, <1>1, PTL DEF Spec, StaysSettled, Stable

-----------------------------------------------------------------------------
(* Why `up` fails, and what has to be repaired then.                       *)

(* Vault is initialised, and cache/ does not have its key and token.       *)
KeysLost == vaultKey # None /\ {keyFile, rootFile} # {vaultKey}

(* The token of a CA, in Consul or in cache/, is none the Vault knows.     *)
Unknown(t)   == ~vaultUp \/ t \notin issued
TokenLost(c) ==
    \/ ca[c].provider = "vault" /\ Unknown(ca[c].token)
    \/ caFile[c] # None /\ Unknown(caFile[c])

(* Of itself a bring-up only fails for a Vault whose key is lost, one that *)
(* restarted under its hands, a token of a former Vault, or a mesh_ca      *)
(* without Vault (initVault, maybeInitVaultForMeshCA).  spent' = spent: no  *)
(* interruption.                                                           *)
FailsOnlyForCause ==
    [][ pc \notin {"idle", "booted", "remove"} /\ pc' = "idle" /\ spent' = spent =>
          \/ KeysLost
          \/ sealed /\ pc \in InBoot \cup {"poke"}
          \/ \E c \in Clusters : TokenLost(c)
          \/ Broken(conf) ]_vars

Unsaved == pc \in {"saveKey", "saveRoot"}

(* The key of Vault is lost by an interruption between Init and the second *)
(* save of initVault only, and the token of a CA together with its Vault.  *)
LostOnlyByAccident ==
    [][ /\ KeysLost' /\ ~Unsaved' => (KeysLost /\ ~Unsaved) \/ (Unsaved /\ pc' = "idle")
        /\ \A c \in Clusters : TokenLost(c)' => TokenLost(c) \/ vaultKey' = None ]_vars

(* `down` repairs all of it, once it has gone through (destroy).           *)
DownRepairs ==
    [][ pc = "remove" /\ pc' = "idle" /\ spent' = spent =>
          ~KeysLost' /\ \A c \in Clusters : ~TokenLost(c)' ]_vars

(* A token about to be saved is one Vault issued, and what `down` has      *)
(* still to remove are files.                                              *)
IssuedInv ==
    /\ pc = "saveToken" => caTokens[Order[at]] \in issued
    /\ pc = "remove" => \A c \in Clusters : ca[c] = Default

LEMMA SpendShows ==
    ASSUME TypeOK, NEW w \in {"interrupts", "edits", "restarts", "commands"}, NEW b,
           Spend(w, b)
    PROVE  spent' # spent
  <1>1. spent'[w] = spent[w] + 1 /\ spent[w] \in Nat
    BY DEF TypeOK, Spend
  <1> QED
    BY <1>1

(* Vault keeps what it issues while a bring-up runs.                       *)
LEMMA IssuedStep == Inv /\ IssuedInv /\ [Next]_vars => IssuedInv'
  <1> SUFFICES ASSUME Inv, IssuedInv, [Next]_vars PROVE IssuedInv'
    OBVIOUS
  <1> USE DEF Inv
  <1>1. ASSUME NEW c \in Configs, EditConfig(c) PROVE IssuedInv'
    BY <1>1
       DEF IssuedInv, EditConfig, process, memory, files, vault
  <1>2. CASE StartUp
    BY <1>2
       DEF IssuedInv, StartUp, files, vault
  <1>3. CASE RecoverByDown
    BY <1>3
       DEF IssuedInv, RecoverByDown, StartDown, memory, files, vault
  <1>4. CASE DownAnyway
    BY <1>4
       DEF IssuedInv, DownAnyway, StartDown, memory, files, vault
  <1>5. CASE RecreateVault
    BY <1>5
       DEF IssuedInv, RecreateVault, NewVault, process, memory, files
  <1>6. CASE RestartVault
    BY <1>6
       DEF IssuedInv, RestartVault, process, memory, files
  <1>7. CASE Interrupt
    BY <1>7
       DEF IssuedInv, Interrupt, memory, files, vault
  <1>8. CASE Reconfiguring
    BY <1>8
       DEF IssuedInv, Reconfiguring, memory, files, vault
  <1>9. CASE Provision
    BY <1>9
       DEF IssuedInv, Provision, NewVault, memory, files
  <1>10. CASE ForgetVault
    BY <1>10
       DEF IssuedInv, ForgetVault, process, memory, vault
  <1>11. CASE WithoutVault
    BY <1>11
       DEF IssuedInv, WithoutVault, memory, files, vault
  <1>12. CASE LoadValues
    BY <1>12
       DEF IssuedInv, LoadValues, files, vault
  <1>13. CASE CheckStatus
    BY <1>13
       DEF IssuedInv, CheckStatus, Fail, memory, files, vault
  <1>14. CASE Initialize
    BY <1>14
       DEF IssuedInv, Initialize, files
  <1>15. CASE SaveUnsealKey
    BY <1>15
       DEF IssuedInv, SaveUnsealKey, memory, vault
  <1>16. CASE SaveRootToken
    BY <1>16
       DEF IssuedInv, SaveRootToken, memory, vault
  <1>17. CASE Unseal
    BY <1>17
       DEF IssuedInv, Unseal, Fail, memory, files
  <1>18. CASE PokeVault
    BY <1>18
       DEF IssuedInv, PokeVault, Fail, memory, files
  <1>19. CASE KeepConsul
    BY <1>19
       DEF IssuedInv, KeepConsul, memory, files, vault
  <1>20. CASE LoadToken
    BY <1>20
       DEF IssuedInv, LoadToken, files, vault
  <1>21. CASE CreateToken
    <2>1. pc' = "saveToken" => caTokens'[Order[at]] = Fresh /\ Fresh \in issued'
      BY <1>21, OrderFacts DEF CreateToken, Fail, TypeOK
    <2> QED
      BY <1>21, <2>1 DEF IssuedInv, CreateToken, Fail
  <1>22. CASE SaveToken
    BY <1>22
       DEF IssuedInv, SaveToken, memory, vault
  <1>23. CASE ReadCA
    BY <1>23
       DEF IssuedInv, ReadCA, NextCluster, memory, files, vault
  <1>24. CASE SetCA
    BY <1>24
       DEF IssuedInv, SetCA, NextCluster, memory, files, vault
  <1>25. CASE RefusedCA
    BY <1>25
       DEF IssuedInv, RefusedCA, Fail, memory, files, vault
  <1>26. CASE Booted
    BY <1>26
       DEF IssuedInv, Booted, memory, files, vault
  <1>27. CASE Exit
    BY <1>27
       DEF IssuedInv, Exit, memory, files, vault
  <1>28. CASE Destroy
    BY <1>28
       DEF IssuedInv, Destroy, NewVault, memory, files
  <1>29. CASE RemoveFile
    BY <1>29
       DEF IssuedInv, RemoveFile, memory, files, vault
  <1>30. CASE UNCHANGED vars
    BY <1>30
       DEF IssuedInv, vars, process, memory, files, vault
  <1> QED
    BY <1>1, <1>2, <1>3, <1>4, <1>5, <1>6, <1>7, <1>8, <1>9, <1>10, <1>11,
       <1>12, <1>13, <1>14, <1>15, <1>16, <1>17, <1>18, <1>19, <1>20, <1>21,
       <1>22, <1>23, <1>24, <1>25, <1>26, <1>27, <1>28, <1>29, <1>30
    DEF Next, Step, Environment, InitVault, MeshCA

(* The steps in which the process itself ends with an error, one by one.   *)
Causes ==
    pc \notin {"idle", "booted", "remove"} /\ pc' = "idle" /\ spent' = spent =>
        \/ KeysLost
        \/ sealed /\ pc \in InBoot \cup {"poke"}
        \/ \E c \in Clusters : TokenLost(c)
        \/ Broken(conf)

(* Every error but an interruption has one of the causes.                  *)
LEMMA CausesStep == Inv /\ [Next]_vars => Causes
  <1> SUFFICES ASSUME Inv, [Next]_vars PROVE Causes
    OBVIOUS
  <1> USE DEF Inv
  <1>1. ASSUME NEW c \in Configs, EditConfig(c) PROVE Causes
    <2>1. spent' # spent
      BY <1>1, SpendShows DEF EditConfig
    <2> QED
      BY <2>1 DEF Causes
  <1>2. CASE StartUp
    BY <1>2
       DEF Causes, StartUp, files, vault
  <1>3. CASE RecoverByDown
    BY <1>3
       DEF Causes, RecoverByDown, StartDown, memory, files, vault
  <1>4. CASE DownAnyway
    <2>1. spent' # spent
      BY <1>4, SpendShows DEF DownAnyway
    <2> QED
      BY <2>1 DEF Causes
  <1>5. CASE RecreateVault
    <2>1. spent' # spent
      BY <1>5, SpendShows DEF RecreateVault
    <2> QED
      BY <2>1 DEF Causes
  <1>6. CASE RestartVault
    <2>1. spent' # spent
      BY <1>6, SpendShows DEF RestartVault
    <2> QED
      BY <2>1 DEF Causes
  <1>7. CASE Interrupt
    <2>1. spent' # spent
      BY <1>7, SpendShows DEF Interrupt
    <2> QED
      BY <2>1 DEF Causes
  <1>8. CASE Reconfiguring
    BY <1>8
       DEF Causes, Reconfiguring, memory, files, vault
  <1>9. CASE Provision
    BY <1>9
       DEF Causes, Provision, NewVault, memory, files
  <1>10. CASE ForgetVault
    BY <1>10
       DEF Causes, ForgetVault, process, memory, vault
  <1>11. CASE WithoutVault
    BY <1>11
       DEF Causes, WithoutVault, memory, files, vault
  <1>12. CASE LoadValues
    BY <1>12
       DEF Causes, LoadValues, files, vault
  <1>13. CASE CheckStatus
    <2> SUFFICES ASSUME vaultKey # None, unsealKey = None \/ rootToken = None
                 PROVE  KeysLost
      BY <1>13 DEF Causes, CheckStatus
    <2> QED
      BY <1>13 DEF CheckStatus, KeysInv, KeysLost
  <1>14. CASE Initialize
    BY <1>14
       DEF Causes, Initialize, files
  <1>15. CASE SaveUnsealKey
    BY <1>15
       DEF Causes, SaveUnsealKey, memory, vault
  <1>16. CASE SaveRootToken
    BY <1>16
       DEF Causes, SaveRootToken, memory, vault
  <1>17. CASE Unseal
    <2> SUFFICES ASSUME unsealKey # vaultKey PROVE KeysLost
      BY <1>17 DEF Causes, Unseal
    <2> QED
      BY <1>17 DEF Unseal, KeysInv, KeysLost
  <1>18. CASE PokeVault
    <2> SUFFICES ASSUME ~RootWorks PROVE KeysLost \/ sealed
      BY <1>18 DEF Causes, PokeVault, Fail
    <2>1. vaultUp /\ vaultKey # None /\ rootToken = rootFile
      BY <1>18 DEF PokeVault, ProvisionedInv, KeysInv, InInit
    <2> QED
      BY <2>1 DEF RootWorks, KeysLost
  <1>19. CASE KeepConsul
    BY <1>19
       DEF Causes, KeepConsul, memory, files, vault
  <1>20. CASE LoadToken
    BY <1>20
       DEF Causes, LoadToken, files, vault
  <1>21. CASE CreateToken
    <2> SUFFICES ASSUME ~(conf.vault /\ RootWorks) PROVE sealed \/ Broken(conf)
      BY <1>21 DEF Causes, CreateToken, Fail, InBoot
    <2>1. CASE conf.vault
      BY <1>21, <2>1 DEF CreateToken, RootWorks, KeysInv, BootKnowsVault, InBoot
    <2>2. CASE ~conf.vault
      BY <1>21, <2>2 DEF CreateToken, InMesh, Broken
    <2> QED
      BY <2>1, <2>2
  <1>22. CASE SaveToken
    BY <1>22
       DEF Causes, SaveToken, memory, vault
  <1>23. CASE ReadCA
    BY <1>23
       DEF Causes, ReadCA, NextCluster, memory, files, vault
  <1>24. CASE SetCA
    BY <1>24
       DEF Causes, SetCA, NextCluster, memory, files, vault
  <1>25. CASE RefusedCA
    <2> DEFINE c == Order[at]
    <2>1. c \in Clusters
      BY <1>25, OrderFacts DEF RefusedCA, TypeOK
    <2>2. CASE ~Usable(ca[c])
      BY <1>25, <2>1, <2>2 DEF Causes, RefusedCA, Usable, TokenLost, Unknown, InBoot
    <2>3. CASE ~Usable(Update(c))
      <3>1. c \in conf.mesh /\ caFile[c] # None /\ caTokens[c] = caFile[c]
        BY <1>25, <2>3 DEF RefusedCA, Usable, Update, InMesh, Consul, MeshInv
      <3>2. ~vaultUp \/ sealed \/ caFile[c] \notin issued
        BY <2>3, <3>1 DEF Usable, Update, InMesh, InVault
      <3> QED
        BY <1>25, <2>1, <3>1, <3>2 DEF Causes, RefusedCA, TokenLost, Unknown, InBoot
    <2> QED
      BY <1>25, <2>2, <2>3 DEF RefusedCA, Acceptable
  <1>26. CASE Booted
    BY <1>26
       DEF Causes, Booted, memory, files, vault
  <1>27. CASE Exit
    BY <1>27
       DEF Causes, Exit, memory, files, vault
  <1>28. CASE Destroy
    BY <1>28
       DEF Causes, Destroy, NewVault, memory, files
  <1>29. CASE RemoveFile
    BY <1>29
       DEF Causes, RemoveFile, memory, files, vault
  <1>30. CASE UNCHANGED vars
    BY <1>30
       DEF Causes, vars, process, memory, files, vault
  <1> QED
    BY <1>1, <1>2, <1>3, <1>4, <1>5, <1>6, <1>7, <1>8, <1>9, <1>10, <1>11,
       <1>12, <1>13, <1>14, <1>15, <1>16, <1>17, <1>18, <1>19, <1>20, <1>21,
       <1>22, <1>23, <1>24, <1>25, <1>26, <1>27, <1>28, <1>29, <1>30
    DEF Next, Step, Environment, InitVault, MeshCA

(* What an interruption, and what a new Vault costs.                       *)
Accidents ==
    /\ KeysLost' /\ ~Unsaved' => (KeysLost /\ ~Unsaved) \/ (Unsaved /\ pc' = "idle")
    /\ \A c \in Clusters : TokenLost(c)' => TokenLost(c) \/ vaultKey' = None

(* Keys and tokens are lost in these ways only.                            *)
LEMMA AccidentsStep == Inv /\ IssuedInv /\ [Next]_vars => Accidents
  <1> SUFFICES ASSUME Inv, IssuedInv, [Next]_vars PROVE Accidents
    OBVIOUS
  <1> USE DEF Inv
  <1>1. ASSUME NEW c \in Configs, EditConfig(c) PROVE Accidents
    BY <1>1
       DEF Accidents, KeysLost, Unsaved, TokenLost, Unknown, EditConfig,
           process, memory, files, vault
  <1>2. CASE StartUp
    BY <1>2
       DEF Accidents, KeysLost, Unsaved, TokenLost, Unknown, StartUp, files,
           vault
  <1>3. CASE RecoverByDown
    BY <1>3
       DEF Accidents, KeysLost, Unsaved, TokenLost, Unknown, RecoverByDown,
           StartDown, memory, files, vault
  <1>4. CASE DownAnyway
    BY <1>4
       DEF Accidents, KeysLost, Unsaved, TokenLost, Unknown, DownAnyway,
           StartDown, memory, files, vault
  <1>5. CASE RecreateVault
    BY <1>5
       DEF Accidents, KeysLost, Unsaved, TokenLost, Unknown, RecreateVault,
           NewVault, process, memory, files
  <1>6. CASE RestartVault
    BY <1>6
       DEF Accidents, KeysLost, Unsaved, TokenLost, Unknown, RestartVault,
           process, memory, files
  <1>7. CASE Interrupt
    BY <1>7
       DEF Accidents, KeysLost, Unsaved, TokenLost, Unknown, Interrupt,
           memory, files, vault
  <1>8. CASE Reconfiguring
    BY <1>8
       DEF Accidents, KeysLost, Unsaved, TokenLost, Unknown, Reconfiguring,
           memory, files, vault
  <1>9. CASE Provision
    BY <1>9
       DEF Accidents, KeysLost, Unsaved, TokenLost, Unknown, Provision,
           NewVault, memory, files
  <1>10. CASE ForgetVault
    <2>1. vaultKey = None
      BY <1>10 DEF ForgetVault, ProvisionedInv, InInit
    <2> QED
      BY <1>10, <2>1 DEF Accidents, KeysLost, ForgetVault, process, memory, vault
  <1>11. CASE WithoutVault
    BY <1>11
       DEF Accidents, KeysLost, Unsaved, TokenLost, Unknown, WithoutVault,
           memory, files, vault
  <1>12. CASE LoadValues
    BY <1>12
       DEF Accidents, KeysLost, Unsaved, TokenLost, Unknown, LoadValues,
           files, vault
  <1>13. CASE CheckStatus
    BY <1>13
       DEF Accidents, KeysLost, Unsaved, TokenLost, Unknown, CheckStatus,
           Fail, memory, files, vault
  <1>14. CASE Initialize
    BY <1>14
       DEF Accidents, KeysLost, Unsaved, TokenLost, Unknown, Initialize,
           files
  <1>15. CASE SaveUnsealKey
    BY <1>15
       DEF Accidents, KeysLost, Unsaved, TokenLost, Unknown, SaveUnsealKey, memory,
           vault
  <1>16. CASE SaveRootToken
    BY <1>16 DEF Accidents, KeysLost, Unsaved, TokenLost, Unknown, KeysInv, SaveRootToken,
             memory, vault
  <1>17. CASE Unseal
    BY <1>17
       DEF Accidents, KeysLost, Unsaved, TokenLost, Unknown, Unseal, Fail,
           memory, files
  <1>18. CASE PokeVault
    BY <1>18
       DEF Accidents, KeysLost, Unsaved, TokenLost, Unknown, PokeVault,
           Fail, memory, files
  <1>19. CASE KeepConsul
    BY <1>19
       DEF Accidents, KeysLost, Unsaved, TokenLost, Unknown, KeepConsul,
           memory, files, vault
  <1>20. CASE LoadToken
    BY <1>20
       DEF Accidents, KeysLost, Unsaved, TokenLost, Unknown, LoadToken,
           files, vault
  <1>21. CASE CreateToken
    BY <1>21
       DEF Accidents, KeysLost, Unsaved, TokenLost, Unknown, CreateToken,
           Fail, files
  <1>22. CASE SaveToken
    <2>1. \A c \in Clusters : caFile'[c] = caFile[c] \/ caFile'[c] \in issued
      BY <1>22 DEF SaveToken, TypeOK, IssuedInv
    <2>2. vaultUp
      BY <1>22 DEF SaveToken, ProvisionedInv, InBoot
    <2> QED
      BY <1>22, <2>1, <2>2 DEF Accidents, KeysLost, Unsaved, TokenLost, Unknown, SaveToken,
                           memory, vault
  <1>23. CASE ReadCA
    BY <1>23
       DEF Accidents, KeysLost, Unsaved, TokenLost, Unknown, ReadCA,
           NextCluster, memory, files, vault
  <1>24. CASE SetCA
    <2>1. \A c \in Clusters :
             \/ ca'[c] = ca[c]
             \/ ca'[c].provider = "vault" => vaultUp /\ ca'[c].token \in issued
      BY <1>24 DEF SetCA, TypeOK, Acceptable, Usable
    <2> QED
      BY <1>24, <2>1 DEF Accidents, KeysLost, Unsaved, TokenLost, Unknown, SetCA, memory,
                     files, vault
  <1>25. CASE RefusedCA
    BY <1>25
       DEF Accidents, KeysLost, Unsaved, TokenLost, Unknown, RefusedCA,
           Fail, memory, files, vault
  <1>26. CASE Booted
    BY <1>26
       DEF Accidents, KeysLost, Unsaved, TokenLost, Unknown, Booted, memory,
           files, vault
  <1>27. CASE Exit
    BY <1>27
       DEF Accidents, KeysLost, Unsaved, TokenLost, Unknown, Exit, memory,
           files, vault
  <1>28. CASE Destroy
    BY <1>28
       DEF Accidents, KeysLost, Unsaved, TokenLost, Unknown, Destroy,
           NewVault, memory, files
  <1>29. CASE RemoveFile
    <2>1. vaultKey = None
      BY <1>29 DEF RemoveFile, ProvisionedInv
    <2> QED
      BY <1>29, <2>1 DEF Accidents, KeysLost, RemoveFile, memory, vault
  <1>30. CASE UNCHANGED vars
    BY <1>30
       DEF Accidents, KeysLost, Unsaved, TokenLost, Unknown, vars, process,
           memory, files, vault
  <1> QED
    BY <1>1, <1>2, <1>3, <1>4, <1>5, <1>6, <1>7, <1>8, <1>9, <1>10, <1>11,
       <1>12, <1>13, <1>14, <1>15, <1>16, <1>17, <1>18, <1>19, <1>20, <1>21,
       <1>22, <1>23, <1>24, <1>25, <1>26, <1>27, <1>28, <1>29, <1>30
    DEF Next, Step, Environment, InitVault, MeshCA

-----------------------------------------------------------------------------
THEOREM IssuedInvariance == Spec => []IssuedInv
  <1>1. Init => IssuedInv
    BY DEF Init, IssuedInv
  <1> QED
    BY Invariance, <1>1, IssuedStep, PTL DEF Spec

(* Of itself `up` fails only for a lost key, a restart of Vault, a token   *)
(* of a former Vault or a mesh_ca without Vault.                           *)
THEOREM VaultFailsOnlyForCause == Spec => FailsOnlyForCause
  <1>1. Inv /\ [Next]_vars => [Causes]_vars
    BY CausesStep
  <1> QED
    BY Invariance, <1>1, PTL DEF Spec, FailsOnlyForCause, Causes

(* The key of Vault is lost by interrupting initVault between Init and the *)
(* second save, and the token of a CA with its Vault; no other way.        *)
THEOREM VaultLostOnlyByAccident == Spec => LostOnlyByAccident
  <1>1. Inv /\ IssuedInv /\ [Next]_vars => [Accidents]_vars
    BY AccidentsStep
  <1> QED
    BY Invariance, IssuedInvariance, <1>1, PTL DEF Spec, LostOnlyByAccident, Accidents

(* A `down` that goes through leaves no lost key and no lost token, so     *)
(* that the next `up` cannot fail for what the last one met.               *)
THEOREM DownRepairsVault == Spec => DownRepairs
  <1> DEFINE Repaired ==
        pc = "remove" /\ pc' = "idle" /\ spent' = spent =>
            ~KeysLost' /\ \A c \in Clusters : ~TokenLost(c)'
  <1>1. Inv /\ IssuedInv /\ [Next]_vars => [Repaired]_vars
    <2> SUFFICES ASSUME Inv, IssuedInv, [Next]_vars,
                        pc = "remove", pc' = "idle", spent' = spent
                 PROVE  ~KeysLost' /\ \A c \in Clusters : ~TokenLost(c)'
      OBVIOUS
    <2> USE DEF Inv
    <2>1. RemoveFile
      <3>1. ~Interrupt
        BY SpendShows DEF Interrupt
      <3> QED
        BY <3>1
        DEF Next, Step, Environment, InitVault, MeshCA, vars, process, EditConfig, StartUp,
            RecoverByDown, DownAnyway, StartDown, RecreateVault, RestartVault, Provision,
            ForgetVault, WithoutVault, LoadValues, CheckStatus, Initialize, SaveUnsealKey,
            SaveRootToken, Unseal, PokeVault, KeepConsul, LoadToken, CreateToken,
            SaveToken, ReadCA, SetCA, RefusedCA, Booted, Exit, Destroy, Reconfiguring
    <2>2. vaultKey' = None
      BY <2>1 DEF RemoveFile, ProvisionedInv, vault
    <2>3. \A c \in Clusters : ca'[c].provider # "vault" /\ caFile'[c] = None
      BY <2>1 DEF RemoveFile, IssuedInv, Default, Forgotten, files
    <2> QED
      BY <2>2, <2>3 DEF KeysLost, TokenLost
  <1> QED
    BY Invariance, IssuedInvariance, <1>1, PTL DEF Spec, DownRepairs
=============================================================================

-------------------------- MODULE ProvisionProofs ---------------------------
(* Proofs about Provision, for any files, edits and bounds.                *)
EXTENDS Provision, TopologyProofs

(* A configuration the process can have loaded.                            *)
Loadable(f) == \E raw \in Files : Starts(raw) /\ f = Completed(raw)

(* A process that runs has loaded one; what has ended has none.            *)
ConfInv ==
    /\ pc \in Ended <=> conf = None
    /\ conf # None => Loadable(conf)
    /\ config \in Files

(* The invariants of the files of Kubernetes: a marker that is not void    *)
(* stands for all of them.                                                 *)
AllK8s == \A i \in DOMAIN K8sFiles : K8sFiles[i] \in k8s

K8sInv ==
    /\ pc = "generateK8s" =>
          next \in 1..6 /\ \A i \in 1..(next - 1) : K8sFiles[i] \in k8s
    /\ k8sHash # None => k8sVoid \/ AllK8s
    /\ initDone => k8sVoid \/ AllK8s
    /\ pc = "mark" /\ conf.k8s => k8sVoid \/ AllK8s
    /\ pc \in {"catalog", "render", "apply", "boot"} => initDone

(* The invariants of cache/tls while nothing is torn.                      *)
Sound(p) ==
    /\ pairs[p].files = {"cert", "key"}
    /\ pairs[p].ca = ca.cert
    /\ p.type = "server" => pairs[p].node = p.index

CertsInv ==
    /\ drawn \in Nat
    /\ pc = "certs" => conf.tls /\ todo \subseteq Wanted(conf)
    /\ torn \/ /\ ca.cert = ca.key
               /\ pc = "certs" => ca.cert # 0
               /\ ca.cert = 0 => DOMAIN pairs = {}
               /\ \A p \in DOMAIN pairs : Sound(p)
               /\ pc = "certs" => Wanted(conf) \ todo \subseteq DOMAIN pairs
               /\ pc \in AfterCerts /\ conf.tls => Wanted(conf) \subseteq DOMAIN pairs

-----------------------------------------------------------------------------
LEMMA LoadableIsCompiled ==
    ASSUME NEW f, Loadable(f)
    PROVE  Compiled(f) /\ f # None
  BY CompletedIsCompiled, FilesAssumption, NoneAssumption DEF Loadable, Starts

THEOREM InitConf == Init => ConfInv
  BY DEF Init, ConfInv, Files, Ended

(* Only StartUp and StartDown load a configuration.                        *)
LEMMA ConfStep ==
    ASSUME ConfInv, Next
    PROVE  ConfInv'
  <1> USE DEF ConfInv, Ended, process, GoTo, Stop
  <1>1. ASSUME NEW e \in Edits, EditConfig(e) PROVE ConfInv'
    BY <1>1 DEF EditConfig, Loadable, Files
  <1>2. ASSUME NEW primary, NEW force, StartUp(primary, force) PROVE ConfInv'
    <2>1. Loadable(Completed(config)) /\ Completed(config) # None
      BY <1>2, LoadableIsCompiled DEF StartUp, Loadable
    <2> QED
      BY <1>2, <2>1 DEF StartUp, Loadable
  <1>3. ASSUME NEW force, StartDown(force) PROVE ConfInv'
    <2>1. Loadable(Completed(config)) /\ Completed(config) # None
      BY <1>3, LoadableIsCompiled DEF StartDown, Loadable
    <2> QED
      BY <1>3, <2>1 DEF StartDown, Loadable
  <1>4. ASSUME \/ StartRefused
               \/ Interrupt \/ RemoveTLSInterrupted \/ CreateCAInterrupted
               \/ RemoveK8sInterrupted \/ \E p \in todo : GenCertInterrupted(p)
        PROVE  ConfInv'
    BY <1>4 DEF StartRefused, Interrupt, RemoveTLSInterrupted, CreateCAInterrupted,
                RemoveK8sInterrupted, GenCertInterrupted, Loadable
  <1>5. ASSUME RemoveTLS \/ UseCA \/ CreateCA \/ CreateCARefused \/ CertsGenerated
        PROVE  ConfInv'
    BY <1>5 DEF RemoveTLS, RemovesTLS, UseCA, CreateCA, CreateCARefused,
                CertsGenerated, BeginCerts
  <1>6. ASSUME NEW p \in todo, GenCert(p) PROVE ConfInv'
    BY <1>6 DEF GenCert
  <1>7. ASSUME MaybeInitAgentMasterToken \/ BuildDockerImages PROVE ConfInv'
    BY <1>7 DEF MaybeInitAgentMasterToken, BuildDockerImages
  <1>8. ASSUME RemoveK8s \/ BeginK8s \/ WriteK8sFile \/ CheckpointK8s \/ MarkInitDone
        PROVE  ConfInv'
    BY <1>8 DEF RemoveK8s, RemovesK8s, BeginK8s, WriteK8sFile, CheckpointK8s,
                MarkInitDone
  <1>9. ASSUME \/ GenerateCatalogInfo \/ GenerateConfigs \/ Panic
               \/ TerraformApply \/ TerraformApplyFails \/ RunBoot
        PROVE  ConfInv'
    BY <1>9 DEF GenerateCatalogInfo, GenerateConfigs, Panic, TerraformApply,
                TerraformApplyFails, RunBoot
  <1>10. ASSUME RemoveVals \/ RemoveHashes \/ RemoveDone PROVE ConfInv'
    BY <1>10 DEF RemoveVals, RemoveHashes, RemoveDone
  <1> QED
    BY <1>1, <1>2, <1>3, <1>4, <1>5, <1>6, <1>7, <1>8, <1>9, <1>10
    DEF Next, Operator, Process

(* The process works with a configuration CompileTopology accepted.        *)
THEOREM AlwaysConf == Spec => []ConfInv
  <1>1. ConfInv /\ [Next]_vars => ConfInv'
    BY ConfStep DEF vars, process, ConfInv, Ended, Loadable
  <1> QED
    BY InitConf, <1>1, PTL DEF Spec

(* No two nodes are given the same address, in any configuration and of    *)
(* any size, if clusters have at most ten servers and numbers of their own *)
(* (CompileTopology).                                                      *)
THEOREM AlwaysAddressesUnique == Spec => []AddressesUnique
  <1>1. ConfInv => AddressesUnique
    BY LoadableIsCompiled, AddressesAreUnique DEF ConfInv, Ended, AddressesUnique
  <1> QED
    BY AlwaysConf, <1>1, PTL

(* Whatever a container is told to dial is the address of a node on one of *)
(* its networks, and secondaries find the primary (LeaderIP, ServerIPs,    *)
(* GatewayAddrs).                                                          *)
THEOREM AlwaysAddressesReachable == Spec => []AddressesReachable
  <1>1. ConfInv => AddressesReachable
    BY LoadableIsCompiled, DialsAreReachable, SecondariesFindPrimary
    DEF ConfInv, Ended, AddressesReachable
  <1> QED
    BY AlwaysConf, <1>1, PTL

(* Every proxy dials a port of the gRPC API that is open, but dataplanes   *)
(* with server_tls_grpc alone.                                             *)
THEOREM AlwaysPortsOpen == Spec => []PortsOpen
  <1>1. PortsOpen
    BY ProxiesFindPorts DEF PortsOpen
  <1> QED
    BY <1>1, PTL

-----------------------------------------------------------------------------
(* Files of Kubernetes.                                                    *)

LEMMA K8sFilesLength == DOMAIN K8sFiles = 1..5
  BY DEF K8sFiles

THEOREM InitK8s == Init => K8sInv
  BY DEF Init, K8sInv

LEMMA K8sStep ==
    ASSUME ConfInv, K8sInv, Next
    PROVE  K8sInv'
  <1> USE DEF K8sInv, AllK8s, Ended, process, once, GoTo, Stop
  <1>1. ASSUME NEW e \in Edits, EditConfig(e) PROVE K8sInv'
    BY <1>1 DEF EditConfig
  <1>2. ASSUME NEW primary, NEW force, StartUp(primary, force) PROVE K8sInv'
    BY <1>2 DEF StartUp
  <1>3. ASSUME StartRefused \/ \E force \in BOOLEAN : StartDown(force)
        PROVE  K8sInv'
    BY <1>3 DEF StartDown, StartRefused
  <1>4. ASSUME \/ Interrupt \/ RemoveTLSInterrupted \/ CreateCAInterrupted
               \/ \E p \in todo : GenCertInterrupted(p)
        PROVE  K8sInv'
    BY <1>4 DEF Interrupt, RemoveTLSInterrupted, CreateCAInterrupted,
                GenCertInterrupted
  <1>5. ASSUME RemoveTLS \/ UseCA \/ CreateCA \/ CreateCARefused \/ CertsGenerated
        PROVE  K8sInv'
    BY <1>5 DEF RemoveTLS, RemovesTLS, UseCA, CreateCA, CreateCARefused,
                CertsGenerated, BeginCerts
  <1>6. ASSUME NEW p \in todo, GenCert(p) PROVE K8sInv'
    BY <1>6 DEF GenCert
  <1>7. ASSUME MaybeInitAgentMasterToken \/ BuildDockerImages PROVE K8sInv'
    BY <1>7 DEF MaybeInitAgentMasterToken, BuildDockerImages
  <1>8. ASSUME RemoveK8s \/ RemoveK8sInterrupted PROVE K8sInv'
    <2>1. k8sVoid' = (k8sVoid \/ k8sHash # None \/ initDone)
      BY <1>8, Zenon DEF RemoveK8s, RemoveK8sInterrupted
    <2>2. k8sVoid' \/ (k8sHash = None /\ ~initDone)
      BY <2>1, Zenon
    <2>3. /\ k8sHash' = k8sHash /\ initDone' = initDone
          /\ pc' \in {"failed", "removeTLS"} \/ (pc' = "mark" /\ ~conf'.k8s)
      BY <1>8 DEF RemoveK8s, RemoveK8sInterrupted, RemovesK8s
    <2> QED
      BY <2>2, <2>3
  <1>9. ASSUME BeginK8s PROVE K8sInv'
    BY <1>9, NoneAssumption DEF BeginK8s, ConfInv
  <1>10. ASSUME WriteK8sFile PROVE K8sInv'
    BY <1>10, K8sFilesLength DEF WriteK8sFile
  <1>11. ASSUME CheckpointK8s PROVE K8sInv'
    BY <1>11, K8sFilesLength DEF CheckpointK8s
  <1>12. ASSUME MarkInitDone PROVE K8sInv'
    BY <1>12 DEF MarkInitDone
  <1>13. ASSUME \/ GenerateCatalogInfo \/ GenerateConfigs \/ Panic
                \/ TerraformApply \/ TerraformApplyFails \/ RunBoot
         PROVE  K8sInv'
    BY <1>13 DEF GenerateCatalogInfo, GenerateConfigs, Panic, TerraformApply,
                 TerraformApplyFails, RunBoot
  <1>14. ASSUME RemoveVals \/ RemoveHashes \/ RemoveDone PROVE K8sInv'
    BY <1>14 DEF RemoveVals, RemoveHashes, RemoveDone
  <1> QED
    BY <1>1, <1>2, <1>3, <1>4, <1>5, <1>6, <1>7, <1>8, <1>9, <1>10, <1>11,
       <1>12, <1>13, <1>14
    DEF Next, Operator, Process

(* Boot finds all files of Kubernetes, unless a marker outlived them       *)
(* (runK8SInit, runOnce, destroy).                                         *)
THEOREM AlwaysK8sFilesReady == Spec => []K8sFilesReady
  <1>1. K8sInv /\ ConfInv /\ [Next]_vars => K8sInv'
    BY K8sStep DEF vars, process, once, K8sInv, AllK8s
  <1>2. K8sInv => K8sFilesReady
    BY DEF K8sInv, AllK8s, K8sFilesReady
  <1> QED
    BY InitK8s, AlwaysConf, <1>1, <1>2, PTL DEF Spec

-----------------------------------------------------------------------------
(* Certificates.                                                           *)

(* The prefixes a configuration asks for.                                  *)
LEMMA WantedIs ==
    ASSUME NEW f, Compiled(f), NEW p
    PROVE  p \in Wanted(f) <=>
              \E c \in f.clusters : \E i \in Int :
                 \/ p = Prefix(c, "server", i - 1) /\ i \in 1..f.servers[c]
                 \/ p = Prefix(c, "client", i - 1) /\ i \in 1..NumClients(f, c)
  <1>1. \A c \in f.clusters : f.servers[c] \in Int /\ NumClients(f, c) \in Int
    BY Sizes
  <1> QED
    BY <1>1 DEF Wanted

LEMMA WantedForm ==
    ASSUME NEW f, Compiled(f), NEW p \in Wanted(f)
    PROVE  /\ p = Prefix(p.cluster, p.type, p.index)
           /\ p.index \in Nat
           /\ \A j \in 0..(p.index - 1) : Prefix(p.cluster, p.type, j) \in Wanted(f)
  <1>1. PICK c \in f.clusters, i \in Int :
           \/ p = Prefix(c, "server", i - 1) /\ i \in 1..f.servers[c]
           \/ p = Prefix(c, "client", i - 1) /\ i \in 1..NumClients(f, c)
    BY WantedIs
  <1>2. f.servers[c] \in Int /\ NumClients(f, c) \in Int
    BY Sizes
  <1>3. p.index = i - 1 /\ p.cluster = c /\ p.index \in Nat
    BY <1>1, <1>2 DEF Prefix
  <1>4. ASSUME NEW j \in 0..(p.index - 1)
        PROVE  Prefix(p.cluster, p.type, j) \in Wanted(f)
    <2>1. j + 1 \in Int /\ (j + 1) - 1 = j /\ j + 1 >= 1 /\ j + 1 <= i
      BY <1>3
    <2>2. CASE p = Prefix(c, "server", i - 1) /\ i \in 1..f.servers[c]
      <3>1. p.type = "server" /\ j + 1 \in 1..f.servers[c]
        BY <2>1, <2>2, <1>2 DEF Prefix
      <3> QED
        BY <2>1, <3>1, <1>3, WantedIs
    <2>3. CASE p = Prefix(c, "client", i - 1) /\ i \in 1..NumClients(f, c)
      <3>1. p.type = "client" /\ j + 1 \in 1..NumClients(f, c)
        BY <2>1, <2>3, <1>2 DEF Prefix
      <3> QED
        BY <2>1, <3>1, <1>3, WantedIs
    <2> QED
      BY <1>1, <2>2, <2>3
  <1> QED
    BY <1>1, <1>3, <1>4 DEF Prefix

(* No index is beyond the bound, with TLS.                                 *)
LEMMA WantedBound ==
    ASSUME NEW f, Loadable(f), f.tls, NEW p \in Wanted(f)
    PROVE  p.index <= MaxIndex
  <1>1. PICK raw \in Files : Starts(raw) /\ f = Completed(raw)
    BY DEF Loadable
  <1>2. f.tls = raw.tls
    BY <1>1 DEF Completed
  <1>3. \A c \in f.clusters : f.servers[c] <= MaxIndex + 1
                              /\ NumClients(f, c) <= MaxIndex + 1
    BY <1>1, <1>2, MaxIndexAssumption
  <1>4. Compiled(f)
    BY LoadableIsCompiled
  <1>5. PICK c \in f.clusters, i \in Int :
           \/ p = Prefix(c, "server", i - 1) /\ i \in 1..f.servers[c]
           \/ p = Prefix(c, "client", i - 1) /\ i \in 1..NumClients(f, c)
    BY <1>4, WantedIs
  <1>6. f.servers[c] \in Int /\ NumClients(f, c) \in Int
    BY <1>4, Sizes
  <1>7. p.index = i - 1
    BY <1>5 DEF Prefix
  <1> QED
    BY <1>3, <1>5, <1>6, <1>7, MaxIndexAssumption

(* `consul tls cert create` takes the index maybeInitTLS has in mind: all  *)
(* lower ones have been made before.                                       *)
LEMMA FreeIndexIsNext ==
    ASSUME ConfInv, CertsInv, ~torn, pc = "certs",
           NEW p \in todo, IsNext(p), p \notin DOMAIN pairs
    PROVE  FreeIndex(p) = p.index /\ p.index <= MaxIndex
  <1>1. Loadable(conf) /\ Compiled(conf) /\ conf.tls /\ p \in Wanted(conf)
    BY LoadableIsCompiled DEF ConfInv, CertsInv, Ended
  <1>2. /\ p = Prefix(p.cluster, p.type, p.index) /\ p.index \in Nat
        /\ p.index <= MaxIndex /\ MaxIndex \in Nat
        /\ \A j \in 0..(p.index - 1) : Prefix(p.cluster, p.type, j) \in Wanted(conf)
    BY <1>1, WantedForm, WantedBound, MaxIndexAssumption
  <1>3. ASSUME NEW j \in 0..(p.index - 1)
        PROVE  Prefix(p.cluster, p.type, j) \in DOMAIN pairs
    <2>1. Precedes(Prefix(p.cluster, p.type, j), p)
      BY <1>2 DEF Precedes, Prefix
    <2>2. Prefix(p.cluster, p.type, j) \notin todo
      BY <2>1 DEF IsNext
    <2> QED
      BY <1>2, <2>2 DEF CertsInv
  <1> DEFINE Free(i) == /\ Prefix(p.cluster, p.type, i) \notin DOMAIN pairs
                        /\ \A j \in 0..(i - 1) : Prefix(p.cluster, p.type, j) \in DOMAIN pairs
  <1>4. p.index \in 0..(MaxIndex + 1) /\ Free(p.index)
    BY <1>2, <1>3
  <1>5. ASSUME NEW i \in 0..(MaxIndex + 1), Free(i) PROVE i = p.index
    <2>1. ~(i < p.index)
      BY <1>2, <1>3, <1>5
    <2>2. ~(p.index < i)
      BY <1>2, <1>5
    <2> QED
      BY <2>1, <2>2, <1>2
  <1>6. FreeIndex(p) = CHOOSE i \in 0..(MaxIndex + 1) : Free(i)
    BY DEF FreeIndex
  <1> HIDE DEF Free
  <1> QED
    BY <1>2, <1>4, <1>5, <1>6

THEOREM InitCerts == Init => CertsInv
  BY DEF Init, CertsInv, NoCA, AfterCerts

(* Steps that leave cache/tls and the certificates still to make alone.    *)
LEMMA CertsUntouched ==
    ASSUME CertsInv, UNCHANGED tls, drawn' \in Nat,
           \/ pc' \notin AfterCerts \cup {"certs"}
           \/ UNCHANGED <<pc, conf, todo>>
           \/ /\ pc \in AfterCerts /\ pc' \in AfterCerts
              /\ UNCHANGED <<conf, todo>>
    PROVE  CertsInv'
  BY DEF CertsInv, Sound, AfterCerts, tls

(* Steps that leave something torn.                                        *)
LEMMA CertsTorn ==
    ASSUME drawn' \in Nat, torn', pc' \in Ended
    PROVE  CertsInv'
  BY DEF CertsInv, Ended

(* maybeInitTLS.                                                           *)
LEMMA CertsStep ==
    ASSUME ConfInv, CertsInv,
           \/ RemoveTLS \/ UseCA \/ CreateCA \/ CertsGenerated
           \/ \E p \in todo : GenCert(p)
    PROVE  CertsInv'
  <1>1. drawn \in Nat
    BY DEF CertsInv
  <1>2. ASSUME RemoveTLS PROVE CertsInv'
    <2>1. /\ ca'.cert = 0 /\ ca'.key = 0 /\ DOMAIN pairs' = {} /\ drawn' = drawn
          /\ pc' = "removeVals" \/ (pc' = "token" /\ ~conf'.tls)
      BY <1>2 DEF RemoveTLS, RemovesTLS, GoTo, NoCA
    <2> QED
      BY <1>1, <2>1 DEF CertsInv, Sound, AfterCerts
  <1>3. ASSUME UseCA PROVE CertsInv'
    BY <1>3 DEF UseCA, BeginCerts, CertsInv, Sound, AfterCerts, tls
  <1>4. ASSUME CreateCA PROVE CertsInv'
    <2>1. /\ drawn' = drawn + 1 /\ ca'.cert = drawn' /\ ca'.key = drawn'
          /\ ca.cert = 0 /\ pairs' = pairs /\ torn' = torn /\ conf.tls
          /\ pc' = "certs" /\ todo' = Wanted(conf) /\ conf' = conf
      BY <1>4 DEF CreateCA, BeginCerts, NoCA
    <2>2. drawn' \in Nat /\ drawn' # 0
      BY <1>1, <2>1
    <2>3. Wanted(conf)' = Wanted(conf)
      BY <2>1
    <2> QED
      BY <2>1, <2>2, <2>3 DEF CertsInv, Sound, AfterCerts
  <1>5. ASSUME CertsGenerated PROVE CertsInv'
    BY <1>5 DEF CertsGenerated, GoTo, CertsInv, Sound, AfterCerts, tls
  <1>6. ASSUME NEW p \in todo, GenCert(p) PROVE CertsInv'
    <2>1. /\ pc = "certs" /\ pc' = "certs" /\ todo' = todo \ {p} /\ IsNext(p)
          /\ conf' = conf /\ ca' = ca /\ torn' = torn /\ drawn' = drawn
          /\ IF Complete(p) THEN pairs' = pairs ELSE WritePair(p, {"cert", "key"})
      BY <1>6 DEF GenCert
    <2>2. Wanted(conf)' = Wanted(conf)
      BY <2>1
    <2>3. CASE torn
      BY <1>1, <2>1, <2>2, <2>3 DEF CertsInv, AfterCerts
    <2>4. CASE ~torn /\ Complete(p)
      BY <1>1, <2>1, <2>2, <2>4 DEF CertsInv, AfterCerts, Complete, Sound
    <2>5. CASE ~torn /\ ~Complete(p)
      <3>1. p \notin DOMAIN pairs
        BY <2>5 DEF CertsInv, Complete, Sound
      <3>2. FreeIndex(p) = p.index /\ p.index <= MaxIndex
        BY <2>1, <2>5, <3>1, FreeIndexIsNext
      <3>3. p = Prefix(p.cluster, p.type, p.index)
        BY <2>1, LoadableIsCompiled, WantedForm DEF ConfInv, CertsInv, Ended
      <3>4. pairs' = [r \in DOMAIN pairs \cup {p} |->
                        IF r = p THEN [files |-> {"cert", "key"}, ca |-> ca.cert,
                                       node |-> p.index]
                                 ELSE pairs[r]]
        BY <2>1, <2>5, <3>2, <3>3 DEF WritePair
      <3>5. /\ DOMAIN pairs' = DOMAIN pairs \cup {p}
            /\ \A r \in DOMAIN pairs : r # p => pairs'[r] = pairs[r]
            /\ pairs'[p].files = {"cert", "key"} /\ pairs'[p].ca = ca.cert
            /\ pairs'[p].node = p.index
        BY <3>4
      <3>6. \A r \in DOMAIN pairs' : Sound(r)'
        BY <2>1, <2>5, <3>1, <3>5 DEF CertsInv, Sound
      <3> QED
        BY <1>1, <2>1, <2>2, <2>5, <3>5, <3>6 DEF CertsInv, AfterCerts
    <2> QED
      BY <2>3, <2>4, <2>5
  <1> QED
    BY <1>2, <1>3, <1>4, <1>5, <1>6

LEMMA CertsKept ==
    ASSUME ConfInv, CertsInv, Next
    PROVE  CertsInv'
  <1> USE DEF Ended, AfterCerts, GoTo, Stop, process
  <1>0. drawn \in Nat /\ drawn + 1 \in Nat
    BY DEF CertsInv
  <1>1. ASSUME NEW e \in Edits, EditConfig(e) PROVE CertsInv'
    BY <1>0, <1>1, CertsUntouched DEF EditConfig
  <1>2. ASSUME \/ \E primary, force \in BOOLEAN : StartUp(primary, force)
               \/ \E force \in BOOLEAN : StartDown(force)
               \/ StartRefused \/ Interrupt \/ RemoveK8sInterrupted
        PROVE  CertsInv'
    BY <1>0, <1>2, CertsUntouched
    DEF StartUp, StartDown, StartRefused, Interrupt, RemoveK8sInterrupted
  <1>3. ASSUME \/ RemoveTLSInterrupted \/ CreateCAInterrupted
               \/ \E p \in todo : GenCertInterrupted(p)
        PROVE  CertsInv'
    BY <1>0, <1>3, CertsTorn
    DEF RemoveTLSInterrupted, CreateCAInterrupted, GenCertInterrupted
  <1>4. ASSUME CreateCARefused PROVE CertsInv'
    BY <1>0, <1>4, CertsUntouched DEF CreateCARefused
  <1>5. ASSUME MaybeInitAgentMasterToken PROVE CertsInv'
    <2>1. drawn' \in Nat
      BY <1>0, <1>5 DEF MaybeInitAgentMasterToken
    <2> QED
      BY <1>5, <2>1, CertsUntouched DEF MaybeInitAgentMasterToken
  <1>6. ASSUME BuildDockerImages PROVE CertsInv'
    BY <1>0, <1>6, CertsUntouched DEF BuildDockerImages
  <1>7. ASSUME RemoveK8s \/ BeginK8s \/ WriteK8sFile \/ CheckpointK8s \/ MarkInitDone
        PROVE  CertsInv'
    BY <1>0, <1>7, CertsUntouched
    DEF RemoveK8s, RemovesK8s, BeginK8s, WriteK8sFile, CheckpointK8s, MarkInitDone
  <1>8. ASSUME \/ GenerateCatalogInfo \/ GenerateConfigs \/ Panic
               \/ TerraformApply \/ TerraformApplyFails \/ RunBoot
        PROVE  CertsInv'
    BY <1>0, <1>8, CertsUntouched
    DEF GenerateCatalogInfo, GenerateConfigs, Panic, TerraformApply,
        TerraformApplyFails, RunBoot
  <1>9. ASSUME RemoveVals \/ RemoveHashes \/ RemoveDone PROVE CertsInv'
    BY <1>0, <1>9, CertsUntouched DEF RemoveVals, RemoveHashes, RemoveDone
  <1> QED
    BY <1>1, <1>2, <1>3, <1>4, <1>5, <1>6, <1>7, <1>8, <1>9, CertsStep
    DEF Next, Operator, Process

(* An agent is told to load a pair maybeInitTLS makes sure of.             *)
LEMMA AgentPrefixWanted ==
    ASSUME NEW f, Compiled(f), NEW n \in Nodes(f), IsAgent(f, n)
    PROVE  /\ AgentPrefix(f, n) \in Wanted(f)
           /\ n.class = "server" <=> AgentPrefix(f, n).type = "server"
  <1>1. /\ n.cluster \in f.clusters
        /\ \/ n.class = "server" /\ n.num \in 1..f.servers[n.cluster]
           \/ n.class = "client" /\ n.num \in 1..NumClients(f, n.cluster)
           \/ n.class = "infra"
    BY NodeForm DEF Nodes
  <1>2. n.class # "infra"
    BY DEF IsAgent, Kind
  <1>3. f.servers[n.cluster] \in Int /\ NumClients(f, n.cluster) \in Int
    BY <1>1, Sizes
  <1>4. CASE n.class = "server"
    BY <1>1, <1>3, <1>4, WantedIs DEF AgentPrefix, Prefix
  <1>5. CASE n.class = "client"
    BY <1>1, <1>3, <1>5, WantedIs DEF AgentPrefix, Prefix
  <1> QED
    BY <1>1, <1>2, <1>4, <1>5

(* Every agent finds the pair its configuration names, whole, signed by    *)
(* the CA of the directory and made out to its node, for any number of     *)
(* clusters and nodes and however the file was edited, as long as nothing  *)
(* in cache/tls was cut short (maybeInitTLS, GenerateAgentHCL).            *)
THEOREM AlwaysCertificatesReady == Spec => []CertificatesReady
  <1>1. CertsInv /\ ConfInv /\ [Next]_vars => CertsInv'
    <2>1. CertsInv /\ UNCHANGED vars => CertsInv'
      BY DEF vars, process, tls, CertsInv, Sound
    <2> QED
      BY <2>1, CertsKept
  <1>2. CertsInv /\ ConfInv => CertificatesReady
    <2> SUFFICES ASSUME CertsInv, ConfInv, pc \in AfterCerts, conf.tls, ~torn,
                        NEW n \in Nodes(conf), IsAgent(conf, n)
                 PROVE  LET p == AgentPrefix(conf, n)
                        IN  /\ Complete(p)
                            /\ pairs[p].ca = ca.cert /\ ca.cert = ca.key
                            /\ n.class = "server" => pairs[p].node = p.index
      BY DEF CertificatesReady
    <2>1. Compiled(conf)
      BY LoadableIsCompiled DEF ConfInv, Ended, AfterCerts
    <2>2. /\ AgentPrefix(conf, n) \in DOMAIN pairs
          /\ n.class = "server" <=> AgentPrefix(conf, n).type = "server"
      BY <2>1, AgentPrefixWanted DEF CertsInv
    <2> QED
      BY <2>2 DEF CertsInv, Sound, Complete
  <1> QED
    BY InitCerts, AlwaysConf, <1>1, <1>2, PTL DEF Spec

-----------------------------------------------------------------------------
(* Types.                                                                  *)

Steps == {"tls", "certs", "token", "images", "k8s", "generateK8s", "mark", "catalog",
          "render", "apply", "boot", "removeK8s", "removeTLS", "removeVals",
          "removeHashes", "removeDone"}

(* TypeOK, in the parts that change together.                              *)
ControlType ==
    /\ pc \in Ended \cup Steps
    /\ conf = None => todo = {}
    /\ conf # None => todo \subseteq Wanted(conf)

FilesType ==
    /\ ca.cert \in 0..drawn /\ ca.key \in 0..drawn /\ token \in 0..drawn
    /\ \A p \in DOMAIN pairs : pairs[p].files \in (SUBSET {"cert", "key"}) \ {{}}
    /\ k8s \subseteq {K8sFiles[i] : i \in DOMAIN K8sFiles}
    /\ defs \subseteq Names

LEMMA TypeParts == ConfInv => (TypeOK <=> ControlType /\ FilesType)
  BY DEF ConfInv, TypeOK, ControlType, FilesType, Steps, Ended

LEMMA ControlStep ==
    ASSUME ConfInv, ConfInv', ControlType, Next
    PROVE  ControlType'
  <1> USE DEF ControlType, ConfInv, Ended, Steps, process, GoTo, Stop
  <1>1. ASSUME NEW e \in Edits, EditConfig(e) PROVE ControlType'
    BY <1>1 DEF EditConfig
  <1>2. ASSUME \/ \E primary, force \in BOOLEAN : StartUp(primary, force)
               \/ \E force \in BOOLEAN : StartDown(force)
               \/ StartRefused \/ Interrupt \/ RemoveTLSInterrupted
               \/ CreateCAInterrupted \/ RemoveK8sInterrupted
               \/ \E p \in todo : GenCertInterrupted(p)
        PROVE  ControlType'
    BY <1>2 DEF StartUp, StartDown, StartRefused, Interrupt, RemoveTLSInterrupted,
                CreateCAInterrupted, RemoveK8sInterrupted, GenCertInterrupted
  <1>3. ASSUME RemoveTLS \/ UseCA \/ CreateCA \/ CreateCARefused \/ CertsGenerated
        PROVE  ControlType'
    BY <1>3 DEF RemoveTLS, RemovesTLS, UseCA, CreateCA, CreateCARefused,
                CertsGenerated, BeginCerts
  <1>4. ASSUME NEW p \in todo, GenCert(p) PROVE ControlType'
    BY <1>4 DEF GenCert
  <1>5. ASSUME \/ MaybeInitAgentMasterToken \/ BuildDockerImages
               \/ RemoveK8s \/ BeginK8s \/ WriteK8sFile \/ CheckpointK8s
               \/ MarkInitDone
        PROVE  ControlType'
    BY <1>5 DEF MaybeInitAgentMasterToken, BuildDockerImages, RemoveK8s,
                RemovesK8s, BeginK8s, WriteK8sFile, CheckpointK8s, MarkInitDone
  <1>6. ASSUME \/ GenerateCatalogInfo \/ GenerateConfigs \/ Panic
               \/ TerraformApply \/ TerraformApplyFails \/ RunBoot
               \/ RemoveVals \/ RemoveHashes \/ RemoveDone
        PROVE  ControlType'
    BY <1>6 DEF GenerateCatalogInfo, GenerateConfigs, Panic, TerraformApply,
                TerraformApplyFails, RunBoot, RemoveVals, RemoveHashes, RemoveDone
  <1> QED
    BY <1>1, <1>2, <1>3, <1>4, <1>5, <1>6 DEF Next, Operator, Process

(* A pair that is written has a certificate.                               *)
LEMMA PairType ==
    ASSUME FilesType, NEW p, NEW files \in (SUBSET {"cert", "key"}) \ {{}},
           WritePair(p, files)
    PROVE  \A r \in DOMAIN pairs' :
              pairs'[r].files \in (SUBSET {"cert", "key"}) \ {{}}
  BY DEF FilesType, WritePair

LEMMA FilesStep ==
    ASSUME ConfInv, FilesType, drawn \in Nat, Next
    PROVE  FilesType'
  <1> USE DEF FilesType, tls, once
  <1>1. ASSUME \/ \E e \in Edits : EditConfig(e)
               \/ \E primary, force \in BOOLEAN : StartUp(primary, force)
               \/ \E force \in BOOLEAN : StartDown(force)
               \/ StartRefused \/ Interrupt \/ UseCA \/ CreateCARefused
               \/ CertsGenerated \/ BeginK8s
        PROVE  FilesType'
    BY <1>1 DEF EditConfig, StartUp, StartDown, StartRefused, Interrupt, UseCA,
                CreateCARefused, CertsGenerated, BeginK8s
  <1>2. ASSUME RemoveTLS PROVE FilesType'
    BY <1>2 DEF RemoveTLS, NoCA
  <1>3. ASSUME RemoveTLSInterrupted PROVE FilesType'
    <2>1. PICK left \in Leftovers :
             LET Kept(p) == {x \in {"cert", "key"} : <<p, x>> \in left}
             IN  /\ ca' = [x \in {"cert", "key"} |->
                              IF x \in Kept(CAName) THEN ca[x] ELSE 0]
                 /\ pairs' = [p \in {q \in DOMAIN pairs : Kept(q) # {}} |->
                                 [files |-> Kept(p), ca |-> pairs[p].ca,
                                  node |-> pairs[p].node]]
      BY <1>3 DEF RemoveTLSInterrupted
    <2>2. drawn' = drawn /\ token' = token /\ k8s' = k8s /\ defs' = defs
      BY <1>3 DEF RemoveTLSInterrupted
    <2>3. ca'.cert \in {0, ca.cert} /\ ca'.key \in {0, ca.key}
      BY <2>1
    <2>4. \A p \in DOMAIN pairs' :
             pairs'[p].files \in (SUBSET {"cert", "key"}) \ {{}}
      <3> DEFINE Kept(p) == {x \in {"cert", "key"} : <<p, x>> \in left}
      <3>1. SUFFICES ASSUME NEW p \in DOMAIN pairs'
                     PROVE  Kept(p) # {} /\ pairs'[p].files = Kept(p)
        OBVIOUS
      <3> QED
        BY <2>1
    <2> QED
      BY <2>2, <2>3, <2>4
  <1>4. ASSUME CreateCA \/ CreateCAInterrupted PROVE FilesType'
    <2>1. /\ drawn' = drawn + 1 /\ ca'.cert = drawn' /\ ca'.key \in {0, drawn'}
          /\ token' = token /\ pairs' = pairs /\ k8s' = k8s /\ defs' = defs
      BY <1>4 DEF CreateCA, CreateCAInterrupted
    <2> QED
      BY <2>1
  <1>5. ASSUME NEW p \in todo, GenCert(p) \/ GenCertInterrupted(p) PROVE FilesType'
    <2>1. \/ pairs' = pairs
          \/ WritePair(p, {"cert", "key"})
          \/ WritePair(p, {"cert"})
      BY <1>5 DEF GenCert, GenCertInterrupted
    <2>2. \A r \in DOMAIN pairs' :
             pairs'[r].files \in (SUBSET {"cert", "key"}) \ {{}}
      BY <2>1, PairType
    <2> QED
      BY <1>5, <2>2 DEF GenCert, GenCertInterrupted
  <1>6. ASSUME MaybeInitAgentMasterToken PROVE FilesType'
    <2>1. /\ \/ token' = 0 /\ drawn' = drawn
             \/ token' = drawn + 1 /\ drawn' = drawn + 1
             \/ token' = token /\ drawn' = drawn
          /\ ca' = ca /\ pairs' = pairs /\ k8s' = k8s /\ defs' = defs
      BY <1>6 DEF MaybeInitAgentMasterToken
    <2> QED
      BY <2>1
  <1>10. ASSUME BuildDockerImages PROVE FilesType'
    BY <1>10 DEF BuildDockerImages
  <1>7. ASSUME \/ RemoveK8s \/ RemoveK8sInterrupted \/ WriteK8sFile
               \/ CheckpointK8s \/ MarkInitDone
        PROVE  FilesType'
    BY <1>7 DEF RemoveK8s, RemoveK8sInterrupted, WriteK8sFile, CheckpointK8s,
                MarkInitDone
  <1>8. ASSUME GenerateCatalogInfo \/ Panic PROVE FilesType'
    <2>1. conf # None
      BY <1>8 DEF GenerateCatalogInfo, Panic, ConfInv, Ended
    <2>2. Defined(conf, only) \subseteq Names
      BY <2>1, LoadableIsCompiled, PrimaryAssumption DEF ConfInv, Compiled, Defined
    <2>3. /\ ca' = ca /\ pairs' = pairs /\ k8s' = k8s
          /\ token' = token /\ drawn' = drawn
          /\ defs' \subseteq defs \cup Defined(conf, only) \/ defs' = defs
      BY <1>8 DEF GenerateCatalogInfo, Panic
    <2> QED
      BY <2>2, <2>3
  <1>9. ASSUME \/ GenerateConfigs \/ TerraformApply \/ TerraformApplyFails \/ RunBoot
               \/ RemoveVals \/ RemoveHashes \/ RemoveDone
        PROVE  FilesType'
    BY <1>9 DEF GenerateConfigs, TerraformApply, TerraformApplyFails, RunBoot,
                RemoveVals, RemoveHashes, RemoveDone
  <1> QED
    BY <1>1, <1>2, <1>3, <1>4, <1>5, <1>6, <1>7, <1>8, <1>9, <1>10
    DEF Next, Operator, Process

(* Every variable has its type.                                            *)
THEOREM AlwaysTypeOK == Spec => []TypeOK
  <1> DEFINE I == ConfInv /\ CertsInv /\ ControlType /\ FilesType
  <1>1. Init => I
    BY InitConf, InitCerts DEF Init, ControlType, FilesType, Ended, NoCA
  <1>2. I /\ [Next]_vars => I'
    <2>1. ASSUME I, Next PROVE I'
      <3>1. drawn \in Nat /\ ConfInv' /\ CertsInv'
        BY <2>1, ConfStep, CertsKept DEF CertsInv
      <3> QED
        BY <2>1, <3>1, ControlStep, FilesStep
    <2>2. ASSUME I, UNCHANGED vars PROVE I'
      BY <2>2 DEF vars, process, tls, once, ConfInv, Loadable, CertsInv, Sound,
                  ControlType, FilesType
    <2> QED
      BY <2>1, <2>2
  <1>3. I => TypeOK
    BY TypeParts
  <1> QED
    BY <1>1, <1>2, <1>3, PTL DEF Spec
-----------------------------------------------------------------------------
(* Why a run fails.                                                        *)

SpentInv == spent \in [{"edits", "interrupts", "downs"} -> Nat]

(* Faults are spent, and nothing else is.                                  *)
LEMMA SpendShows ==
    ASSUME SpentInv, NEW what \in {"edits", "interrupts", "downs"}, NEW bound,
           Spend(what, bound)
    PROVE  SpentInv' /\ spent' # spent
  BY DEF SpentInv, Spend

LEMMA SpentStep ==
    ASSUME SpentInv, [Next]_vars
    PROVE  SpentInv'
  <1>1. \/ spent' = spent
        \/ \E what \in {"edits", "interrupts", "downs"} : \E bound : Spend(what, bound)
    <2>1. CASE Process
      BY <2>1 DEF Process, RemoveTLS, UseCA, CreateCA, CreateCARefused, GenCert,
                  CertsGenerated, MaybeInitAgentMasterToken, BuildDockerImages,
                  RemoveK8s, BeginK8s, WriteK8sFile, CheckpointK8s, MarkInitDone,
                  GenerateCatalogInfo, GenerateConfigs, Panic, TerraformApply,
                  TerraformApplyFails, RunBoot, RemoveVals, RemoveHashes,
                  RemoveDone, GoTo, BeginCerts
    <2>2. CASE Operator
      BY <2>2 DEF Operator, EditConfig, StartUp, StartDown, StartRefused, Interrupt,
                  RemoveTLSInterrupted, CreateCAInterrupted, RemoveK8sInterrupted,
                  GenCertInterrupted
    <2> QED
      BY <2>1, <2>2 DEF Next, vars
  <1> QED
    BY <1>1, SpendShows DEF SpentInv

(* What buildDockerImages builds depends on the versions only.             *)
LEMMA LocalImagesOfVersions ==
    ASSUME NEW f, NEW g, Versions(f) = Versions(g)
    PROVE  LocalImages(f) = LocalImages(g)
  <1>1. (f.canary.envoy <=> g.canary.envoy) /\ (f.canary.dataplane <=> g.canary.dataplane)
    BY DEF Versions
  <1>2. /\ "consul-envoy-canary" \in DeclaredImages(f) <=> f.canary.envoy
        /\ "consul-dataplane-canary" \in DeclaredImages(f) <=> f.canary.dataplane
        /\ "consul-envoy-canary" \in DeclaredImages(g) <=> g.canary.envoy
        /\ "consul-dataplane-canary" \in DeclaredImages(g) <=> g.canary.dataplane
    BY DEF DeclaredImages
  <1> QED
    BY <1>1, <1>2 DEF LocalImages

(* docker.hash vouches for the images of the versions it was computed      *)
(* from, whatever became of config.hcl.                                    *)
ImagesInv ==
    \A c \in Files : \A g :
        Loadable(g) /\ imageHash = <<c, Versions(g)>> => LocalImages(g) \subseteq built

(* No hash at all is not the hash of anything.                             *)
LEMMA NoHash ==
    ASSUME NEW c \in Files, NEW g, Loadable(g)
    PROVE  None # <<c, Versions(g)>>
  BY NoneAssumption DEF Loadable

LEMMA ImagesStep ==
    ASSUME ConfInv, ImagesInv, [Next]_vars
    PROVE  ImagesInv'
  <1>1. ASSUME BuildDockerImages PROVE ImagesInv'
    <2> SUFFICES ASSUME NEW c \in Files, NEW g, Loadable(g),
                        imageHash' = <<c, Versions(g)>>
                 PROVE  LocalImages(g) \subseteq built'
      BY DEF ImagesInv, Loadable
    <2>1. Loadable(conf) /\ config \in Files
      BY <1>1 DEF BuildDockerImages, ConfInv, Ended
    <2>2. LocalImages(conf) \subseteq built'
      BY <1>1, <2>1 DEF BuildDockerImages, ImagesInv
    <2>3. imageHash' = <<config, Versions(conf)>>
      BY <1>1 DEF BuildDockerImages
    <2>4. Versions(g) = Versions(conf)
      BY <2>3
    <2> QED
      BY <2>2, <2>4, LocalImagesOfVersions
  <1>2. ASSUME RemoveHashes PROVE ImagesInv'
    BY <1>2, NoHash DEF RemoveHashes, ImagesInv, Loadable
  <1>3. ASSUME UNCHANGED <<imageHash, built>> PROVE ImagesInv'
    BY <1>3 DEF ImagesInv, Loadable
  <1>4. ASSUME Process PROVE \/ BuildDockerImages \/ RemoveHashes
                             \/ UNCHANGED <<imageHash, built>>
    BY <1>4 DEF Process, once, RemoveTLS, UseCA, CreateCA, CreateCARefused, GenCert,
                CertsGenerated, MaybeInitAgentMasterToken, RemoveK8s, BeginK8s,
                WriteK8sFile, CheckpointK8s, MarkInitDone, GenerateCatalogInfo,
                GenerateConfigs, Panic, TerraformApply, TerraformApplyFails,
                RunBoot, RemoveVals, RemoveDone
  <1>5. ASSUME Operator PROVE UNCHANGED <<imageHash, built>>
    BY <1>5 DEF Operator, once, EditConfig, StartUp, StartDown, StartRefused,
                Interrupt, RemoveTLSInterrupted, CreateCAInterrupted,
                RemoveK8sInterrupted, GenCertInterrupted
  <1> QED
    BY <1>1, <1>2, <1>3, <1>4, <1>5 DEF Next, vars, once

THEOREM InitImages == Init => ImagesInv
  BY NoHash DEF Init, ImagesInv

(* `primary` does with some of the nodes what `up` does with all.          *)
LEMMA PrimaryDoesLess ==
    ASSUME NEW f, NEW primary
    PROVE  /\ CatalogPanics(f, primary) => CatalogPanics(f, FALSE)
           /\ RenderPanics(f, primary) => RenderPanics(f, FALSE)
           /\ K8sRefused(f, primary) => K8sRefused(f, FALSE)
           /\ Populated(f, primary) \subseteq Nodes(f)
  <1>1. Populated(f, primary) \subseteq Populated(f, FALSE)
    BY DEF Populated
  <1>2. CatalogPanics(f, primary) => CatalogPanics(f, FALSE)
    BY <1>1 DEF CatalogPanics
  <1>3. RenderPanics(f, primary) => RenderPanics(f, FALSE)
    BY <1>1 DEF RenderPanics
  <1> QED
    BY <1>2, <1>3 DEF K8sRefused, Populated

(* Terraform misses an image that is not declared, or one that init.done   *)
(* made the run pass over.                                                 *)
LEMMA ImagesMissing ==
    ASSUME ConfInv, ImagesInv, conf # None, ~ImagesThere
    PROVE  ~Boots(conf) \/ StaleImages(conf)
  <1>1. Loadable(conf)
    BY DEF ConfInv
  <1>2. ASSUME LocalImages(conf) \subseteq built PROVE ~Boots(conf)
    <2>1. \E n \in Populated(conf, only) :
             ~(NodeImages(conf, n) \subseteq DeclaredImages(conf))
      BY <1>2 DEF ImagesThere
    <2> QED
      BY <2>1, PrimaryDoesLess DEF Boots
  <1>3. ASSUME ~(LocalImages(conf) \subseteq built) PROVE StaleImages(conf)
    BY <1>1, <1>3 DEF ImagesInv, StaleImages
  <1> QED
    BY <1>2, <1>3

(* Of itself `up` only fails for a file that cannot be brought up, for one *)
(* half of a CA, or where init.done makes it pass over images docker.hash  *)
(* does not vouch for, for any files, edits and interruptions (runOnce,    *)
(* buildDockerImages, maybeInitTLS, runGenerate).                          *)
THEOREM AlwaysFailsOnlyForCause == Spec => FailsOnlyForCause
  <1>1. Init => SpentInv
    BY DEF Init, SpentInv
  <1>2. SpentInv /\ [Next]_vars => SpentInv'
    BY SpentStep
  <1>3. ConfInv /\ ImagesInv /\ [Next]_vars => ImagesInv'
    BY ImagesStep
  <1>4. ConfInv /\ ImagesInv /\ SpentInv /\ [Next]_vars =>
           [pc \notin Ended /\ pc' \in {"failed", "panic"} /\ spent' = spent
              => HalfCA \/ ~Boots(conf) \/ StaleImages(conf)]_vars
    <2> SUFFICES ASSUME ConfInv, ImagesInv, SpentInv, Next,
                        pc \notin Ended, pc' \in {"failed", "panic"}, spent' = spent
                 PROVE  HalfCA \/ ~Boots(conf) \/ StaleImages(conf)
      OBVIOUS
    <2>0. conf # None
      BY DEF ConfInv
    <2>1. CASE CreateCARefused
      BY <2>1 DEF CreateCARefused
    <2>2. CASE Panic
      BY <2>2, PrimaryDoesLess DEF Panic, Boots
    <2>3. CASE TerraformApplyFails
      BY <2>0, <2>3, ImagesMissing DEF TerraformApplyFails
    <2>4. CASE RunBoot
      BY <2>4, PrimaryDoesLess DEF RunBoot, Stop, Boots
    <2>5. Operator => FALSE
      <3>1. ASSUME NEW what \in {"edits", "interrupts", "downs"}, NEW bound
            PROVE  ~Spend(what, bound)
        BY <3>1, SpendShows
      <3> QED
        BY <3>1 DEF Operator, EditConfig, StartUp, StartDown, StartRefused,
                    Interrupt, RemoveTLSInterrupted, CreateCAInterrupted,
                    RemoveK8sInterrupted, GenCertInterrupted
    <2>6. Process => CreateCARefused \/ Panic \/ TerraformApplyFails \/ RunBoot
      BY DEF Process, Ended, GoTo, Stop, process, BeginCerts, RemoveTLS, UseCA,
             CreateCA, GenCert, CertsGenerated, MaybeInitAgentMasterToken,
             BuildDockerImages, RemoveK8s, BeginK8s, WriteK8sFile, CheckpointK8s,
             MarkInitDone, GenerateCatalogInfo, GenerateConfigs, TerraformApply,
             RemoveVals, RemoveHashes, RemoveDone
    <2> QED
      BY <2>1, <2>2, <2>3, <2>4, <2>5, <2>6 DEF Next
  <1> QED
    BY <1>1, <1>2, <1>3, <1>4, InitImages, AlwaysConf, PTL
    DEF Spec, FailsOnlyForCause

(* generateCatalogInfo has written every definition generateConfigs reads. *)
DefsInv == pc = "render" => Defined(conf, only) \subseteq defs

DefinitionsThere == pc = "render" => HashedDefinitions(conf, only) \subseteq defs

LEMMA DefsStep ==
    ASSUME ConfInv, DefsInv, [Next]_vars
    PROVE  DefsInv'
  <1> USE DEF DefsInv
  <1>1. ASSUME Process PROVE DefsInv'
    BY <1>1 DEF Process, Ended, GoTo, Stop, process, BeginCerts, RemoveTLS, UseCA,
                CreateCA, CreateCARefused, GenCert, CertsGenerated,
                MaybeInitAgentMasterToken, BuildDockerImages, RemoveK8s, BeginK8s,
                WriteK8sFile, CheckpointK8s, MarkInitDone, GenerateCatalogInfo,
                GenerateConfigs, Panic, TerraformApply, TerraformApplyFails,
                RunBoot, RemoveVals, RemoveHashes, RemoveDone
  <1>2. ASSUME Operator PROVE DefsInv'
    BY <1>2 DEF Operator, Ended, Stop, process, EditConfig, StartUp, StartDown,
                StartRefused, Interrupt, RemoveTLSInterrupted, CreateCAInterrupted,
                RemoveK8sInterrupted, GenCertInterrupted
  <1> QED
    BY <1>1, <1>2 DEF Next, vars, process

(* The containers of every infra node find the definition they hash,       *)
(* whatever run wrote it, so generateConfigs never lacks one (runGenerate, *)
(* GenerateNodeContainers).                                                *)
THEOREM RenderFindsDefinitions == Spec => []DefinitionsThere
  <1>1. Init => DefsInv
    BY DEF Init, DefsInv
  <1>2. ConfInv /\ DefsInv /\ [Next]_vars => DefsInv'
    BY DefsStep
  <1>3. ConfInv /\ DefsInv => DefinitionsThere
    <2> SUFFICES ASSUME ConfInv, DefsInv, pc = "render",
                        NEW n \in Populated(conf, only)
                 PROVE  n.cluster \in Defined(conf, only)
      BY DEF DefinitionsThere, DefsInv, HashedDefinitions
    <2>1. n.cluster \in conf.clusters
      BY LoadableIsCompiled, NodeForm DEF ConfInv, Ended, Populated, Nodes
    <2> QED
      BY <2>1 DEF Populated, Defined
  <1> QED
    BY <1>1, <1>2, <1>3, AlwaysConf, PTL DEF Spec
=============================================================================

-------------------------- MODULE CatalogSyncProofs -------------------------
(* Proofs about CatalogSync, for any nodes, apps, definitions and bounds.  *)
EXTENDS CatalogSync, TLAPS

(* What the loops of initialSync still have to do.                         *)
LeftInv ==
    /\ pc = "nodes"    => nodesLeft \subseteq NodesOf(conf)
    /\ pc = "services" => left \subseteq ServicesOf(conf)
    /\ pc = "proxies"  => left \subseteq ProxiesOf(conf)
    /\ pc = "strays"   => /\ nodesLeft \cap NodesOf(conf) = {}
                          /\ left \cap EntriesOf(conf) = {}
    /\ pc = "health"   => /\ left \subseteq ServicesOf(conf)
                          /\ DOMAIN pending \subseteq conf
    /\ pc # "health"   => pending = Idle

(* What they have registered.                                              *)
RegisteredInv ==
    /\ pc = "nodes" => NodesOf(conf) \ nodesLeft \subseteq nodes
    /\ pc \in {"services", "proxies", "strays", "health"} =>
          NodesOf(conf) \subseteq nodes
    /\ pc = "services" => ServicesOf(conf) \ left \subseteq entries
    /\ pc \in {"proxies", "strays", "health"} =>
          ServicesOf(conf) \subseteq entries
    /\ pc = "proxies" => ProxiesOf(conf) \ left \subseteq entries
    /\ pc \in {"strays", "health"} => ProxiesOf(conf) \subseteq entries

(* Where everything else in the catalog comes from: it was dumped, and once *)
(* the strays are known it is one of them.                                  *)
StraysInv ==
    /\ \A x \in entries : x.node \in nodes
    /\ pc \in {"nodes", "services", "proxies"} =>
          /\ nodes \subseteq dump.nodes \cup NodesOf(conf)
          /\ entries \subseteq dump.entries \cup EntriesOf(conf)
          /\ \A x \in dump.entries : x.node \in dump.nodes
    /\ pc = "strays" =>
          /\ nodes \subseteq NodesOf(conf) \cup nodesLeft
          /\ \A x \in entries :
                x \in EntriesOf(conf) \/ x \in left \/ x.node \in nodesLeft
    /\ pc = "health" =>
          nodes \subseteq NodesOf(conf) /\ entries \subseteq EntriesOf(conf)

(* Nothing is known of any service before the first round.                 *)
UnknownInv ==
    pc \in {"dump", "nodes", "services", "proxies", "strays"} => last = Unknown

Inv ==
    /\ TypeOK /\ LeftInv /\ RegisteredInv /\ StraysInv
    /\ UnknownInv /\ KnownHealthIsRecorded
-----------------------------------------------------------------------------
(* Facts about definitions.                                                *)

LEMMA PlaceFacts ==
    /\ \A x \in Entries : Place(x) \in Places
    /\ \A p \in Places, k \in {"app", "proxy"} :
          Entry(p, k) \in Entries /\ Place(Entry(p, k)) = p
BY DEF Places, Entries, Place, Entry

LEMMA DefinitionFacts ==
    ASSUME NEW d \in SUBSET Places
    PROVE  /\ NodesOf(d) \subseteq Nodes
           /\ EntriesOf(d) \subseteq Entries
           /\ EntriesOf(d) = ServicesOf(d) \cup ProxiesOf(d)
           /\ \A x \in EntriesOf(d) : x.node \in NodesOf(d)
           /\ \A x \in ServicesOf(d) : Place(x) \in d
           /\ \A p \in d : Entry(p, "app") \in EntriesOf(d)
<1>1. NodesOf(d) \subseteq Nodes
  BY DEF NodesOf, Places
<1>2. /\ EntriesOf(d) \subseteq Entries
      /\ EntriesOf(d) = ServicesOf(d) \cup ProxiesOf(d)
      /\ \A x \in ServicesOf(d) : Place(x) \in d
  BY DEF EntriesOf, ServicesOf, ProxiesOf, Entries
<1>3. ASSUME NEW x \in EntriesOf(d) PROVE x.node \in NodesOf(d)
  <2>1. Place(x) \in d /\ Place(x).node = x.node
    BY <1>3 DEF EntriesOf, Place
  <2>. QED BY <2>1 DEF NodesOf
<1>4. ASSUME NEW p \in d PROVE Entry(p, "app") \in EntriesOf(d)
  BY PlaceFacts DEF EntriesOf
<1>. QED BY <1>1, <1>2, <1>3, <1>4

(* No entry lies on no node, and a pending write is for one place.         *)
LEMMA IdleFacts == DOMAIN Idle = {}
BY DEF Idle

-----------------------------------------------------------------------------
THEOREM InitInv == Init => Inv
<1>. SUFFICES ASSUME Init PROVE Inv
  OBVIOUS
<1>1. TypeOK
  BY DefinitionsAssumption, PlaceFacts
  DEF Init, TypeOK, NoCheck, Check, Unknown, Statuses
<1>2. LeftInv /\ RegisteredInv /\ StraysInv /\ UnknownInv
  BY DEF Init, LeftInv, RegisteredInv, StraysInv, UnknownInv
<1>3. KnownHealthIsRecorded
  BY DEF Init, KnownHealthIsRecorded
<1>. QED BY <1>1, <1>2, <1>3 DEF Inv

-----------------------------------------------------------------------------
(* The initial sync.                                                       *)

LEMMA StartStep == Inv /\ Start => Inv'
<1>. SUFFICES ASSUME Inv, Start PROVE Inv'
  OBVIOUS
<1>. USE DEF Inv, Start, files, catalog
<1>1. TypeOK'
  BY DEF TypeOK, Unknown, Statuses
<1>2. LeftInv' /\ RegisteredInv' /\ StraysInv'
  BY DEF LeftInv, RegisteredInv, StraysInv
<1>3. UnknownInv' /\ KnownHealthIsRecorded'
  <2>1. \A p \in Places : last'[p] = "unknown"
    BY DEF Unknown
  <2>2. conf' \subseteq Places
    BY <1>1 DEF TypeOK
  <2>. QED BY <2>1, <2>2 DEF UnknownInv, Unknown, KnownHealthIsRecorded
<1>. QED BY <1>1, <1>2, <1>3

(* While nothing is known, KnownHealthIsRecorded asks for nothing.         *)
LEMMA NothingKnown ==
    ASSUME conf \subseteq Places, last = Unknown
    PROVE  KnownHealthIsRecorded
BY DEF Unknown, KnownHealthIsRecorded

LEMMA DumpStep ==
    Inv /\ (DumpCurrentCatalog \/ DumpRefused) => Inv'
<1>. SUFFICES ASSUME Inv, DumpCurrentCatalog \/ DumpRefused PROVE Inv'
  OBVIOUS
<1>. USE DEF Inv, files, catalog, memory
<1>. conf \in SUBSET Places
  BY DEF TypeOK
<1>1. CASE DumpCurrentCatalog
  <2>. USE <1>1 DEF DumpCurrentCatalog
  <2>1. TypeOK'
    BY DefinitionFacts DEF TypeOK
  <2>2. LeftInv' /\ RegisteredInv' /\ StraysInv'
    BY DEF LeftInv, RegisteredInv, StraysInv
  <2>3. UnknownInv'
    BY DEF UnknownInv
  <2>4. KnownHealthIsRecorded'
    BY DEF KnownHealthIsRecorded
  <2>. QED BY <2>1, <2>2, <2>3, <2>4
<1>2. CASE DumpRefused
  BY <1>2 DEF DumpRefused, TypeOK, LeftInv, RegisteredInv, StraysInv,
              UnknownInv, KnownHealthIsRecorded
<1>. QED BY <1>1, <1>2

LEMMA RegisterNodeStep ==
    ASSUME Inv, NEW n \in Nodes, RegisterNode(n)
    PROVE  Inv'
<1>. USE DEF Inv, RegisterNode, files
<1>1. TypeOK'
  BY DEF TypeOK
<1>2. LeftInv' /\ RegisteredInv' /\ StraysInv'
  BY DEF LeftInv, RegisteredInv, StraysInv
<1>3. UnknownInv' /\ KnownHealthIsRecorded'
  BY DEF UnknownInv, KnownHealthIsRecorded
<1>. QED BY <1>1, <1>2, <1>3

LEMMA PhaseStep ==
    Inv /\ (NodesRegistered \/ ServicesRegistered \/ ProxiesRegistered
              \/ InitialSyncDone) => Inv'
<1>. SUFFICES ASSUME Inv,
                     \/ NodesRegistered \/ ServicesRegistered
                     \/ ProxiesRegistered \/ InitialSyncDone
              PROVE  Inv'
  OBVIOUS
<1>. USE DEF Inv, files, catalog
<1>. conf \in SUBSET Places
  BY DEF TypeOK
<1>0. /\ NodesOf(conf) \subseteq Nodes
      /\ EntriesOf(conf) \subseteq Entries
      /\ EntriesOf(conf) = ServicesOf(conf) \cup ProxiesOf(conf)
      /\ \A x \in EntriesOf(conf) : x.node \in NodesOf(conf)
  BY DefinitionFacts
<1>1. CASE NodesRegistered
  BY <1>0, <1>1 DEF NodesRegistered, TypeOK, LeftInv, RegisteredInv, StraysInv,
                    UnknownInv, KnownHealthIsRecorded
<1>2. CASE ServicesRegistered
  BY <1>0, <1>2 DEF ServicesRegistered, TypeOK, LeftInv, RegisteredInv,
                    StraysInv, UnknownInv, KnownHealthIsRecorded
<1>3. CASE ProxiesRegistered
  <2>. USE <1>3 DEF ProxiesRegistered
  <2>1. TypeOK'
    BY DEF TypeOK
  <2>2. LeftInv' /\ RegisteredInv'
    BY DEF LeftInv, RegisteredInv
  <2>3. StraysInv'
    <3>1. nodes \subseteq NodesOf(conf) \cup nodesLeft'
      BY DEF StraysInv
    <3>2. ASSUME NEW x \in entries
          PROVE  x \in EntriesOf(conf) \/ x \in left' \/ x.node \in nodesLeft'
      BY <3>2 DEF StraysInv
    <3>. QED BY <3>1, <3>2 DEF StraysInv
  <2>4. UnknownInv' /\ KnownHealthIsRecorded'
    BY DEF UnknownInv, KnownHealthIsRecorded
  <2>. QED BY <2>1, <2>2, <2>3, <2>4
<1>4. CASE InitialSyncDone
  <2>. USE <1>4 DEF InitialSyncDone
  <2>1. TypeOK'
    BY <1>0 DEF TypeOK
  <2>2. LeftInv'
    BY IdleFacts DEF LeftInv
  <2>3. RegisteredInv' /\ StraysInv'
    BY DEF RegisteredInv, StraysInv
  <2>4. UnknownInv' /\ KnownHealthIsRecorded'
    BY DEF UnknownInv, KnownHealthIsRecorded
  <2>. QED BY <2>1, <2>2, <2>3, <2>4
<1>. QED BY <1>1, <1>2, <1>3, <1>4

LEMMA RegisterServiceStep ==
    ASSUME Inv, NEW x \in Entries, RegisterService(x)
    PROVE  Inv'
<1>. USE DEF Inv, RegisterService, Register, files
<1>. conf \in SUBSET Places
  BY DEF TypeOK
<1>0. /\ EntriesOf(conf) = ServicesOf(conf) \cup ProxiesOf(conf)
      /\ \A y \in EntriesOf(conf) : y.node \in NodesOf(conf)
  BY DefinitionFacts
<1>1. TypeOK'
  <2>1. Place(x) \in Places /\ x.kind \in {"app", "proxy"}
    BY PlaceFacts DEF Entries
  <2>2. checks' \in [Places -> [of : {"none", "app", "proxy"}, status : Statuses]]
    BY <2>1 DEF TypeOK, Check, Statuses
  <2>. QED BY <2>2 DEF TypeOK
<1>2. LeftInv' /\ RegisteredInv'
  BY DEF LeftInv, RegisteredInv
<1>3. StraysInv'
  <2>1. x \in EntriesOf(conf)
    BY <1>0 DEF LeftInv
  <2>2. x.node \in nodes
    BY <1>0, <2>1 DEF RegisteredInv
  <2>. QED BY <2>1, <2>2 DEF StraysInv
<1>4. UnknownInv'
  BY DEF UnknownInv
<1>5. KnownHealthIsRecorded'
  <2>1. last' = Unknown /\ conf' \subseteq Places
    BY DEF UnknownInv, TypeOK
  <2>. QED BY <2>1 DEF KnownHealthIsRecorded, Unknown
<1>. QED BY <1>1, <1>2, <1>3, <1>4, <1>5

LEMMA DeregisterStep ==
    ASSUME Inv,
           \/ \E n \in Nodes : DeregisterNode(n)
           \/ \E x \in Entries : DeregisterService(x)
    PROVE  Inv'
<1>. USE DEF Inv, files
<1>. conf \in SUBSET Places
  BY DEF TypeOK
<1>0. /\ EntriesOf(conf) = ServicesOf(conf) \cup ProxiesOf(conf)
      /\ \A y \in EntriesOf(conf) : y.node \in NodesOf(conf)
  BY DefinitionFacts
<1>1. ASSUME NEW n \in Nodes, DeregisterNode(n) PROVE Inv'
  <2>. USE <1>1 DEF DeregisterNode
  <2>1. TypeOK'
    <3>1. checks' \in [Places -> [of : {"none", "app", "proxy"}, status : Statuses]]
      BY DEF TypeOK, NoCheck, Check, Statuses
    <3>. QED BY <3>1 DEF TypeOK
  <2>2. LeftInv'
    BY DEF LeftInv
  <2>3. RegisteredInv'
    <3>1. n \notin NodesOf(conf)
      BY DEF LeftInv
    <3>2. NodesOf(conf) \subseteq nodes' /\ EntriesOf(conf) \subseteq entries'
      BY <1>0, <3>1 DEF RegisteredInv
    <3>. QED BY <1>0, <3>2 DEF RegisteredInv
  <2>4. StraysInv'
    BY DEF StraysInv
  <2>5. UnknownInv'
    BY DEF UnknownInv
  <2>6. KnownHealthIsRecorded'
    <3>1. last' = Unknown /\ conf' \subseteq Places
      BY DEF UnknownInv, TypeOK
    <3>. QED BY <3>1 DEF KnownHealthIsRecorded, Unknown
  <2>. QED BY <2>1, <2>2, <2>3, <2>4, <2>5, <2>6
<1>2. ASSUME NEW x \in Entries, DeregisterService(x) PROVE Inv'
  <2>. USE <1>2 DEF DeregisterService
  <2>1. TypeOK'
    <3>1. checks' \in [Places -> [of : {"none", "app", "proxy"}, status : Statuses]]
      BY PlaceFacts DEF TypeOK, NoCheck, Check, Statuses
    <3>. QED BY <3>1 DEF TypeOK
  <2>2. LeftInv'
    BY DEF LeftInv
  <2>3. RegisteredInv'
    <3>1. x \notin EntriesOf(conf)
      BY DEF LeftInv
    <3>2. EntriesOf(conf) \subseteq entries'
      BY <1>0, <3>1 DEF RegisteredInv
    <3>. QED BY <1>0, <3>2 DEF RegisteredInv
  <2>4. StraysInv'
    BY DEF StraysInv
  <2>5. UnknownInv'
    BY DEF UnknownInv
  <2>6. KnownHealthIsRecorded'
    <3>1. last' = Unknown /\ conf' \subseteq Places
      BY DEF UnknownInv, TypeOK
    <3>. QED BY <3>1 DEF KnownHealthIsRecorded, Unknown
  <2>. QED BY <2>1, <2>2, <2>3, <2>4, <2>5, <2>6
<1>. QED BY <1>1, <1>2

LEMMA InitialSyncStep == Inv /\ InitialSync => Inv'
BY DumpStep, RegisterNodeStep, DeregisterStep, RegisterServiceStep, PhaseStep
DEF InitialSync

-----------------------------------------------------------------------------
(* The health rounds.                                                      *)

(* A status write for a place of the definition leaves the catalog as      *)
(* large as it was: the app is registered already.                         *)
LEMMA StatusWrite ==
    ASSUME Inv, pc = "health", NEW p \in DOMAIN pending,
           Register(Entry(p, "app"), pending[p])
    PROVE  /\ p \in conf /\ p \in Places /\ pending[p] \in Statuses
           /\ entries' = entries
           /\ checks' = [checks EXCEPT ![p] = Check("app", pending[p])]
           /\ checks' \in [Places -> [of : {"none", "app", "proxy"},
                                      status : Statuses]]
<1>. conf \in SUBSET Places
  BY DEF Inv, TypeOK
<1>1. p \in conf /\ p \in Places
  BY DEF Inv, LeftInv
<1>2. pending[p] \in Statuses
  <2>1. PICK q \in Places : pending \in [{q} -> Statuses]
    BY IdleFacts DEF Inv, TypeOK
  <2>. QED BY <2>1
<1>3. Entry(p, "app") \in entries
  BY <1>1, DefinitionFacts DEF Inv, RegisteredInv
<1>4. checks' = [checks EXCEPT ![p] = Check("app", pending[p])]
  <2>1. Place(Entry(p, "app")) = p /\ Entry(p, "app").kind = "app"
    BY <1>1, PlaceFacts DEF Entry
  <2>. QED BY <2>1 DEF Register
<1>5. checks' \in [Places -> [of : {"none", "app", "proxy"}, status : Statuses]]
  BY <1>1, <1>2, <1>4 DEF Inv, TypeOK, Check
<1>. QED BY <1>1, <1>2, <1>3, <1>4, <1>5 DEF Register

LEMMA CheckTCPStep ==
    ASSUME Inv, NEW x \in Entries, CheckTCP(x)
    PROVE  Inv'
<1>. USE DEF Inv, CheckTCP, files, catalog
<1>. conf \in SUBSET Places
  BY DEF TypeOK
<1>1. Place(x) \in conf /\ Place(x) \in Places
  BY DefinitionFacts DEF LeftInv
<1>2. /\ pending' = Idle \/ pending' \in [{Place(x)} -> Statuses]
      /\ DOMAIN pending' \subseteq conf
  BY <1>1, IdleFacts DEF Observed, Statuses
<1>3. TypeOK'
  BY <1>1, <1>2 DEF TypeOK
<1>4. LeftInv'
  BY <1>2 DEF LeftInv
<1>5. RegisteredInv' /\ StraysInv' /\ UnknownInv' /\ KnownHealthIsRecorded'
  BY DEF RegisteredInv, StraysInv, UnknownInv, KnownHealthIsRecorded
<1>. QED BY <1>3, <1>4, <1>5

LEMMA SyncHealthStep == Inv /\ SyncHealth => Inv'
<1>. SUFFICES ASSUME Inv, SyncHealth PROVE Inv'
  OBVIOUS
<1>. USE DEF SyncHealth, files
<1>1. PICK p \in DOMAIN pending :
          /\ Register(Entry(p, "app"), pending[p])
          /\ last' = [last EXCEPT ![p] = pending[p]]
  OBVIOUS
<1>2. /\ p \in conf /\ p \in Places /\ pending[p] \in Statuses
      /\ entries' = entries
      /\ checks' = [checks EXCEPT ![p] = Check("app", pending[p])]
      /\ checks' \in [Places -> [of : {"none", "app", "proxy"},
                                 status : Statuses]]
  BY <1>1, StatusWrite
<1>3. TypeOK'
  BY <1>1, <1>2 DEF Inv, TypeOK
<1>4. LeftInv' /\ RegisteredInv' /\ StraysInv' /\ UnknownInv'
  BY <1>2, IdleFacts DEF Inv, LeftInv, RegisteredInv, StraysInv, UnknownInv
<1>5. KnownHealthIsRecorded'
  <2>. SUFFICES ASSUME ~LostReplies, NEW q \in conf, last'[q] # "unknown"
                PROVE  checks'[q] = Check("app", last'[q])
    BY DEF KnownHealthIsRecorded
  <2>1. q \in Places /\ last \in [Places -> Statuses \cup {"unknown"}]
        /\ DOMAIN checks = Places
    BY DEF Inv, TypeOK
  <2>2. CASE q = p
    BY <1>1, <1>2, <2>1, <2>2
  <2>3. CASE q # p
    BY <1>1, <1>2, <2>1, <2>3 DEF Inv, KnownHealthIsRecorded
  <2>. QED BY <2>2, <2>3
<1>. QED BY <1>3, <1>4, <1>5 DEF Inv

LEMMA SyncHealthLostStep == Inv /\ SyncHealthLost => Inv'
<1>. SUFFICES ASSUME Inv, SyncHealthLost PROVE Inv'
  OBVIOUS
<1>. USE DEF SyncHealthLost, files
<1>1. PICK p \in DOMAIN pending : Register(Entry(p, "app"), pending[p])
  OBVIOUS
<1>2. /\ p \in conf /\ p \in Places /\ pending[p] \in Statuses
      /\ entries' = entries
      /\ checks' \in [Places -> [of : {"none", "app", "proxy"},
                                 status : Statuses]]
  BY <1>1, StatusWrite
<1>3. TypeOK'
  BY <1>2 DEF Inv, TypeOK, Spend
<1>4. LeftInv' /\ RegisteredInv' /\ StraysInv' /\ UnknownInv'
  BY <1>2, IdleFacts DEF Inv, LeftInv, RegisteredInv, StraysInv, UnknownInv
<1>5. KnownHealthIsRecorded'
  BY DEF KnownHealthIsRecorded
<1>. QED BY <1>3, <1>4, <1>5 DEF Inv

LEMMA SyncHealthFailsStep == Inv /\ SyncHealthFails => Inv'
<1>. SUFFICES ASSUME Inv, SyncHealthFails PROVE Inv'
  OBVIOUS
<1>. USE DEF Inv, SyncHealthFails, files, catalog
<1>1. TypeOK'
  BY DEF TypeOK, Spend
<1>2. LeftInv'
  BY IdleFacts DEF LeftInv
<1>3. RegisteredInv' /\ StraysInv' /\ UnknownInv' /\ KnownHealthIsRecorded'
  BY DEF RegisteredInv, StraysInv, UnknownInv, KnownHealthIsRecorded
<1>. QED BY <1>1, <1>2, <1>3

LEMMA RoundDoneStep == Inv /\ RoundDone => Inv'
<1>. SUFFICES ASSUME Inv, RoundDone PROVE Inv'
  OBVIOUS
<1>. USE DEF Inv, RoundDone, files, catalog
<1>1. ServicesOf(conf) \subseteq Entries
  BY DefinitionFacts DEF TypeOK
<1>2. TypeOK' /\ LeftInv'
  BY <1>1 DEF TypeOK, LeftInv
<1>3. RegisteredInv' /\ StraysInv' /\ UnknownInv' /\ KnownHealthIsRecorded'
  BY DEF RegisteredInv, StraysInv, UnknownInv, KnownHealthIsRecorded
<1>. QED BY <1>2, <1>3

-----------------------------------------------------------------------------
(* The environment.                                                        *)

LEMMA ExitStep == Inv /\ (Crash \/ ReplaceContainer) => Inv'
<1>. SUFFICES ASSUME Inv, Crash \/ ReplaceContainer PROVE Inv'
  OBVIOUS
<1>. USE DEF Inv, Crash, ReplaceContainer, Exit, files, catalog
<1>1. TypeOK'
  BY DEF TypeOK, Spend
<1>2. LeftInv' /\ RegisteredInv' /\ StraysInv'
  BY DEF LeftInv, RegisteredInv, StraysInv
<1>3. UnknownInv' /\ KnownHealthIsRecorded'
  BY DEF UnknownInv, KnownHealthIsRecorded
<1>. QED BY <1>1, <1>2, <1>3

LEMMA SpendType ==
    ASSUME TypeOK, NEW b,
           NEW what \in {"crashes", "faults", "flips", "edits"}, Spend(what, b)
    PROVE  spent' \in [{"crashes", "faults", "flips", "edits"} -> Nat]
BY DEF TypeOK, Spend

(* Steps that change nothing the invariant relates, only files and ports.  *)
LEMMA OutsideStep ==
    ASSUME Inv,
           \/ \E d \in Definitions : EditDefinition(d)
           \/ SaveMasterToken
           \/ \E p \in Places : Flip(p)
           \/ UNCHANGED vars
    PROVE  Inv'
<1>. USE DEF Inv, vars, memory, files, catalog
<1>1. TypeOK'
  <2>1. CASE \E d \in Definitions : EditDefinition(d)
    <3>1. PICK d \in Definitions : EditDefinition(d)
      BY <2>1
    <3>2. file' \in SUBSET Places
      BY <3>1, DefinitionsAssumption DEF EditDefinition
    <3>3. spent' \in [{"crashes", "faults", "flips", "edits"} -> Nat]
      BY <3>1, SpendType DEF EditDefinition
    <3>. QED BY <3>1, <3>2, <3>3 DEF EditDefinition, TypeOK
  <2>2. CASE SaveMasterToken
    BY <2>2 DEF SaveMasterToken, TypeOK
  <2>3. CASE \E p \in Places : Flip(p)
    <3>1. PICK p \in Places : Flip(p)
      BY <2>3
    <3>2. open' \subseteq Places
      BY <3>1 DEF Flip, TypeOK
    <3>3. spent' \in [{"crashes", "faults", "flips", "edits"} -> Nat]
      BY <3>1, SpendType DEF Flip
    <3>. QED BY <3>1, <3>2, <3>3 DEF Flip, TypeOK
  <2>4. CASE UNCHANGED vars
    BY <2>4 DEF TypeOK
  <2>. QED BY <2>1, <2>2, <2>3, <2>4
<1>2. UNCHANGED <<pc, memory, catalog>>
  BY DEF EditDefinition, SaveMasterToken, Flip
<1>3. LeftInv' /\ RegisteredInv' /\ StraysInv' /\ UnknownInv'
      /\ KnownHealthIsRecorded'
  BY <1>2 DEF LeftInv, RegisteredInv, StraysInv, UnknownInv,
              KnownHealthIsRecorded
<1>. QED BY <1>1, <1>3

-----------------------------------------------------------------------------
(* The invariant is preserved by every step.                               *)
THEOREM InvInductive == Inv /\ [Next]_vars => Inv'
<1>1. Inv /\ Daemon => Inv'
  BY StartStep, InitialSyncStep, CheckTCPStep, SyncHealthStep, RoundDoneStep
  DEF Daemon, DetectAndSyncHealth
<1>2. Inv /\ Environment => Inv'
  BY SyncHealthFailsStep, SyncHealthLostStep, ExitStep, OutsideStep
  DEF Environment
<1>3. Inv /\ UNCHANGED vars => Inv'
  BY OutsideStep
<1>. QED BY <1>1, <1>2, <1>3 DEF Next

THEOREM InvHolds == Spec => []Inv
BY InitInv, InvInductive, PTL DEF Spec

(* Every variable has its type in every state of every behaviour.          *)
THEOREM CatalogTypeCorrect == Spec => []TypeOK
<1>1. Inv => TypeOK
  BY DEF Inv
<1>. QED BY <1>1, InvHolds, PTL

(* After an initial sync the virtual catalog is the definition, whatever   *)
(* was registered before (initialSync).                                    *)
THEOREM CatalogIsSynced == Spec => []SyncedCatalog
<1>1. Inv => SyncedCatalog
  <2>. SUFFICES ASSUME Inv, pc = "health"
                PROVE  nodes = NodesOf(conf) /\ entries = EntriesOf(conf)
    BY DEF SyncedCatalog
  <2>1. EntriesOf(conf) = ServicesOf(conf) \cup ProxiesOf(conf)
    BY DefinitionFacts DEF Inv, TypeOK
  <2>. QED BY <2>1 DEF Inv, RegisteredInv, StraysInv
<1>. QED BY <1>1, InvHolds, PTL

(* Without lost replies the daemon's memory of a status is the catalog's   *)
(* (detectAndSyncHealthOnce).                                              *)
THEOREM KnownHealthStaysRecorded == Spec => []KnownHealthIsRecorded
<1>1. Inv => KnownHealthIsRecorded
  BY DEF Inv
<1>. QED BY <1>1, InvHolds, PTL

(* No step takes a declared service out of the catalog (initialSync).      *)
THEOREM DeclaredServicesStay == Spec => DeclaredStays
<1>1. Inv /\ [Next]_vars =>
        [\A x \in entries \ entries' : x \notin EntriesOf(conf)]_vars
  <2>. SUFFICES ASSUME Inv, Next, NEW x \in entries \ entries'
                PROVE  x \notin EntriesOf(conf)
    OBVIOUS
  <2>1. CASE \E n \in Nodes : DeregisterNode(n)
    <3>1. PICK n \in Nodes : DeregisterNode(n)
      BY <2>1
    <3>2. x.node = n /\ n \notin NodesOf(conf)
      BY <3>1 DEF DeregisterNode, Inv, LeftInv
    <3>. QED BY <3>2, DefinitionFacts DEF Inv, TypeOK
  <2>2. CASE \E y \in Entries : DeregisterService(y)
    BY <2>2 DEF DeregisterService, Inv, LeftInv
  <2>3. CASE ~(\E n \in Nodes : DeregisterNode(n))
             /\ ~(\E y \in Entries : DeregisterService(y))
    <3>1. entries \subseteq entries'
      BY <2>3 DEF Next, Daemon, Environment, InitialSync, DetectAndSyncHealth,
         Start, DumpCurrentCatalog, DumpRefused, RegisterNode, RegisterService,
         Register, NodesRegistered, ServicesRegistered, ProxiesRegistered,
         InitialSyncDone, CheckTCP, SyncHealth, RoundDone, SyncHealthFails,
         SyncHealthLost, Crash, EditDefinition, ReplaceContainer,
         SaveMasterToken, Flip, Exit, catalog
    <3>. QED BY <3>1
  <2>. QED BY <2>1, <2>2, <2>3
<1>. QED BY <1>1, InvHolds, PTL DEF Spec, DeclaredStays

-----------------------------------------------------------------------------
(* CatalogSync implements Reconcile.                                       *)

LEMMA PhaseOfDaemon ==
    /\ pc = "exited" => SyncPhase = "idle" /\ Expected = {}
    /\ pc = "dump" => SyncPhase = "prepare"
    /\ pc \in {"nodes", "services", "proxies", "strays"} => SyncPhase = "sync"
    /\ pc = "health" => SyncPhase = "settled"
    /\ pc # "exited" => Expected = NodesOf(conf) \cup EntriesOf(conf)
BY DEF SyncPhase, Expected

(* A step that leaves the daemon in its phase with its definition, and the *)
(* catalog as it is, is none of Reconcile's.                               *)
LEMMA CatalogStutters ==
    ASSUME UNCHANGED <<pc, conf, nodes, entries>>
    PROVE  UNCHANGED Reconciliation!vars
BY DEF Reconciliation!vars, SyncPhase, Expected

LEMMA DaemonReconciles ==
    ASSUME Inv, Daemon
    PROVE  Reconciliation!Next \/ UNCHANGED Reconciliation!vars
<1>. conf \in SUBSET Places
  BY DEF Inv, TypeOK
<1>0. /\ EntriesOf(conf) = ServicesOf(conf) \cup ProxiesOf(conf)
      /\ \A x \in EntriesOf(conf) : x.node \in NodesOf(conf)
  BY DefinitionFacts
<1>1. CASE Start
  <2>1. pc = "exited" /\ pc' = "dump" /\ UNCHANGED <<nodes, entries>>
    BY <1>1 DEF Start, catalog
  <2>2. Reconciliation!Begin
    BY <2>1, PhaseOfDaemon DEF Reconciliation!Begin, SyncPhase
  <2>. QED BY <2>2 DEF Reconciliation!Next
<1>2. CASE DumpCurrentCatalog
  <2>1. pc = "dump" /\ pc' = "nodes" /\ UNCHANGED <<conf, nodes, entries>>
    BY <1>2 DEF DumpCurrentCatalog, catalog
  <2>2. Reconciliation!BeginSync
    BY <2>1 DEF Reconciliation!BeginSync, SyncPhase, Expected
  <2>. QED BY <2>2 DEF Reconciliation!Next
<1>3. CASE DumpRefused
  <2>1. pc' = "exited" /\ UNCHANGED <<nodes, entries>>
    BY <1>3 DEF DumpRefused, catalog
  <2>2. Reconciliation!Stop
    BY <2>1 DEF Reconciliation!Stop, SyncPhase, Expected
  <2>. QED BY <2>2 DEF Reconciliation!Next
<1>4. ASSUME NEW n \in Nodes, RegisterNode(n) PROVE Reconciliation!Write
  <2>1. n \in Expected /\ SyncPhase = "sync"
    BY <1>4, PhaseOfDaemon DEF RegisterNode, Inv, LeftInv
  <2>2. UNCHANGED <<SyncPhase, Expected>>
    BY <1>4 DEF RegisterNode, SyncPhase, Expected
  <2>3. (nodes \cup entries)' = (nodes \cup entries) \cup {n}
    BY <1>4 DEF RegisterNode
  <2>. QED BY <2>1, <2>2, <2>3 DEF Reconciliation!Write
<1>5. ASSUME NEW x \in Entries, RegisterService(x) PROVE Reconciliation!Write
  <2>1. x \in Expected /\ SyncPhase = "sync"
    BY <1>0, <1>5, PhaseOfDaemon DEF RegisterService, Inv, LeftInv
  <2>2. UNCHANGED <<SyncPhase, Expected>>
    BY <1>5 DEF RegisterService, SyncPhase, Expected
  <2>3. (nodes \cup entries)' = (nodes \cup entries) \cup {x}
    BY <1>5 DEF RegisterService, Register
  <2>. QED BY <2>1, <2>2, <2>3 DEF Reconciliation!Write
<1>6. ASSUME NEW n \in Nodes, DeregisterNode(n) PROVE Reconciliation!Remove
  <2>1. n \notin NodesOf(conf) /\ pc = "strays"
    BY <1>6 DEF DeregisterNode, Inv, LeftInv
  <2>2. NodesOf(conf) \subseteq nodes' /\ EntriesOf(conf) \subseteq entries'
    BY <1>0, <1>6, <2>1 DEF DeregisterNode, Inv, RegisteredInv
  <2>3. nodes' \subseteq nodes /\ entries' \subseteq entries
    BY <1>6 DEF DeregisterNode
  <2>4. UNCHANGED <<SyncPhase, Expected>>
    BY <1>6 DEF DeregisterNode, SyncPhase, Expected
  <2>. QED BY <2>1, <2>2, <2>3, <2>4, PhaseOfDaemon DEF Reconciliation!Remove
<1>7. ASSUME NEW x \in Entries, DeregisterService(x) PROVE Reconciliation!Remove
  <2>1. x \notin EntriesOf(conf) /\ pc = "strays"
    BY <1>7 DEF DeregisterService, Inv, LeftInv
  <2>2. NodesOf(conf) \subseteq nodes' /\ EntriesOf(conf) \subseteq entries'
    BY <1>0, <1>7, <2>1 DEF DeregisterService, Inv, RegisteredInv
  <2>3. nodes' \subseteq nodes /\ entries' \subseteq entries
    BY <1>7 DEF DeregisterService
  <2>4. UNCHANGED <<SyncPhase, Expected>>
    BY <1>7 DEF DeregisterService, SyncPhase, Expected
  <2>. QED BY <2>1, <2>2, <2>3, <2>4, PhaseOfDaemon DEF Reconciliation!Remove
<1>8. ASSUME NodesRegistered \/ ServicesRegistered \/ ProxiesRegistered
      PROVE  UNCHANGED Reconciliation!vars
  BY <1>8 DEF NodesRegistered, ServicesRegistered, ProxiesRegistered, catalog,
     Reconciliation!vars, SyncPhase, Expected
<1>9. CASE InitialSyncDone
  <2>1. pc = "strays" /\ pc' = "health" /\ UNCHANGED <<conf, nodes, entries>>
    BY <1>9 DEF InitialSyncDone, catalog
  <2>2. /\ NodesOf(conf) \cup EntriesOf(conf) \subseteq nodes \cup entries
        /\ nodes \cup entries \subseteq NodesOf(conf) \cup EntriesOf(conf)
    BY <1>0, <1>9, <2>1 DEF InitialSyncDone, Inv, RegisteredInv, StraysInv
  <2>3. Reconciliation!Settle
    BY <2>1, <2>2 DEF Reconciliation!Settle, SyncPhase, Expected
  <2>. QED BY <2>3 DEF Reconciliation!Next
<1>10. ASSUME NEW x \in Entries, CheckTCP(x) PROVE UNCHANGED Reconciliation!vars
  BY <1>10, CatalogStutters DEF CheckTCP, catalog
<1>11. CASE SyncHealth
  <2>1. UNCHANGED <<pc, conf, nodes, entries>>
    BY <1>11, StatusWrite DEF SyncHealth, files
  <2>. QED BY <2>1, CatalogStutters
<1>12. CASE RoundDone
  BY <1>12, CatalogStutters DEF RoundDone, catalog
<1>. QED BY <1>1, <1>2, <1>3, <1>4, <1>5, <1>6, <1>7, <1>8, <1>9, <1>10, <1>11, <1>12
     DEF Daemon, InitialSync, DetectAndSyncHealth, Reconciliation!Next

LEMMA EnvironmentReconciles ==
    ASSUME Inv, Environment
    PROVE  Reconciliation!Next \/ UNCHANGED Reconciliation!vars
<1>1. CASE Crash \/ ReplaceContainer
  <2>1. pc' = "exited" /\ UNCHANGED <<nodes, entries>>
    BY <1>1 DEF Crash, ReplaceContainer, Exit, catalog
  <2>2. Reconciliation!Stop
    BY <2>1 DEF Reconciliation!Stop, SyncPhase, Expected
  <2>. QED BY <2>2 DEF Reconciliation!Next
<1>2. CASE SyncHealthLost
  <2>1. UNCHANGED <<pc, conf, nodes, entries>>
    BY <1>2, StatusWrite DEF SyncHealthLost, files
  <2>. QED BY <2>1, CatalogStutters
<1>3. ASSUME \/ SyncHealthFails \/ SaveMasterToken
             \/ \E d \in Definitions : EditDefinition(d)
             \/ \E p \in Places : Flip(p)
      PROVE  UNCHANGED <<pc, conf, nodes, entries>>
  BY <1>3 DEF SyncHealthFails, SaveMasterToken, EditDefinition, Flip, memory, catalog
<1>. QED BY <1>1, <1>2, <1>3, CatalogStutters DEF Environment

(* initialSync brings the catalog to the definition as Reconcile promises, *)
(* for any nodes, apps and definitions, wherever daemons are killed.       *)
THEOREM CatalogReconciles == Spec => ReconcileSpec
<1>1. Init => Reconciliation!Init
  BY DEF Init, Reconciliation!Init, SyncPhase, Expected
<1>2. Inv /\ [Next]_vars => [Reconciliation!Next]_(Reconciliation!vars)
  <2>1. CASE UNCHANGED vars
    BY <2>1, CatalogStutters DEF vars, memory, catalog
  <2>. QED BY <2>1, DaemonReconciles, EnvironmentReconciles DEF Next
<1>. QED BY <1>1, <1>2, InvHolds, PTL DEF Spec, ReconcileSpec, Reconciliation!Spec
=============================================================================

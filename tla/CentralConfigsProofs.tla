----------------------- MODULE CentralConfigsProofs ------------------------
(* Proofs about Tenancy and CentralConfigs, for any files and bounds.      *)
EXTENDS CentralConfigs, TLAPS

(* Tenants are pairs; only the default partition has namespaces but its    *)
(* default one.                                                            *)
SpacesInv ==
    /\ \A s \in spaces : s = <<s[1], s[2]>> /\ (s[1] = "default" \/ s[2] = "default")
    /\ <<"default", "default">> \in spaces
    /\ \A p : p \in parts <=> <<p, "default">> \in spaces
    /\ policies \subseteq parts

(* The process, and the configuration it has loaded.                       *)
ProcessInv ==
    /\ config \in Files
    /\ pc \in Ended \cup {"partitions", "policy", "namespaces", "list", "set"}
    /\ conf = None <=> pc \in {"idle", "failed", "rejected"}
    /\ conf # None => conf \in Files
    /\ pc \in {"partitions", "policy", "namespaces"} => conf.enterprise

Named(f, p) == \E i \in DOMAIN f.partitions : f.partitions[i].name = p

Meant(f, ns) ==
    \E i \in DOMAIN f.partitions : \E j \in DOMAIN f.partitions[i].namespaces :
        f.partitions[i].namespaces[j] = ns

(* createPartitions, in the middle and at its end.                         *)
PartitionsInv ==
    /\ pc = "partitions" =>
          /\ next \in 1..(Len(conf.partitions) + 1)
          /\ listed \subseteq parts
          /\ \A i \in 1..(next - 1) :
                conf.partitions[i].name \in parts \ listed
          /\ \A p \in parts : p = "default" \/ p \in listed \/ Named(conf, p)
    /\ pc \in {"policy", "namespaces"} =>
          /\ \A p : Named(conf, p) => p \in parts
          /\ \A p \in parts : p = "default" \/ Named(conf, p)

(* createNamespaces: what is settled once the default partition has had    *)
(* its turn, and what is while it has.                                     *)
Settled(f, i) ==
    /\ \A j \in DOMAIN f.partitions[i].namespaces :
          <<"default", f.partitions[i].namespaces[j]>> \in spaces
    /\ \A s \in spaces : s[1] = "default" => s[2] = "default" \/ Meant(f, s[2])

NamespacesInv ==
    /\ pc \in {"policy", "namespaces"} =>
          /\ at \in 1..(Len(conf.partitions) + 1)
          /\ \A i \in 1..(at - 1) :
                conf.partitions[i].name = "default" => Settled(conf, i)
    /\ pc = "namespaces" =>
          /\ at \in DOMAIN conf.partitions
          /\ next \in 1..(Len(Current.namespaces) + 1)
          /\ Current.name # "default" => listed \subseteq {"default"}
          /\ Current.name = "default" =>
                /\ \A x \in listed : <<"default", x>> \in spaces
                /\ \A j \in 1..(next - 1) :
                      /\ <<"default", Current.namespaces[j]>> \in spaces
                      /\ Current.namespaces[j] \notin listed
                /\ \A s \in spaces : s[1] = "default" =>
                      s[2] \in listed \/ s[2] = "default" \/ Meant(conf, s[2])

ReadyInv == pc \in {"list", "set", "done"} => TenancyReady(conf)

TenancyInv ==
    SpacesInv /\ ProcessInv /\ PartitionsInv /\ NamespacesInv /\ ReadyInv

-----------------------------------------------------------------------------
(* Files.                                                                  *)

LEMMA FileFacts ==
    ASSUME NEW f \in Files
    PROVE  /\ f # None /\ f.enterprise \in BOOLEAN
           /\ Len(f.partitions) \in Nat /\ DOMAIN f.partitions = 1..Len(f.partitions)
           /\ \A i \in DOMAIN f.partitions :
                /\ Len(f.partitions[i].namespaces) \in Nat
                /\ DOMAIN f.partitions[i].namespaces
                     = 1..Len(f.partitions[i].namespaces)
           /\ \A i, j \in DOMAIN f.partitions :
                f.partitions[i].name = f.partitions[j].name => i = j
           /\ Len(f.entries) \in Nat /\ DOMAIN f.entries = 1..Len(f.entries)
  BY NoneIsNoFile, PartitionsAssumption, EntriesAssumption DEF IsList

LEMMA TenantsAre ==
    ASSUME NEW f \in Files, NEW t
    PROVE  t \in Tenants(f) <=>
              \/ t = <<"default", "default">>
              \/ /\ f.enterprise
                 /\ \/ \E p : Named(f, p) /\ t = <<p, "default">>
                    \/ \E i \in DOMAIN f.partitions :
                          \E j \in DOMAIN f.partitions[i].namespaces :
                             /\ f.partitions[i].name = "default"
                             /\ t = <<"default", f.partitions[i].namespaces[j]>>
  BY DEF Tenants, Parted, NamespacesOf, Named

LEMMA AstrayAre ==
    ASSUME NEW f \in Files, NEW ns
    PROVE  /\ Named(f, "default") =>
                (Meant(f, ns) => <<"default", ns>> \in Astray(f))
           /\ ~Named(f, "default") =>
                (<<"default", ns>> \in spaces => <<"default", ns>> \in Astray(f))
  <1>1. Named(f, "default") <=> \E ap \in Parted(f) : ap.name = "default"
    BY DEF Named, Parted
  <1>2. CASE Named(f, "default")
    <2>1. Astray(f) = {<<"default", x>> : x \in UNION {NamespacesOf(ap) : ap \in Parted(f)}}
      BY <1>1, <1>2 DEF Astray
    <2>2. Meant(f, ns) => ns \in UNION {NamespacesOf(ap) : ap \in Parted(f)}
      BY DEF Meant, NamespacesOf, Parted
    <2> QED
      BY <1>2, <2>1, <2>2
  <1>3. CASE ~Named(f, "default")
    <2>1. Astray(f) = {s \in spaces : s[1] = "default"}
      BY <1>1, <1>3 DEF Astray
    <2> QED
      BY <1>3, <2>1
  <1> QED
    BY <1>2, <1>3

(* A change of the tenants that is not one of the spaces.                  *)
LEMMA ReadyKept ==
    ASSUME NEW f, TenancyReady(f), spaces' = spaces
    PROVE  TenancyReady(f)'
  BY DEF TenancyReady, Tenants, Astray, Parted, NamespacesOf

-----------------------------------------------------------------------------
(* The loops, one lemma for each step.                                     *)

LEMMA CreatePartitionKeeps ==
    ASSUME TenancyInv, CreatePartition
    PROVE  TenancyInv'
  <1> DEFINE name == conf.partitions[next].name
             missing == name \notin listed /\ name # "default"
  <1>1. /\ pc = "partitions" /\ next \in DOMAIN conf.partitions
        /\ parts'  = (IF missing THEN parts \cup {name} ELSE parts)
        /\ spaces' = (IF missing THEN spaces \cup {<<name, "default">>} ELSE spaces)
        /\ listed' = listed \ {name} /\ next' = next + 1
        /\ UNCHANGED <<config, pc, conf, at, policies>>
    BY DEF CreatePartition
  <1>2. conf \in Files
    BY <1>1 DEF TenancyInv, ProcessInv
  <1>3. /\ Len(conf.partitions) \in Nat
        /\ next \in 1..Len(conf.partitions)
    BY <1>1, <1>2, FileFacts
  <1>4. name \in parts'
    BY <1>1 DEF TenancyInv, SpacesInv, PartitionsInv
  <1>5. SpacesInv'
    <2>1. CASE missing
      BY <1>1, <2>1 DEF TenancyInv, SpacesInv
    <2>2. CASE ~missing
      BY <1>1, <2>2 DEF TenancyInv, SpacesInv
    <2> QED
      BY <2>1, <2>2
  <1>6. PartitionsInv'
    <2>1. \A i \in 1..next : conf.partitions[i].name \in parts' \ listed'
      <3> SUFFICES ASSUME NEW i \in 1..next
                   PROVE  conf.partitions[i].name \in parts' \ listed'
        OBVIOUS
      <3>1. CASE i = next
        BY <1>1, <1>4, <3>1
      <3>2. CASE i # next
        <4>1. i \in 1..(next - 1)
          BY <1>3, <3>2
        <4> QED
          BY <1>1, <4>1 DEF TenancyInv, PartitionsInv
      <3> QED
        BY <3>1, <3>2
    <2>2. Named(conf, name)
      BY <1>1 DEF Named
    <2>3. \A p \in parts' : p = "default" \/ p \in listed' \/ Named(conf, p)
      BY <1>1, <2>2 DEF TenancyInv, PartitionsInv
    <2>4. next' \in 1..(Len(conf.partitions) + 1) /\ next' - 1 = next
      BY <1>1, <1>3
    <2>5. listed' \subseteq parts'
      BY <1>1 DEF TenancyInv, PartitionsInv
    <2> QED
      BY <1>1, <2>1, <2>3, <2>4, <2>5 DEF PartitionsInv, Named
  <1>7. ProcessInv'
    BY <1>1 DEF TenancyInv, ProcessInv
  <1>8. NamespacesInv' /\ ReadyInv'
    BY <1>1 DEF NamespacesInv, ReadyInv
  <1> QED
    BY <1>5, <1>6, <1>7, <1>8 DEF TenancyInv

LEMMA DeletePartitionKeeps ==
    ASSUME TenancyInv, NEW p, DeletePartition(p)
    PROVE  TenancyInv' /\ ~Named(conf, p) /\ p # "default"
  <1>1. /\ pc = "partitions" /\ next \notin DOMAIN conf.partitions
        /\ p \in listed /\ p # "default"
        /\ parts' = parts \ {p} /\ policies' = policies \ {p}
        /\ spaces' = {s \in spaces : s[1] # p}
        /\ listed' = listed \ {p}
        /\ UNCHANGED <<config, pc, conf, at, next>>
    BY DEF DeletePartition, Unclaimed
  <1>2. conf \in Files
    BY <1>1 DEF TenancyInv, ProcessInv
  <1>3. DOMAIN conf.partitions = 1..(next - 1)
    BY <1>1, <1>2, FileFacts DEF TenancyInv, PartitionsInv
  <1>4. ~Named(conf, p)
    BY <1>1, <1>3 DEF TenancyInv, PartitionsInv, Named
  <1>5. SpacesInv'
    BY <1>1 DEF TenancyInv, SpacesInv
  <1>6. PartitionsInv'
    <2>1. \A i \in 1..(next - 1) : conf.partitions[i].name # p
      BY <1>3, <1>4 DEF Named
    <2> QED
      BY <1>1, <2>1 DEF TenancyInv, PartitionsInv, Named
  <1>7. ProcessInv'
    BY <1>1 DEF TenancyInv, ProcessInv
  <1>8. NamespacesInv' /\ ReadyInv'
    BY <1>1 DEF NamespacesInv, ReadyInv
  <1> QED
    BY <1>1, <1>4, <1>5, <1>6, <1>7, <1>8 DEF TenancyInv

LEMMA PartitionsCreatedKeeps ==
    ASSUME TenancyInv, PartitionsCreated
    PROVE  TenancyInv'
  <1>1. /\ pc = "partitions" /\ next \notin DOMAIN conf.partitions
        /\ listed \subseteq {"default"}
        /\ pc' = "policy" /\ at' = 1 /\ next' = 1 /\ listed' = {}
        /\ UNCHANGED <<config, conf, tenants>>
    BY DEF PartitionsCreated, Unclaimed
  <1>2. conf \in Files
    BY <1>1 DEF TenancyInv, ProcessInv
  <1>3. DOMAIN conf.partitions = 1..(next - 1) /\ Len(conf.partitions) \in Nat
    BY <1>1, <1>2, FileFacts DEF TenancyInv, PartitionsInv
  <1>4. SpacesInv'
    BY <1>1 DEF TenancyInv, SpacesInv, tenants
  <1>5. PartitionsInv'
    <2>1. \A p : Named(conf, p) => p \in parts
      BY <1>1, <1>3 DEF TenancyInv, PartitionsInv, Named
    <2>2. \A p \in parts : p = "default" \/ Named(conf, p)
      BY <1>1 DEF TenancyInv, PartitionsInv
    <2> QED
      BY <1>1, <2>1, <2>2 DEF PartitionsInv, Named, tenants
  <1>6. ProcessInv' /\ NamespacesInv' /\ ReadyInv'
    BY <1>1, <1>3 DEF TenancyInv, ProcessInv, NamespacesInv, ReadyInv
  <1> QED
    BY <1>4, <1>5, <1>6 DEF TenancyInv

LEMMA CreatePolicyKeeps ==
    ASSUME TenancyInv, CreatePolicy
    PROVE  TenancyInv'
  <1>1. /\ pc = "policy" /\ at \in DOMAIN conf.partitions
        /\ policies' = policies \cup {Current.name}
        /\ listed' = {s[2] : s \in {t \in spaces : t[1] = Current.name}}
        /\ pc' = "namespaces" /\ next' = 1
        /\ UNCHANGED <<config, conf, at, parts, spaces>>
    BY DEF CreatePolicy
  <1>2. conf \in Files
    BY <1>1 DEF TenancyInv, ProcessInv
  <1>3. Len(Current.namespaces) \in Nat
    BY <1>1, <1>2, FileFacts DEF Current
  <1>4. Named(conf, Current.name)
    BY <1>1 DEF Named, Current
  <1>5. \A x \in listed' : <<Current.name, x>> \in spaces
    BY <1>1 DEF TenancyInv, SpacesInv
  <1>6. \A s \in spaces : s[1] = Current.name => s[2] \in listed'
    BY <1>1
  <1>7. SpacesInv' /\ PartitionsInv' /\ ProcessInv' /\ ReadyInv'
    BY <1>1, <1>4
    DEF TenancyInv, SpacesInv, PartitionsInv, ProcessInv, ReadyInv, Named
  <1>8. NamespacesInv'
    <2>1. Current' = Current
      BY <1>1 DEF Current
    <2>2. Current.name # "default" => listed' \subseteq {"default"}
      BY <1>5 DEF TenancyInv, SpacesInv
    <2>3. \A i : Settled(conf, i)' <=> Settled(conf, i)
      BY <1>1 DEF Settled, Meant
    <2>4. next' \in 1..(Len(Current.namespaces) + 1) /\ 1..(next' - 1) = {}
      BY <1>1, <1>3
    <2> QED
      BY <1>1, <1>5, <1>6, <2>1, <2>2, <2>3, <2>4 DEF TenancyInv, NamespacesInv
  <1> QED
    BY <1>7, <1>8 DEF TenancyInv

LEMMA CreateNamespaceKeeps ==
    ASSUME TenancyInv, CreateNamespace
    PROVE  TenancyInv'
  <1> DEFINE ns == Current.namespaces[next]
  <1>1. /\ pc = "namespaces" /\ next \in DOMAIN Current.namespaces
        /\ spaces' = (IF ns \in listed THEN spaces ELSE spaces \cup {<<"default", ns>>})
        /\ listed' = listed \ {ns} /\ next' = next + 1
        /\ UNCHANGED <<config, pc, conf, at, parts, policies>>
    BY DEF CreateNamespace
  <1>2. conf \in Files /\ at \in DOMAIN conf.partitions
    BY <1>1 DEF TenancyInv, ProcessInv, NamespacesInv
  <1>3. Len(Current.namespaces) \in Nat /\ next \in 1..Len(Current.namespaces)
    BY <1>1, <1>2, FileFacts DEF Current
  <1>4. Meant(conf, ns) /\ Current' = Current
    BY <1>1, <1>2 DEF Meant, Current
  <1>5. /\ spaces \subseteq spaces'
        /\ \A s \in spaces' : s \in spaces \/ s = <<"default", ns>>
    BY <1>1
  <1>6. SpacesInv'
    <2>1. \A p : <<p, "default">> \in spaces' <=> <<p, "default">> \in spaces
      BY <1>5 DEF TenancyInv, SpacesInv
    <2> QED
      BY <1>1, <1>5, <2>1 DEF TenancyInv, SpacesInv
  <1>7. PartitionsInv' /\ ProcessInv' /\ ReadyInv'
    BY <1>1 DEF TenancyInv, PartitionsInv, ProcessInv, ReadyInv, Named
  <1>8. NamespacesInv'
    <2>1. \A i \in 1..(at - 1) : Settled(conf, i) => Settled(conf, i)'
      BY <1>1, <1>4, <1>5 DEF Settled, Meant
    <2>2. next' \in 1..(Len(Current.namespaces) + 1) /\ next' - 1 = next
      BY <1>1, <1>3
    <2>3. ASSUME Current.name = "default"
          PROVE  /\ \A x \in listed' : <<"default", x>> \in spaces'
                 /\ \A j \in 1..next : /\ <<"default", Current.namespaces[j]>> \in spaces'
                                       /\ Current.namespaces[j] \notin listed'
                 /\ \A s \in spaces' : s[1] = "default" =>
                       s[2] \in listed' \/ s[2] = "default" \/ Meant(conf, s[2])
      <3>1. \A x \in listed : <<"default", x>> \in spaces
        BY <1>1, <2>3 DEF TenancyInv, NamespacesInv
      <3>2. <<"default", ns>> \in spaces'
        BY <1>1, <3>1
      <3>3. ASSUME NEW j \in 1..next
            PROVE  /\ <<"default", Current.namespaces[j]>> \in spaces'
                   /\ Current.namespaces[j] \notin listed'
        <4>1. CASE j = next
          BY <1>1, <3>2, <4>1
        <4>2. CASE j # next
          <5>1. j \in 1..(next - 1)
            BY <1>3, <4>2
          <5> QED
            BY <1>1, <1>5, <2>3, <5>1 DEF TenancyInv, NamespacesInv
        <4> QED
          BY <4>1, <4>2
      <3>4. \A s \in spaces' : s[1] = "default" =>
               s[2] \in listed' \/ s[2] = "default" \/ Meant(conf, s[2])
        BY <1>1, <1>4, <1>5, <2>3 DEF TenancyInv, NamespacesInv
      <3> QED
        BY <1>1, <1>5, <3>1, <3>3, <3>4
    <2>4. \A x : Meant(conf, x)' <=> Meant(conf, x)
      BY <1>1 DEF Meant
    <2>5. Current.name # "default" => listed' \subseteq {"default"}
      BY <1>1 DEF TenancyInv, NamespacesInv
    <2>6. pc' = "namespaces" =>
            /\ at' \in DOMAIN conf'.partitions
            /\ next' \in 1..(Len(Current'.namespaces) + 1)
            /\ Current'.name # "default" => listed' \subseteq {"default"}
            /\ Current'.name = "default" =>
                  /\ \A x \in listed' : <<"default", x>> \in spaces'
                  /\ \A j \in 1..(next' - 1) :
                        /\ <<"default", Current'.namespaces[j]>> \in spaces'
                        /\ Current'.namespaces[j] \notin listed'
                  /\ \A s \in spaces' : s[1] = "default" =>
                        s[2] \in listed' \/ s[2] = "default" \/ Meant(conf, s[2])'
      BY <1>1, <1>2, <1>4, <2>2, <2>3, <2>4, <2>5
    <2>7. pc' \in {"policy", "namespaces"} =>
            /\ at' \in 1..(Len(conf'.partitions) + 1)
            /\ \A i \in 1..(at' - 1) :
                  conf'.partitions[i].name = "default" => Settled(conf, i)'
      BY <1>1, <2>1 DEF TenancyInv, NamespacesInv
    <2> QED
      BY <2>6, <2>7 DEF NamespacesInv
  <1> QED
    BY <1>6, <1>7, <1>8 DEF TenancyInv

(* A namespace that is deleted is not one the file declares: namespaces of *)
(* other partitions never are on the list.                                 *)
LEMMA DeleteNamespaceKeeps ==
    ASSUME TenancyInv, NEW ns, DeleteNamespace(ns)
    PROVE  TenancyInv' /\ <<"default", ns>> \notin Tenants(conf)
  <1>1. /\ pc = "namespaces" /\ next \notin DOMAIN Current.namespaces
        /\ ns \in listed /\ ns # "default"
        /\ spaces' = spaces \ {<<"default", ns>>}
        /\ listed' = listed \ {ns}
        /\ UNCHANGED <<config, pc, conf, at, next, parts, policies>>
    BY DEF DeleteNamespace, Unclaimed
  <1>2. conf \in Files /\ at \in DOMAIN conf.partitions
    BY <1>1 DEF TenancyInv, ProcessInv, NamespacesInv
  <1>3. Current.name = "default"
    BY <1>1 DEF TenancyInv, NamespacesInv
  <1>4. DOMAIN Current.namespaces = 1..(next - 1)
    BY <1>1, <1>2, FileFacts DEF TenancyInv, NamespacesInv, Current
  <1>5. \A i \in DOMAIN conf.partitions :
           conf.partitions[i].name = "default" => i = at
    BY <1>2, <1>3, FileFacts DEF Current
  <1>6. \A j \in DOMAIN Current.namespaces : Current.namespaces[j] # ns
    BY <1>1, <1>3, <1>4 DEF TenancyInv, NamespacesInv
  <1>7. <<"default", ns>> \notin Tenants(conf)
    BY <1>1, <1>2, <1>5, <1>6, TenantsAre DEF Current
  <1>8. SpacesInv'
    BY <1>1 DEF TenancyInv, SpacesInv
  <1>9. PartitionsInv' /\ ProcessInv' /\ ReadyInv'
    BY <1>1 DEF TenancyInv, PartitionsInv, ProcessInv, ReadyInv, Named
  <1>10. NamespacesInv'
    <2>1. \A i \in 1..(at - 1) : conf.partitions[i].name # "default"
      BY <1>2, <1>5, FileFacts
    <2>2. Current' = Current /\ \A x : Meant(conf, x)' <=> Meant(conf, x)
      BY <1>1 DEF Current, Meant
    <2>3. \A j \in 1..(next - 1) : Current.namespaces[j] # ns
      BY <1>4, <1>6
    <2>4. /\ \A x \in listed' : <<"default", x>> \in spaces'
          /\ \A j \in 1..(next - 1) :
                /\ <<"default", Current.namespaces[j]>> \in spaces'
                /\ Current.namespaces[j] \notin listed'
      BY <1>1, <1>3, <2>3 DEF TenancyInv, NamespacesInv
    <2>5. \A s \in spaces' : s[1] = "default" =>
             s[2] \in listed' \/ s[2] = "default" \/ Meant(conf, s[2])
      BY <1>1, <1>3 DEF TenancyInv, NamespacesInv, SpacesInv
    <2> QED
      BY <1>1, <1>3, <2>1, <2>2, <2>4, <2>5 DEF TenancyInv, NamespacesInv
  <1> QED
    BY <1>7, <1>8, <1>9, <1>10 DEF TenancyInv

LEMMA NamespacesCreatedKeeps ==
    ASSUME TenancyInv, NamespacesCreated
    PROVE  TenancyInv'
  <1>1. /\ pc = "namespaces" /\ next \notin DOMAIN Current.namespaces
        /\ listed \subseteq {"default"}
        /\ pc' = "policy" /\ at' = at + 1 /\ next' = 1 /\ listed' = {}
        /\ UNCHANGED <<config, conf, parts, spaces, policies>>
    BY DEF NamespacesCreated, Unclaimed, tenants
  <1>2. conf \in Files /\ at \in DOMAIN conf.partitions
    BY <1>1 DEF TenancyInv, ProcessInv, NamespacesInv
  <1>3. DOMAIN Current.namespaces = 1..(next - 1)
    BY <1>1, <1>2, FileFacts DEF TenancyInv, NamespacesInv, Current
  <1>4. Current.name = "default" => Settled(conf, at)
    BY <1>1, <1>3 DEF TenancyInv, NamespacesInv, Settled, Current
  <1>5. \A i : Settled(conf, i)' <=> Settled(conf, i)
    BY <1>1 DEF Settled, Meant
  <1>6. /\ at \in 1..Len(conf.partitions) /\ Len(conf.partitions) \in Nat
        /\ \A i \in 1..at : i = at \/ i \in 1..(at - 1)
    BY <1>2, FileFacts
  <1>7. \A i \in 1..at : conf.partitions[i].name = "default" => Settled(conf, i)
    BY <1>1, <1>4, <1>6 DEF TenancyInv, NamespacesInv, Current
  <1>8. NamespacesInv'
    <2>1. at' \in 1..(Len(conf.partitions) + 1) /\ at' - 1 = at
      BY <1>1, <1>6
    <2> QED
      BY <1>1, <1>5, <1>7, <2>1 DEF NamespacesInv
  <1>9. SpacesInv' /\ PartitionsInv' /\ ProcessInv' /\ ReadyInv'
    BY <1>1 DEF TenancyInv, SpacesInv, PartitionsInv, ProcessInv, ReadyInv, Named
  <1> QED
    BY <1>8, <1>9 DEF TenancyInv

(* When createNamespaces is through, the tenants are those of the file.    *)
LEMMA TenancyDoneKeeps ==
    ASSUME TenancyInv, TenancyDone
    PROVE  TenancyInv'
  <1>1. /\ pc = "policy" /\ at \notin DOMAIN conf.partitions
        /\ pc' = "list" /\ UNCHANGED <<config, conf, parts, spaces, policies>>
    BY DEF TenancyDone, Goto, tenants
  <1>2. conf \in Files /\ conf.enterprise
    BY <1>1 DEF TenancyInv, ProcessInv
  <1>3. DOMAIN conf.partitions = 1..(at - 1)
    BY <1>1, <1>2, FileFacts DEF TenancyInv, NamespacesInv
  <1>4. \A i \in DOMAIN conf.partitions :
           conf.partitions[i].name = "default" => Settled(conf, i)
    BY <1>1, <1>3 DEF TenancyInv, NamespacesInv
  <1>5. /\ \A p : Named(conf, p) => <<p, "default">> \in spaces
        /\ \A s \in spaces : s[1] = "default" \/ (Named(conf, s[1]) /\ s[2] = "default")
    BY <1>1 DEF TenancyInv, SpacesInv, PartitionsInv
  <1>6. Tenants(conf) \subseteq spaces
    <2> SUFFICES ASSUME NEW t \in Tenants(conf) PROVE t \in spaces
      OBVIOUS
    <2>1. CASE t = <<"default", "default">>
      BY <2>1 DEF TenancyInv, SpacesInv
    <2>2. CASE \E p : Named(conf, p) /\ t = <<p, "default">>
      BY <1>5, <2>2
    <2>3. CASE \E i \in DOMAIN conf.partitions :
                 \E j \in DOMAIN conf.partitions[i].namespaces :
                    /\ conf.partitions[i].name = "default"
                    /\ t = <<"default", conf.partitions[i].namespaces[j]>>
      BY <1>4, <2>3 DEF Settled
    <2> QED
      BY <1>2, <2>1, <2>2, <2>3, TenantsAre
  <1>7. \A s \in spaces : s \in Tenants(conf) \cup Astray(conf)
    <2> SUFFICES ASSUME NEW s \in spaces PROVE s \in Tenants(conf) \cup Astray(conf)
      OBVIOUS
    <2>1. s = <<s[1], s[2]>>
      BY DEF TenancyInv, SpacesInv
    <2>2. CASE s[1] # "default"
      BY <1>2, <1>5, <2>1, <2>2, TenantsAre
    <2>3. CASE s[1] = "default" /\ ~Named(conf, "default")
      BY <1>2, <2>1, <2>3, AstrayAre
    <2>4. CASE s[1] = "default" /\ Named(conf, "default")
      <3>1. s[2] = "default" \/ Meant(conf, s[2])
        BY <1>4, <2>4 DEF Named, Settled
      <3>2. CASE s[2] = "default"
        BY <1>2, <2>1, <2>4, <3>2, TenantsAre
      <3>3. CASE Meant(conf, s[2])
        BY <1>2, <2>1, <2>4, <3>3, AstrayAre
      <3> QED
        BY <3>1, <3>2, <3>3
    <2> QED
      BY <2>2, <2>3, <2>4
  <1>8. TenancyReady(conf)
    BY <1>6, <1>7 DEF TenancyReady
  <1>9. ReadyInv'
    <2>1. TenancyReady(conf)'
      BY <1>1, <1>8 DEF TenancyReady, Tenants, Astray, Parted, NamespacesOf
    <2> QED
      BY <2>1 DEF ReadyInv
  <1>10. SpacesInv' /\ PartitionsInv' /\ ProcessInv' /\ NamespacesInv'
    BY <1>1 DEF TenancyInv, SpacesInv, PartitionsInv, ProcessInv, NamespacesInv
  <1> QED
    BY <1>9, <1>10 DEF TenancyInv

LEMMA PolicyRefusedKeeps ==
    ASSUME TenancyInv, PolicyRefused
    PROVE  TenancyInv'
  <1>1. pc' = "failed" /\ conf' = None /\ UNCHANGED <<config, parts, spaces, policies>>
    BY DEF PolicyRefused, Stop, tenants
  <1> QED
    BY <1>1 DEF TenancyInv, SpacesInv, ProcessInv, PartitionsInv, NamespacesInv,
                ReadyInv, Ended

(* createPartitions and createNamespaces keep the invariants and what the  *)
(* file declares.                                                          *)
LEMMA TenancyStepKeeps ==
    ASSUME TenancyInv, TenancyStep
    PROVE  /\ TenancyInv'
           /\ \A t \in spaces : t \in Tenants(conf) => t \in spaces'
           /\ conf # None /\ conf \in Files
           /\ pc \notin Ended /\ pc # "set" /\ pc' # "set" /\ pc' # "done"
  <1>1. /\ pc \notin Ended /\ pc # "set" /\ pc' # "set" /\ pc' # "done"
    BY DEF TenancyStep, CreatePartition, DeletePartition, PartitionsCreated,
           CreatePolicy, PolicyRefused, CreateNamespace, DeleteNamespace,
           NamespacesCreated, TenancyDone, Stop, Goto, Ended
  <1>2. conf # None /\ conf \in Files
    BY <1>1 DEF TenancyInv, ProcessInv, Ended
  <1>3. ASSUME NEW p, DeletePartition(p)
        PROVE  \A t \in spaces : t \in Tenants(conf) => t \in spaces'
    <2>1. ~Named(conf, p) /\ p # "default" /\ spaces' = {s \in spaces : s[1] # p}
      BY <1>3, DeletePartitionKeeps DEF DeletePartition
    <2>2. \A t \in Tenants(conf) : t[1] # p
      BY <1>2, <2>1, TenantsAre
    <2> QED
      BY <2>1, <2>2
  <1>4. ASSUME NEW ns, DeleteNamespace(ns)
        PROVE  \A t \in spaces : t \in Tenants(conf) => t \in spaces'
    BY <1>4, DeleteNamespaceKeeps DEF DeleteNamespace
  <1>5. ASSUME \/ CreatePartition \/ PartitionsCreated \/ CreatePolicy \/ PolicyRefused
               \/ CreateNamespace \/ NamespacesCreated \/ TenancyDone
        PROVE  spaces \subseteq spaces'
    BY <1>5 DEF CreatePartition, PartitionsCreated, CreatePolicy, PolicyRefused,
                CreateNamespace, NamespacesCreated, TenancyDone, tenants
  <1>6. TenancyInv'
    BY CreatePartitionKeeps, DeletePartitionKeeps, PartitionsCreatedKeeps,
       CreatePolicyKeeps, PolicyRefusedKeeps, CreateNamespaceKeeps,
       DeleteNamespaceKeeps, NamespacesCreatedKeeps, TenancyDoneKeeps
    DEF TenancyStep
  <1> QED
    BY <1>1, <1>2, <1>3, <1>4, <1>5, <1>6 DEF TenancyStep

-----------------------------------------------------------------------------
(* Consul's entries.                                                       *)

OwnOf(k)    == [kind |-> "service-defaults", name |-> k.name, ns |-> k.ns, part |-> k.part]
GlobalOf(k) == [kind |-> "proxy-defaults", name |-> "global", ns |-> "default",
                part |-> k.part]

LEMMA ProtocolIs ==
    ASSUME NEW st, NEW k
    PROVE  Protocol(st, k) =
              IF OwnOf(k) \in DOMAIN st /\ st[OwnOf(k)].protocol # ""
                THEN st[OwnOf(k)].protocol
              ELSE IF GlobalOf(k) \in DOMAIN st /\ st[GlobalOf(k)].protocol # ""
                THEN st[GlobalOf(k)].protocol ELSE "tcp"
  BY DEF Protocol, OwnOf, GlobalOf

(* What is stored fits together and is in a tenant that exists.            *)
StoreInv ==
    /\ Consistent(stored)
    /\ \A k \in DOMAIN stored : <<k.part, k.ns>> \in spaces

(* The protocol of a service only depends on two entries.                  *)
LEMMA ProtocolSame ==
    ASSUME NEW st, NEW tt, NEW k,
           \A j \in {OwnOf(k), GlobalOf(k)} :
              /\ j \in DOMAIN st <=> j \in DOMAIN tt
              /\ j \in DOMAIN st => st[j] = tt[j]
    PROVE  Protocol(st, k) = Protocol(tt, k)
  BY ProtocolIs

LEMMA ElectionKeepsStore ==
    ASSUME SpacesInv, StoreInv, ElectLeader
    PROVE  StoreInv' /\ DOMAIN stored' = DOMAIN stored \cup DOMAIN Bootstrap
           /\ \A k \in DOMAIN stored : stored'[k] = stored[k]
  <1>1. /\ DOMAIN stored' = DOMAIN stored \cup DOMAIN Bootstrap
        /\ \A k \in DOMAIN stored : stored'[k] = stored[k]
        /\ \A k \in DOMAIN Bootstrap : k \notin DOMAIN stored => stored'[k] = Bootstrap[k]
        /\ spaces' = spaces
    BY DEF ElectLeader, tenancyVars, tenants
  <1>2. /\ DOMAIN Bootstrap = {Placeholder("service-defaults"),
                               Placeholder("service-intentions")}
        /\ Bootstrap[Placeholder("service-defaults")].protocol = "grpc"
    BY DEF Bootstrap, Placeholder, Plain
  <1>3. \A k \in DOMAIN Bootstrap :
           k.part = "default" /\ k.ns = "default" /\ k.kind \notin Routed
    BY <1>2 DEF Placeholder, Routed
  <1>4. ASSUME NEW k \in DOMAIN stored', k.kind \in Routed
        PROVE  Protocol(stored', k) # "tcp"
    <2>1. k \in DOMAIN stored /\ Protocol(stored, k) # "tcp"
      BY <1>1, <1>3, <1>4 DEF StoreInv, Consistent
    <2>2. CASE OwnOf(k) \in DOMAIN Bootstrap /\ OwnOf(k) \notin DOMAIN stored
      <3>1. OwnOf(k) = Placeholder("service-defaults")
        BY <1>2, <2>2 DEF OwnOf, Placeholder
      <3> QED
        BY <1>1, <1>2, <2>2, <3>1, ProtocolIs
    <2>3. CASE OwnOf(k) \in DOMAIN stored \/ OwnOf(k) \notin DOMAIN Bootstrap
      <3>1. GlobalOf(k) \notin DOMAIN Bootstrap
        BY <1>2 DEF GlobalOf, Placeholder
      <3> QED
        BY <1>1, <2>1, <2>3, <3>1, ProtocolSame
    <2> QED
      BY <2>2, <2>3
  <1> QED
    BY <1>1, <1>3, <1>4 DEF StoreInv, Consistent, SpacesInv

(* What goes with its tenant leaves nothing behind that depended on it.    *)
LEMMA TenantsKeepStore ==
    ASSUME SpacesInv', StoreInv, ChangeTenants
    PROVE  /\ StoreInv'
           /\ \A k \in DOMAIN stored : <<k.part, k.ns>> \in spaces' => k \in DOMAIN stored'
  <1> DEFINE gone == {k \in DOMAIN stored : <<k.part, k.ns>> \notin spaces'}
  <1>1. /\ DOMAIN stored' = DOMAIN stored \ gone
        /\ \A k \in DOMAIN stored' : stored'[k] = stored[k]
    BY DEF ChangeTenants, Without
  <1>2. ASSUME NEW k \in DOMAIN stored', k.kind \in Routed
        PROVE  Protocol(stored', k) # "tcp"
    <2>1. k \in DOMAIN stored /\ Protocol(stored, k) # "tcp" /\ <<k.part, k.ns>> \in spaces'
      BY <1>1, <1>2 DEF StoreInv, Consistent
    <2>2. <<k.part, "default">> \in spaces'
      BY <2>1 DEF SpacesInv
    <2>3. OwnOf(k).part = k.part /\ OwnOf(k).ns = k.ns
          /\ GlobalOf(k).part = k.part /\ GlobalOf(k).ns = "default"
      BY DEF OwnOf, GlobalOf
    <2>4. OwnOf(k) \notin gone /\ GlobalOf(k) \notin gone
      BY <2>1, <2>2, <2>3
    <2> QED
      BY <1>1, <2>1, <2>4, ProtocolSame
  <1> QED
    BY <1>1, <1>2 DEF StoreInv, Consistent

LEMMA WriteKeepsStore ==
    ASSUME StoreInv, NEW e, NEW v, Write(e, v), spaces' = spaces
    PROVE  /\ StoreInv'
           /\ DOMAIN stored' = DOMAIN stored \cup {Key(e)}
           /\ stored'[Key(e)] = v
           /\ \A k \in DOMAIN stored : k # Key(e) => stored'[k] = stored[k]
           /\ current' = current \ {Key(e)}
  BY DEF StoreInv, Write, SetRefused, Put

-----------------------------------------------------------------------------
(* writeCentralConfigs.                                                    *)

Last(f, n, j) == \A h \in (j + 1)..n : FileKey(f, h) # FileKey(f, j)

(* The first n entries of the file are written, each as the last with its  *)
(* key says.                                                               *)
FileWritten(n) ==
    \A i \in 1..n : \E j \in 1..n :
        /\ FileKey(conf, j) = FileKey(conf, i) /\ Last(conf, n, j)
        /\ FileKey(conf, j) \in DOMAIN stored
        /\ FileKey(conf, j) \notin current
        /\ stored[FileKey(conf, j)] = Contents(conf, j)

(* Every stock entry, or one with its name, is written or waits.           *)
StockDone(g) ==
    /\ \A h \in extra : ~SameName(h, g)
    /\ StockKey(conf, g) \in DOMAIN stored
    /\ StockKey(conf, g) \notin current
    /\ stored[StockKey(conf, g)] = g.val

StockWritten ==
    /\ extra \subseteq StockLeft(conf)
    /\ \A e, g \in extra : SameName(e, g) => e = g
    /\ \A e \in StockLeft(conf) : \E g \in StockLeft(conf) :
          SameName(e, g) /\ (g \in extra \/ StockDone(g))

(* What need not be deleted.                                               *)
Stays(k) ==
    \/ k \in FileKeys(conf) \cup StockKeys(conf)
    \/ k \in DOMAIN Bootstrap \/ Hidden(k)

EntriesInv ==
    /\ pc # "set" => current = {} /\ extra = {}
    /\ pc = "set" =>
          /\ next \in 1..(Len(conf.entries) + 1)
          /\ current \subseteq {k \in DOMAIN stored : ~Hidden(k)}
          /\ FileWritten(next - 1)
          /\ StockWritten
          /\ \A k \in DOMAIN stored : k \in current \/ Stays(k)
    /\ pc = "done" =>
          /\ FileWritten(Len(conf.entries))
          /\ StockWritten
          /\ \A k \in DOMAIN stored : Stays(k)

Inv == TenancyInv /\ StoreInv /\ EntriesInv

LEMMA KeyNames ==
    ASSUME NEW f, NEW e
    PROVE  Key(Scrubbed(f, e)).kind = e.kind /\ Key(Scrubbed(f, e)).name = e.name
  BY DEF Key, Scrubbed

(* Stock entries do not get in the way of the file's, nor of one another.  *)
LEMMA StockApart ==
    ASSUME NEW f, NEW e \in StockLeft(f)
    PROVE  /\ \A i \in DOMAIN f.entries : StockKey(f, e) # FileKey(f, i)
           /\ \A g \in StockLeft(f) : StockKey(f, e) = StockKey(f, g) => SameName(e, g)
  BY KeyNames DEF StockLeft, StockKey, FileKey, SameName

(* A run that ends without success leaves nothing to keep but the store.   *)
LEMMA StoppedKeeps ==
    ASSUME Inv, pc' \in {"idle", "failed", "rejected"}, conf' = None,
           UNCHANGED <<config, parts, spaces, policies, stored>>,
           current' = {}, extra' = {}
    PROVE  Inv'
  BY DEF Inv, TenancyInv, SpacesInv, ProcessInv, PartitionsInv, NamespacesInv,
         ReadyInv, StoreInv, Consistent, EntriesInv, Ended

(* Steps of writeCentralConfigs leave the tenants alone.                   *)
LEMMA TenancyKept ==
    ASSUME TenancyInv, pc = "list" \/ pc = "set", pc' = "set" \/ pc' = "done",
           UNCHANGED <<config, conf, parts, spaces, policies>>
    PROVE  TenancyInv'
  <1>1. ReadyInv'
    BY ReadyKept DEF TenancyInv, ReadyInv, TenancyReady, Tenants, Astray, Parted,
                     NamespacesOf
  <1> QED
    BY <1>1 DEF TenancyInv, SpacesInv, ProcessInv, PartitionsInv, NamespacesInv, Ended

LEMMA ListEntriesKeeps ==
    ASSUME Inv, ListEntries
    PROVE  Inv'
  <1>1. /\ pc = "list" /\ pc' = "set" /\ next' = 1
        /\ current' = {k \in DOMAIN stored : k.ns = "default" /\ k.kind \in Kinds}
        /\ extra' \in Appended(conf)
        /\ UNCHANGED <<config, conf, parts, spaces, policies, stored>>
    BY DEF ListEntries, Goto, tenants
  <1>2. TenancyInv' /\ StoreInv' /\ conf \in Files
    BY <1>1, TenancyKept DEF Inv, StoreInv, Consistent, TenancyInv, ProcessInv
  <1>3. Len(conf.entries) \in Nat
    BY <1>2, FileFacts
  <1>4. /\ extra' \subseteq StockLeft(conf)
        /\ \A e \in StockLeft(conf) : \E g \in extra' : SameName(g, e)
        /\ \A e, g \in extra' : SameName(g, e) => g = e
    BY <1>1 DEF Appended
  <1>5. \A e, g : SameName(e, g) <=> SameName(g, e)
    BY DEF SameName
  <1>6. StockWritten'
    BY <1>1, <1>4, <1>5 DEF StockWritten
  <1>7. \A k \in DOMAIN stored : k \in current' \/ Hidden(k)
    BY <1>1 DEF Hidden
  <1>8. EntriesInv'
    BY <1>1, <1>3, <1>6, <1>7 DEF EntriesInv, FileWritten, Stays, Hidden
  <1> QED
    BY <1>2, <1>8 DEF Inv

LEMMA SetEntryKeeps ==
    ASSUME Inv, SetEntry
    PROVE  Inv' /\ DOMAIN stored \subseteq DOMAIN stored'
  <1> DEFINE e == Scrubbed(conf, conf.entries[next])
             v == Contents(conf, next)
  <1>1. pc = "set" /\ next \in DOMAIN conf.entries
    BY DEF SetEntry
  <1>2. CASE Refuse(e, v)
    BY <1>2, StoppedKeeps DEF Refuse, Stop, Forget, tenants
  <1>3. CASE /\ Write(e, v) /\ next' = next + 1
             /\ UNCHANGED <<config, pc, conf, at, listed, tenants, spent, extra>>
    <2>1. Key(e) = FileKey(conf, next) /\ UNCHANGED <<parts, spaces, policies>>
      BY <1>3 DEF FileKey, tenants
    <2>2. /\ StoreInv'
          /\ DOMAIN stored' = DOMAIN stored \cup {FileKey(conf, next)}
          /\ stored'[FileKey(conf, next)] = v
          /\ \A k \in DOMAIN stored : k # FileKey(conf, next) => stored'[k] = stored[k]
          /\ current' = current \ {FileKey(conf, next)}
      BY <1>3, <2>1, WriteKeepsStore DEF Inv
    <2>3. TenancyInv' /\ conf \in Files
      BY <1>1, <1>3, <2>1, TenancyKept DEF Inv, TenancyInv, ProcessInv
    <2>4. /\ Len(conf.entries) \in Nat /\ next \in 1..Len(conf.entries)
          /\ DOMAIN conf.entries = 1..Len(conf.entries)
      BY <1>1, <2>3, FileFacts
    <2>5. FileWritten(next - 1)'
      <3>0. next' - 1 = next /\ conf' = conf
        BY <1>3, <2>4
      <3> SUFFICES ASSUME NEW i \in 1..next
                   PROVE  \E j \in 1..next :
                             /\ FileKey(conf, j) = FileKey(conf, i) /\ Last(conf, next, j)
                             /\ FileKey(conf, j) \in DOMAIN stored'
                             /\ FileKey(conf, j) \notin current'
                             /\ stored'[FileKey(conf, j)] = Contents(conf, j)
        BY <3>0 DEF FileWritten
      <3>1. CASE FileKey(conf, i) = FileKey(conf, next)
        <4>1. Last(conf, next, next) /\ next \in 1..next
          BY <2>4 DEF Last
        <4> QED
          BY <2>2, <3>1, <4>1
      <3>2. CASE FileKey(conf, i) # FileKey(conf, next)
        <4>1. i \in 1..(next - 1)
          BY <2>4, <3>2
        <4>2. PICK j \in 1..(next - 1) :
                 /\ FileKey(conf, j) = FileKey(conf, i) /\ Last(conf, next - 1, j)
                 /\ FileKey(conf, j) \in DOMAIN stored
                 /\ FileKey(conf, j) \notin current
                 /\ stored[FileKey(conf, j)] = Contents(conf, j)
          BY <1>1, <4>1 DEF Inv, EntriesInv, FileWritten
        <4>3. Last(conf, next, j)
          <5> SUFFICES ASSUME NEW h \in (j + 1)..next
                       PROVE  FileKey(conf, h) # FileKey(conf, j)
            BY DEF Last
          <5>1. h = next \/ h \in (j + 1)..(next - 1)
            BY <2>4
          <5> QED
            BY <3>2, <4>2, <5>1 DEF Last
        <4>4. j \in 1..next
          BY <2>4
        <4> QED
          BY <2>2, <3>2, <4>2, <4>3, <4>4
      <3> QED
        BY <3>1, <3>2
    <2>6. StockWritten'
      <3>1. \A g \in StockLeft(conf) : StockDone(g) => StockDone(g)'
        BY <1>1, <1>3, <2>2, StockApart DEF StockDone
      <3> QED
        BY <1>1, <1>3, <3>1 DEF Inv, EntriesInv, StockWritten
    <2>7. \A k \in DOMAIN stored' : k \in current' \/ Stays(k)'
      <3>1. \A k : Stays(k)' <=> Stays(k)
        BY <1>3 DEF Stays
      <3>2. Stays(FileKey(conf, next))
        BY <1>1 DEF Stays, FileKeys
      <3> QED
        BY <1>1, <2>2, <3>1, <3>2 DEF Inv, EntriesInv
    <2>8. EntriesInv'
      <3>1. pc' = "set" /\ next' - 1 = next
            /\ next' \in 1..(Len(conf.entries) + 1) /\ conf' = conf
        BY <1>1, <1>3, <2>4
      <3>2. current' \subseteq {k \in DOMAIN stored' : ~Hidden(k)}
        BY <1>1, <2>2 DEF Inv, EntriesInv
      <3> QED
        BY <2>5, <2>6, <2>7, <3>1, <3>2 DEF EntriesInv, Hidden
    <2> QED
      BY <2>2, <2>3, <2>8 DEF Inv
  <1>4. DOMAIN stored \subseteq DOMAIN stored'
    BY <1>2, <1>3 DEF SetEntry, Refuse, Write, Put
  <1> QED
    BY <1>2, <1>3, <1>4 DEF SetEntry

LEMMA SetStockKeeps ==
    ASSUME Inv, NEW stock, SetStock(stock)
    PROVE  Inv' /\ DOMAIN stored \subseteq DOMAIN stored'
  <1> DEFINE e == Scrubbed(conf, stock)
  <1>1. pc = "set" /\ stock \in extra /\ stock \in StockLeft(conf)
    BY DEF SetStock, Inv, EntriesInv, StockWritten
  <1>2. CASE Refuse(e, stock.val)
    BY <1>2, StoppedKeeps DEF Refuse, Stop, Forget, tenants
  <1>3. CASE /\ Write(e, stock.val) /\ extra' = extra \ {stock}
             /\ UNCHANGED tenancyVars
    <2>1. /\ Key(e) = StockKey(conf, stock)
          /\ UNCHANGED <<config, pc, conf, next, parts, spaces, policies>>
      BY <1>3 DEF StockKey, tenancyVars, tenants
    <2>2. /\ StoreInv'
          /\ DOMAIN stored' = DOMAIN stored \cup {StockKey(conf, stock)}
          /\ stored'[StockKey(conf, stock)] = stock.val
          /\ \A k \in DOMAIN stored : k # StockKey(conf, stock) => stored'[k] = stored[k]
          /\ current' = current \ {StockKey(conf, stock)}
      BY <1>3, <2>1, WriteKeepsStore DEF Inv
    <2>3. TenancyInv' /\ conf \in Files
      BY <1>1, <1>3, <2>1, TenancyKept DEF Inv, TenancyInv, ProcessInv
    <2>4. /\ Len(conf.entries) \in Nat /\ next \in 1..(Len(conf.entries) + 1)
          /\ DOMAIN conf.entries = 1..Len(conf.entries)
      BY <1>1, <2>3, FileFacts DEF Inv, EntriesInv
    <2>5. FileWritten(next - 1)'
      <3>1. \A j \in 1..(next - 1) : FileKey(conf, j) # StockKey(conf, stock)
        BY <1>1, <2>4, StockApart
      <3> QED
        BY <1>1, <2>1, <2>2, <3>1 DEF Inv, EntriesInv, FileWritten
    <2>6. StockWritten'
      <3>1. StockDone(stock)'
        BY <1>1, <1>3, <2>1, <2>2 DEF StockDone, Inv, EntriesInv, StockWritten
      <3>2. \A g \in StockLeft(conf) : StockDone(g) => StockDone(g)'
        BY <1>1, <1>3, <2>1, <2>2, StockApart DEF StockDone, SameName
      <3> QED
        BY <1>1, <1>3, <2>1, <3>1, <3>2 DEF Inv, EntriesInv, StockWritten
    <2>7. \A k \in DOMAIN stored' : k \in current' \/ Stays(k)'
      <3>1. \A k : Stays(k)' <=> Stays(k)
        BY <2>1 DEF Stays
      <3>2. Stays(StockKey(conf, stock))
        BY <1>1 DEF Stays, StockKeys
      <3> QED
        BY <1>1, <2>2, <3>1, <3>2 DEF Inv, EntriesInv
    <2>8. EntriesInv'
      <3>1. current' \subseteq {k \in DOMAIN stored' : ~Hidden(k)}
        BY <1>1, <2>2 DEF Inv, EntriesInv
      <3> QED
        BY <1>1, <2>1, <2>4, <2>5, <2>6, <2>7, <3>1 DEF EntriesInv, Hidden
    <2> QED
      BY <2>2, <2>3, <2>8 DEF Inv
  <1>4. DOMAIN stored \subseteq DOMAIN stored'
    BY <1>2, <1>3 DEF SetStock, Refuse, Write, Put
  <1> QED
    BY <1>2, <1>3, <1>4 DEF SetStock

(* There only are two kinds of stock entries.                              *)
LEMMA StockKinds ==
    ASSUME NEW f, NEW e \in StockLeft(f)
    PROVE  /\ e.kind \in {"proxy-defaults", "service-intentions"}
           /\ StockKey(f, e).kind = e.kind
  <1>0. StockKey(f, e).kind = e.kind
    BY KeyNames, Zenon DEF StockKey
  <1>1. CASE e = StockProxyDefaults
    <2>1. e.kind = "proxy-defaults"
      BY <1>1 DEF StockProxyDefaults
    <2> QED
      BY <2>1, <1>0
  <1>2. CASE e \in StockIntentions(f)
    <2>1. PICK d, v : e = [kind |-> "service-intentions", name |-> d.name, ns |-> d.ns,
                           part |-> d.part, val |-> v]
      BY <1>2 DEF StockIntentions
    <2>2. e.kind = "service-intentions"
      BY <2>1
    <2> QED
      BY <2>2, <1>0
  <1> QED
    BY <1>1, <1>2 DEF StockLeft, Stock

-----------------------------------------------------------------------------
(* Deletions.                                                              *)

(* Each entry of a file that is written says what its last one says.       *)
LEMMA WrittenIsIntended ==
    ASSUME conf \in Files, FileWritten(Len(conf.entries)), NEW k \in FileKeys(conf)
    PROVE  /\ k \in DOMAIN stored /\ k \notin current
           /\ stored[k] = Intended(conf, Len(conf.entries), k)
  <1> DEFINE n == Len(conf.entries)
             P(i) == FileKey(conf, i) = k /\ \A h \in (i + 1)..n : FileKey(conf, h) # k
  <1>1. n \in Nat /\ DOMAIN conf.entries = 1..n
    BY FileFacts
  <1>2. PICK j \in 1..n :
           /\ FileKey(conf, j) = k /\ Last(conf, n, j)
           /\ k \in DOMAIN stored /\ k \notin current
           /\ stored[k] = Contents(conf, j)
    BY <1>1 DEF FileWritten, FileKeys
  <1>3. P(j)
    BY <1>2 DEF Last
  <1>4. ASSUME NEW i \in 1..n, P(i) PROVE i = j
    <2>1. ~(i < j) /\ ~(j < i)
      BY <1>1, <1>2, <1>3, <1>4
    <2> QED
      BY <2>1, <1>1
  <1> DEFINE c == CHOOSE i \in 1..n : P(i)
  <1>5. c = j
    <2> HIDE DEF P
    <2> QED
      BY <1>3, <1>4
  <1>6. Intended(conf, n, k) =
           IF conf.metrics /\ Finds(conf, c, StockProxyDefaults)
             THEN [conf.entries[c].val EXCEPT !.metrics = TRUE]
             ELSE conf.entries[c].val
    BY DEF Intended
  <1>7. Intended(conf, n, k) = Contents(conf, j)
    BY <1>5, <1>6 DEF Contents
  <1> QED
    BY <1>2, <1>7

(* What complete runs keep, when they have come to the deletions.          *)
LEMMA TargetStays ==
    ASSUME Inv, Deleting
    PROVE  /\ DOMAIN Target(conf) \subseteq DOMAIN stored \ current
           /\ \A k \in DOMAIN Target(conf) : stored[k] = Target(conf)[k]
           /\ \A k \in FileKeys(conf) :
                 k \in DOMAIN stored /\ stored[k] = Intended(conf, Len(conf.entries), k)
           /\ \A k \in DOMAIN stored \ current :
                 k.kind \in Routed => k \in DOMAIN Target(conf)
  <1> DEFINE n == Len(conf.entries)
  <1>1. /\ pc = "set" /\ extra = {} /\ conf \in Files
        /\ n \in Nat /\ DOMAIN conf.entries = 1..n /\ next = n + 1
    <2>1. pc = "set" /\ extra = {} /\ next \notin DOMAIN conf.entries /\ conf \in Files
      BY DEF Deleting, Inv, TenancyInv, ProcessInv, Ended
    <2> QED
      BY <2>1, FileFacts DEF Inv, EntriesInv
  <1>2. FileWritten(n)
    <2>1. next - 1 = n
      BY <1>1
    <2> QED
      BY <1>1, <2>1 DEF Inv, EntriesInv
  <1>3. FileKeys(conf) = {FileKey(conf, i) : i \in 1..n}
    BY <1>1 DEF FileKeys
  <1>4. \A k \in FileKeys(conf) :
           k \in DOMAIN stored /\ k \notin current /\ stored[k] = Intended(conf, n, k)
    BY <1>1, <1>2, WrittenIsIntended
  <1> DEFINE st == [k \in {j \in DOMAIN stored : Hidden(j)} |-> stored[k]]
  <1>5. /\ DOMAIN Target(conf) = {j \in DOMAIN stored : Hidden(j)} \cup FileKeys(conf)
        /\ \A k \in DOMAIN Target(conf) :
              Target(conf)[k] = IF k \in FileKeys(conf) THEN Intended(conf, n, k)
                                                        ELSE stored[k]
    <2>1. Target(conf) = [k \in DOMAIN st \cup FileKeys(conf) |->
                             IF k \in FileKeys(conf) THEN Intended(conf, n, k) ELSE st[k]]
      BY <1>3 DEF Target, Over
    <2> QED
      BY <2>1
  <1>6. \A k \in current : ~Hidden(k)
    BY <1>1 DEF Inv, EntriesInv
  <1>7. ASSUME NEW k \in DOMAIN stored, k \notin current, k.kind \in Routed
        PROVE  k \in DOMAIN Target(conf)
    <2>1. Stays(k)
      BY <1>1, <1>7 DEF Inv, EntriesInv
    <2>2. k \notin DOMAIN Bootstrap
      BY <1>7 DEF Bootstrap, Placeholder, Routed
    <2>3. k \notin StockKeys(conf)
      BY <1>7, StockKinds DEF StockKeys, Routed
    <2> QED
      BY <1>5, <2>1, <2>2, <2>3 DEF Stays
  <1> QED
    BY <1>4, <1>5, <1>6, <1>7

(* An entry of the next kind can be deleted: the routers and splitters it  *)
(* might carry are gone, and those that stay do not need it.               *)
LEMMA DeletionFits ==
    ASSUME Inv, Deleting, Consistent(Target(conf)),
           NEW k \in current, IsNextToDelete(k)
    PROVE  Consistent(Without(stored, {k}))
  <1> DEFINE rest == Without(stored, {k})
  <1>1. /\ DOMAIN rest = DOMAIN stored \ {k}
        /\ \A j \in DOMAIN rest : rest[j] = stored[j]
    BY DEF Without
  <1> SUFFICES ASSUME NEW j \in DOMAIN rest, j.kind \in Routed
               PROVE  Protocol(rest, j) # "tcp"
    BY DEF Consistent
  <1>2. j \in DOMAIN stored /\ j # k /\ Protocol(stored, j) # "tcp"
    BY <1>1 DEF Inv, StoreInv, Consistent
  <1>3. CASE k.kind \notin {"service-defaults", "proxy-defaults"}
    <2>1. OwnOf(j) # k /\ GlobalOf(j) # k
      BY <1>3 DEF OwnOf, GlobalOf
    <2> QED
      BY <1>1, <1>2, <2>1, ProtocolSame
  <1>4. CASE k.kind \in {"service-defaults", "proxy-defaults"}
    <2>1. j \notin current
      <3>1. PICK a \in Rank(k) : \A h \in current : \A b \in Rank(h) : a <= b
        BY DEF IsNextToDelete
      <3>2. DOMAIN DeleteOrder = 1..10 /\ DeleteOrder[5] = "service-router"
            /\ DeleteOrder[6] = "service-splitter"
            /\ \A i \in 1..7 : DeleteOrder[i] # "service-defaults"
                               /\ DeleteOrder[i] # "proxy-defaults"
        BY DEF DeleteOrder
      <3>3. a \in 1..10 /\ a \notin 1..7
        BY <1>4, <3>1, <3>2 DEF Rank
      <3>4. j.kind = "service-router" => 5 \in Rank(j)
        BY <3>2 DEF Rank
      <3>5. j.kind = "service-splitter" => 6 \in Rank(j)
        BY <3>2 DEF Rank
      <3> QED
        BY <3>1, <3>3, <3>4, <3>5 DEF Routed
    <2> DEFINE T == Target(conf)
    <2>2. /\ DOMAIN T \subseteq DOMAIN stored \ current
          /\ \A h \in DOMAIN T : stored[h] = T[h]
          /\ j \in DOMAIN T
      BY <1>2, <2>1, TargetStays
    <2>3. Protocol(T, j) # "tcp"
      BY <2>2 DEF Consistent
    <2>4. \A h \in DOMAIN T : h \in DOMAIN rest /\ rest[h] = T[h]
      BY <1>1, <2>2
    <2> HIDE DEF T, rest
    <2>5. \A h \in DOMAIN rest : h \in DOMAIN stored /\ rest[h] = stored[h]
      BY <1>1 DEF rest
    <2>6. CASE OwnOf(j) \in DOMAIN rest /\ rest[OwnOf(j)].protocol # ""
      <3>1. Protocol(rest, j) = Protocol(stored, j)
        BY <2>5, <2>6, ProtocolIs
      <3> QED
        BY <1>2, <3>1
    <2>7. CASE ~(OwnOf(j) \in DOMAIN rest /\ rest[OwnOf(j)].protocol # "")
      <3>1. ~(OwnOf(j) \in DOMAIN T /\ T[OwnOf(j)].protocol # "")
        BY <2>4, <2>7
      <3>2. GlobalOf(j) \in DOMAIN T /\ T[GlobalOf(j)].protocol # ""
        BY <2>3, <3>1, ProtocolIs
      <3>3. Protocol(rest, j) = rest[GlobalOf(j)].protocol
            /\ Protocol(T, j) = T[GlobalOf(j)].protocol
        BY <2>4, <2>7, <3>1, <3>2, ProtocolIs
      <3> QED
        BY <2>3, <2>4, <3>2, <3>3
    <2> QED
      BY <2>6, <2>7 DEF rest
  <1> QED
    BY <1>3, <1>4

(* What is deleted was not declared.                                       *)
LEMMA DeleteEntryKeeps ==
    ASSUME Inv, NEW k, DeleteEntry(k)
    PROVE  Inv' /\ k \notin Declared(conf) /\ DOMAIN stored' = DOMAIN stored \ {k}
  <1>1. /\ Deleting /\ k \in current /\ Consistent(Without(stored, {k}))
        /\ stored' = Without(stored, {k}) /\ current' = current \ {k}
        /\ UNCHANGED <<tenancyVars, extra>>
    BY DEF DeleteEntry
  <1>2. /\ pc = "set" /\ extra = {} /\ conf \in Files
        /\ UNCHANGED <<config, pc, conf, next, parts, spaces, policies>>
    BY <1>1 DEF Deleting, Inv, TenancyInv, ProcessInv, Ended, tenancyVars, tenants
  <1>3. /\ DOMAIN stored' = DOMAIN stored \ {k}
        /\ \A j \in DOMAIN stored' : stored'[j] = stored[j]
    BY <1>1 DEF Without
  <1>4. TenancyInv' /\ StoreInv'
    BY <1>1, <1>2, <1>3, TenancyKept DEF Inv, StoreInv, Consistent
  <1>5. FileWritten(next - 1)'
    <2>1. FileWritten(next - 1) /\ next' = next
      BY <1>2 DEF Inv, EntriesInv
    <2>2. ASSUME NEW j, FileKey(conf, j) \in DOMAIN stored, FileKey(conf, j) \notin current
          PROVE  /\ FileKey(conf, j) \in DOMAIN stored'
                 /\ FileKey(conf, j) \notin current'
                 /\ stored'[FileKey(conf, j)] = stored[FileKey(conf, j)]
      BY <1>1, <1>3, <2>2
    <2> QED
      BY <1>2, <2>1, <2>2 DEF FileWritten
  <1>6. StockWritten'
    <2>1. \A g \in StockLeft(conf) : StockDone(g) => StockDone(g)'
      BY <1>1, <1>2, <1>3 DEF StockDone
    <2> QED
      BY <1>1, <1>2, <2>1 DEF Inv, EntriesInv, StockWritten
  <1>7. \A j \in DOMAIN stored' : j \in current' \/ Stays(j)'
    BY <1>1, <1>2, <1>3 DEF Inv, EntriesInv, Stays
  <1>8. EntriesInv'
    <2>1. next' \in 1..(Len(conf'.entries) + 1)
          /\ current' \subseteq {j \in DOMAIN stored' : ~Hidden(j)}
      BY <1>1, <1>2, <1>3 DEF Inv, EntriesInv
    <2> QED
      BY <1>2, <1>5, <1>6, <1>7, <2>1 DEF EntriesInv, Hidden
  <1>9. k \notin Declared(conf)
    <2>1. k \notin FileKeys(conf)
      <3>1. DOMAIN conf.entries = 1..(next - 1)
        BY <1>1, <1>2, FileFacts DEF Deleting, Inv, EntriesInv
      <3> QED
        BY <1>1, <1>2, <3>1 DEF Inv, EntriesInv, FileWritten, FileKeys
    <2>2. ASSUME NEW e \in Certain(conf) PROVE StockKey(conf, e) # k
      <3>1. PICK g \in StockLeft(conf) : SameName(e, g) /\ StockDone(g)
        BY <1>2 DEF Inv, EntriesInv, StockWritten, Certain
      <3>2. g = e
        BY <3>1 DEF Certain
      <3> QED
        BY <1>1, <3>1, <3>2 DEF StockDone
    <2> QED
      BY <2>1, <2>2 DEF Declared
  <1> QED
    BY <1>3, <1>4, <1>8, <1>9 DEF Inv

LEMMA EntriesWrittenKeeps ==
    ASSUME Inv, EntriesWritten
    PROVE  Inv'
  <1>1. /\ Deleting /\ current = {} /\ pc' = "done" /\ current' = {} /\ extra' = {}
        /\ UNCHANGED <<config, conf, parts, spaces, policies, stored>>
    BY DEF EntriesWritten, Forget, tenants
  <1>2. /\ pc = "set" /\ extra = {} /\ conf \in Files
    BY <1>1 DEF Deleting, Inv, TenancyInv, ProcessInv, Ended
  <1>3. Len(conf.entries) = next - 1
    BY <1>1, <1>2, FileFacts DEF Deleting, Inv, EntriesInv
  <1>4. TenancyInv' /\ StoreInv'
    BY <1>1, <1>2, TenancyKept DEF Inv, StoreInv, Consistent
  <1>5. FileWritten(Len(conf.entries))'
    BY <1>1, <1>2, <1>3 DEF Inv, EntriesInv, FileWritten
  <1>6. StockWritten' /\ \A k \in DOMAIN stored' : Stays(k)'
    BY <1>1, <1>2 DEF Inv, EntriesInv, StockWritten, StockDone, Stays
  <1> QED
    BY <1>1, <1>4, <1>5, <1>6 DEF Inv, EntriesInv

-----------------------------------------------------------------------------
(* What happens around the writing of entries.                             *)

LEMMA ElectLeaderKeeps ==
    ASSUME Inv, ElectLeader
    PROVE  Inv' /\ DOMAIN stored \subseteq DOMAIN stored'
  <1>1. UNCHANGED <<config, pc, conf, at, next, listed, parts, spaces, policies,
                    current, extra>>
    BY DEF ElectLeader, tenancyVars, tenants
  <1>2. /\ StoreInv' /\ DOMAIN stored' = DOMAIN stored \cup DOMAIN Bootstrap
        /\ \A k \in DOMAIN stored : stored'[k] = stored[k]
    BY ElectionKeepsStore DEF Inv, TenancyInv
  <1>3. TenancyInv'
    <2>1. ReadyInv'
      BY <1>1, ReadyKept DEF Inv, TenancyInv, ReadyInv
    <2> QED
      BY <1>1, <2>1 DEF Inv, TenancyInv, SpacesInv, ProcessInv, PartitionsInv,
                        NamespacesInv, Settled, Current
  <1>4. \A n : FileWritten(n) => FileWritten(n)'
    BY <1>1, <1>2 DEF FileWritten
  <1>5. StockWritten => StockWritten'
    <2>1. \A g : StockDone(g) => StockDone(g)'
      BY <1>1, <1>2 DEF StockDone
    <2> QED
      BY <1>1, <2>1 DEF StockWritten
  <1>6. \A k : (Stays(k) => Stays(k)') /\ (k \in DOMAIN Bootstrap => Stays(k)')
    BY <1>1 DEF Stays
  <1>7. EntriesInv'
    BY <1>1, <1>2, <1>4, <1>5, <1>6 DEF Inv, EntriesInv
  <1> QED
    BY <1>2, <1>3, <1>7 DEF Inv

LEMMA ChangeTenantsKeeps ==
    ASSUME Inv, ChangeTenants
    PROVE  /\ Inv'
           /\ pc # "set"
           /\ \A k \in DOMAIN stored :
                 <<k.part, k.ns>> \in Tenants(conf) => k \in DOMAIN stored'
  <1>1. TenancyStep /\ current' = current /\ extra' = extra
    BY DEF ChangeTenants
  <1>2. /\ TenancyInv' /\ pc # "set" /\ pc' # "set" /\ pc' # "done"
        /\ \A t \in spaces : t \in Tenants(conf) => t \in spaces'
    BY <1>1, TenancyStepKeeps DEF Inv
  <1>3. /\ StoreInv'
        /\ \A k \in DOMAIN stored : <<k.part, k.ns>> \in spaces' => k \in DOMAIN stored'
    BY <1>2, TenantsKeepStore DEF Inv, TenancyInv
  <1>4. EntriesInv'
    BY <1>1, <1>2 DEF Inv, EntriesInv
  <1> QED
    BY <1>2, <1>3, <1>4 DEF Inv, StoreInv

LEMMA DeleteRejectedKeeps ==
    ASSUME Inv, NEW k, DeleteRejected(k)
    PROVE  Inv' /\ stored' = stored
  BY StoppedKeeps DEF DeleteRejected, Stop, Forget, tenants

LEMMA InterruptKeeps ==
    ASSUME Inv, Interrupt, Forget, UNCHANGED stored
    PROVE  Inv'
  BY StoppedKeeps DEF Interrupt, Stop, Forget, tenants

LEMMA EditConfigKeeps ==
    ASSUME Inv, NEW e \in Edits, EditConfig(e), UNCHANGED <<stored, current, extra>>
    PROVE  Inv'
  <1>1. /\ config' \in Files
        /\ UNCHANGED <<pc, conf, at, next, listed, parts, spaces, policies,
                       stored, current, extra>>
    BY DEF EditConfig, Files, tenants
  <1>2. TenancyInv'
    <2>1. ReadyInv'
      BY <1>1, ReadyKept DEF Inv, TenancyInv, ReadyInv
    <2> QED
      BY <1>1, <2>1 DEF Inv, TenancyInv, SpacesInv, ProcessInv, PartitionsInv,
                        NamespacesInv, Settled, Current
  <1>3. EntriesInv'
    BY <1>1 DEF Inv, EntriesInv, FileWritten, StockWritten, StockDone, Stays
  <1> QED
    BY <1>1, <1>2, <1>3 DEF Inv, StoreInv, Consistent

LEMMA BeginKeeps ==
    ASSUME Inv, Begin
    PROVE  Inv'
  <1>1. /\ pc \in Ended /\ conf' = config /\ config \in Files
        /\ UNCHANGED <<config, parts, spaces, policies, stored, current, extra>>
    BY DEF Begin, Start, tenants, Inv, TenancyInv, ProcessInv
  <1>2. StoreInv' /\ SpacesInv'
    BY <1>1 DEF Inv, StoreInv, Consistent, TenancyInv, SpacesInv
  <1>3. current' = {} /\ extra' = {}
    BY <1>1 DEF Inv, EntriesInv, Ended
  <1>4. CASE config.enterprise
    <2>1. pc' = "partitions" /\ next' = 1 /\ listed' = parts
      BY <1>4 DEF Begin, Start
    <2>2. ProcessInv'
      BY <1>1, <1>4, <2>1, NoneIsNoFile DEF ProcessInv
    <2>3. PartitionsInv'
      <3>1. Len(config.partitions) \in Nat
        BY <1>1, FileFacts
      <3> QED
        BY <1>1, <2>1, <3>1 DEF PartitionsInv
    <2> QED
      BY <1>2, <1>3, <2>1, <2>2, <2>3
         DEF Inv, TenancyInv, NamespacesInv, ReadyInv, EntriesInv
  <1>5. CASE ~config.enterprise
    <2>1. pc' = "list"
      BY <1>5 DEF Begin, Start, Goto
    <2>2. ProcessInv'
      BY <1>1, <2>1, NoneIsNoFile DEF ProcessInv
    <2>3. TenancyReady(conf)'
      <3>1. Tenants(config) = {<<"default", "default">>}
        BY <1>5 DEF Tenants
      <3>2. Tenants(conf)' = Tenants(config) /\ spaces' = spaces /\ ~conf'.enterprise
        BY <1>1, <1>5 DEF Tenants, Parted, NamespacesOf
      <3> QED
        BY <3>1, <3>2 DEF TenancyReady, Inv, TenancyInv, SpacesInv
    <2> QED
      BY <1>2, <1>3, <2>1, <2>2, <2>3
         DEF Inv, TenancyInv, PartitionsInv, NamespacesInv, ReadyInv, EntriesInv
  <1> QED
    BY <1>4, <1>5

-----------------------------------------------------------------------------
(* The invariant.                                                          *)

(* What SpacesInv to EntriesInv say holds before the first `up`.           *)
THEOREM InitInv == Init => Inv
  <1> SUFFICES ASSUME Init PROVE Inv
    OBVIOUS
  <1>1. /\ config \in Files /\ pc = "idle" /\ conf = None
        /\ parts = {"default"} /\ spaces = {<<"default", "default">>} /\ policies = {}
        /\ stored = <<>> /\ current = {} /\ extra = {}
    BY DEF Init, TenancyInit, Files
  <1>2. DOMAIN stored = {}
    BY <1>1
  <1> QED
    BY <1>1, <1>2 DEF Inv, TenancyInv, SpacesInv, ProcessInv, PartitionsInv,
       NamespacesInv, ReadyInv, StoreInv, Consistent, EntriesInv, Ended

LEMMA StutterKeeps ==
    ASSUME Inv, UNCHANGED vars
    PROVE  Inv' /\ stored' = stored
  <1>1. UNCHANGED <<config, pc, conf, at, next, listed, parts, spaces, policies,
                    stored, current, extra>>
    BY DEF vars, tenancyVars, tenants
  <1>2. TenancyInv'
    <2>1. ReadyInv'
      BY <1>1, ReadyKept DEF Inv, TenancyInv, ReadyInv
    <2> QED
      BY <1>1, <2>1 DEF Inv, TenancyInv, SpacesInv, ProcessInv, PartitionsInv,
                        NamespacesInv, Settled, Current
  <1>3. EntriesInv'
    BY <1>1 DEF Inv, EntriesInv, FileWritten, StockWritten, StockDone, Stays
  <1> QED
    BY <1>1, <1>2, <1>3 DEF Inv, StoreInv, Consistent

LEMMA NextKeeps ==
    ASSUME Inv, [Next]_vars
    PROVE  Inv'
  <1>1. ASSUME NEW e \in Edits, EditConfig(e), UNCHANGED <<stored, current, extra>>
        PROVE  Inv'
    BY <1>1, EditConfigKeeps
  <1>2. ASSUME Begin PROVE Inv'
    BY <1>2, BeginKeeps
  <1>3. ASSUME Interrupt, Forget, UNCHANGED stored PROVE Inv'
    BY <1>3, InterruptKeeps
  <1>4. ASSUME ElectLeader PROVE Inv'
    BY <1>4, ElectLeaderKeeps
  <1>5. ASSUME Process PROVE Inv'
    <2>1. ASSUME ChangeTenants PROVE Inv'
      BY <2>1, ChangeTenantsKeeps
    <2>2. ASSUME ListEntries PROVE Inv'
      BY <2>2, ListEntriesKeeps
    <2>3. ASSUME SetEntry PROVE Inv'
      BY <2>3, SetEntryKeeps
    <2>4. ASSUME NEW e \in extra, SetStock(e) PROVE Inv'
      BY <2>4, SetStockKeeps
    <2>5. ASSUME NEW k \in current, DeleteEntry(k) PROVE Inv'
      BY <2>5, DeleteEntryKeeps
    <2>6. ASSUME NEW k \in current, DeleteRejected(k) PROVE Inv'
      BY <2>6, DeleteRejectedKeeps
    <2>7. ASSUME EntriesWritten PROVE Inv'
      BY <2>7, EntriesWrittenKeeps
    <2> QED
      BY <1>5, <2>1, <2>2, <2>3, <2>4, <2>5, <2>6, <2>7 DEF Process
  <1>6. ASSUME UNCHANGED vars PROVE Inv'
    BY <1>6, StutterKeeps
  <1> QED
    BY <1>1, <1>2, <1>3, <1>4, <1>5, <1>6 DEF Next

(* The inductive invariant holds in every state of every run of `up`.      *)
THEOREM AlwaysInv == Spec => []Inv
  <1>1. Init => Inv
    BY InitInv
  <1>2. Inv /\ [Next]_vars => Inv'
    BY NextKeeps
  <1> QED
    BY <1>1, <1>2, PTL DEF Spec

(* Types of Tenancy and CentralConfigs; the configuration store of Consul  *)
(* always fits together and only has entries of existing tenants.          *)
THEOREM AlwaysTypeOK == Spec => []TypeOK
  <1>1. ASSUME Inv PROVE TypeOK
    <2>1. parts = {s[1] : s \in spaces}
      <3>1. ASSUME NEW p \in parts PROVE p \in {s[1] : s \in spaces}
        <4>1. <<p, "default">> \in spaces /\ <<p, "default">>[1] = p
          BY <1>1, <3>1 DEF Inv, TenancyInv, SpacesInv
        <4> QED
          BY <4>1
      <3>2. ASSUME NEW s \in spaces PROVE s[1] \in parts
        BY <1>1, <3>2 DEF Inv, TenancyInv, SpacesInv
      <3> QED
        BY <3>1, <3>2
    <2>2. "default" \in parts
      BY <1>1 DEF Inv, TenancyInv, SpacesInv
    <2>3. TenancyTypeOK
      BY <1>1, <2>1, <2>2
         DEF TenancyTypeOK, Inv, TenancyInv, SpacesInv, ProcessInv, NamespacesInv
    <2>4. conf = None <=> pc \in Ended \ {"done"}
      BY <1>1 DEF Inv, TenancyInv, ProcessInv, Ended
    <2>5. current \subseteq {k \in DOMAIN stored : ~Hidden(k)}
      BY <1>1 DEF Inv, EntriesInv
    <2>6. extra \subseteq (IF conf = None THEN {} ELSE Stock(conf))
      <3>1. CASE pc = "set"
        BY <1>1, <3>1 DEF Inv, TenancyInv, ProcessInv, EntriesInv, StockWritten, StockLeft
      <3>2. CASE pc # "set"
        BY <1>1, <3>2 DEF Inv, EntriesInv
      <3> QED
        BY <3>1, <3>2
    <2> QED
      BY <1>1, <2>3, <2>4, <2>5, <2>6
         DEF TypeOK, Inv, TenancyInv, ProcessInv, StoreInv
  <1> QED
    BY <1>1, AlwaysInv, PTL

(* The deletions of writeCentralConfigs come in an order Consul accepts,   *)
(* whatever the file and whatever there was.                               *)
THEOREM AlwaysDeletesAccepted == Spec => []DeletesAccepted
  <1>1. ASSUME Inv PROVE DeletesAccepted
    BY <1>1, DeletionFits DEF DeletesAccepted
  <1> QED
    BY <1>1, AlwaysInv, PTL

(* A run of `up` that gets through leaves what its file says, whatever     *)
(* earlier files wrote and wherever they were stopped.                     *)
THEOREM AlwaysConverged == Spec => []Converged
  <1>1. ASSUME Inv PROVE Converged
    <2> SUFFICES ASSUME pc = "done"
                 PROVE  /\ TenancyReady(conf)
                        /\ \A k \in FileKeys(conf) :
                              /\ k \in DOMAIN stored
                              /\ stored[k] = Intended(conf, Len(conf.entries), k)
                        /\ \A e \in StockLeft(conf) : \E g \in StockLeft(conf) :
                              /\ SameName(e, g)
                              /\ StockKey(conf, g) \in DOMAIN stored
                              /\ stored[StockKey(conf, g)] = g.val
                        /\ \A k \in DOMAIN stored :
                              \/ k \in FileKeys(conf) \cup StockKeys(conf)
                              \/ k \in DOMAIN Bootstrap \/ Hidden(k)
      BY DEF Converged
    <2>1. conf \in Files /\ TenancyReady(conf)
      BY <1>1 DEF Inv, TenancyInv, ProcessInv, ReadyInv
    <2>2. /\ FileWritten(Len(conf.entries)) /\ StockWritten /\ extra = {}
          /\ \A k \in DOMAIN stored : Stays(k)
      BY <1>1 DEF Inv, EntriesInv
    <2>3. \A k \in FileKeys(conf) :
             k \in DOMAIN stored /\ stored[k] = Intended(conf, Len(conf.entries), k)
      BY <2>1, <2>2, WrittenIsIntended
    <2>4. \A e \in StockLeft(conf) : \E g \in StockLeft(conf) :
             /\ SameName(e, g)
             /\ StockKey(conf, g) \in DOMAIN stored
             /\ stored[StockKey(conf, g)] = g.val
      BY <2>2 DEF StockWritten, StockDone
    <2> QED
      BY <2>1, <2>2, <2>3, <2>4 DEF Stays
  <1> QED
    BY <1>1, AlwaysInv, PTL

(* No step of a run takes away what its file declares in a tenant it       *)
(* declares: tenants that go are others, entries deleted are undeclared.   *)
THEOREM AlwaysDeclaredKept == Spec => DeclaredKept
  <1> DEFINE Kept == \A k \in DOMAIN stored :
                        pc \notin Ended /\ k \in Declared(conf)
                          /\ <<k.part, k.ns>> \in Tenants(conf)
                            => k \in DOMAIN stored'
  <1>1. ASSUME Inv, [Next]_vars PROVE Kept
    <2>1. ASSUME UNCHANGED stored PROVE Kept
      BY <2>1
    <2>2. ASSUME ChangeTenants PROVE Kept
      BY <1>1, <2>2, ChangeTenantsKeeps
    <2>3. ASSUME NEW k \in current, DeleteEntry(k) PROVE Kept
      BY <1>1, <2>3, DeleteEntryKeeps
    <2>4. ASSUME SetEntry PROVE Kept
      BY <1>1, <2>4, SetEntryKeeps
    <2>5. ASSUME NEW e \in extra, SetStock(e) PROVE Kept
      BY <1>1, <2>5, SetStockKeeps
    <2>6. ASSUME ElectLeader PROVE Kept
      BY <1>1, <2>6, ElectLeaderKeeps
    <2>7. ASSUME ListEntries \/ EntriesWritten \/ \E k \in current : DeleteRejected(k)
          PROVE  UNCHANGED stored
      BY <2>7 DEF ListEntries, EntriesWritten, DeleteRejected
    <2>8. Begin \/ UNCHANGED vars => UNCHANGED stored
      BY DEF Begin, vars
    <2> QED
      BY <1>1, <2>1, <2>2, <2>3, <2>4, <2>5, <2>6, <2>7, <2>8 DEF Next, Process
  <1>2. Inv /\ [Next]_vars => [Kept]_vars
    BY <1>1
  <1> QED
    BY <1>2, AlwaysInv, PTL DEF Spec, DeclaredKept

-----------------------------------------------------------------------------
(* A run fails of itself for the reasons Blocked lists only.               *)

(* What the last of the first n entries with a key says.                   *)
LEMMA IntendedIs ==
    ASSUME NEW f, NEW n \in Nat, NEW j \in 1..n, Last(f, n, j)
    PROVE  Intended(f, n, FileKey(f, j)) = Contents(f, j)
  <1> DEFINE k == FileKey(f, j)
             P(i) == FileKey(f, i) = k /\ \A h \in (i + 1)..n : FileKey(f, h) # k
             c == CHOOSE i \in 1..n : P(i)
  <1>1. P(j)
    BY DEF Last
  <1>2. ASSUME NEW i \in 1..n, P(i) PROVE i = j
    BY <1>1, <1>2
  <1>3. c = j
    <2> HIDE DEF P
    <2> QED
      BY <1>1, <1>2
  <1>4. Intended(f, n, k) =
           IF f.metrics /\ Finds(f, c, StockProxyDefaults)
             THEN [f.entries[c].val EXCEPT !.metrics = TRUE] ELSE f.entries[c].val
    BY DEF Intended
  <1> QED
    BY <1>3, <1>4 DEF Contents

(* Over what is stored, the entries that are written change nothing.       *)
LEMMA WrittenIsOver ==
    ASSUME NEW n \in Nat, FileWritten(n)
    PROVE  /\ DOMAIN Over(stored, conf, n) = DOMAIN stored
           /\ \A k \in DOMAIN stored : Over(stored, conf, n)[k] = stored[k]
  <1> DEFINE keys == {FileKey(conf, i) : i \in 1..n}
  <1>1. ASSUME NEW k \in keys
        PROVE  k \in DOMAIN stored /\ Intended(conf, n, k) = stored[k]
    <2>1. PICK j \in 1..n :
             /\ FileKey(conf, j) = k /\ Last(conf, n, j)
             /\ k \in DOMAIN stored /\ stored[k] = Contents(conf, j)
      BY <1>1 DEF FileWritten
    <2> QED
      BY <2>1, IntendedIs
  <1> QED
    BY <1>1 DEF Over

(* The next one is put over them.                                          *)
LEMMA NextIsPut ==
    ASSUME NEW n \in Nat \ {0}, FileWritten(n - 1)
    PROVE  Over(stored, conf, n) = Put(stored, FileKey(conf, n), Contents(conf, n))
  <1> DEFINE keys == {FileKey(conf, i) : i \in 1..n}
             key  == FileKey(conf, n)
  <1>1. key \in keys /\ Intended(conf, n, key) = Contents(conf, n)
    <2>1. n \in 1..n /\ Last(conf, n, n)
      BY DEF Last
    <2> QED
      BY <2>1, IntendedIs
  <1>2. ASSUME NEW k \in keys, k # key
        PROVE  k \in DOMAIN stored /\ Intended(conf, n, k) = stored[k]
    <2>1. PICK i \in 1..(n - 1) : k = FileKey(conf, i)
      BY <1>2
    <2>2. PICK j \in 1..(n - 1) :
             /\ FileKey(conf, j) = k /\ Last(conf, n - 1, j)
             /\ k \in DOMAIN stored /\ stored[k] = Contents(conf, j)
      BY <2>1 DEF FileWritten
    <2>3. Last(conf, n, j)
      <3> SUFFICES ASSUME NEW h \in (j + 1)..n
                   PROVE  FileKey(conf, h) # FileKey(conf, j)
        BY DEF Last
      <3>1. h = n \/ h \in (j + 1)..(n - 1)
        OBVIOUS
      <3> QED
        BY <1>2, <2>2, <3>1 DEF Last
    <2> QED
      BY <2>2, <2>3, IntendedIs
  <1>3. DOMAIN stored \cup keys = DOMAIN stored \cup {key}
    BY <1>1, <1>2
  <1> QED
    BY <1>1, <1>2, <1>3 DEF Over, Put

LEMMA EntryRefusedIsBlocked ==
    ASSUME Inv, pc = "set", next \in DOMAIN conf.entries,
           SetRefused(conf, Scrubbed(conf, conf.entries[next]), Contents(conf, next))
    PROVE  Blocked(conf)
  <1> DEFINE e == Scrubbed(conf, conf.entries[next])
             v == Contents(conf, next)
  <1>1. /\ conf \in Files /\ next \in Nat \ {0} /\ FileWritten(next - 1)
        /\ Tenants(conf) \subseteq spaces
    <2>1. conf \in Files /\ TenancyReady(conf)
      BY DEF Inv, TenancyInv, ProcessInv, ReadyInv
    <2> QED
      BY <2>1, FileFacts DEF Inv, EntriesInv, TenancyReady
  <1>2. Key(e) = FileKey(conf, next)
    BY DEF FileKey
  <1>3. CASE NamesTenant(conf, e)
    BY <1>3 DEF Blocked
  <1>4. CASE <<Key(e).part, Key(e).ns>> \notin spaces
    BY <1>1, <1>2, <1>4 DEF Blocked, FileKeys
  <1>5. CASE ~Consistent(Put(stored, Key(e), v))
    BY <1>1, <1>2, <1>5, NextIsPut DEF Blocked
  <1> QED
    BY <1>3, <1>4, <1>5 DEF SetRefused

(* A stock intention is refused by Consul only for its tenant.             *)
LEMMA StockRefusedIsBlocked ==
    ASSUME Inv, pc = "set", next \notin DOMAIN conf.entries,
           NEW stock \in extra, SetRefused(conf, Scrubbed(conf, stock), stock.val)
    PROVE  Blocked(conf)
  <1> DEFINE e == Scrubbed(conf, stock)
             n == Len(conf.entries)
  <1>1. /\ conf \in Files /\ stock \in StockLeft(conf) /\ n \in Nat
        /\ FileWritten(n) /\ Tenants(conf) \subseteq spaces /\ Consistent(stored)
    <2>1. conf \in Files /\ TenancyReady(conf)
      BY DEF Inv, TenancyInv, ProcessInv, ReadyInv
    <2>2. n \in Nat /\ next - 1 = n
      BY <2>1, FileFacts DEF Inv, EntriesInv
    <2> QED
      BY <2>1, <2>2 DEF Inv, EntriesInv, StoreInv, StockWritten, TenancyReady
  <1>2. Key(e) = StockKey(conf, stock) /\ Key(e) \in StockKeys(conf)
    BY <1>1 DEF StockKey, StockKeys
  <1>3. ~NamesTenant(conf, e)
    BY <1>1, StockKinds DEF NamesTenant, Scrubbed, Scrubs
  <1>4. CASE <<Key(e).part, Key(e).ns>> \notin spaces
    BY <1>1, <1>2, <1>4 DEF Blocked
  <1>5. CASE ~Consistent(Put(stored, Key(e), stock.val))
    <2>1. CASE stock = StockProxyDefaults
      <3> DEFINE over == Put(Over(stored, conf, n), Key(e), stock.val)
                 put  == Put(stored, Key(e), stock.val)
      <3>1. DOMAIN over = DOMAIN put /\ \A k \in DOMAIN put : over[k] = put[k]
        BY <1>1, WrittenIsOver DEF Put
      <3>2. ~Consistent(over)
        <4> HIDE DEF over, put
        <4> QED
          BY <1>5, <3>1, ProtocolSame DEF Consistent, put
      <3> QED
        BY <1>1, <1>2, <2>1, <3>2 DEF Blocked
    <2>2. CASE Key(e).kind = "service-intentions"
      <3> DEFINE put == Put(stored, Key(e), stock.val)
      <3>1. /\ DOMAIN put = DOMAIN stored \cup {Key(e)}
            /\ \A k \in DOMAIN stored : k # Key(e) => put[k] = stored[k]
        BY DEF Put
      <3> HIDE DEF put
      <3>2. ASSUME NEW k \in DOMAIN put, k.kind \in Routed
            PROVE  Protocol(put, k) # "tcp"
        <4>1. k \in DOMAIN stored
          BY <2>2, <3>1, <3>2 DEF Routed
        <4>2. OwnOf(k) # Key(e) /\ GlobalOf(k) # Key(e)
          BY <2>2 DEF OwnOf, GlobalOf
        <4>3. Protocol(put, k) = Protocol(stored, k)
          BY <3>1, <4>2, ProtocolSame
        <4> QED
          BY <1>1, <3>2, <4>1, <4>3 DEF Consistent
      <3> QED
        BY <1>5, <3>2 DEF Consistent, put
    <2>3. stock = StockProxyDefaults \/ stock.kind = "service-intentions"
      BY <1>1, StockKinds DEF StockLeft, Stock, StockIntentions
    <2> QED
      BY <1>1, <1>2, <2>1, <2>2, <2>3, StockKinds
  <1> QED
    BY <1>3, <1>4, <1>5 DEF SetRefused

(* An interruption counts.                                                 *)
SpentInv == spent \in [{"edits", "interrupts"} -> Nat]

LEMMA SpendCounts ==
    ASSUME SpentInv, NEW what \in {"edits", "interrupts"}, NEW bound, Spend(what, bound)
    PROVE  SpentInv' /\ spent' # spent
  BY DEF SpentInv, Spend

LEMMA AlwaysSpent == Spec => []SpentInv
  <1>1. Init => SpentInv
    BY DEF Init, TenancyInit, SpentInv
  <1>2. SpentInv /\ [Next]_vars => SpentInv'
    <2> SUFFICES ASSUME SpentInv, [Next]_vars PROVE SpentInv'
      OBVIOUS
    <2>1. Interrupt \/ (\E e \in Edits : EditConfig(e)) => SpentInv'
      BY SpendCounts DEF Interrupt, EditConfig
    <2>2. UNCHANGED vars \/ Begin \/ ElectLeader \/ ListEntries \/ SetEntry \/ EntriesWritten
             \/ (\E e \in extra : SetStock(e))
             \/ (\E k \in current : DeleteEntry(k) \/ DeleteRejected(k))
             => spent' = spent
      BY DEF vars, tenancyVars, Begin, Start, ElectLeader, ListEntries, SetEntry, SetStock,
         Refuse, DeleteEntry, DeleteRejected, EntriesWritten
    <2>3. TenancyStep => spent' = spent
      BY DEF TenancyStep, CreatePartition, DeletePartition, PartitionsCreated, CreatePolicy,
         PolicyRefused, CreateNamespace, DeleteNamespace, NamespacesCreated, TenancyDone
    <2> QED
      BY <2>1, <2>2, <2>3 DEF Next, Process, ChangeTenants, SpentInv
  <1> QED
    BY <1>1, <1>2, PTL DEF Spec

(* Whatever earlier files, interruptions and elections left behind, a run  *)
(* is only ever refused a request for what Blocked lists: a tenant or a    *)
(* protocol that is not there, or a router that would only be deleted      *)
(* later.  No order of entries and no other leftover makes `up` fail.      *)
THEOREM AlwaysFailsOnlyIfBlocked == Spec => FailsOnlyIfBlocked
  <1> DEFINE Caused ==
         pc \notin Ended /\ pc' \in {"failed", "rejected"} /\ spent' = spent
           => Blocked(conf)
  <1>1. ASSUME Inv, SpentInv, [Next]_vars PROVE Caused
    <2> SUFFICES ASSUME pc \notin Ended, pc' \in {"failed", "rejected"}, spent' = spent
                 PROVE  Blocked(conf)
      OBVIOUS
    <2>1. CASE ChangeTenants
      <3>1. PolicyRefused
        BY <2>1 DEF ChangeTenants, TenancyStep, CreatePartition, DeletePartition,
           PartitionsCreated, CreatePolicy, CreateNamespace, DeleteNamespace,
           NamespacesCreated, TenancyDone, Goto, Ended
      <3>2. conf.enterprise /\ ~conf.acls /\ conf.partitions # <<>>
        BY <1>1, <3>1 DEF PolicyRefused, Inv, TenancyInv, ProcessInv
      <3> QED
        BY <3>2 DEF Blocked
    <2>2. CASE SetEntry
      BY <1>1, <2>2, EntryRefusedIsBlocked DEF SetEntry, Refuse, Ended
    <2>3. ASSUME NEW e \in extra, SetStock(e) PROVE Blocked(conf)
      BY <1>1, <2>3, StockRefusedIsBlocked DEF SetStock, Refuse, Ended,
         tenancyVars
    <2>4. ASSUME NEW k \in current, DeleteRejected(k) PROVE Blocked(conf)
      BY <1>1, <2>4, DeletionFits DEF DeleteRejected, Blocked
    <2>5. ASSUME Interrupt PROVE FALSE
      BY <1>1, <2>5, SpendCounts DEF Interrupt
    <2>6. ASSUME \/ ListEntries \/ EntriesWritten \/ (\E k \in current : DeleteEntry(k))
                 \/ Begin \/ ElectLeader \/ UNCHANGED vars
                 \/ \E e \in Edits : EditConfig(e)
          PROVE  FALSE
      BY <2>6 DEF ListEntries, EntriesWritten, DeleteEntry, Begin, Start, ElectLeader, vars,
         EditConfig, Goto, Ended, tenancyVars
    <2> QED
      BY <1>1, <2>1, <2>2, <2>3, <2>4, <2>5, <2>6 DEF Next, Process
  <1>2. Inv /\ SpentInv /\ [Next]_vars => [Caused]_vars
    BY <1>1
  <1> QED
    BY <1>2, AlwaysInv, AlwaysSpent, PTL DEF Spec, FailsOnlyIfBlocked

-----------------------------------------------------------------------------
(* CentralConfigs implements Reconcile.                                    *)

LEMMA PhaseOfRun ==
    /\ pc \in {"idle", "failed", "rejected"} => SyncPhase = "idle"
    /\ pc \in {"partitions", "policy", "namespaces", "list"} => SyncPhase = "prepare"
    /\ pc = "set" => SyncPhase = "sync"
    /\ pc = "done" => SyncPhase = "settled"
  BY DEF SyncPhase, Ended

(* What is wanted depends on the file the run has loaded alone.            *)
LEMMA WantedSame ==
    ASSUME conf' = conf
    PROVE  Wanted' = Wanted /\ Allowed' = Allowed
  BY DEF Wanted, Allowed

LEMMA WantedIsAllowed == Wanted \subseteq Allowed /\ Wanted' \subseteq Allowed'
  <1>1. \A f : Declared(f) \subseteq FileKeys(f) \cup StockKeys(f)
    BY DEF Declared, Certain, StockKeys
  <1> QED
    BY <1>1 DEF Wanted, Allowed

(* When deletions begin, all that is declared is stored.                   *)
LEMMA DeclaredStored ==
    ASSUME Inv, Deleting
    PROVE  conf # None /\ Declared(conf) \subseteq DOMAIN stored
  <1>1. pc = "set" /\ next \notin DOMAIN conf.entries /\ extra = {} /\ conf \in Files
    BY DEF Deleting, Inv, TenancyInv, ProcessInv, Ended
  <1>2. FileWritten(next - 1) /\ StockWritten /\ DOMAIN conf.entries = 1..(next - 1)
    BY <1>1, FileFacts DEF Inv, EntriesInv
  <1>3. FileKeys(conf) \subseteq DOMAIN stored
    BY <1>2 DEF FileWritten, FileKeys
  <1>4. ASSUME NEW e \in Certain(conf) PROVE StockKey(conf, e) \in DOMAIN stored
    <2>1. PICK g \in StockLeft(conf) : SameName(e, g) /\ StockDone(g)
      BY <1>1, <1>2 DEF StockWritten, Certain
    <2>2. g = e
      BY <2>1 DEF Certain
    <2> QED
      BY <2>1, <2>2 DEF StockDone
  <1> QED
    BY <1>1, <1>3, <1>4, NoneIsNoFile DEF Declared

(* A run that fails leaves the entries as they are.                        *)
LEMMA StopReconciles ==
    ASSUME pc' \in {"failed", "rejected"}, conf' = None, DOMAIN stored' = DOMAIN stored
    PROVE  Reconciliation!Stop
  <1>1. Wanted' = {} /\ Allowed' = {} /\ SyncPhase' = "idle"
    BY DEF Wanted, Allowed, SyncPhase, Ended
  <1> QED
    BY <1>1 DEF Reconciliation!Stop

(* Tenants that go take no declared entry with them.                       *)
LEMMA TenantsReconcile ==
    ASSUME Inv, ChangeTenants
    PROVE  Reconciliation!Next
  <1>1. /\ TenancyStep
        /\ DOMAIN stored' = DOMAIN stored \ {k \in DOMAIN stored : <<k.part, k.ns>> \notin spaces'}
        /\ \A k \in DOMAIN stored : <<k.part, k.ns>> \in Tenants(conf) => k \in DOMAIN stored'
    BY ChangeTenantsKeeps DEF ChangeTenants, Without
  <1>2. CASE PolicyRefused
    <2>1. pc' = "failed" /\ conf' = None /\ spaces' = spaces
      BY <1>2 DEF PolicyRefused, Stop, tenants
    <2>2. DOMAIN stored' = DOMAIN stored
      BY <1>1, <2>1 DEF Inv, StoreInv
    <2> QED
      BY <2>1, <2>2, StopReconciles DEF Reconciliation!Next
  <1>3. CASE ~PolicyRefused
    <2>1. /\ conf' = conf
          /\ pc \in {"partitions", "policy", "namespaces"}
          /\ pc' \in {"partitions", "policy", "namespaces", "list"}
      BY <1>1, <1>3 DEF TenancyStep, CreatePartition, DeletePartition, PartitionsCreated,
         CreatePolicy, CreateNamespace, DeleteNamespace, NamespacesCreated, TenancyDone, Goto
    <2>2. SyncPhase = "prepare" /\ SyncPhase' = "prepare"
      BY <2>1 DEF SyncPhase, Ended
    <2>3. Wanted \cap DOMAIN stored \subseteq DOMAIN stored'
      BY <1>1 DEF Wanted
    <2>4. Reconciliation!Drop
      BY <1>1, <2>1, <2>2, <2>3, WantedSame DEF Reconciliation!Drop
    <2> QED
      BY <2>4 DEF Reconciliation!Next
  <1> QED
    BY <1>2, <1>3

LEMMA SetEntryReconciles ==
    ASSUME Inv, SetEntry
    PROVE  Reconciliation!Next
  <1> DEFINE e == Scrubbed(conf, conf.entries[next])
             v == Contents(conf, next)
  <1>1. pc = "set" /\ next \in DOMAIN conf.entries /\ conf # None
    BY DEF SetEntry, Inv, TenancyInv, ProcessInv, Ended
  <1>2. CASE Refuse(e, v)
    <2>1. pc' = "failed" /\ conf' = None /\ DOMAIN stored' = DOMAIN stored
      BY <1>2 DEF Refuse, Stop
    <2> QED
      BY <2>1, StopReconciles DEF Reconciliation!Next
  <1>3. CASE Write(e, v) /\ UNCHANGED <<pc, conf>>
    <2>1. DOMAIN stored' = DOMAIN stored \cup {Key(e)}
      BY <1>3 DEF Write, Put
    <2>2. Key(e) \in Allowed
      BY <1>1 DEF Allowed, FileKeys, FileKey
    <2>3. SyncPhase = "sync" /\ SyncPhase' = "sync"
      BY <1>1, <1>3 DEF SyncPhase, Ended
    <2>4. Reconciliation!Write
      BY <1>3, <2>1, <2>2, <2>3, WantedSame DEF Reconciliation!Write
    <2> QED
      BY <2>4 DEF Reconciliation!Next
  <1> QED
    BY <1>2, <1>3 DEF SetEntry

LEMMA SetStockReconciles ==
    ASSUME Inv, NEW stock \in extra, SetStock(stock)
    PROVE  Reconciliation!Next
  <1> DEFINE e == Scrubbed(conf, stock)
  <1>1. pc = "set" /\ stock \in StockLeft(conf) /\ conf # None
    BY DEF SetStock, Inv, TenancyInv, ProcessInv, EntriesInv, StockWritten, Ended
  <1>2. CASE Refuse(e, stock.val)
    <2>1. pc' = "failed" /\ conf' = None /\ DOMAIN stored' = DOMAIN stored
      BY <1>2 DEF Refuse, Stop
    <2> QED
      BY <2>1, StopReconciles DEF Reconciliation!Next
  <1>3. CASE Write(e, stock.val) /\ UNCHANGED <<pc, conf>>
    <2>1. DOMAIN stored' = DOMAIN stored \cup {Key(e)}
      BY <1>3 DEF Write, Put
    <2>2. Key(e) \in Allowed
      BY <1>1 DEF Allowed, StockKeys, StockKey
    <2>3. SyncPhase = "sync" /\ SyncPhase' = "sync"
      BY <1>1, <1>3 DEF SyncPhase, Ended
    <2>4. Reconciliation!Write
      BY <1>3, <2>1, <2>2, <2>3, WantedSame DEF Reconciliation!Write
    <2> QED
      BY <2>4 DEF Reconciliation!Next
  <1> QED
    BY <1>2, <1>3 DEF SetStock, tenancyVars

LEMMA DeletionReconciles ==
    ASSUME Inv, NEW k \in current, DeleteEntry(k)
    PROVE  Reconciliation!Next
  <1>1. /\ Deleting /\ pc = "set" /\ UNCHANGED <<pc, conf>>
        /\ k \notin Declared(conf) /\ DOMAIN stored' = DOMAIN stored \ {k}
    BY DeleteEntryKeeps DEF DeleteEntry, Deleting, tenancyVars
  <1>2. Wanted \subseteq DOMAIN stored'
    BY <1>1, DeclaredStored DEF Wanted
  <1>3. SyncPhase = "sync" /\ SyncPhase' = "sync"
    BY <1>1 DEF SyncPhase, Ended
  <1>4. Reconciliation!Remove
    BY <1>1, <1>2, <1>3, WantedSame DEF Reconciliation!Remove
  <1> QED
    BY <1>4 DEF Reconciliation!Next

LEMMA EndReconciles ==
    ASSUME Inv, EntriesWritten
    PROVE  Reconciliation!Next
  <1>1. Deleting /\ pc = "set" /\ current = {} /\ pc' = "done" /\ UNCHANGED <<conf, stored>>
    BY DEF EntriesWritten, Deleting
  <1>2. Wanted \subseteq DOMAIN stored /\ conf # None
    BY <1>1, DeclaredStored DEF Wanted
  <1>3. \A k \in DOMAIN stored : k \in Allowed \cup DOMAIN Bootstrap \/ Hidden(k)
    BY <1>1, <1>2 DEF Inv, EntriesInv, Stays, Allowed
  <1>4. SyncPhase = "sync" /\ SyncPhase' = "settled"
    BY <1>1 DEF SyncPhase, Ended
  <1>5. Reconciliation!Settle
    BY <1>1, <1>2, <1>3, <1>4, WantedSame DEF Reconciliation!Settle
  <1> QED
    BY <1>5 DEF Reconciliation!Next

LEMMA BeginReconciles ==
    ASSUME Begin
    PROVE  Reconciliation!Next
  <1>1. pc \in Ended /\ pc' \in {"partitions", "list"} /\ UNCHANGED stored
    BY DEF Begin, Start, Goto
  <1>2. SyncPhase \in {"idle", "settled"} /\ SyncPhase' = "prepare"
    BY <1>1 DEF SyncPhase, Ended
  <1>3. Wanted' \subseteq Allowed'
    BY WantedIsAllowed
  <1>4. Reconciliation!Begin
    BY <1>1, <1>2, <1>3 DEF Reconciliation!Begin
  <1> QED
    BY <1>4 DEF Reconciliation!Next

LEMMA ListReconciles ==
    ASSUME ListEntries
    PROVE  Reconciliation!Next
  <1>1. pc = "list" /\ pc' = "set" /\ UNCHANGED <<conf, stored>>
    BY DEF ListEntries, Goto
  <1>2. SyncPhase = "prepare" /\ SyncPhase' = "sync"
    BY <1>1 DEF SyncPhase, Ended
  <1>3. Reconciliation!BeginSync
    BY <1>1, <1>2, WantedSame DEF Reconciliation!BeginSync
  <1> QED
    BY <1>3 DEF Reconciliation!Next

LEMMA ElectionReconciles ==
    ASSUME ElectLeader
    PROVE  Reconciliation!Next
  <1>1. UNCHANGED <<pc, conf>> /\ DOMAIN stored' = DOMAIN stored \cup DOMAIN Bootstrap
    BY DEF ElectLeader, tenancyVars
  <1>2. SyncPhase' = SyncPhase
    BY <1>1 DEF SyncPhase
  <1>3. Reconciliation!AddForeign
    BY <1>1, <1>2, WantedSame DEF Reconciliation!AddForeign
  <1> QED
    BY <1>3 DEF Reconciliation!Next

LEMMA StepReconciles ==
    ASSUME Inv, [Next]_vars
    PROVE  Reconciliation!Next \/ UNCHANGED Reconciliation!vars
  <1>1. ASSUME UNCHANGED <<pc, conf, stored>> PROVE UNCHANGED Reconciliation!vars
    BY <1>1, WantedSame DEF Reconciliation!vars, SyncPhase
  <1>2. ASSUME NEW e \in Edits, EditConfig(e), UNCHANGED stored
        PROVE  UNCHANGED <<pc, conf, stored>>
    BY <1>2 DEF EditConfig
  <1>3. ASSUME Interrupt, UNCHANGED stored PROVE Reconciliation!Next
    BY <1>3, StopReconciles DEF Interrupt, Stop, Reconciliation!Next
  <1>4. ASSUME NEW k \in current, DeleteRejected(k) PROVE Reconciliation!Next
    BY <1>4, StopReconciles DEF DeleteRejected, Stop, Reconciliation!Next
  <1>5. UNCHANGED vars => UNCHANGED <<pc, conf, stored>>
    BY DEF vars, tenancyVars
  <1>6. Process => Reconciliation!Next
    BY <1>4, TenantsReconcile, ListReconciles, SetEntryReconciles, SetStockReconciles,
       DeletionReconciles, EndReconciles DEF Process
  <1> QED
    BY <1>1, <1>2, <1>3, <1>5, <1>6, BeginReconciles, ElectionReconciles DEF Next

(* writeCentralConfigs brings Consul's entries to the file as Reconcile    *)
(* promises, for any files and wherever runs are stopped.                  *)
THEOREM EntriesReconcile == Spec => ReconcileSpec
  <1>1. Init => Reconciliation!Init
    BY DEF Init, TenancyInit, Reconciliation!Init, SyncPhase, Wanted, Allowed, Ended
  <1>2. Inv /\ [Next]_vars => [Reconciliation!Next]_(Reconciliation!vars)
    BY StepReconciles
  <1> QED
    BY <1>1, <1>2, AlwaysInv, PTL DEF Spec, ReconcileSpec, Reconciliation!Spec

-----------------------------------------------------------------------------
(* Tenancy implements Reconcile as far as partitions are concerned.        *)

LEMMA PartitionsSame ==
    ASSUME conf' = conf
    PROVE  WantedPartitions' = WantedPartitions
  BY DEF WantedPartitions

LEMMA WantedAreNamed ==
    ASSUME conf \in Files, conf.enterprise
    PROVE  \A p : p \in WantedPartitions <=> Named(conf, p) /\ p # "default"
  BY NoneIsNoFile DEF WantedPartitions, Parted, Named

LEMMA PartitionsStop ==
    ASSUME conf' = None, UNCHANGED parts
    PROVE  Partitions!Next
  <1>1. PartitionsPhase' = "idle" /\ WantedPartitions' = {}
    BY DEF PartitionsPhase, WantedPartitions
  <1>2. Partitions!Stop
    BY <1>1 DEF Partitions!Stop
  <1> QED
    BY <1>2 DEF Partitions!Next

LEMMA PartitionsStep ==
    ASSUME TenancyInv, TenancyStep
    PROVE  Partitions!Next \/ UNCHANGED Partitions!vars
  <1>1. conf \in Files /\ conf # None /\ conf.enterprise
    <2>1. pc \in {"partitions", "policy", "namespaces"}
      BY DEF TenancyStep, CreatePartition, DeletePartition, PartitionsCreated,
         CreatePolicy, PolicyRefused, CreateNamespace, DeleteNamespace, NamespacesCreated,
         TenancyDone
    <2> QED
      BY <2>1 DEF TenancyInv, ProcessInv, Ended
  <1>2. CASE CreatePartition
    <2> DEFINE name == conf.partitions[next].name
    <2>1. /\ pc = "partitions" /\ next \in DOMAIN conf.partitions
          /\ UNCHANGED <<pc, conf>>
          /\ parts' = parts \/ (name # "default" /\ parts' = parts \cup {name})
      BY <1>2 DEF CreatePartition
    <2>2. UNCHANGED <<PartitionsPhase, WantedPartitions>> /\ PartitionsPhase = "sync"
      BY <1>1, <2>1, PartitionsSame DEF PartitionsPhase
    <2>3. CASE parts' = parts
      BY <2>2, <2>3 DEF Partitions!vars
    <2>4. CASE name # "default" /\ parts' = parts \cup {name}
      <3>1. name \in WantedPartitions
        BY <1>1, <2>1, <2>4, WantedAreNamed DEF Named
      <3>2. (parts \ {"default"})' = (parts \ {"default"}) \cup {name}
        BY <2>4
      <3>3. Partitions!Write
        BY <2>2, <3>1, <3>2 DEF Partitions!Write
      <3> QED
        BY <3>3 DEF Partitions!Next
    <2> QED
      BY <2>1, <2>3, <2>4
  <1>3. ASSUME pc = "partitions", next \notin DOMAIN conf.partitions
        PROVE  WantedPartitions \subseteq parts
    <2>1. \A i \in DOMAIN conf.partitions : conf.partitions[i].name \in parts
      <3>1. DOMAIN conf.partitions = 1..(next - 1)
        BY <1>1, <1>3, FileFacts DEF TenancyInv, PartitionsInv
      <3> QED
        BY <1>3, <3>1 DEF TenancyInv, PartitionsInv
    <2> QED
      BY <1>1, <2>1, WantedAreNamed DEF Named
  <1>4. ASSUME NEW p \in listed, DeletePartition(p) PROVE Partitions!Next
    <2>1. /\ pc = "partitions" /\ next \notin DOMAIN conf.partitions
          /\ UNCHANGED <<pc, conf>> /\ parts' = parts \ {p}
      BY <1>4 DEF DeletePartition
    <2>2. p \notin WantedPartitions
      BY <1>1, <1>4, DeletePartitionKeeps, WantedAreNamed
    <2>3. UNCHANGED <<PartitionsPhase, WantedPartitions>> /\ PartitionsPhase = "sync"
      BY <1>1, <2>1, PartitionsSame DEF PartitionsPhase
    <2>4. "default" \notin WantedPartitions
      BY <1>1, WantedAreNamed
    <2>5. Partitions!Remove
      BY <1>3, <2>1, <2>2, <2>3, <2>4 DEF Partitions!Remove
    <2> QED
      BY <2>5 DEF Partitions!Next
  <1>5. CASE PartitionsCreated
    <2>1. /\ pc = "partitions" /\ next \notin DOMAIN conf.partitions
          /\ listed \subseteq {"default"}
          /\ pc' = "policy" /\ UNCHANGED <<conf, parts>>
      BY <1>5 DEF PartitionsCreated, Unclaimed, tenants
    <2>2. parts \ {"default"} \subseteq WantedPartitions
      BY <1>1, <2>1, WantedAreNamed DEF TenancyInv, PartitionsInv
    <2>3. PartitionsPhase = "sync" /\ PartitionsPhase' = "settled"
      BY <1>1, <2>1 DEF PartitionsPhase
    <2>4. "default" \notin WantedPartitions
      BY <1>1, WantedAreNamed
    <2>5. Partitions!Settle
      BY <1>3, <2>1, <2>2, <2>3, <2>4, PartitionsSame DEF Partitions!Settle
    <2> QED
      BY <2>5 DEF Partitions!Next
  <1>6. CASE PolicyRefused
    BY <1>6, PartitionsStop DEF PolicyRefused, Stop, tenants
  <1>7. CASE CreatePolicy \/ CreateNamespace \/ NamespacesCreated \/ TenancyDone
               \/ \E ns \in listed : DeleteNamespace(ns)
    <2>1. UNCHANGED <<conf, parts>> /\ pc # "partitions" /\ pc' # "partitions"
      BY <1>7 DEF CreatePolicy, CreateNamespace, NamespacesCreated, TenancyDone,
         DeleteNamespace, Goto, tenants
    <2>2. PartitionsPhase' = PartitionsPhase
      BY <1>1, <2>1 DEF PartitionsPhase
    <2> QED
      BY <2>1, <2>2, PartitionsSame DEF Partitions!vars
  <1> QED
    BY <1>2, <1>4, <1>5, <1>6, <1>7 DEF TenancyStep

LEMMA PartitionsBegin ==
    ASSUME TenancyInv, Begin
    PROVE  Partitions!Next
  <1>1. /\ pc \in Ended /\ conf' = config /\ config \in Files /\ UNCHANGED parts
        /\ config.enterprise => pc' = "partitions"
    BY DEF Begin, Start, tenants, TenancyInv, ProcessInv
  <1>2. conf' # None
    BY <1>1, NoneIsNoFile
  <1>3. CASE config.enterprise
    <2>1. PartitionsPhase \in {"idle", "settled"} /\ PartitionsPhase' = "sync"
      BY <1>1, <1>2, <1>3 DEF PartitionsPhase, Ended
    <2>2. Partitions!Begin
      BY <1>1, <2>1 DEF Partitions!Begin
    <2> QED
      BY <2>2 DEF Partitions!Next
  <1>4. CASE ~config.enterprise
    <2>1. PartitionsPhase' = "idle" /\ WantedPartitions' = {}
      BY <1>1, <1>4 DEF PartitionsPhase, WantedPartitions
    <2>2. Partitions!Stop
      BY <1>1, <2>1 DEF Partitions!Stop
    <2> QED
      BY <2>2 DEF Partitions!Next
  <1> QED
    BY <1>3, <1>4

(* createPartitions brings the partitions to the file as Reconcile         *)
(* promises, for any files and wherever runs are stopped.                  *)
THEOREM PartitionsReconcile == Spec => PartitionsReconciled
  <1>1. Init => Partitions!Init
    BY DEF Init, TenancyInit, Partitions!Init, PartitionsPhase, WantedPartitions
  <1>2. Inv /\ [Next]_vars => [Partitions!Next]_(Partitions!vars)
    <2> SUFFICES ASSUME Inv, [Next]_vars
                 PROVE  Partitions!Next \/ UNCHANGED Partitions!vars
      OBVIOUS
    <2>1. ASSUME UNCHANGED <<pc, conf, parts>> PROVE UNCHANGED Partitions!vars
      BY <2>1, PartitionsSame DEF Partitions!vars, PartitionsPhase
    <2>2. ASSUME NEW e \in Edits, EditConfig(e) PROVE UNCHANGED <<pc, conf, parts>>
      BY <2>2 DEF EditConfig, tenants
    <2>3. ASSUME conf' = None, UNCHANGED tenants PROVE Partitions!Next
      BY <2>3, PartitionsStop DEF tenants
    <2>4. ASSUME ElectLeader \/ UNCHANGED vars PROVE UNCHANGED <<pc, conf, parts>>
      BY <2>4 DEF ElectLeader, vars, tenancyVars, tenants
    <2>5. ASSUME UNCHANGED <<conf, parts>>, pc # "partitions", pc' # "partitions"
          PROVE  UNCHANGED Partitions!vars
      BY <2>5, PartitionsSame DEF Partitions!vars, PartitionsPhase
    <2>6. Interrupt => conf' = None /\ UNCHANGED tenants
      BY DEF Interrupt, Stop
    <2>7. ASSUME NEW k \in current, DeleteEntry(k) \/ DeleteRejected(k)
          PROVE  Partitions!Next \/ UNCHANGED Partitions!vars
      BY <2>1, <2>3, <2>7 DEF DeleteEntry, DeleteRejected, Stop, tenancyVars, tenants
    <2>8. ASSUME ListEntries \/ EntriesWritten PROVE UNCHANGED Partitions!vars
      BY <2>5, <2>8 DEF ListEntries, EntriesWritten, Goto, Deleting, tenants
    <2>9. ASSUME SetEntry \/ \E e \in extra : SetStock(e)
          PROVE  (conf' = None /\ UNCHANGED tenants) \/ UNCHANGED <<pc, conf, parts>>
      BY <2>9 DEF SetEntry, SetStock, Refuse, Stop, tenancyVars, tenants
    <2>10. ChangeTenants => TenancyStep
      BY DEF ChangeTenants
    <2> QED
      BY <2>1, <2>2, <2>3, <2>4, <2>6, <2>7, <2>8, <2>9, <2>10, PartitionsStep,
         PartitionsBegin DEF Inv, Next, Process
  <1> QED
    BY <1>1, <1>2, AlwaysInv, PTL DEF Spec, PartitionsReconciled, Partitions!Spec
=============================================================================

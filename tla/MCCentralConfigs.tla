-------------------------- MODULE MCCentralConfigs --------------------------
(* Files for CentralConfigs: with and without Enterprise.                  *)
EXTENDS CentralConfigs

Entry(kind, name, v) == [kind |-> kind, name |-> name, ns |-> "", part |-> "", val |-> v]
Speaks(p)            == [Plain EXCEPT !.protocol = p]
In(e, part, ns)      == [e EXCEPT !.part = part, !.ns = ns]
Id(name, ns)         == [name |-> name, ns |-> ns, part |-> "default"]

Pings    == {[src |-> Id("ping", "default"), dst |-> Id("pong", "default")],
             [src |-> Id("pong", "default"), dst |-> Id("ping", "default")]}
\* A ping in namespace a calls the pong there: two destinations named pong.
PingsInA == Pings \cup {[src |-> Id("ping", "a"), dst |-> Id("pong", "a")]}

HTTP     == Entry("proxy-defaults", "global", Speaks("http"))
Pong(p)  == Entry("service-defaults", "pong", Speaks(p))
Router   == Entry("service-router", "pong", Plain)
Splitter == Entry("service-splitter", "pong", Plain)
Resolver == Entry("service-resolver", "pong", Plain)
Exported == Entry("exported-services", "default", Plain)
\* A kind that devconsul does not list.
Cert     == Entry("inline-certificate", "cert", Plain)
NoPing   == Entry("service-intentions", "ping", Plain)

Base == [enterprise |-> FALSE, acls |-> TRUE, partitions |-> <<>>, entries |-> <<>>,
         links |-> Pings, intentions |-> TRUE, metrics |-> FALSE]

With(e) == [Base EXCEPT !.entries = e]

Empty     == [Base EXCEPT !.intentions = FALSE]
Global    == With(<<HTTP, Router>>)
Own       == With(<<Pong("http"), Splitter, Cert>>)
OwnTCP    == With(<<Pong("tcp"), Resolver>>)
Metrics   == [With(<<In(HTTP, "default", ""), NoPing>>) EXCEPT !.metrics = TRUE]
Scraped   == [Base EXCEPT !.metrics = TRUE]
Bare      == With(<<Router>>)
Backwards == With(<<Router, Pong("http")>>)
Qualified == With(<<In(Pong("http"), "default", "default")>>)

\* Consul Enterprise.
Ent(ps, e) == [Base EXCEPT !.enterprise = TRUE, !.partitions = ps, !.entries = e]
Part(n, ns)   == [name |-> n, namespaces |-> ns]

Spaced  == [Ent(<<Part("default", <<"a">>), Part("p", <<>>)>>,
                <<In(Exported, "p", ""), In(Pong("http"), "default", "a")>>)
              EXCEPT !.links = PingsInA]
Closed  == Ent(<<Part("default", <<>>)>>, <<Exported>>)
Deep    == Ent(<<Part("default", <<"a">>)>>,
             <<In(HTTP, "default", ""), In(Router, "default", "a")>>)
Shallow == [Deep EXCEPT !.entries = <<>>]
Stray   == Ent(<<Part("p", <<"b">>), Part("default", <<"a">>)>>, <<>>)
NoACLs  == [Closed EXCEPT !.acls = FALSE]

First   == {Empty, Global, Own, OwnTCP, Metrics, Scraped, Backwards, Qualified,
            Spaced, Closed, Deep, Stray, NoACLs}

Changes ==
    {<<Global, Empty>>, <<Global, Bare>>, <<Bare, Global>>, <<Own, Empty>>, <<Empty, Own>>,
     <<Own, OwnTCP>>, <<OwnTCP, Own>>,
     <<Own, Backwards>>, <<Global, Own>>, <<Metrics, Global>>, <<Global, Scraped>>,
     <<Spaced, Closed>>, <<Closed, Stray>>, <<Stray, Spaced>>, <<Closed, NoACLs>>,
     <<Deep, Shallow>>, <<Shallow, Closed>>}
=============================================================================

------------------------ MODULE MCIngressNetworking ------------------------
(***************************************************************************)
(* Small instances of IngressNetworking.                                   *)
(***************************************************************************)
EXTENDS IngressNetworking

(* Hosts: letters are numbers from 3 on, so that they sort after - and dot. *)
PublicA == <<3, Dot, 7>>
PublicB == <<4, Dot, 7>>
Wildcard == <<Star, Dot, 7>>
LocalA == <<3, Dot, 5>> \o LocalSuffix                \* service 3 in namespace 5
LocalDash == <<3, Dot, 5, Dash, 6>> \o LocalSuffix     \* in namespace 5-6

Rule(hosts, v, paths) == [hosts |-> hosts, visibility |-> v, paths |-> paths]
TLS(hosts, ref) == [hosts |-> hosts, secret |-> ref]
IngressSpec(labels, rules, tls, http) == [labels |-> labels, rules |-> rules, tls |-> tls, http |-> http]

First == [ns |-> "one", name |-> "app"]
Second == [ns |-> "two", name |-> "app"]
TwoIngresses == {First, Second}

(* One certificate is in a namespace of its own, the other one where gateways run. *)
Cert == [ns |-> "certs", name |-> "cert"]
GatewayCert == [ns |-> IstioNamespace, name |-> "gateway-cert"]
TwoOrigins == {Cert, GatewayCert}

Names == <<PublicA, LocalA, LocalDash>>
WildcardNames == <<PublicA, LocalA, Wildcard>>
Holds(dns) == [dns |-> dns, pem |-> TRUE]

Plain == IngressSpec({}, <<Rule({PublicA}, "ExternalIP", <<"/v1", "">>)>>, <<>>, "Enabled")
Redirected == IngressSpec({"team"}, <<Rule({PublicA}, "ExternalIP", <<"">>)>>, <<>>, "Redirected")
Secured == IngressSpec({"team"},
             <<Rule({PublicA}, "ExternalIP", <<"/v1", "">>), Rule({LocalA}, "ClusterLocal", <<"">>)>>,
             <<TLS({PublicA}, Cert), TLS({LocalA}, Cert)>>, "Enabled")
Mixed == IngressSpec({},
             <<Rule({PublicA}, "ExternalIP", <<"">>), Rule({PublicB}, "ExternalIP", <<"">>)>>,
             <<TLS({PublicA}, Cert), TLS({PublicB}, GatewayCert)>>, "Redirected")
Local == IngressSpec({}, <<Rule({LocalA, LocalDash}, "ClusterLocal", <<"/v1", "">>)>>,
             <<TLS({LocalA, LocalDash}, Cert)>>, "Enabled")

TwoSpecs == First :> {Plain, Redirected, Secured, Mixed, Local} @@ Second :> {Secured}

TwoContents ==
  Cert :> {Holds(Names), Holds(WildcardNames), Holds(<<<<3>>, PublicA>>)} @@ GatewayCert :> {Holds(<<PublicB>>)}

(* Gateways and configurations. *)
Edge == Gateway("edge", "edge-gateway", URL("edge", "edge-system"), NoSelector)
TeamGateway == Gateway("team", "team-gateway", URL("team", "team-system"),
                       [nil |-> FALSE, valid |-> TRUE, labels |-> {"team"}])
BadSelector == [Edge EXCEPT !.selector = [nil |-> FALSE, valid |-> FALSE, labels |-> {}]]
ShortURL == [Edge EXCEPT !.url = <<"edge", "edge-system">>]
NoService == [Edge EXCEPT !.url = URL("missing", "edge-system")]

NotInstalled == [Edge EXCEPT !.name = "missing"]

ConfigMap(external, local, oldExternal, oldLocal) ==
  [new |-> [ExternalIP |-> external, ClusterLocal |-> local],
   old |-> [ExternalIP |-> oldExternal, ClusterLocal |-> oldLocal]]
NewFormat(external, local) == ConfigMap(external, local, <<>>, <<>>)
OldEntry(rest, g) == [url |-> g.url, rest |-> rest]

ManyConfigMaps == {
  NewFormat(Absent, Absent),
  NewFormat(List(<<>>), List(<<>>)),
  NewFormat(Blank, Blank),
  NewFormat(List(<<TeamGateway, Edge>>), Absent),
  NewFormat(List(<<TeamGateway>>), Absent),
  NewFormat(List(<<Edge>>), List(<<>>)),
  NewFormat(List(<<>>), Absent),
  NewFormat(List(<<Edge, BadSelector>>), Blank),
  NewFormat(List(<<ShortURL>>), Absent),
  NewFormat(List(<<NoService>>), Absent),
  NewFormat(List(<<NotInstalled>>), Absent),
  NewFormat(Garbage, Absent),
  ConfigMap(List(<<Edge>>), Absent, <<>>, <<OldEntry(<<"x">>, Edge)>>),
  ConfigMap(Absent, Absent, <<OldEntry(<<>>, Edge), OldEntry(<<"edge">>, Edge), OldEntry(<<"edge", "gw">>, Edge)>>, <<>>)
}

ServiceOf(g) == parseIngressGatewayConfig(g)
Knative == defaultIngressGateways[1]
SomeServices == {ServiceOf(g) : g \in {Edge, TeamGateway, Knative}}

(* The default Gateways, with one HTTP server for all hosts.  The one for local *)
(* requests runs on the pods of the external one, on another port.              *)
HTTPServer(port) == [port |-> port, hosts |-> {<<Star>>}, credential |-> {}, redirect |-> FALSE]
InstalledGateway(ns, name, service, port) ==
  [key |-> QualifiedName([ns |-> ns, name |-> name]), owner |-> [ns |-> "", name |-> ""],
   service |-> service, servers |-> {HTTPServer(port)}]
DefaultGateways ==
  {InstalledGateway(SystemNamespace, "knative-ingress-gateway", ServiceOf(Knative), 80),
   InstalledGateway(SystemNamespace, "knative-local-gateway", ServiceOf(Knative), 8081),
   InstalledGateway("edge", "edge-gateway", ServiceOf(Edge), 80),
   InstalledGateway("edge", "gw", ServiceOf(Edge), 80),
   InstalledGateway(SystemNamespace, "edge", ServiceOf(Edge), 80),
   InstalledGateway("team", "team-gateway", ServiceOf(TeamGateway), 80)}
PortsOfServices == [s \in SomeServices |-> IF s = ServiceOf(Knative) THEN {80, 443, 8081} ELSE {80, 443}]

Budget(c, e, d, x) ==
  [f \in Events |-> CASE f = "config" -> c [] f = "edit" -> e [] f = "delete" -> d [] f = "certificate" -> x]

Scenario(cm, setting, ingresses, held, events) ==
  [config |-> cm, filtered |-> setting, localTLS |-> setting, ingresses |-> ingresses,
   secrets |-> held, budget |-> events]

Issued(dns) == Cert :> Holds(dns) @@ GatewayCert :> Holds(<<PublicB>>)
Pending == [ref \in TwoOrigins |-> NoSecret]

Defaults == NewFormat(Absent, Absent)
Teams == NewFormat(List(<<TeamGateway, Edge>>), Absent)

(* One Ingress under every configuration and change of it, with an edit; and two *)
(* that share a certificate, one of them deleted, while it is issued or renewed, *)
(* or while the configuration changes, which an edit may meet as well.           *)
MixedScenarios ==
  {Scenario(cm, TRUE, {First}, Issued(dns), Budget(1, 1, 0, 0)) :
     cm \in {c \in ManyConfigMaps : Accepted(c)}, dns \in {Names, WildcardNames}}
    \cup {Scenario(cm, FALSE, TwoIngresses, held, Budget(0, 0, 1, 1)) :
            cm \in {Defaults, Teams}, held \in {Issued(Names), Pending}}
    \cup {Scenario(Defaults, TRUE, TwoIngresses, Issued(Names), events) :
            events \in {Budget(1, 0, 1, 0), Budget(1, 1, 0, 0)}}

=============================================================================

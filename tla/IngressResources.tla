-------------------------- MODULE IngressResources --------------------------
(***************************************************************************)
(* The objects that the controller makes of an Ingress: copies of its      *)
(* certificates, Gateways and VirtualServices, as functions of the Ingress,*)
(* the configuration and the origin Secrets.                               *)
(*                                                                         *)
(* Simplifications.                                                        *)
(*  - A host name is a sequence of tokens that are ordered like the bytes  *)
(*    they stand for: what matters of it is which host is a prefix of      *)
(*    which, and the order they are sorted into.                           *)
(*  - Generated names are records of what they are generated from.         *)
(*    GatewayName and WildcardGatewayName hash some of it with Adler-32    *)
(*    and cut long Ingress names: names that agree in what is left stand   *)
(*    for one name here.                                                   *)
(*  - No label of a host is all digits: every short name is a valid one.   *)
(*  - A route leads to the rule and path it was made for; weights, headers *)
(*    and rewrites are copied from there one by one.                       *)
(***************************************************************************)
EXTENDS IstioConfig, SequencesExt

Star == 0
Dash == 1
Dot == 2
SvcSuffix == <<Dot, 8>>
DomainSuffix == <<Dot, 9>>
LocalSuffix == SvcSuffix \o DomainSuffix   \* ".svc." and the cluster's domain

HasDot(host) == Contains(host, Dot)

TrimSuffix(host, suffix) ==
  IF IsSuffix(suffix, host) THEN SubSeq(host, 1, Len(host) - Len(suffix)) ELSE host

StringLess(s, t) ==
  \/ IsStrictPrefix(s, t)
  \/ \E n \in DOMAIN s \cap DOMAIN t : s[n] < t[n] /\ \A m \in 1 .. n - 1 : s[m] = t[m]

ExpandedHosts(hosts) == UNION {{h, TrimSuffix(h, DomainSuffix), TrimSuffix(h, LocalSuffix)} : h \in hosts}

-----------------------------------------------------------------------------
(***************************************************************************)
(* The Ingress.                                                            *)
(***************************************************************************)
Hosts == Seq(Nat) \ {<<>>}
Refs == [ns: STRING, name: STRING]
IngressRules == [hosts: SUBSET Hosts, visibility: Visibilities, paths: Seq(STRING)]
IngressSpecs == [labels: SUBSET STRING, rules: Seq(IngressRules),
                 tls: Seq([hosts: SUBSET Hosts, secret: Refs]), http: {"Enabled", "Redirected"}]
SecretData == [pem: BOOLEAN, dns: Seq(Hosts)]

getHosts(ing) == UNION {r.hosts : r \in ToSet(ing.rules)}

RulesOf(ing, v) == {r \in ToSet(ing.rules) : r.visibility = v}
getPublicIngressRules(ing) == RulesOf(ing, "ExternalIP")
getClusterLocalIngressRules(ing) == RulesOf(ing, "ClusterLocal")

isIngressPublic(ing) == getPublicIngressRules(ing) # {}
getPublicHosts(ing) == UNION {r.hosts : r \in getPublicIngressRules(ing)}

(* The TLS entries that cover a whole rule of that visibility, once for each *)
(* such rule; a rule without hosts ends the search.                          *)
GetIngressTLSForVisibility(ing, v) ==
  LET Hostless(r) == r.visibility = v /\ r.hosts = {}
      stop == SelectInSeq(ing.rules, Hostless)
      searched == IF stop = 0 THEN ing.rules ELSE SubSeq(ing.rules, 1, stop - 1)
      Covering(r) ==
        Subsequence(ing.tls, {n \in DOMAIN ing.tls : r.visibility = v /\ r.hosts \subseteq ing.tls[n].hosts})
  IN FlattenSeq([n \in DOMAIN searched |-> Covering(searched[n])])

shouldReconcileExternalDomainTLS(ing) ==
  isIngressPublic(ing) /\ GetIngressTLSForVisibility(ing, "ExternalIP") # <<>>

shouldReconcileClusterLocalDomainTLS(ing) == GetIngressTLSForVisibility(ing, "ClusterLocal") # <<>>

shouldReconcileHTTPServer(ing) ==
  /\ isIngressPublic(ing)
  /\ ing.http = "Redirected" \/ GetIngressTLSForVisibility(ing, "ExternalIP") # <<>>

-----------------------------------------------------------------------------
(***************************************************************************)
(* Certificates.  A Secret is named by its reference [ns, name]; its       *)
(* content is [pem, dns]: whether it holds a certificate, and the DNS names*)
(* in it.                                                                  *)
(***************************************************************************)
GetSecrets(ing, v) == {tls.secret : tls \in ToSet(GetIngressTLSForVisibility(ing, v))}

isWildcardHost(host) == host[1] = Star

(* The first host that is a wildcard or has no dot decides; the latter is an error. *)
DecidingHost(secret) ==
  LET Decides(h) == ~HasDot(h) \/ isWildcardHost(h)
  IN SelectInSeq(secret.dns, Decides)

CertificateReadable(secret) ==
  /\ secret.pem
  /\ secret.dns # <<>>
  /\ DecidingHost(secret) # 0 => HasDot(secret.dns[DecidingHost(secret)])

isWildcardSecret(secret) == DecidingHost(secret) # 0

originName(ref) == [kind |-> "origin", of |-> ref, by |-> ""]
targetSecret(ref, ing) == [kind |-> "copy", of |-> ref, by |-> ing.name]
targetWildcardSecretName(ref) == [kind |-> "wildcard", of |-> ref, by |-> ""]

(* Slip: the label that the informer may filter by is not passed on. *)
makeSecretUnlabelled(ref, content, name, ns) ==
  [ns |-> ns, name |-> name, origin |-> ref, content |-> content, labelled |-> FALSE]

(* The labels name the origin, and the certificate's UID even if that is empty; *)
(* the copy has no owner.                                                       *)
makeSecret(ref, content, name, ns) ==
  [ns |-> ns, name |-> name, origin |-> ref, content |-> content, labelled |-> TRUE]

MakeCopies(refs, contents, services, names) ==
  UNION {{makeSecret(ref, contents[ref], names[ref], s.ns) :
            s \in {t \in ToSet(services) : t.ns # ref.ns}} : ref \in refs}

MakeSecrets(refs, contents, services, ing) ==
  MakeCopies(refs, contents, services, [ref \in refs |-> targetSecret(ref, ing)])

MakeWildcardSecrets(refs, contents, services) ==
  MakeCopies(refs, contents, services, [ref \in refs |-> targetWildcardSecretName(ref)])

-----------------------------------------------------------------------------
(***************************************************************************)
(* Gateways of the Ingress.  A Gateway is [key, owner, service, servers]:  *)
(* it runs on the pods of that service.                                    *)
(***************************************************************************)
TLSServer(hosts, port, credential) ==
  [port |-> port, hosts |-> hosts, credential |-> {credential}, redirect |-> FALSE]

CredentialName(ref, copy, service) == IF ref.ns = service.ns THEN originName(ref) ELSE copy

HTTPSPort(v) == IF v = "ExternalIP" THEN 443 ELSE 8444

MakeTLSServers(ing, v, tls, service) ==
  {TLSServer(t.hosts, HTTPSPort(v), CredentialName(t.secret, targetSecret(t.secret, ing), service)) :
     t \in ToSet(tls)}

(* The code makes none of an empty option, which IngressSpecs leaves out. *)
MakeHTTPServer(ing) ==
  {[port |-> 80, hosts |-> getPublicHosts(ing), credential |-> {}, redirect |-> ing.http = "Redirected"]}

GatewayName(ing, v, service) ==
  [kind |-> "ingress", of |-> ing.name, service |-> service, visibility |-> v]

makeIngressGateway(ing, v, servers, service) ==
  [key |-> [ns |-> ing.ns, name |-> GatewayName(ing, v, service)],
   owner |-> [ns |-> ing.ns, name |-> ing.name], service |-> service, servers |-> servers]

MakeIngressTLSGateways(ing, v, tls, services) ==
  IF tls = <<>> THEN {}
  ELSE {makeIngressGateway(ing, v, MakeTLSServers(ing, v, tls, s), s) : s \in ToSet(services)}

MakeExternalIngressGateways(ing, servers, services) ==
  {makeIngressGateway(ing, "ExternalIP", servers, s) : s \in ToSet(services)}

WildcardGatewayName(ref, service) ==
  [kind |-> "wildcard", of |-> ref.name, service |-> service, visibility |-> "ExternalIP"]

(* One for each wildcard certificate and service, owned by the certificate, for *)
(* all Ingresses that use it.                                                   *)
makeWildcardTLSGateway(ref, content, service) ==
  [key |-> [ns |-> ref.ns, name |-> WildcardGatewayName(ref, service)],
   owner |-> ref, service |-> service,
   servers |-> {TLSServer(ToSet(content.dns), 443,
                          CredentialName(ref, targetWildcardSecretName(ref), service))}]

MakeWildcardTLSGateways(refs, contents, services) ==
  {makeWildcardTLSGateway(ref, contents[ref], s) : ref \in refs, s \in ToSet(services)}

(* The HTTP server joins the TLS Gateways, or gets Gateways of its own. *)
AddHTTPServer(ing, gws, services) ==
  CASE ~shouldReconcileHTTPServer(ing) -> gws
    [] shouldReconcileHTTPServer(ing) /\ gws = {} ->
         MakeExternalIngressGateways(ing, MakeHTTPServer(ing), services)
    [] OTHER -> {[g EXCEPT !.servers = @ \cup MakeHTTPServer(ing)] : g \in gws}

GetQualifiedGatewayNames(gws) == {g.key : g \in gws}

-----------------------------------------------------------------------------
(***************************************************************************)
(* VirtualServices.                                                        *)
(***************************************************************************)
hostPrefix(host) == TrimSuffix(host, LocalSuffix)

(* Slip: the arguments of HasPrefix are swapped, the longer prefix stays. *)
getDistinctHostPrefixesLongest(hosts) ==
  LET Covered(h) == \E e \in hosts : StringLess(e, h) /\ IsPrefix(hostPrefix(h), hostPrefix(e))
  IN {hostPrefix(h) : h \in {x \in hosts : ~Covered(x)}}

(* A prefix is dropped if that of an earlier host (one that was dropped itself *)
(* has a shorter one before it) is a prefix of it.  Hosts are sorted before    *)
(* their suffix is trimmed.                                                    *)
getDistinctHostPrefixes(hosts) ==
  LET Covered(h) == \E e \in hosts : StringLess(e, h) /\ IsPrefix(hostPrefix(e), hostPrefix(h))
  IN {hostPrefix(h) : h \in {x \in hosts : ~Covered(x)}}

keepLocalHostnames(hosts) == {h \in hosts : IsSuffix(LocalSuffix, h)}

(* A match names the gateways of the rule's visibility, which may be none. *)
makeMatch(prefix, gateways) == [prefix |-> prefix, gateways |-> gateways]

(* Slip: a rule is bound to all gateways of the Ingress. *)
GatewaysOfAllRules(rule, gateways) == UNION {gateways[v] : v \in Visibilities}

GatewaysOfRule(rule, gateways) == gateways[rule.visibility]

makeVirtualServiceRoute(hosts, gateways, r, p, probe) ==
  [rule |-> r, path |-> p, probe |-> probe,
   matches |-> {makeMatch(h, gateways) : h \in getDistinctHostPrefixes(hosts)}]

(* The paths of a rule, each preceded by the one that InsertProbe makes of it. *)
RoutesOfRule(ing, n, gateways, hosts) ==
  LET rule == ing.rules[n]
      served == hosts \cap rule.hosts
      Routes(probe) == [p \in DOMAIN rule.paths |->
                         makeVirtualServiceRoute(served, GatewaysOfRule(rule, gateways), n, rule.paths[p], probe)]
  IN IF served = {} THEN <<>> ELSE Routes(TRUE) \o Routes(FALSE)

makeVirtualServiceSpec(ing, gateways, hosts) ==
  LET http == FlattenSeq([n \in DOMAIN ing.rules |-> RoutesOfRule(ing, n, gateways, hosts)])
  IN [hosts |-> hosts, http |-> http,
      gateways |-> UNION UNION {{m.gateways : m \in r.matches} : r \in ToSet(http)}]

Mesh == [ns |-> "", name |-> [kind |-> "mesh"]]

(* A set of one VirtualService, or of none. *)
MakeMeshVirtualService(ing, gateways) ==
  LET local == keepLocalHostnames(getHosts(ing))
      hosts == IF gateways["ClusterLocal"] # {} THEN ExpandedHosts(local) ELSE local
  IN {makeVirtualServiceSpec(ing, [v \in Visibilities |-> {Mesh}], hosts) : h \in {hosts} \ {{}}}

MakeIngressVirtualService(ing, gateways) ==
  makeVirtualServiceSpec(ing, gateways, ExpandedHosts(getHosts(ing)))

MakeVirtualServices(ing, gateways) ==
  MakeMeshVirtualService(ing, gateways)
    \cup {MakeIngressVirtualService(ing, gateways) :
            v \in {u \in Visibilities : RulesOf(ing, u) # {} /\ gateways[u] # {}}}

-----------------------------------------------------------------------------
(***************************************************************************)
(* What the objects mean to Istio: a request that comes in at a gateway is *)
(* answered by the first route that matches.  A match without gateways     *)
(* holds at all gateways of its VirtualService.                            *)
(***************************************************************************)
Matches(vs, route, req) ==
  /\ req.probe \/ ~route.probe
  /\ route.path \in {"", req.path}
  /\ \E m \in route.matches : IsPrefix(m.prefix, req.host) /\ (m.gateways = {} \/ req.gateway \in m.gateways)

Route(vs, req) ==
  LET Here(route) == Matches(vs, route, req)
  IN IF req.gateway \in vs.gateways /\ req.host \in vs.hosts THEN SelectInSeq(vs.http, Here) ELSE 0

=============================================================================

------------------------- MODULE IngressNetworking -------------------------
(***************************************************************************)
(* Several Ingresses, the configuration, the certificates, and the objects *)
(* that tie them together: the controller turns Ingresses into copies of   *)
(* certificates, Gateways and VirtualServices of IngressResources, under   *)
(* the configuration of IstioConfig, while all of them change.             *)
(*                                                                         *)
(* Simplifications.                                                        *)
(*  - Listers are up to date, the calls of one step of reconcileIngress do *)
(*    not interleave and do not fail: IngressReconciler and                *)
(*    SharedResources are about that.                                      *)
(*  - Probes succeed at once (StatusProber is about that), and the status  *)
(*    is what it says of the load balancers.                               *)
(*  - FinalizeKind's cleanup of the default Gateways is in SharedResources.*)
(*  - What a removed Ingress owned is collected at once.                   *)
(***************************************************************************)
EXTENDS ProbeTargets, FiniteSets

CONSTANTS
  Ingresses,    \* [ns, name] of each Ingress
  SpecsOf,      \* SpecsOf[i]: the specs it can be given: [labels, rules, tls, http]
  ConfigMaps,   \* the contents config-istio can be given
  Origins,      \* references of the origin Secrets
  Contents,     \* Contents[ref]: what they can hold
  Labelled,     \* the origin Secrets with the label of the certificate controller
  Services,     \* the Kubernetes Services that exist
  Scenarios     \* how the system starts, and how often each event may happen

Events == {"config", "edit", "delete", "certificate"}

NoSecret == [pem |-> FALSE, dns |-> <<>>]

(* What the webhook requires of an Ingress, and that its certificates are among *)
(* the Secrets of the model.                                                    *)
WellFormed(s) ==
  /\ \A n \in DOMAIN s.rules : IsFiniteSet(s.rules[n].hosts) /\ s.rules[n].paths # <<>>
  /\ \A n \in DOMAIN s.tls : s.tls[n].secret \in Origins

ASSUME NetworkingAssumption ==
  /\ Ingresses \subseteq Refs /\ Origins \subseteq Refs /\ Services \subseteq Refs
  /\ \A i \in Ingresses : SpecsOf[i] \subseteq IngressSpecs /\ \A s \in SpecsOf[i] : WellFormed(s)
  /\ ConfigMaps \subseteq ConfigMapData
  /\ \A ref \in Origins : Contents[ref] \subseteq SecretData \ {NoSecret}

(* What only the probes need.  Rules have a path for everything, and only      *)
(* cluster-local hosts have short names; Gateways that a configuration may     *)
(* name serve HTTP for all hosts, external ones on port 80 of the Service it   *)
(* names for them (config/202-gateway.yaml).                                   *)
ProbeableRule(r) ==
  /\ \E p \in DOMAIN r.paths : r.paths[p] = ""
  /\ \A h \in r.hosts : IF r.visibility = "ExternalIP" THEN ExpandedHosts({h}) = {h}
                        ELSE IsSuffix(DomainSuffix, h) => IsSuffix(LocalSuffix, h)

ProbeableEntry(v, entry) ==
  \A g \in getGateway(QualifiedName(entry)) :
    /\ \A s \in g.servers : <<Star>> \in s.hosts /\ (v = "ExternalIP" => s.port = 80)
    /\ v = "ExternalIP" /\ parseIngressGatewayConfig(entry) \in Services => g.service = parseIngressGatewayConfig(entry)

ASSUME InstallationAssumption ==
  /\ \A i \in Ingresses : \A s \in SpecsOf[i] : \A n \in DOMAIN s.rules : ProbeableRule(s.rules[n])
  /\ \A cm \in ConfigMaps : Accepted(cm) =>
       \A v \in Visibilities : \A n \in DOMAIN Parsed(cm)[v] : ProbeableEntry(v, Parsed(cm)[v][n])

ASSUME ScenariosAssumption ==
  \A s \in Scenarios :
    /\ s.config \in ConfigMaps /\ Accepted(s.config)
    /\ s.filtered \in BOOLEAN /\ s.localTLS \in BOOLEAN
    /\ s.ingresses \subseteq Ingresses
    /\ s.secrets = [ref \in Origins |-> s.secrets[ref]]
    /\ \A ref \in Origins : s.secrets[ref] \in {NoSecret} \cup Contents[ref]
    /\ s.budget \in [Events -> Nat]

VARIABLES
  config,     \* the last ConfigMap that was accepted; the store holds what it parses to
  filtered,   \* the Secret informer shows only labelled Secrets
  localTLS,   \* cluster-local-domain-tls is enabled
  spec,       \* the Ingresses
  life,       \* "live", "deleting" or "gone"; "never" when there is no such Ingress
  secrets,    \* the origin Secrets, NoSecret for one that does not exist
  copies,     \* their copies
  gateways,   \* the Gateways the controller made
  vs,         \* vs[i]: the VirtualServices of an Ingress
  lb,         \* lb[i]: the load balancers that its status names
  tracked,    \* tracked[i]: the objects whose events enqueue it
  queued,     \* the keys in the work queue
  work,       \* work[i]: the reconciliation of it that is under way
  budget

vars == <<config, filtered, localTLS, spec, life, secrets, copies, gateways, vs, lb,
          tracked, queued, work, budget>>

-----------------------------------------------------------------------------
(***************************************************************************)
(* The store and the queue.                                                *)
(***************************************************************************)
istio == Parsed(config)

Live == {i \in Ingresses : life[i] \in {"live", "deleting"}}

(* The object the worker read: with the identity of the Ingress. *)
Object(i) == [ns |-> i.ns, name |-> i.name, labels |-> spec[i].labels, rules |-> spec[i].rules,
              tls |-> spec[i].tls, http |-> spec[i].http]

NoNames == [v \in Visibilities |-> {}]

(* A reconciliation: its configuration and object, the gateway names it has  *)
(* collected, and the Gateways of its own that it has yet to write.          *)
Work(pc, i) == [pc |-> pc, istio |-> istio, ing |-> Object(i), names |-> NoNames, own |-> NoNames]
Idle == [pc |-> "idle"]

Busy(i, pc) == work[i].pc = pc

Proceed(i, pc, names, own) ==
  work' = [work EXCEPT ![i].pc = pc, ![i].names = names, ![i].own = own]

(* Those that track one of these objects. *)
Trackers(objects) == {i \in Ingresses : tracked[i] \cap objects # {}}

ResourcesUnchanged == UNCHANGED <<copies, gateways, vs, lb>>
InputsUnchanged == UNCHANGED <<config, filtered, localTLS, spec, life, secrets, budget>>

-----------------------------------------------------------------------------
(***************************************************************************)
(* Writing objects.                                                        *)
(***************************************************************************)
NameOf(c) == [ns |-> c.ns, name |-> c.name]
OriginRef(ref) == [ns |-> ref.ns, name |-> originName(ref)]

InInformer(labelled) == ~filtered \/ labelled

Visible(ref) == secrets[ref] # NoSecret /\ InInformer(ref \in Labelled)

(* reconcileCertSecrets: a copy that exists but is not shown by the lister is *)
(* an error.                                                                  *)
CopiesWritable(desired) ==
  \A c \in copies : NameOf(c) \in {NameOf(d) : d \in desired} => InInformer(c.labelled)

CopiesWith(desired) == {c \in copies : NameOf(c) \notin {NameOf(d) : d \in desired}} \cup desired

(* reconcileSystemGeneratedGateway for each: one that is there keeps its metadata. *)
Upsert(gws, desired) ==
  {g \in gws : g.key \notin GetQualifiedGatewayNames(desired)}
    \cup {LET old == {g \in gws : g.key = d.key}
          IN [d EXCEPT !.owner = IF old = {} THEN @ ELSE (CHOOSE g \in old : TRUE).owner] : d \in desired}

-----------------------------------------------------------------------------
(***************************************************************************)
(* reconcileIngress.                                                       *)
(***************************************************************************)
FirstStep(i) ==
  IF life[i] = "deleting" THEN "finalize" ELSE IF GatewaysEnabled(istio) THEN "external" ELSE "mesh"

StartReconcile(i) ==
  /\ i \in queued
  /\ Busy(i, "idle")
  /\ queued' = queued \ {i}
  /\ work' = [work EXCEPT ![i] = Work(FirstStep(i), i)]
  /\ ResourcesUnchanged /\ InputsUnchanged /\ UNCHANGED tracked

(* The gateways that the configuration gives to this Ingress, and the Services *)
(* behind the external ones.                                                   *)
Selected(w) == GatewaysFromContext(w.istio, w.ing.labels)
External(w) == Selected(w)["ExternalIP"]
ServicesKnown(w) == \A n \in DOMAIN External(w) : HasService(External(w)[n])
ServicesOf(w) == [n \in DOMAIN External(w) |-> parseIngressGatewayConfig(External(w)[n])]
ServicesExist(w) == ServicesKnown(w) /\ ToSet(ServicesOf(w)) \subseteq Services

(* Slip: only the origin is tracked, not the copy. *)
TrackedWithOriginOnly(cs, gs) == {OriginRef(c.origin) : c \in cs} \cup GetQualifiedGatewayNames(gs)

(* What reconcileCertSecrets and reconcileWildcardGateways track. *)
TrackedWith(cs, gs) ==
  {NameOf(c) : c \in cs} \cup {OriginRef(c.origin) : c \in cs} \cup GetQualifiedGatewayNames(gs)

(* Write copies and wildcard Gateways.  The tracker enqueues whoever tracks one *)
(* that changed, and this Ingress when it starts to track something.            *)
WriteShared(i, cs, gs, retried) ==
  LET changed == {NameOf(c) : c \in CopiesWith(cs) \ copies}
                   \cup GetQualifiedGatewayNames(Upsert(gateways, gs) \ gateways)
  IN /\ copies' = CopiesWith(cs)
     /\ gateways' = Upsert(gateways, gs)
     /\ tracked' = [tracked EXCEPT ![i] = @ \cup TrackedWith(cs, gs)]
     /\ queued' = queued \cup {j \in Live : tracked'[j] \cap changed # {}} \cup retried
                   \cup {j \in {i} : tracked'[i] # tracked[i]}
     /\ UNCHANGED <<vs, lb>>

Stop(i) == work' = [work EXCEPT ![i] = Idle]

(* Errors before anything is written. *)
GiveUp(i) == Stop(i) /\ queued' = queued \cup {i} /\ ResourcesUnchanged /\ UNCHANGED tracked

Skip(i, pc, names, own) == Proceed(i, pc, names, own) /\ ResourcesUnchanged /\ UNCHANGED <<queued, tracked>>

(* The TLS part of one visibility.  The Services are looked up after the copies *)
(* are written.                                                                 *)
ReconcileTLS(i, refs, cs, gs, pc, names, own) ==
  IF ~((\A ref \in refs : Visible(ref)) /\ ServicesKnown(work[i]) /\ CopiesWritable(cs))
  THEN GiveUp(i)
  ELSE IF ServicesExist(work[i])
  THEN WriteShared(i, cs, gs, {}) /\ Proceed(i, pc, names, own)
  ELSE WriteShared(i, cs, {}, {i}) /\ Stop(i)

ReconcileExternalTLS(i) ==
  LET w == work[i]
      tls == GetIngressTLSForVisibility(w.ing, "ExternalIP")
      refs == GetSecrets(w.ing, "ExternalIP")
      wild == {ref \in refs : isWildcardSecret(secrets[ref])}
      plain == Subsequence(tls, {n \in DOMAIN tls : tls[n].secret \notin wild})
      services == ServicesOf(w)
      gs == MakeWildcardTLSGateways(wild, secrets, services)
      names == [NoNames EXCEPT !["ClusterLocal"] = NamesOf(Selected(w)["ClusterLocal"])]
  IN /\ Busy(i, "external")
     /\ IF ~shouldReconcileExternalDomainTLS(w.ing)
        THEN Skip(i, "local", names, NoNames)
        ELSE IF \E ref \in refs : ~CertificateReadable(secrets[ref])
        THEN GiveUp(i)
        ELSE ReconcileTLS(i, refs,
               MakeSecrets(refs \ wild, secrets, services, w.ing) \cup MakeWildcardSecrets(wild, secrets, services),
               gs, "local", [names EXCEPT !["ExternalIP"] = GetQualifiedGatewayNames(gs)],
               [NoNames EXCEPT !["ExternalIP"] =
                  MakeIngressTLSGateways(w.ing, "ExternalIP", plain, services)])
     /\ InputsUnchanged

(* The Gateways of cluster-local hosts run on the external gateways' pods, too. *)
ReconcileClusterLocalTLS(i) ==
  LET w == work[i]
      tls == GetIngressTLSForVisibility(w.ing, "ClusterLocal")
      refs == GetSecrets(w.ing, "ClusterLocal")
      services == ServicesOf(w)
  IN /\ Busy(i, "local")
     /\ IF ~localTLS \/ ~shouldReconcileClusterLocalDomainTLS(w.ing)
        THEN Skip(i, "gateways", w.names, w.own)
        ELSE ReconcileTLS(i, refs, MakeSecrets(refs, secrets, services, w.ing), {}, "gateways", w.names,
               [w.own EXCEPT !["ClusterLocal"] = MakeIngressTLSGateways(w.ing, "ClusterLocal", tls, services)])
     /\ InputsUnchanged

(* The HTTP server, or the default Gateways, and the Gateways of the Ingress. *)
ReconcileIngressGateways(i) ==
  LET w == work[i]
      http == shouldReconcileHTTPServer(w.ing)
      external == AddHTTPServer(w.ing, w.own["ExternalIP"], ServicesOf(w))
      defaults == IF http THEN {} ELSE NamesOf(External(w))
      local == w.own["ClusterLocal"]
  IN /\ Busy(i, "gateways")
     /\ IF http /\ ~ServicesExist(w)
        THEN GiveUp(i)
        ELSE /\ gateways' = Upsert(Upsert(gateways, external), local)
             /\ Proceed(i, "virtualServices",
                  [w.names EXCEPT !["ExternalIP"] = @ \cup defaults \cup GetQualifiedGatewayNames(external),
                                  !["ClusterLocal"] = @ \cup GetQualifiedGatewayNames(local)], NoNames)
             /\ UNCHANGED <<copies, vs, lb, queued, tracked>>
     /\ InputsUnchanged

(* The first gateway's Service, or the mesh when there is none. *)
getLBStatus(gws) == IF gws = <<>> THEN <<>> ELSE gws[1].url
MeshOnly == <<>>
NotReported == <<"">>
Unreported == [v \in Visibilities |-> NotReported]

(* The extra VirtualServices go; an event of our own enqueues us.  Then the    *)
(* prober is asked, unless the status says Ready already, which it may do once *)
(* it was reported (IngressReconciler says when): a missing Gateway is an      *)
(* error, and the status is left as it is.                                     *)
ReconcileVirtualServices(i) ==
  LET w == work[i]
      made == MakeVirtualServices(w.ing, w.names)
      listed == TargetsListed(w.istio, w.ing)
  IN /\ Busy(i, "virtualServices")
     /\ vs' = [vs EXCEPT ![i] = made]
     /\ \/ /\ listed \/ lb[i] # Unreported
           /\ queued' = queued \cup {j \in {i} : made # vs[i]}
           /\ lb' = [lb EXCEPT ![i] = [v \in Visibilities |-> getLBStatus(Selected(w)[v])]]
        \/ ~listed /\ queued' = queued \cup {i} /\ UNCHANGED lb
     /\ Stop(i)
     /\ UNCHANGED <<copies, gateways, tracked>> /\ InputsUnchanged

-----------------------------------------------------------------------------
(***************************************************************************)
(* Mesh-only mode, and removal.                                            *)
(***************************************************************************)
ControlledBy(i) == {g \in gateways : g.owner = i /\ g.key.name.kind = "ingress"}

UsesTLS(ing) == shouldReconcileExternalDomainTLS(ing) \/ shouldReconcileClusterLocalDomainTLS(ing)

(* Slip: copies are found by the name that a copy has for one Ingress. *)
CopiesNamedFor(ing) == {c \in copies : UsesTLS(ing) /\ c.name.by = ing.name}

(* All copies of the certificates of the Ingress, found by the labels of their *)
(* origin: those of other Ingresses, too.                                      *)
CopiesOf(ing) ==
  {c \in copies : UsesTLS(ing) /\ InInformer(c.labelled) /\ c.origin \in {t.secret : t \in ToSet(ing.tls)}}

DeleteCopies(gone, woken) ==
  /\ copies' = copies \ gone
  /\ queued' = (queued \cup Trackers({NameOf(c) : c \in gone}) \cup woken) \cap Live

ReconcileMeshOnlyIngress(i) ==
  LET made == MakeVirtualServices(work[i].ing, NoNames)
  IN /\ Busy(i, "mesh")
     /\ vs' = [vs EXCEPT ![i] = made]
     /\ gateways' = gateways \ ControlledBy(i)
     /\ DeleteCopies(CopiesOf(work[i].ing), {j \in {i} : made # vs[i]})
     /\ lb' = [lb EXCEPT ![i] = [v \in Visibilities |-> MeshOnly]]
     /\ Stop(i)
     /\ UNCHANGED tracked /\ InputsUnchanged

(* Only in the namespaces of the gateways the Ingress has now; a Service URL *)
(* that names none is an error, and the finalizer stays.                     *)
FinalizeKind(i) ==
  LET w == work[i]
      clean == GatewaysEnabled(w.istio) /\ UsesTLS(w.ing)
      gone == {c \in CopiesOf(w.ing) : clean /\ c.ns \in {s.ns : s \in ToSet(ServicesOf(w))}}
  IN /\ Busy(i, "finalize")
     /\ IF clean /\ ~ServicesKnown(w)
        THEN GiveUp(i) /\ UNCHANGED life
        ELSE /\ DeleteCopies(gone, {})
             /\ life' = [life EXCEPT ![i] = "gone"]
             /\ gateways' = gateways \ ControlledBy(i)
             /\ vs' = [vs EXCEPT ![i] = {}]
             /\ Stop(i)
             /\ UNCHANGED <<lb, tracked>>
     /\ UNCHANGED <<config, filtered, localTLS, spec, secrets, budget>>

WorkerStep(i) ==
  \/ StartReconcile(i)
  \/ ReconcileExternalTLS(i) \/ ReconcileClusterLocalTLS(i)
  \/ ReconcileIngressGateways(i) \/ ReconcileVirtualServices(i)
  \/ ReconcileMeshOnlyIngress(i) \/ FinalizeKind(i)

-----------------------------------------------------------------------------
(***************************************************************************)
(* The environment.                                                        *)
(***************************************************************************)
Spend(e) == budget[e] > 0 /\ budget' = [budget EXCEPT ![e] = @ - 1]

ControllerUnchanged == ResourcesUnchanged /\ UNCHANGED <<tracked, work>>

(* The webhook refuses, and the store does not take, what does not parse. *)
SetConfigMap(cm) ==
  /\ cm # config
  /\ Spend("config")
  /\ config' = IF Accepted(cm) THEN cm ELSE config
  /\ queued' = IF Accepted(cm) THEN queued \cup Live ELSE queued
  /\ ControllerUnchanged /\ UNCHANGED <<filtered, localTLS, spec, life, secrets>>

UpdateSpec(i, s) ==
  /\ life[i] = "live" /\ s # spec[i]
  /\ Spend("edit")
  /\ spec' = [spec EXCEPT ![i] = s]
  /\ queued' = queued \cup {i}
  /\ ControllerUnchanged /\ UNCHANGED <<config, filtered, localTLS, life, secrets>>

DeleteIngress(i) ==
  /\ life[i] = "live"
  /\ Spend("delete")
  /\ life' = [life EXCEPT ![i] = "deleting"]
  /\ queued' = queued \cup {i}
  /\ ControllerUnchanged /\ UNCHANGED <<config, filtered, localTLS, spec, secrets>>

(* A certificate is issued, or renewed with other names. *)
IssueCertificate(ref, content) ==
  /\ content # secrets[ref]
  /\ Spend("certificate")
  /\ secrets' = [secrets EXCEPT ![ref] = content]
  /\ queued' = queued \cup {i \in Live : OriginRef(ref) \in tracked[i]}
  /\ ControllerUnchanged /\ UNCHANGED <<config, filtered, localTLS, spec, life>>

Environment ==
  \/ \E cm \in ConfigMaps : SetConfigMap(cm)
  \/ \E i \in Ingresses : DeleteIngress(i) \/ \E s \in SpecsOf[i] : UpdateSpec(i, s)
  \/ \E ref \in Origins : \E c \in Contents[ref] : IssueCertificate(ref, c)

Init ==
  /\ \E s \in Scenarios :
       /\ config = s.config /\ filtered = s.filtered /\ localTLS = s.localTLS
       /\ life = [i \in Ingresses |-> IF i \in s.ingresses THEN "live" ELSE "never"]
       /\ secrets = s.secrets
       /\ queued = s.ingresses
       /\ budget = s.budget
  /\ spec \in {f \in [Ingresses -> UNION {SpecsOf[i] : i \in Ingresses}] : \A i \in Ingresses : f[i] \in SpecsOf[i]}
  /\ copies = {} /\ gateways = {}
  /\ vs = [i \in Ingresses |-> {}]
  /\ lb = [i \in Ingresses |-> Unreported]
  /\ tracked = [i \in Ingresses |-> {}]
  /\ work = [i \in Ingresses |-> Idle]

Next == Environment \/ \E i \in Ingresses : WorkerStep(i)

Spec == Init /\ [][Next]_vars

-----------------------------------------------------------------------------
(***************************************************************************)
(* Properties.  They are about Ingresses at rest: the last reconciliation  *)
(* succeeded, and nothing that would enqueue them has happened since.      *)
(***************************************************************************)
AtRest(i) == life[i] = "live" /\ i \notin queued /\ Busy(i, "idle")

InGateways(i) == AtRest(i) /\ GatewaysEnabled(istio)

(* What the current configuration gives to the current Ingress. *)
Now(i) == [istio |-> istio, ing |-> Object(i)]

IngressVS(i) == {x \in vs[i] : Mesh \notin x.gateways}

Covers(pattern, host) ==
  IF isWildcardHost(pattern) THEN IsSuffix(Tail(pattern), host) ELSE pattern = host

(* The certificate that the pods of a service present for this server. *)
Presented(g, server) ==
  {secrets[ref] : ref \in {r \in Origins : r.ns = g.service.ns /\ originName(r) \in server.credential}}
    \cup {c.content : c \in {d \in copies : d.ns = g.service.ns /\ d.name \in server.credential}}

Ports(v) == IF v = "ExternalIP" THEN {80, HTTPSPort(v)} ELSE {HTTPSPort(v)}

ServersFor(g, v, host) ==
  {x \in g.servers : x.port \in Ports(v) /\ \E p \in x.hosts : Covers(p, host)}

(* What the Gateway of a wildcard certificate may have been made of. *)
ShownFor(i, ref) == {secrets[ref]} \cup IF OriginRef(ref) \in tracked[i] THEN {} ELSE Contents[ref]

Bound(i) == UNION {x.gateways : x \in IngressVS(i)}

(* Every host of an Ingress with a TLS entry is served with the certificate    *)
(* that its origin holds now, on the pods of every gateway the configuration   *)
(* gives to the Ingress: the VirtualService is bound to a Gateway on these     *)
(* pods with a server for the host, whose credential is a Secret in their      *)
(* namespace.  Names and namespaces are chosen in five places; other Ingresses *)
(* share certificate, copy or wildcard Gateway, and delete copies that are not *)
(* theirs.  (The Gateway of a wildcard certificate has the names that it had   *)
(* when it was reconciled, and an origin in the namespace of all gateways is   *)
(* not tracked: whatever that holds in turn has to cover the host.)            *)
EncryptedHostsServed ==
  \A i \in Ingresses : InGateways(i) =>
    \A v \in {u \in Visibilities : u = "ClusterLocal" => localTLS} :
      \A t \in ToSet(GetIngressTLSForVisibility(Object(i), v)) :
        \A r \in RulesOf(Object(i), v), s \in ToSet(ServicesOf(Now(i))) :
          \A h \in {x \in r.hosts \cap t.hosts : \A c \in ShownFor(i, t.secret) : \E d \in ToSet(c.dns) : Covers(d, x)} :
            \E g \in gateways :
              /\ g.key \in Bound(i) /\ g.service = s
              /\ \E server \in ServersFor(g, v, h) :
                   server.port = HTTPSPort(v) /\ secrets[t.secret] \in Presented(g, server)

(* Where clients of a host come in: the default Gateways, unless the Ingress   *)
(* has an HTTP server of its own, and the made ones that serve the host.       *)
EntryPoints(i, v, host) ==
  NamesOf(IF v = "ExternalIP" /\ shouldReconcileHTTPServer(Object(i)) THEN <<>> ELSE Selected(Now(i))[v])
    \cup {g.key : g \in {x \in gateways : x.key \in Bound(i) /\ ServersFor(x, v, host) # {}}}

(* No host of one rule is matched by the prefix of another rule's. *)
RulesApart(ing) ==
  \A m, n \in DOMAIN ing.rules : m # n =>
    \A g \in ing.rules[m].hosts, h \in ing.rules[n].hosts : ~IsPrefix(hostPrefix(g), hostPrefix(h))

Request(key, host, path) == [gateway |-> key, host |-> host, path |-> path, probe |-> FALSE]

(* A request for a host, or for one of the short names of a cluster-local one, *)
(* that comes in where the host's rule is visible, is routed to that rule and  *)
(* to the first of its paths that fits, although probe routes come first,      *)
(* hosts are matched by prefixes and prefixes of prefixes are dropped.  (Hosts *)
(* in the cluster's domain are names of services: hostPrefix trims no other.)  *)
RoutedToItsRule ==
  \A i \in Ingresses : InGateways(i) /\ RulesApart(Object(i)) =>
    \A n \in DOMAIN spec[i].rules :
      LET r == spec[i].rules[n]
          Fits(path) == LET Here(p) == p \in {"", path} IN r.paths[SelectInSeq(r.paths, Here)]
      IN \A h \in {x \in r.hosts : IsSuffix(DomainSuffix, x) => IsSuffix(LocalSuffix, x)} :
         \A key \in EntryPoints(i, r.visibility, h) :
           \A name \in ExpandedHosts({h}), path \in ToSet(r.paths) :
             \E x \in IngressVS(i) :
               LET k == Route(x, Request(key, name, path))
               IN k # 0 /\ x.http[k].rule = n /\ x.http[k].path = Fits(path)

LocalHosts(i) == UNION {r.hosts : r \in getClusterLocalIngressRules(Object(i))}

(* A cluster-local host is not routed at a gateway that is only an external    *)
(* one, as long as there are local gateways at all.  (A local Gateway of the   *)
(* Ingress is a way in for all its cluster-local rules, though it has servers  *)
(* only for those with a certificate.)                                         *)
ServedOnlyWhereVisible ==
  \A i \in Ingresses : InGateways(i) /\ RulesApart(Object(i)) /\ istio["ClusterLocal"] # <<>> =>
    \A r \in getClusterLocalIngressRules(Object(i)) :
      \A h \in ExpandedHosts(r.hosts), path \in ToSet(r.paths), x \in IngressVS(i) :
        \A key \in Bound(i) \ UNION {EntryPoints(i, "ClusterLocal", l) : l \in LocalHosts(i)} :
          Route(x, Request(key, h, path)) = 0

(* Some Gateway of the Ingress takes in the probe of this target: it has a     *)
(* server there for the host, which redirects (the prober takes that for       *)
(* success) or leads to a probe route.                                         *)
Answered(i, t) ==
  \E g \in gateways \cup Installed : \E s \in g.servers :
    /\ g.key \in Bound(i) /\ g.service = t.service
    /\ s.port = t.port /\ \E p \in s.hosts : Covers(p, t.host)
    /\ s.redirect \/ \E x \in IngressVS(i) :
         LET k == Route(x, [gateway |-> g.key, host |-> t.host, path |-> "/healthz", probe |-> TRUE])
         IN k # 0 /\ x.http[k].probe

(* No probe of an Ingress at rest is sent where nobody will ever answer it.    *)
(* Targets are made of the configured Gateways, while the Ingress may be bound *)
(* to Gateways of its own instead; one host stands for all, also under short   *)
(* names; a wrong pair of host and Gateway means 404 for ever, and an Ingress  *)
(* that is never ready.  (InstallationAssumption says which installations.)    *)
ProbesReachTheIngress ==
  \A i \in Ingresses : InGateways(i) => \A t \in ListProbeTargets(istio, Object(i)) : Answered(i, t)

(* The status says that a visibility is served by the mesh only exactly when   *)
(* the administrator wrote an explicitly empty list for it: not for a key that *)
(* is missing or blank, an old-format configuration, a selector that does not  *)
(* match, or a ConfigMap that was refused.                                     *)
MeshOnlyIsAskedFor ==
  \A i \in Ingresses : AtRest(i) =>
    \A v \in Visibilities : lb[i][v] = MeshOnly <=> config.new[v] = List(<<>>)

(* In mesh-only mode an Ingress at rest has no VirtualService or Gateway for   *)
(* gateways left, whatever it was when gateways were enabled, nor a copy that  *)
(* it ever wrote of a certificate that it names, even if another Ingress that  *)
(* shares the copy is late and writes it again: the tracker has to bring the   *)
(* Ingress back.  (Copies of a certificate that only Ingresses named which     *)
(* were deleted, or which do not name it any more, stay.)                      *)
MeshOnlyIsClean ==
  ~GatewaysEnabled(istio) =>
    \A i \in Ingresses : AtRest(i) =>
      /\ (\A x \in vs[i] : x.gateways \subseteq {Mesh}) /\ ControlledBy(i) = {}
      /\ \A c \in copies :
           UsesTLS(Object(i)) /\ c.origin \in {t.secret : t \in ToSet(spec[i].tls)} => NameOf(c) \notin tracked[i]

(* What keeps a reconciliation from succeeding: a certificate that is missing, *)
(* filtered or unreadable, or a gateway without a Service.                     *)
Blocked(w) ==
  \/ ~ServicesExist(w) /\ (UsesTLS(w.ing) \/ shouldReconcileHTTPServer(w.ing))
  \/ \E ref \in GetSecrets(w.ing, "ExternalIP") : ~Visible(ref) \/ ~CertificateReadable(secrets[ref])
  \/ localTLS /\ \E ref \in GetSecrets(w.ing, "ClusterLocal") : ~Visible(ref)

(* Nothing else makes one fail: what earlier reconciliations, of this Ingress  *)
(* or of others, left in the API server never stands in the way, although the  *)
(* informer may be filtered and copies are shared by name.                     *)
OnlyBlockedFail ==
  [][\A i \in Ingresses :
       /\ work[i].pc \in {"external", "local", "gateways", "finalize"}
       /\ work'[i] = Idle /\ life'[i] # "gone"
       => Blocked(work[i])]_vars

=============================================================================

---------------------------- MODULE ProbeTargets ----------------------------
(***************************************************************************)
(* Where the prober is sent: the pods, ports and host that stand for an    *)
(* Ingress.                                                                *)
(*                                                                         *)
(* Simplifications.                                                        *)
(*  - A Gateway is as in IngressResources; its service is the one that its *)
(*    selector finds, and a target names this service for its pods (which  *)
(*    of them there are is an input of StatusProber).  Gateways without a  *)
(*    Service, or with one without Endpoints, are not in Installed.        *)
(*  - Servers speak HTTP or HTTPS without client certificates; those with  *)
(*    other protocols are skipped like those on a port the Service lacks.  *)
(***************************************************************************)
EXTENDS IngressResources

CONSTANTS
  Installed,     \* the Gateways that the configuration may name
  ServicePorts   \* ServicePorts[s]: the ports that Service and Endpoints have

ASSUME InstalledAssumption ==
  \A g \in Installed : g.service \in DOMAIN ServicePorts /\ ServicePorts[g.service] \subseteq Nat

NamesOf(gws) == {QualifiedName(gws[n]) : n \in DOMAIN gws}

QualifiedGatewayNamesFromContext(istio, ing) ==
  [v \in Visibilities |-> NamesOf(GatewaysFromContext(istio, ing.labels)[v])]

(* Slip: the hosts of all rules are probed at every gateway. *)
HostsOfAllRules(ing, names, key) == ExpandedHosts(getHosts(ing))

HostsPerVisibility(ing, names, key) ==
  ExpandedHosts(UNION {r.hosts : r \in {x \in ToSet(ing.rules) : key \in names[x.visibility]}})

getGateway(key) == {g \in Installed : g.key = key}

(* One target for each port, however many servers share it. *)
listGatewayTargets(g) ==
  {[service |-> g.service, port |-> s.port] :
     s \in {x \in g.servers : ~x.redirect /\ x.port \in ServicePorts[g.service]}}

(* The gateways of the configuration at which this Ingress has hosts. *)
ProbedGateways(istio, ing) ==
  LET names == QualifiedGatewayNamesFromContext(istio, ing)
  IN {key \in UNION {names[v] : v \in Visibilities} : HostsPerVisibility(ing, names, key) # {}}

(* ListProbeTargets returns an error when one of them does not exist. *)
TargetsListed(istio, ing) == \A key \in ProbedGateways(istio, ing) : getGateway(key) # {}

(* The first host in sorted order stands for all. *)
ListProbeTargets(istio, ing) ==
  UNION {LET hosts == HostsPerVisibility(ing, QualifiedGatewayNamesFromContext(istio, ing), key)
             first == CHOOSE h \in hosts : \A other \in hosts \ {h} : StringLess(h, other)
         IN {[service |-> t.service, port |-> t.port, host |-> first] :
               t \in UNION {listGatewayTargets(g) : g \in getGateway(key)}} : key \in ProbedGateways(istio, ing)}

=============================================================================

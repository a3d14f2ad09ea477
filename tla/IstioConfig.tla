---------------------------- MODULE IstioConfig ----------------------------
(***************************************************************************)
(* What the controller reads out of the ConfigMap config-istio, and which  *)
(* of the configured gateways an Ingress gets.                             *)
(*                                                                         *)
(* Simplifications.                                                        *)
(*  - A value of a new-format key is what YAML makes of it: it is absent,  *)
(*    blank, no YAML list, or a list of gateways (the text "[]", and       *)
(*    everything else that YAML reads as no entry, is the empty list).     *)
(*  - A key of the old format is its prefix and the parts between dots of  *)
(*    what follows; entries come in the order of the sorted keys, which is *)
(*    the order the code brings them into.                                 *)
(*  - A service URL is the sequence of its labels; BadLabel stands for one *)
(*    that is not a DNS label.                                             *)
(*  - A selector requires a set of labels, or is not a valid selector.     *)
(***************************************************************************)
EXTENDS Sequences, Naturals

SystemNamespace == "knative-serving"
IstioNamespace == "istio-system"
BadLabel == "_"

Visibilities == {"ExternalIP", "ClusterLocal"}

URL(name, ns) == <<name, ns, "svc", "cluster", "local">>

NoSelector == [nil |-> TRUE, valid |-> TRUE, labels |-> {}]

Gateway(ns, name, url, selector) == [ns |-> ns, name |-> name, url |-> url, selector |-> selector]

defaultIngressGateways ==
  <<Gateway(SystemNamespace, "knative-ingress-gateway", URL("istio-ingressgateway", IstioNamespace), NoSelector)>>

defaultLocalGateways ==
  <<Gateway(SystemNamespace, "knative-local-gateway", URL("knative-local-gateway", IstioNamespace), NoSelector)>>

(* An Istio configuration: the gateways of each visibility. *)
Istio(external, local) == [v \in Visibilities |-> IF v = "ExternalIP" THEN external ELSE local]

(* Names of Gateways that somebody else made: no generated name is one of them. *)
QualifiedName(g) == [ns |-> g.ns, name |-> [kind |-> "configured", of |-> g.name]]

ValidGateway(g) ==
  /\ g.ns # "" /\ g.name # ""
  /\ g.url # <<>>
  /\ \A n \in DOMAIN g.url : g.url[n] # BadLabel
  /\ g.selector.valid

Validate(istio) == \A v \in Visibilities : \A n \in DOMAIN istio[v] : ValidGateway(istio[v][n])

(* The loops that append some entries of a slice to a new one: those at the    *)
(* places chosen, in their order.  (The provers know nothing of SelectSeq.)    *)
Subsequence(s, chosen) ==
  LET ret[n \in 0 .. Len(s)] ==
        IF n = 0 THEN <<>> ELSE IF n \in chosen THEN Append(ret[n - 1], s[n]) ELSE ret[n - 1]
  IN ret[Len(s)]

defaultGateways(gws) == Subsequence(gws, {n \in DOMAIN gws : gws[n].selector.nil})

GatewaysEnabled(istio) == \E v \in Visibilities : istio[v] # <<>>

-----------------------------------------------------------------------------
(***************************************************************************)
(* Parsing.  A ConfigMap is a record with the values of the two new-format *)
(* keys and the entries of the two old-format prefixes.                    *)
(***************************************************************************)
Absent == [kind |-> "absent", gateways |-> <<>>]
Blank == [kind |-> "blank", gateways |-> <<>>]
Garbage == [kind |-> "garbage", gateways |-> <<>>]
List(gws) == [kind |-> "list", gateways |-> gws]

Selectors == [nil: BOOLEAN, valid: BOOLEAN, labels: SUBSET STRING]
GatewayEntries == [ns: STRING, name: STRING, url: Seq(STRING), selector: Selectors]
Texts == [kind: {"absent", "blank", "garbage", "list"}, gateways: Seq(GatewayEntries)]
OldEntries == [rest: Seq(STRING), url: Seq(STRING)]
ConfigMapData == [new: [Visibilities -> Texts], old: [Visibilities -> Seq(OldEntries)]]

isNewFormatDefined(cm) == \E v \in Visibilities : cm.new[v].kind # "absent"
isOldFormatDefined(cm) == \E v \in Visibilities : cm.old[v] # <<>>

defaultsOf == Istio(defaultIngressGateways, defaultLocalGateways)

(* Slip: a key that is there but blank is taken for an empty list. *)
parseNewFormatGatewaysBlank(cm, v) ==
  IF cm.new[v].kind = "absent" THEN defaultsOf[v] ELSE cm.new[v].gateways

parseNewFormatGateways(cm, v) ==
  IF cm.new[v].kind \in {"absent", "blank"} THEN defaultsOf[v] ELSE cm.new[v].gateways

parseNewFormat(cm) == [v \in Visibilities |-> parseNewFormatGateways(cm, v)]

newFormatAccepted(cm) ==
  \A v \in Visibilities :
    /\ cm.new[v].kind # "garbage"
    /\ parseNewFormat(cm)[v] = <<>> \/ Len(defaultGateways(parseNewFormat(cm)[v])) = 1

(* Without a dot the name is one of the system namespace. *)
parseOldFormatGateway(entry) ==
  IF Len(entry.rest) = 1
  THEN Gateway(SystemNamespace, entry.rest[1], entry.url, NoSelector)
  ELSE Gateway(entry.rest[1], entry.rest[2], entry.url, NoSelector)

(* A key that is nothing but the prefix is skipped. *)
parseOldFormatGateways(entries) ==
  LET named == Subsequence(entries, {n \in DOMAIN entries : entries[n].rest # <<>>})
  IN [n \in DOMAIN named |-> parseOldFormatGateway(named[n])]

defaultValues(istio) ==
  [v \in Visibilities |-> IF istio[v] = <<>> THEN defaultsOf[v] ELSE istio[v]]

parseOldFormat(cm) == defaultValues([v \in Visibilities |-> parseOldFormatGateways(cm.old[v])])

Parsed(cm) ==
  CASE isNewFormatDefined(cm) -> parseNewFormat(cm)
    [] ~isNewFormatDefined(cm) /\ isOldFormatDefined(cm) -> parseOldFormat(cm)
    [] OTHER -> defaultsOf

(* NewIstioFromConfigMap returns Parsed(cm), or an error when this does not hold. *)
Accepted(cm) ==
  /\ ~(isNewFormatDefined(cm) /\ isOldFormatDefined(cm))
  /\ isNewFormatDefined(cm) => newFormatAccepted(cm)
  /\ Validate(Parsed(cm))

-----------------------------------------------------------------------------
(***************************************************************************)
(* Selection.                                                              *)
(***************************************************************************)
filterGateway(gws, labels) ==
  Subsequence(gws, {n \in DOMAIN gws : ~gws[n].selector.nil /\ gws[n].selector.labels \subseteq labels})

GatewaysFromContext(istio, labels) ==
  [v \in Visibilities |->
    LET chosen == filterGateway(istio[v], labels)
    IN IF chosen = <<>> THEN defaultGateways(istio[v]) ELSE chosen]

(* The Kubernetes Service behind a gateway; the URL of an accepted            *)
(* configuration may have fewer than three labels, which is an error here.    *)
HasService(g) == Len(g.url) >= 3
parseIngressGatewayConfig(g) == [name |-> g.url[1], ns |-> g.url[2]]

=============================================================================

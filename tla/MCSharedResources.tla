------------------------- MODULE MCSharedResources -------------------------
(***************************************************************************)
(* A small instance of SharedResources: Ingresses of the same name in two  *)
(* namespaces or of two names in one, two default Gateways, and one that   *)
(* is configured and does not exist.                                       *)
(***************************************************************************)
EXTENDS SharedResources

App == [ns |-> "one", name |-> "app"]
Namesake == [ns |-> "two", name |-> "app"]
Neighbour == [ns |-> "one", name |-> "web"]
ThreeIngresses == {App, Namesake, Neighbour}
Pairs == {{App, Namesake}, {App, Neighbour}}

Default(name) == [kind |-> "gateway", name |-> name]
TwoGateways == {Default("ingress"), Default("local")}
Configured == <<Default("ingress"), Default("missing"), Default("local")>>

NoEvents == [e \in Events |-> 0]

(* Both are deleted; or one is deleted while the Gateways are edited and a call *)
(* fails, the certificate is renewed, or the process dies.                      *)
SomeBudgets == {
  [NoEvents EXCEPT !["delete"] = 2],
  [NoEvents EXCEPT !["delete"] = 1, !["operator"] = 1, !["fault"] = 1],
  [NoEvents EXCEPT !["delete"] = 1, !["renew"] = 1],
  [NoEvents EXCEPT !["delete"] = 1, !["restart"] = 1]}

=============================================================================

--------------------------- MODULE IngressStatus ---------------------------
(***************************************************************************)
(* The status block of a Knative Ingress and the operators that change it: *)
(* the living condition set of knative.dev/pkg/apis with the two dependents*)
(* NetworkConfigured and LoadBalancerReady of the happy condition Ready,   *)
(* the Mark functions of the Ingress lifecycle, and the processing that    *)
(* the generated reconciler does before and after ReconcileKind.           *)
(*                                                                         *)
(* A condition is reduced to its status: reasons, messages and transition  *)
(* times are left out, no decision of the code depends on them.            *)
(***************************************************************************)
EXTENDS Naturals

(* "Absent" is a condition that is not in the list of conditions yet. *)
CondStatus == {"True", "False", "Unknown", "Absent"}

(* nc is NetworkConfigured, lb is LoadBalancerReady, og the observed        *)
(* generation, lbs what the load balancer fields advertise: nothing, the    *)
(* gateways' Service, or the mesh.                                          *)
LoadBalancers == {"none", "gateway", "mesh"}

Status == [og: Nat, nc: CondStatus, lb: CondStatus, ready: CondStatus, lbs: LoadBalancers]

NoStatus == [og |-> 0, nc |-> "Absent", lb |-> "Absent", ready |-> "Absent", lbs |-> "none"]

Dependents(st) == {st.nc, st.lb}

(***************************************************************************)
(* Condition set.                                                          *)
(***************************************************************************)

(* A False dependent trumps an Unknown one; one that is not initialized     *)
(* counts as Unknown.  Only called for a dependent, never for Ready itself. *)
recomputeHappiness(st) ==
  [st EXCEPT !.ready = IF "False" \in Dependents(st) THEN "False"
                       ELSE IF Dependents(st) = {"True"} THEN "True"
                       ELSE "Unknown"]

(* MarkUnknown of a dependent, after that dependent has been set. *)
happyAfterUnknown(st) ==
  [st EXCEPT !.ready = IF "False" \in Dependents(st) THEN "False" ELSE "Unknown"]

InitializeConditions(st) ==
  LET happy == IF st.ready = "Absent" THEN "Unknown" ELSE st.ready
      unset == IF happy = "True" THEN "True" ELSE "Unknown"
  IN  [st EXCEPT !.ready = happy,
                 !.nc = IF st.nc = "Absent" THEN unset ELSE st.nc,
                 !.lb = IF st.lb = "Absent" THEN unset ELSE st.lb]

(***************************************************************************)
(* Ingress lifecycle.                                                      *)
(***************************************************************************)

MarkNetworkConfigured(st) == recomputeHappiness([st EXCEPT !.nc = "True"])

MarkResourceNotOwned(st) == [st EXCEPT !.nc = "False", !.ready = "False"]

(* Slip: condition and load balancer are swapped. *)
MarkLoadBalancerReadySwapped(st, lbs) == recomputeHappiness([st EXCEPT !.lb = lbs, !.lbs = "True"])

MarkLoadBalancerReady(st, lbs) == recomputeHappiness([st EXCEPT !.lb = "True", !.lbs = lbs])

MarkLoadBalancerNotReady(st) == happyAfterUnknown([st EXCEPT !.lb = "Unknown"])

MarkLoadBalancerFailed(st) == [st EXCEPT !.lb = "False", !.ready = "False"]

(* Slip: Ready is recomputed from its dependents instead of being cleared. *)
MarkIngressNotReadyRecomputed(st) == recomputeHappiness(st)

(* MarkUnknown of the happy condition itself: a False dependent keeps it False. *)
MarkIngressNotReady(st) == happyAfterUnknown(st)

(* Slip: the observed generation is not compared. *)
IsReadyAnyGeneration(st, gen) == gen \in Nat /\ st.ready = "True"

IsReady(st, gen) == st.og = gen /\ st.ready = "True"

(***************************************************************************)
(* What the generated reconciler does around ReconcileKind.                *)
(***************************************************************************)

(* A generation not observed yet resets Ready, and only Ready. *)
PreProcessReconcile(st, gen) ==
  LET init == InitializeConditions(st)
  IN  IF init.og # gen THEN happyAfterUnknown(init) ELSE init

(* Slip: the observed generation is only bumped when the Ingress became Ready. *)
PostProcessOnlyReady(st, gen) == IF st.ready = "True" THEN [st EXCEPT !.og = gen] ELSE st

(* The generation counts as observed whether the reconciliation failed or not. *)
PostProcessReconcile(st, gen) == [st EXCEPT !.og = gen]

=============================================================================

------------------------ MODULE MCIngressReconciler ------------------------
(***************************************************************************)
(* Small instances of IngressReconciler.  A budget names how often each    *)
(* event of the environment may happen in a run; what it does not name     *)
(* does not happen.                                                        *)
(***************************************************************************)
EXTENDS IngressReconciler

NoEvents == [e \in Events |-> 0]

(* Two edits, so that a spec can come back, somebody else's VirtualService, and *)
(* a periodic resync.                                                           *)
EditBudgets == {[NoEvents EXCEPT !["update"] = 2, !["foreign"] = 1, !["resync"] = 1]}

(* Failing calls and a restart around an edit and a deletion; or the gateways *)
(* are switched, the certificate is issued or renewed, and an object of the   *)
(* Ingress is deleted.                                                        *)
FaultBudgets == {
  [NoEvents EXCEPT !["update"] = 1, !["fault"] = 2, !["restart"] = 1, !["delete"] = 1],
  [NoEvents EXCEPT !["flip"] = 1, !["rotate"] = 1, !["tamper"] = 1]}

(* One of most things, few enough for the liveness checker. *)
LivenessBudgets == {[NoEvents EXCEPT !["update"] = 1, !["fault"] = 1, !["delete"] = 1]}

(* An edit whose first reconciliation fails on the way to the probe. *)
FailedProbeBudgets == {[NoEvents EXCEPT !["update"] = 1, !["fault"] = 1]}

(* The Ingress is deleted. *)
DeleteBudgets == {[NoEvents EXCEPT !["delete"] = 1]}

=============================================================================

---------------------------- MODULE ProbeContract ----------------------------
(***************************************************************************)
(* What the ingress reconciler may rely on of the status prober: for every *)
(* Ingress at most one probe, of one spec, pending or done; it is given up *)
(* for another spec or on cancellation; a probe that is done stays done.   *)
(* IngressReconciler has such a prober, StatusProber implements it.        *)
(***************************************************************************)
CONSTANTS
  Keys,      \* the Ingresses
  Hashes,    \* the hashes of their specs
  None       \* no probe

VARIABLE probe

Init == probe = [k \in Keys |-> None]

(* IsReady of a hash that is not being probed; with nothing to probe it is    *)
(* done at once.                                                              *)
Start(k, h, done) ==
  /\ probe[k] # None => probe[k].hash # h
  /\ probe' = [probe EXCEPT ![k] = [hash |-> h, done |-> done]]

Complete(k) ==
  /\ probe[k] # None
  /\ ~probe[k].done
  /\ probe' = [probe EXCEPT ![k].done = TRUE]

Cancel(k) == probe' = [probe EXCEPT ![k] = None]

Next ==
  \E k \in Keys :
    \/ \E h \in Hashes, done \in BOOLEAN : Start(k, h, done)
    \/ Complete(k)
    \/ Cancel(k)

Spec == Init /\ [][Next]_probe

==============================================================================

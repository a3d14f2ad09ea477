------------------------- MODULE IngressReconciler -------------------------
(***************************************************************************)
(* The life of ONE Ingress key in the net-istio ingress controller: the    *)
(* API server's objects, the informer caches that trail behind them, the   *)
(* work queue, the worker that runs the generated reconciler around        *)
(* ReconcileKind and FinalizeKind one API call at a time, the status       *)
(* prober as the reconciler sees it, and an environment that edits,        *)
(* deletes, reconfigures, tampers, fails calls and kills the process.      *)
(*                                                                         *)
(* Simplifications.                                                        *)
(*  - A spec is a model value; three sets say what the code asks of it.    *)
(*  - A VirtualService or Gateway is the spec and the gateway mode it was  *)
(*    made from; a certificate Secret is the version of the origin.        *)
(*  - An informer jumps to the newest state of an object.  The states it   *)
(*    would show in between are those of an earlier jump, because updates  *)
(*    carry a resourceVersion and fail when made from an older state.      *)
(*  - At most one worker handles a key at a time: client-go's queue.       *)
(*  - The prober is its verdict here: one state per key, pending or done.  *)
(***************************************************************************)
EXTENDS IngressStatus, FiniteSets

CONSTANTS
  Specs,         \* the specs an Ingress can be given
  MeshSpecs,     \* those with a cluster-local host name: they get a mesh VirtualService
  GatewaySpecs,  \* those that get Gateways of their own (TLS, or HTTP redirection)
  TLSSpecs,      \* those that name a TLS certificate of an external host
  Absent,        \* no such object
  Foreign,       \* an object of that name that the Ingress does not control
  InitModes,     \* the gateway modes the controller may start with
  Budgets        \* how often each event of the environment may happen

Events == {"update", "delete", "flip", "rotate", "tamper", "foreign", "fault", "restart", "resync"}

ASSUME SpecsAssumption ==
  /\ Specs # {}
  /\ MeshSpecs \subseteq Specs
  /\ TLSSpecs \subseteq GatewaySpecs
  /\ GatewaySpecs \subseteq Specs
  /\ InitModes \subseteq {"gateway", "mesh"}

ASSUME BudgetAssumption == Budgets \subseteq [Events -> Nat]

VARIABLES
  ing,       \* the Ingress in the API server
  cache,     \* the Ingress in the informer's cache
  mode,      \* the gateway mode of the configuration store: "gateway" or "mesh"
  objs,      \* the objects of the Ingress in the API server
  lister,    \* the same objects in the informers' caches
  lag,       \* the objects with events not delivered yet
  wake,      \* the VirtualServices among them with an event of a version we control
  queued,    \* the key is in the work queue
  tracked,   \* the tracker maps the certificate Secrets to this Ingress
  w,         \* the worker
  probe,     \* the prober's state of this Ingress
  applied,   \* history: generations whose VirtualServices were reconciled without error
  probed,    \* history: generations the prober reported as ready
  budget     \* what is left of the budget the run started with

vars == <<ing, cache, mode, objs, lister, lag, wake, queued, tracked, w, probe,
          applied, probed, budget>>

-----------------------------------------------------------------------------
(***************************************************************************)
(* State.                                                                  *)
(***************************************************************************)
Modes == {"gateway", "mesh"}
VSKinds == {"ingressVS", "meshVS"}
OwnedKinds == VSKinds \cup {"gateway"}
SecretKinds == {"cert", "origin"}
Kinds == OwnedKinds \cup SecretKinds

Content == [spec: Specs, mode: Modes]
ASSUME ContentAssumption == {Absent, Foreign} \cap Content = {}

Objects(f) ==
  /\ f = [k \in Kinds |-> f[k]]
  /\ \A k \in OwnedKinds : f[k] \in {Absent, Foreign} \cup Content
  /\ \A k \in SecretKinds : f[k] \in {Absent} \cup Nat

Ingress == [live: BOOLEAN, gen: Nat, spec: Specs, fin: BOOLEAN, del: BOOLEAN, status: Status]

NoIngress == [live |-> FALSE, gen |-> 0, spec |-> CHOOSE s \in Specs : TRUE,
              fin |-> FALSE, del |-> FALSE, status |-> NoStatus]

Steps == {"finalizer", "certs", "gateway", "meshVS", "ingressVS", "dropIngressVS",
          "dropMeshVS", "probe", "cleanGateway", "cleanCerts", "status",
          "finalize", "clearFinalizer"}

(* cfg is the configuration frozen into the context, obj the copy of the    *)
(* Ingress read from the cache, st the status being computed.               *)
Worker == [pc: Steps \cup {"idle"}, cfg: Modes, obj: Ingress, st: Status, err: BOOLEAN]

Idle == [pc |-> "idle", cfg |-> "mesh", obj |-> NoIngress, st |-> NoStatus, err |-> FALSE]

NoProbe == [spec |-> Absent, done |-> FALSE]
Probes == [spec: Specs, done: BOOLEAN] \cup {NoProbe}

Ours(v) == v \notin {Absent, Foreign}

(* The VirtualServices of MakeVirtualServices and the Gateway of the TLS and *)
(* HTTP servers: Absent when the code makes none.                            *)
Desired(k, spec, m) ==
  IF \/ k = "meshVS" /\ spec \in MeshSpecs
     \/ k = "ingressVS" /\ m = "gateway"
     \/ k = "gateway" /\ m = "gateway" /\ spec \in GatewaySpecs
  THEN [spec |-> spec, mode |-> m]
  ELSE Absent

WorkerDesires(k) == Desired(k, w.obj.spec, w.cfg)

-----------------------------------------------------------------------------
(***************************************************************************)
(* API server and informers.                                               *)
(***************************************************************************)
ApiUnchanged == UNCHANGED <<objs, lag, wake>>

(* A write of k; its event is one of a version the Ingress controls. *)
Write(k, v) ==
  /\ objs' = [objs EXCEPT ![k] = v]
  /\ lag' = lag \cup {k}
  /\ wake' = wake \cup ({k} \cap VSKinds)

(* Create needs the name to be free; Update needs the lister's copy to be   *)
(* the latest.                                                              *)
AcceptsWrite(k) == IF lister[k] = Absent THEN objs[k] = Absent ELSE k \notin lag

(* Get from the lister, then create, or update on a difference. *)
Reconciled(k, v) ==
  \/ lister[k] = v /\ ApiUnchanged
  \/ lister[k] # v /\ AcceptsWrite(k) /\ Write(k, v)

Conflicts(k, v) == lister[k] # v /\ ~AcceptsWrite(k) /\ ApiUnchanged

-----------------------------------------------------------------------------
(***************************************************************************)
(* The worker: the generated Reconcile around ReconcileKind.               *)
(***************************************************************************)
Spend(e) == budget[e] > 0 /\ budget' = [budget EXCEPT ![e] = @ - 1]

Proceed(pc, st) == w' = [w EXCEPT !.pc = pc, !.st = st]

(* Slip: the generation is taken from the API server, not from the copy reconciled. *)
FinishWithLatestGeneration(st, err) ==
  w' = [w EXCEPT !.pc = "status", !.st = PostProcessReconcile(st, ing.gen), !.err = err]

Finish(st, err) ==
  w' = [w EXCEPT !.pc = "status", !.st = PostProcessReconcile(st, w.obj.gen), !.err = err]

(* ReconcileKind marks the Ingress not ready and returns the error. *)
FailWith(st) == Finish(MarkIngressNotReady(st), TRUE)

(* Errors of reconcileVirtualServices also fail the load balancer. *)
FailVirtualServices(st) == FailWith(MarkLoadBalancerFailed(st))

(* Slip: the key is forgotten on such an error. *)
RetryForgotten == w' = Idle /\ UNCHANGED queued

(* An error outside ReconcileKind: retried, with no write of the status. *)
Retry == w' = Idle /\ queued' = TRUE

(* The key leaves the queue; an Ingress that is not in the cache is done. *)
StartReconcile ==
  /\ w.pc = "idle"
  /\ queued
  /\ queued' = FALSE
  /\ w' = IF cache.live
          THEN [pc |-> IF cache.del THEN "finalize" ELSE "finalizer", cfg |-> mode,
                obj |-> cache, st |-> cache.status, err |-> FALSE]
          ELSE Idle
  /\ ApiUnchanged
  /\ UNCHANGED <<ing, cache, mode, lister, tracked, probe, applied, probed, budget>>

(* What the spec and the mode ask for decides which steps follow. *)
FirstVirtualServiceStep ==
  IF WorkerDesires("meshVS") # Absent THEN "meshVS"
  ELSE IF WorkerDesires("ingressVS") # Absent THEN "ingressVS" ELSE "dropIngressVS"

FirstStep ==
  IF w.cfg = "gateway" /\ w.obj.spec \in TLSSpecs THEN "certs"
  ELSE IF WorkerDesires("gateway") # Absent THEN "gateway" ELSE FirstVirtualServiceStep

(* Slip: the patch does not carry the resourceVersion of the copy. *)
SetFinalizerUnconditionally ==
  /\ w.pc = "finalizer"
  /\ Proceed(FirstStep, PreProcessReconcile(w.st, w.obj.gen))
  /\ IF ~w.obj.fin /\ ing.live
     THEN ing' = [ing EXCEPT !.fin = TRUE] /\ lag' = lag \cup {"ingress"}
     ELSE UNCHANGED <<ing, lag>>
  /\ UNCHANGED <<cache, mode, objs, lister, wake, queued, tracked, probe, applied, probed, budget>>

(* The patch carries the resourceVersion of the copy. *)
SetFinalizer ==
  /\ w.pc = "finalizer"
  /\ IF w.obj.fin \/ w.obj = ing
     THEN /\ Proceed(FirstStep, PreProcessReconcile(w.st, w.obj.gen))
          /\ UNCHANGED queued
     ELSE Retry
  /\ IF ~w.obj.fin /\ w.obj = ing
     THEN ing' = [ing EXCEPT !.fin = TRUE] /\ lag' = lag \cup {"ingress"}
     ELSE UNCHANGED <<ing, lag>>
  /\ UNCHANGED <<cache, mode, objs, lister, wake, tracked, probe, applied, probed, budget>>

(* GetSecrets, MakeSecrets and reconcileCertSecrets: the copy follows the   *)
(* origin as the lister shows it.  The first TrackReference enqueues.       *)
ReconcileCertSecrets ==
  /\ w.pc = "certs"
  /\ IF lister["origin"] = Absent
     THEN FailWith(w.st) /\ ApiUnchanged /\ UNCHANGED <<tracked, queued>>
     ELSE /\ tracked' = TRUE
          /\ queued' = (queued \/ ~tracked)
          /\ \/ Reconciled("cert", lister["origin"]) /\ Proceed("gateway", w.st)
             \/ Conflicts("cert", lister["origin"]) /\ FailWith(w.st)
  /\ UNCHANGED <<ing, cache, mode, lister, probe, applied, probed, budget>>

(* reconcileIngressGateways.  A Gateway that is not desired any more is left alone. *)
ReconcileIngressGateways ==
  /\ w.pc = "gateway"
  /\ \/ Reconciled("gateway", WorkerDesires("gateway")) /\ Proceed(FirstVirtualServiceStep, w.st)
     \/ Conflicts("gateway", WorkerDesires("gateway")) /\ FailWith(w.st)
  /\ UNCHANGED <<ing, cache, mode, lister, queued, tracked, probe, applied, probed, budget>>

(* The ingress VirtualService is an extra one exactly in mesh-only mode. *)
AfterVirtualService(k) ==
  IF k = "ingressVS" THEN "dropMeshVS" ELSE IF w.cfg = "gateway" THEN "ingressVS" ELSE "dropIngressVS"

(* Slip: the ownership of the VirtualService is not looked at. *)
ReconcileVirtualServiceUnowned(k) ==
  /\ w.pc = k
  /\ \/ Reconciled(k, WorkerDesires(k)) /\ Proceed(AfterVirtualService(k), w.st)
     \/ Conflicts(k, WorkerDesires(k)) /\ FailVirtualServices(w.st)
  /\ UNCHANGED <<ing, cache, mode, lister, queued, tracked, probe, applied, probed, budget>>

(* One desired VirtualService: the mesh one first, then that of the gateways. *)
ReconcileVirtualService(k) ==
  /\ w.pc = k
  /\ \/ /\ lister[k] = Foreign
        /\ FailVirtualServices(MarkResourceNotOwned(w.st))
        /\ ApiUnchanged
     \/ /\ lister[k] # Foreign
        /\ \/ Reconciled(k, WorkerDesires(k)) /\ Proceed(AfterVirtualService(k), w.st)
           \/ Conflicts(k, WorkerDesires(k)) /\ FailVirtualServices(w.st)
  /\ UNCHANGED <<ing, cache, mode, lister, queued, tracked, probe, applied, probed, budget>>

(* The rest of reconcileVirtualServices: delete what the lister shows as     *)
(* ours and is not desired, without a precondition; NotFound is an error.    *)
Extra(k) == WorkerDesires(k) = Absent /\ Ours(lister[k])

DropExtraVirtualService(k) ==
  /\ w.pc = IF k = "ingressVS" THEN "dropIngressVS" ELSE "dropMeshVS"
  /\ IF Extra(k) /\ objs[k] = Absent
     THEN FailVirtualServices(w.st) /\ ApiUnchanged /\ UNCHANGED applied
     ELSE /\ IF Extra(k) THEN Write(k, Absent) ELSE ApiUnchanged
          /\ IF k = "ingressVS"
             THEN Proceed("dropMeshVS", w.st) /\ UNCHANGED applied
             ELSE /\ Proceed(IF w.cfg = "mesh" THEN "cleanGateway" ELSE "probe", w.st)
                  /\ applied' = applied \cup {w.obj.gen}
  /\ UNCHANGED <<ing, cache, mode, lister, queued, tracked, probe, probed, budget>>

(***************************************************************************)
(* The readiness check at the end of reconcileIngress, with the prober's   *)
(* IsReady: a state of the same hash answers; another one is cancelled, and*)
(* cancelling one that is pending calls back, which enqueues the key.      *)
(***************************************************************************)
ReportReady(st, ready) ==
  Finish(IF ready THEN MarkLoadBalancerReady(st, "gateway") ELSE MarkLoadBalancerNotReady(st), FALSE)

ProberIsReady(st) ==
  \/ /\ probe.spec = w.obj.spec
     /\ ReportReady(st, probe.done)
     /\ probed' = IF probe.done THEN probed \cup {w.obj.gen} ELSE probed
     /\ UNCHANGED <<probe, queued, budget>>
  \/ /\ probe.spec # w.obj.spec
     /\ queued' = (queued \/ (probe # NoProbe /\ ~probe.done))
     /\ \/ \E nothingToProbe \in BOOLEAN :
             /\ probe' = [spec |-> w.obj.spec, done |-> nothingToProbe]
             /\ ReportReady(st, nothingToProbe)
             /\ probed' = IF nothingToProbe THEN probed \cup {w.obj.gen} ELSE probed
             /\ UNCHANGED budget
        \/ /\ Spend("fault")   \* ListProbeTargets fails
           /\ probe' = NoProbe
           /\ FailWith(st)
           /\ UNCHANGED probed

CheckReady ==
  /\ w.pc = "probe"
  /\ LET st == MarkNetworkConfigured(w.st)
     IN  IF IsReady(st, w.obj.gen)
         THEN ReportReady(st, TRUE) /\ UNCHANGED <<probe, queued, probed, budget>>
         ELSE ProberIsReady(st)
  /\ ApiUnchanged
  /\ UNCHANGED <<ing, cache, mode, lister, tracked, applied>>

(* Deletes of the mesh-only path: NotFound is not an error. *)
Cleaned(k) == IF Ours(lister[k]) /\ objs[k] # Absent THEN Write(k, Absent) ELSE ApiUnchanged

CleanupIngressGateways ==
  /\ w.pc = "cleanGateway"
  /\ Cleaned("gateway")
  /\ Proceed("cleanCerts", w.st)
  /\ UNCHANGED <<ing, cache, mode, lister, queued, tracked, probe, applied, probed, budget>>

(* cleanupTLSSecrets, then the end of reconcileMeshOnlyIngress. *)
CleanupTLSSecrets ==
  /\ w.pc = "cleanCerts"
  /\ IF w.obj.spec \in TLSSpecs THEN Cleaned("cert") ELSE ApiUnchanged
  /\ Finish(MarkLoadBalancerReady(MarkNetworkConfigured(w.st), "mesh"), FALSE)
  /\ UNCHANGED <<ing, cache, mode, lister, queued, tracked, probe, applied, probed, budget>>

(* The status is written when it differs from the one that was read and from *)
(* the one in the API server (a conflict is retried on a fresh copy).        *)
WriteStatus ==
  /\ w.pc = "status"
  /\ LET differs == w.st # w.obj.status
     IN  /\ IF differs /\ ing.live /\ ing.status # w.st
            THEN ing' = [ing EXCEPT !.status = w.st] /\ lag' = lag \cup {"ingress"}
            ELSE UNCHANGED <<ing, lag>>
         /\ queued' = (queued \/ w.err \/ (differs /\ ~ing.live))
  /\ w' = Idle
  /\ UNCHANGED <<cache, mode, objs, lister, wake, tracked, probe, applied, probed, budget>>

-----------------------------------------------------------------------------
(***************************************************************************)
(* The worker: FinalizeKind and the finalizer.                             *)
(***************************************************************************)

(* cleanupCertificateSecrets runs in gateway mode only; NotFound is an error. *)
FinalizeKind ==
  /\ w.pc = "finalize"
  /\ IF w.cfg = "gateway" /\ w.obj.spec \in TLSSpecs /\ Ours(lister["cert"])
     THEN IF objs["cert"] = Absent
          THEN Retry /\ ApiUnchanged
          ELSE Write("cert", Absent) /\ Proceed("clearFinalizer", w.st) /\ UNCHANGED queued
     ELSE Proceed("clearFinalizer", w.st) /\ ApiUnchanged /\ UNCHANGED queued
  /\ UNCHANGED <<ing, cache, mode, lister, tracked, probe, applied, probed, budget>>

(* Removing the last finalizer removes the Ingress. *)
ClearFinalizer ==
  /\ w.pc = "clearFinalizer"
  /\ IF w.obj.fin /\ w.obj = ing
     THEN ing' = [ing EXCEPT !.live = FALSE, !.fin = FALSE] /\ lag' = lag \cup {"ingress"}
     ELSE UNCHANGED <<ing, lag>>
  /\ IF w.obj.fin /\ w.obj # ing /\ ing.live
     THEN Retry
     ELSE w' = Idle /\ UNCHANGED queued
  /\ UNCHANGED <<cache, mode, objs, lister, wake, tracked, probe, applied, probed, budget>>

(* The step makes a call that can fail: an API call, or for Gateways also the *)
(* lookup of the gateways' Services.                                          *)
Fallible ==
  \/ w.pc = "finalizer" /\ ~w.obj.fin
  \/ w.pc = "certs" /\ lister["origin"] # Absent /\ lister["cert"] # lister["origin"]
  \/ w.pc = "gateway"
  \/ w.pc \in VSKinds /\ lister[w.pc] \notin {Foreign, WorkerDesires(w.pc)}
  \/ w.pc = "dropIngressVS" /\ Extra("ingressVS")
  \/ w.pc = "dropMeshVS" /\ Extra("meshVS")
  \/ w.pc = "cleanGateway" /\ Ours(lister["gateway"])
  \/ w.pc = "cleanCerts" /\ w.obj.spec \in TLSSpecs /\ Ours(lister["cert"])
  \/ w.pc = "status" /\ w.st # w.obj.status
  \/ w.pc = "finalize" /\ w.cfg = "gateway"
  \/ w.pc = "clearFinalizer" /\ w.obj.fin

CallFails ==
  /\ Fallible
  /\ Spend("fault")
  /\ tracked' = (tracked \/ w.pc = "certs")
  /\ IF w.pc \in {"finalizer", "status", "finalize", "clearFinalizer"}
     THEN Retry
     ELSE /\ IF w.pc \in VSKinds \cup {"dropIngressVS", "dropMeshVS"}
             THEN FailVirtualServices(w.st)
             ELSE FailWith(w.st)
          /\ queued' = (queued \/ (w.pc = "certs" /\ ~tracked))
  /\ ApiUnchanged
  /\ UNCHANGED <<ing, cache, mode, lister, probe, applied, probed>>

WorkerStep ==
  \/ StartReconcile \/ SetFinalizer \/ ReconcileCertSecrets \/ ReconcileIngressGateways
  \/ \E k \in VSKinds : ReconcileVirtualService(k) \/ DropExtraVirtualService(k)
  \/ CheckReady \/ CleanupIngressGateways \/ CleanupTLSSecrets \/ WriteStatus
  \/ FinalizeKind \/ ClearFinalizer

-----------------------------------------------------------------------------
(***************************************************************************)
(* Informer events.                                                        *)
(***************************************************************************)

(* Slip: no handler cancels the probing of a removed Ingress. *)
ProbeKept == probe

(* CancelIngressProbing, called for a removed Ingress. *)
ProbeAfterIngressEvent == IF ing.live THEN probe ELSE NoProbe

(* The handlers of the Ingress informer: Enqueue, and on a deletion         *)
(* CancelIngressProbing and OnDeletedObserver.                              *)
SyncIngress ==
  /\ "ingress" \in lag
  /\ lag' = lag \ {"ingress"}
  /\ cache' = ing
  /\ queued' = TRUE
  /\ probe' = ProbeAfterIngressEvent
  /\ tracked' = (tracked /\ ing.live)
  /\ UNCHANGED <<ing, mode, objs, lister, wake, w, applied, probed, budget>>

(* Slip: no handler for the VirtualServices of an Ingress. *)
EventEnqueuesSecretsOnly(k) == k \in SecretKinds /\ tracked

(* VirtualServices enqueue their controller, Secrets the Ingress that tracks *)
(* them; nobody tracks the Gateways of a single Ingress.                     *)
EventEnqueues(k) == IF k \in VSKinds THEN k \in wake ELSE k \in SecretKinds /\ tracked

SyncObject(k) ==
  /\ k \in lag \ {"ingress"}
  /\ lag' = lag \ {k}
  /\ wake' = wake \ {k}
  /\ lister' = [lister EXCEPT ![k] = objs[k]]
  /\ queued' = (queued \/ EventEnqueues(k))
  /\ UNCHANGED <<ing, cache, mode, objs, tracked, w, probe, applied, probed, budget>>

(* Slip: the ready callback does not enqueue. *)
ReadyCallbackLost == UNCHANGED queued

(* resyncOnIngressReady: EnqueueKey. *)
ReadyCallback == queued' = TRUE

(* The last pending pod answered, was given up on, or went away. *)
ProbeCompletes ==
  /\ probe # NoProbe
  /\ ~probe.done
  /\ probe' = [probe EXCEPT !.done = TRUE]
  /\ ReadyCallback
  /\ ApiUnchanged
  /\ UNCHANGED <<ing, cache, mode, lister, tracked, w, applied, probed, budget>>

-----------------------------------------------------------------------------
(***************************************************************************)
(* The environment.                                                        *)
(***************************************************************************)
UpdateSpec(s) ==
  /\ ing.live /\ ~ing.del /\ s # ing.spec
  /\ Spend("update")
  /\ ing' = [ing EXCEPT !.spec = s, !.gen = @ + 1]
  /\ lag' = lag \cup {"ingress"}
  /\ UNCHANGED <<cache, mode, objs, lister, wake, queued, tracked, w, probe, applied, probed>>

(* The API server sets the deletion timestamp, which also bumps the          *)
(* generation, or removes an Ingress that has no finalizer at once.          *)
DeleteIngress ==
  /\ ing.live /\ ~ing.del
  /\ Spend("delete")
  /\ ing' = IF ing.fin THEN [ing EXCEPT !.del = TRUE, !.gen = @ + 1]
                       ELSE [ing EXCEPT !.live = FALSE]
  /\ lag' = lag \cup {"ingress"}
  /\ UNCHANGED <<cache, mode, objs, lister, wake, queued, tracked, w, probe, applied, probed>>

(* Slip: a change of config-istio does not resync the Ingresses. *)
ConfigChangeWithoutResync == UNCHANGED queued

(* FilteredGlobalResync: every Ingress in the cache is enqueued. *)
ResyncIngresses == queued' = (queued \/ cache.live)

FlipConfig ==
  /\ Spend("flip")
  /\ mode' = IF mode = "gateway" THEN "mesh" ELSE "gateway"
  /\ ResyncIngresses
  /\ ApiUnchanged
  /\ UNCHANGED <<ing, cache, lister, tracked, w, probe, applied, probed>>

PeriodicResync ==
  /\ Spend("resync")
  /\ ResyncIngresses
  /\ ApiUnchanged
  /\ UNCHANGED <<ing, cache, mode, lister, tracked, w, probe, applied, probed>>

(* The origin certificate is issued, or renewed. *)
RotateCertificate ==
  /\ Spend("rotate")
  /\ Write("origin", IF objs["origin"] = Absent THEN 1 ELSE objs["origin"] + 1)
  /\ UNCHANGED <<ing, cache, mode, lister, queued, tracked, w, probe, applied, probed>>

(* Somebody deletes an object of the Ingress. *)
Tamper(k) ==
  /\ Spend("tamper")
  /\ Ours(objs[k])
  /\ Write(k, Absent)
  /\ UNCHANGED <<ing, cache, mode, lister, queued, tracked, w, probe, applied, probed>>

(* Somebody creates, or removes, a VirtualService of the same name. *)
ForeignVirtualService(k) ==
  /\ \/ Spend("foreign") /\ objs[k] = Absent /\ objs' = [objs EXCEPT ![k] = Foreign]
     \/ objs[k] = Foreign /\ objs' = [objs EXCEPT ![k] = Absent] /\ UNCHANGED budget
  /\ lag' = lag \cup {k}
  /\ UNCHANGED <<ing, cache, mode, lister, wake, queued, tracked, w, probe, applied, probed>>

(* Kubernetes removes what a removed Ingress controlled. *)
CollectGarbage(k) ==
  /\ ~ing.live
  /\ Ours(objs[k])
  /\ Write(k, Absent)
  /\ UNCHANGED <<ing, cache, mode, lister, queued, tracked, w, probe, applied, probed, budget>>

(* The process dies at any point and starts again: caches are listed anew,   *)
(* which enqueues the Ingress; prober and tracker start empty.               *)
Restart ==
  /\ Spend("restart")
  /\ w' = Idle
  /\ cache' = ing
  /\ lister' = objs
  /\ lag' = {} /\ wake' = {}
  /\ queued' = ing.live
  /\ probe' = NoProbe
  /\ tracked' = FALSE
  /\ UNCHANGED <<ing, mode, objs, applied, probed>>

Environment ==
  \/ \E s \in Specs : UpdateSpec(s)
  \/ DeleteIngress \/ FlipConfig \/ PeriodicResync \/ RotateCertificate \/ Restart
  \/ \E k \in OwnedKinds \cup {"cert"} : Tamper(k)
  \/ \E k \in VSKinds : ForeignVirtualService(k)
  \/ \E k \in OwnedKinds : CollectGarbage(k)

-----------------------------------------------------------------------------
(***************************************************************************)
(* Specification.                                                          *)
(***************************************************************************)

(* The Ingress was just created; the controller's caches are empty of it. *)
Init ==
  /\ \E s \in Specs :
       ing = [live |-> TRUE, gen |-> 1, spec |-> s, fin |-> FALSE, del |-> FALSE,
              status |-> NoStatus]
  /\ cache = [ing EXCEPT !.live = FALSE]
  /\ mode \in InitModes
  /\ \E v \in {Absent} \cup (IF TLSSpecs = {} THEN {} ELSE {1}) :
       objs = [k \in Kinds |-> IF k = "origin" THEN v ELSE Absent]
  /\ lister = objs
  /\ lag = {"ingress"} /\ wake = {}
  /\ queued = FALSE /\ tracked = FALSE
  /\ w = Idle
  /\ probe = NoProbe
  /\ applied = {} /\ probed = {}
  /\ budget \in Budgets

Next ==
  \/ WorkerStep
  \/ CallFails
  \/ SyncIngress
  \/ \E k \in Kinds : SyncObject(k)
  \/ ProbeCompletes
  \/ Environment

Spec == Init /\ [][Next]_vars

(* The informers deliver, the worker runs, garbage is collected, and gateways *)
(* that were given the VirtualService under probe end up answering with its   *)
(* hash.  Nothing is assumed of the other events.                             *)
ProbeAnswered == objs["ingressVS"] = [spec |-> probe.spec, mode |-> "gateway"] /\ ProbeCompletes

Fairness ==
  /\ WF_vars(WorkerStep)
  /\ WF_vars(SyncIngress)
  /\ \A k \in Kinds : WF_vars(SyncObject(k))
  /\ \A k \in OwnedKinds : WF_vars(CollectGarbage(k))
  /\ WF_vars(ProbeAnswered)

FairSpec == Spec /\ Fairness

-----------------------------------------------------------------------------
(***************************************************************************)
(* Properties.                                                             *)
(***************************************************************************)

(* Every variable keeps its type; a busy worker holds a copy of the Ingress. *)
TypeOK ==
  /\ ing \in Ingress /\ cache \in Ingress
  /\ mode \in Modes
  /\ Objects(objs) /\ Objects(lister)
  /\ lag \subseteq Kinds \cup {"ingress"} /\ wake \subseteq VSKinds
  /\ queued \in BOOLEAN /\ tracked \in BOOLEAN
  /\ w \in Worker
  /\ probe \in Probes
  /\ applied \subseteq Nat /\ probed \subseteq Nat
  /\ budget \in [Events -> Nat]

(* No reconciliation works on a generation older than the one the status      *)
(* reports as observed, although caches are stale and the status is written   *)
(* onto whatever the API server holds by then.                                *)
ObservedGenerationOrder ==
  /\ ing.status.og <= cache.gen
  /\ cache.gen <= ing.gen
  /\ w.pc # "idle" => ing.status.og <= w.obj.gen /\ w.obj.gen <= cache.gen

(* The observed generation in the API server never goes back. *)
ObservedGenerationMonotone == [][ing.status.og <= ing'.status.og]_vars

(* ReconcileKind only ever runs on an Ingress that exists and carries our      *)
(* finalizer: an edit or a deletion that the cache does not show yet makes the *)
(* finalizer patch conflict, and nobody but this worker removes the finalizer. *)
(* So no object is created for a removed Ingress and none of them is probed.   *)
FinalizerHeld ==
  w.pc \notin {"idle", "finalizer", "finalize", "clearFinalizer"} => ing.live /\ ing.fin

(* The deletion event finds no reconciliation that could start another probe:  *)
(* an Ingress that left the cache is not probed.                               *)
NoProbeOfRemovedIngress == ~ing.live /\ "ingress" \notin lag => probe = NoProbe

(* An Ingress reported Ready for a generation had the VirtualServices of that *)
(* generation reconciled, whatever failed and was retried before: an error    *)
(* leaves LoadBalancerReady True from the generation before, and only Ready   *)
(* itself tells the two apart.                                                *)
ReadyImpliesApplied == ing.status.ready = "True" => ing.status.og \in applied

(* An Ingress reported Ready through the gateways was reported ready by the   *)
(* prober for the observed generation.                                        *)
ReadyImpliesProbed ==
  ing.status.ready = "True" /\ ing.status.lbs = "gateway" => ing.status.og \in probed

(* The controller has nothing to do: no worker, nothing queued, no event      *)
(* under way.                                                                 *)
Quiescent == w.pc = "idle" /\ ~queued /\ lag = {}

VirtualServicesConverged ==
  \A k \in VSKinds :
    IF Desired(k, ing.spec, mode) = Absent
    THEN objs[k] \in {Absent, Foreign}
    ELSE objs[k] = Desired(k, ing.spec, mode)

CertificateConverged ==
  mode = "gateway" /\ ing.spec \in TLSSpecs => objs["cert"] = objs["origin"]

StatusConverged ==
  /\ ing.status.og = ing.gen
  /\ \/ ing.status.ready = "True" /\ ing.status.lbs = mode
     \/ mode = "gateway" /\ probe = [spec |-> ing.spec, done |-> FALSE]

(* No event is lost: when the controller comes to rest, the VirtualServices   *)
(* and the copied certificate are those of the current spec and configuration,*)
(* and the status says so or a probe that will call back is pending.          *)
ConvergedWhenQuiescent ==
  Quiescent /\ ing.live /\ ~ing.del =>
    VirtualServicesConverged /\ CertificateConverged /\ StatusConverged

(* A VirtualService that somebody else controls is never turned into ours,    *)
(* however stale the lister that the worker looks at.                         *)
ForeignNeverOverwritten ==
  [][\A k \in VSKinds : objs[k] = Foreign => ~Ours(objs'[k])]_vars

(* What the controller made for an Ingress goes with the reason for it: at    *)
(* rest, a removed Ingress has left no copy of its certificate (nobody owns   *)
(* the copy, so only FinalizeKind removes it), and one in mesh-only mode has  *)
(* neither a Gateway nor a copy.                                              *)
NothingLeftBehind ==
  Quiescent =>
    /\ ~ing.live => objs["cert"] = Absent
    /\ ing.live /\ ~ing.del /\ mode = "mesh" =>
         ~Ours(objs["gateway"]) /\ (ing.spec \in TLSSpecs => objs["cert"] = Absent)

(* What keeps the controller from ever succeeding: a foreign VirtualService   *)
(* in the place of ours, or a certificate that does not exist.                *)
Blocked ==
  \/ \E k \in VSKinds : objs[k] = Foreign /\ Desired(k, ing.spec, mode) # Absent
  \/ mode = "gateway" /\ ing.spec \in TLSSpecs /\ objs["origin"] = Absent

(* Once edits, faults and restarts stop, the Ingress becomes and stays Ready  *)
(* for its last generation with converged objects, unless it is deleted or    *)
(* blocked from outside.                                                      *)
EventuallyReady ==
  <>[]( \/ ing.del \/ ~ing.live \/ Blocked
        \/ /\ VirtualServicesConverged /\ CertificateConverged /\ StatusConverged
           /\ ing.status.ready = "True" )

(* A deleted Ingress does not hang on its finalizer. *)
DeletionCompletes == ing.del ~> ~ing.live

=============================================================================

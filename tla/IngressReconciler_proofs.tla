---------------------- MODULE IngressReconciler_proofs ----------------------
(***************************************************************************)
(* Proofs about IngressReconciler, for every set of specs and every budget *)
(* of environment events.                                                  *)
(***************************************************************************)
EXTENDS IngressReconciler, TLAPS

-----------------------------------------------------------------------------
(***************************************************************************)
(* The status operators.                                                   *)
(***************************************************************************)

(* Every Mark function maps a status to a status. *)
LEMMA MarksKeepType ==
  ASSUME NEW st \in Status, NEW lbs \in LoadBalancers, NEW gen \in Nat
  PROVE  /\ InitializeConditions(st) \in Status
         /\ MarkNetworkConfigured(st) \in Status
         /\ MarkResourceNotOwned(st) \in Status
         /\ MarkLoadBalancerReady(st, lbs) \in Status
         /\ MarkLoadBalancerNotReady(st) \in Status
         /\ MarkLoadBalancerFailed(st) \in Status
         /\ MarkIngressNotReady(st) \in Status
         /\ PreProcessReconcile(st, gen) \in Status
         /\ PostProcessReconcile(st, gen) \in Status
<1>1. \A s \in Status : recomputeHappiness(s) \in Status /\ happyAfterUnknown(s) \in Status
  BY DEF recomputeHappiness, happyAfterUnknown, Status, CondStatus
<1>2. InitializeConditions(st) \in Status
  BY DEF InitializeConditions, Status, CondStatus
<1>3. PreProcessReconcile(st, gen) \in Status
  BY <1>1, <1>2 DEF PreProcessReconcile
<1>4. [st EXCEPT !.nc = "True"] \in Status /\ [st EXCEPT !.lb = "True", !.lbs = lbs] \in Status
      /\ [st EXCEPT !.lb = "Unknown"] \in Status
  BY DEF Status, CondStatus
<1>5. MarkNetworkConfigured(st) \in Status /\ MarkLoadBalancerReady(st, lbs) \in Status
      /\ MarkLoadBalancerNotReady(st) \in Status /\ MarkIngressNotReady(st) \in Status
  BY <1>1, <1>4 DEF MarkNetworkConfigured, MarkLoadBalancerReady, MarkLoadBalancerNotReady,
                    MarkIngressNotReady
<1>6. MarkResourceNotOwned(st) \in Status /\ MarkLoadBalancerFailed(st) \in Status
      /\ PostProcessReconcile(st, gen) \in Status
  BY DEF MarkResourceNotOwned, MarkLoadBalancerFailed, PostProcessReconcile, Status, CondStatus
<1> QED
  BY <1>2, <1>3, <1>5, <1>6

(* The status of an Ingress nobody reconciled yet is a status. *)
LEMMA NoStatusType == NoStatus \in Status
  BY DEF NoStatus, Status, CondStatus, LoadBalancers

(* A waiting worker is a worker, and a deleted Ingress is an Ingress. *)
LEMMA IdleType == Idle \in Worker /\ NoIngress \in Ingress
<1>1. (CHOOSE s \in Specs : TRUE) \in Specs
  BY SpecsAssumption
<1> QED
  BY <1>1, NoStatusType DEF Idle, NoIngress, Worker, Ingress, Steps, Modes

-----------------------------------------------------------------------------
(***************************************************************************)
(* The pieces of which actions are made.                                   *)
(***************************************************************************)

(* Moving the worker on to another step keeps its type. *)
LEMMA ProceedType ==
  ASSUME w \in Worker, NEW pc \in Steps, NEW st \in Status, Proceed(pc, st)
  PROVE  w' \in Worker
  BY DEF Proceed, Worker

(* Ending a reconciliation, with the status to write, keeps the type of the worker. *)
LEMMA FinishType ==
  ASSUME w \in Worker, NEW st \in Status, NEW err \in BOOLEAN, Finish(st, err)
  PROVE  w' \in Worker
<1>1. w.obj.gen \in Nat
  BY DEF Worker, Ingress
<1>2. PostProcessReconcile(st, w.obj.gen) \in Status
  BY <1>1, MarksKeepType DEF LoadBalancers
<1> QED
  BY <1>2 DEF Finish, Worker, Steps

(* Ending a reconciliation with an error keeps the type of the worker. *)
LEMMA FailType ==
  ASSUME w \in Worker, NEW st \in Status, FailWith(st) \/ FailVirtualServices(st)
  PROVE  w' \in Worker
<1>1. MarkLoadBalancerFailed(st) \in Status /\ \A s \in Status : MarkIngressNotReady(s) \in Status
  BY MarksKeepType DEF LoadBalancers
<1> QED
  BY <1>1, FinishType DEF FailWith, FailVirtualServices

(* Writing one object of the Ingress keeps the types of the objects. *)
LEMMA WriteType ==
  ASSUME Objects(objs), lag \subseteq Kinds \cup {"ingress"}, wake \subseteq VSKinds,
         NEW k \in Kinds, NEW v, Write(k, v),
         k \in OwnedKinds => v \in {Absent, Foreign} \cup Content,
         k \in SecretKinds => v \in {Absent} \cup Nat
  PROVE  Objects(objs') /\ lag' \subseteq Kinds \cup {"ingress"} /\ wake' \subseteq VSKinds
  BY DEF Write, Objects, Kinds, OwnedKinds, SecretKinds, VSKinds

(* The object a spec and a configuration ask for is of the type its kind holds. *)
LEMMA DesiredType ==
  ASSUME NEW k, NEW s \in Specs, NEW m \in Modes
  PROVE  Desired(k, s, m) \in {Absent} \cup Content
  BY DEF Desired, Content

-----------------------------------------------------------------------------
(***************************************************************************)
(* Type correctness.                                                       *)
(***************************************************************************)

(* What a busy worker holds. *)
LEMMA WorkerParts ==
  ASSUME TypeOK
  PROVE  /\ w.obj \in Ingress /\ w.obj.spec \in Specs /\ w.obj.gen \in Nat
         /\ w.cfg \in Modes /\ w.st \in Status
         /\ \A k \in OwnedKinds : WorkerDesires(k) \in {Absent} \cup Content
<1>1. w.obj \in Ingress /\ w.cfg \in Modes /\ w.st \in Status
  BY DEF TypeOK, Worker
<1>2. w.obj.spec \in Specs /\ w.obj.gen \in Nat
  BY <1>1 DEF Ingress
<1> QED
  BY <1>1, <1>2, DesiredType DEF WorkerDesires

(* A write of a Secret or of an object of the Ingress. *)
LEMMA ReconciledType ==
  ASSUME TypeOK, NEW k \in Kinds, NEW v, Reconciled(k, v) \/ Conflicts(k, v),
         k \in OwnedKinds => v \in {Absent} \cup Content,
         k \in SecretKinds => v \in {Absent} \cup Nat
  PROVE  Objects(objs') /\ lag' \subseteq Kinds \cup {"ingress"} /\ wake' \subseteq VSKinds
<1>1. CASE ApiUnchanged
  BY <1>1 DEF ApiUnchanged, TypeOK, Objects
<1>2. CASE Write(k, v)
  BY <1>2, WriteType DEF TypeOK
<1> QED
  BY <1>1, <1>2 DEF Reconciled, Conflicts

(* A step that leaves the API server alone keeps its types. *)
LEMMA ApiUnchangedType ==
  ASSUME TypeOK, ApiUnchanged
  PROVE  Objects(objs') /\ lag' \subseteq Kinds \cup {"ingress"} /\ wake' \subseteq VSKinds
  BY DEF TypeOK, ApiUnchanged, Objects

(* Deletions. *)
LEMMA DeleteType ==
  ASSUME TypeOK, NEW k \in Kinds, Write(k, Absent)
  PROVE  Objects(objs') /\ lag' \subseteq Kinds \cup {"ingress"} /\ wake' \subseteq VSKinds
  BY WriteType DEF TypeOK

(* Spending one of the bounded events keeps the budget a function to Nat. *)
LEMMA SpendType ==
  ASSUME budget \in [Events -> Nat], NEW e \in Events, Spend(e)
  PROVE  budget' \in [Events -> Nat]
<1>1. budget[e] \in Nat /\ budget[e] > 0
  BY DEF Spend
<1>2. budget[e] - 1 \in Nat
  BY <1>1
<1> QED
  BY <1>2 DEF Spend

(* Whether a probe has succeeded is a Boolean. *)
LEMMA ProbeParts ==
  ASSUME probe \in Probes
  PROVE  probe.done \in BOOLEAN
<1>1. CASE probe \in [spec: Specs, done: BOOLEAN]
  BY <1>1
<1>2. CASE probe = [spec |-> Absent, done |-> FALSE]
  BY <1>2
<1> QED
  BY <1>1, <1>2 DEF Probes, NoProbe

(* The step a reconciliation goes on with is one of its steps. *)
LEMMA StepNames ==
  ASSUME TypeOK
  PROVE  /\ FirstVirtualServiceStep \in Steps /\ FirstStep \in Steps
         /\ \A k \in VSKinds : AfterVirtualService(k) \in Steps
  BY DEF FirstVirtualServiceStep, FirstStep, AfterVirtualService, Steps

(* The steps of the worker keep every type. *)
LEMMA WorkerStepType ==
  ASSUME TypeOK, WorkerStep \/ CallFails
  PROVE  TypeOK'
<1> USE WorkerParts, StepNames
<1>1. CASE StartReconcile
  <2>1. w' \in Worker
    BY <1>1, IdleType DEF StartReconcile, TypeOK, Worker, Ingress, Steps
  <2> QED
    BY <1>1, <2>1, ApiUnchangedType DEF StartReconcile, TypeOK, Objects
<1>2. CASE SetFinalizer
  <2>1. PreProcessReconcile(w.st, w.obj.gen) \in Status
    BY MarksKeepType DEF LoadBalancers
  <2>2. w' \in Worker /\ queued' \in BOOLEAN
    BY <1>2, <2>1, ProceedType, IdleType DEF SetFinalizer, Retry, TypeOK
  <2>3. ing' \in Ingress /\ lag' \subseteq Kinds \cup {"ingress"}
    <3>1. ing \in Ingress /\ lag \subseteq Kinds \cup {"ingress"}
      BY DEF TypeOK
    <3>2. [ing EXCEPT !.fin = TRUE] \in Ingress
      BY <3>1 DEF Ingress
    <3>3. (ing' = [ing EXCEPT !.fin = TRUE] /\ lag' = lag \cup {"ingress"}) \/ UNCHANGED <<ing, lag>>
      BY <1>2 DEF SetFinalizer
    <3> QED
      BY <3>1, <3>2, <3>3
  <2> QED
    BY <1>2, <2>2, <2>3 DEF SetFinalizer, TypeOK, Objects
<1>3. CASE ReconcileCertSecrets
  <2>1. w' \in Worker /\ queued' \in BOOLEAN /\ tracked' \in BOOLEAN
    BY <1>3, ProceedType, FailType DEF ReconcileCertSecrets, TypeOK, Steps
  <2>2. lister["origin"] \in {Absent} \cup Nat /\ "cert" \in Kinds /\ "cert" \notin OwnedKinds
    BY DEF TypeOK, Objects, SecretKinds, OwnedKinds, VSKinds, Kinds
  <2>3. Objects(objs') /\ lag' \subseteq Kinds \cup {"ingress"} /\ wake' \subseteq VSKinds
    BY <1>3, <2>2, ReconciledType, ApiUnchangedType DEF ReconcileCertSecrets
  <2> QED
    BY <1>3, <2>1, <2>3 DEF ReconcileCertSecrets, TypeOK, Objects
<1>4. CASE ReconcileIngressGateways
  <2>1. w' \in Worker
    BY <1>4, ProceedType, FailType DEF ReconcileIngressGateways, TypeOK
  <2>2. "gateway" \in Kinds /\ "gateway" \in OwnedKinds /\ "gateway" \notin SecretKinds
    BY DEF OwnedKinds, Kinds, SecretKinds
  <2>3. Objects(objs') /\ lag' \subseteq Kinds \cup {"ingress"} /\ wake' \subseteq VSKinds
    BY <1>4, <2>2, ReconciledType DEF ReconcileIngressGateways
  <2> QED
    BY <1>4, <2>1, <2>3 DEF ReconcileIngressGateways, TypeOK, Objects
<1>5. ASSUME NEW k \in VSKinds, ReconcileVirtualService(k)
      PROVE  TypeOK'
  <2>1. MarkResourceNotOwned(w.st) \in Status
    BY MarksKeepType DEF LoadBalancers
  <2>2. w' \in Worker
    BY <1>5, <2>1, ProceedType, FailType DEF ReconcileVirtualService, TypeOK
  <2>3. k \in Kinds /\ k \in OwnedKinds /\ k \notin SecretKinds
    BY DEF VSKinds, OwnedKinds, Kinds, SecretKinds
  <2>4. Objects(objs') /\ lag' \subseteq Kinds \cup {"ingress"} /\ wake' \subseteq VSKinds
    BY <1>5, <2>3, ReconciledType, ApiUnchangedType DEF ReconcileVirtualService
  <2> QED
    BY <1>5, <2>2, <2>4 DEF ReconcileVirtualService, TypeOK, Objects
<1>6. ASSUME NEW k \in VSKinds, DropExtraVirtualService(k)
      PROVE  TypeOK'
  <2>1. w' \in Worker
    BY <1>6, ProceedType, FailType DEF DropExtraVirtualService, TypeOK, Steps
  <2>2. k \in Kinds
    BY DEF VSKinds, OwnedKinds, Kinds
  <2>3. Objects(objs') /\ lag' \subseteq Kinds \cup {"ingress"} /\ wake' \subseteq VSKinds
    BY <1>6, <2>2, DeleteType, ApiUnchangedType DEF DropExtraVirtualService
  <2> QED
    BY <1>6, <2>1, <2>3 DEF DropExtraVirtualService, TypeOK, Objects
<1>7. CASE CheckReady
  <2> DEFINE st == MarkNetworkConfigured(w.st)
  <2>1. /\ st \in Status
        /\ MarkLoadBalancerReady(st, "gateway") \in Status /\ MarkLoadBalancerNotReady(st) \in Status
    BY MarksKeepType DEF LoadBalancers
  <2> HIDE DEF st
  <2>2. ASSUME NEW ready \in BOOLEAN, ReportReady(st, ready)
        PROVE  w' \in Worker
    BY <2>1, <2>2, FinishType DEF ReportReady, TypeOK
  <2>3. w' \in Worker /\ probe' \in Probes /\ queued' \in BOOLEAN /\ probed' \subseteq Nat
        /\ budget' \in [Events -> Nat]
    <3>1. CASE ReportReady(st, TRUE) /\ UNCHANGED <<probe, queued, probed, budget>>
      BY <3>1, <2>2 DEF TypeOK
    <3>2. CASE ProberIsReady(st)
      <4>1. CASE probe.spec = w.obj.spec
        <5>1. probe.done \in BOOLEAN
          BY ProbeParts DEF TypeOK
        <5> QED
          BY <3>2, <4>1, <5>1, <2>2 DEF ProberIsReady, TypeOK
      <4>2. ASSUME NEW b \in BOOLEAN, probe.spec # w.obj.spec,
                   queued' = (queued \/ (probe # NoProbe /\ ~probe.done)),
                   probe' = [spec |-> w.obj.spec, done |-> b],
                   ReportReady(st, b), UNCHANGED budget,
                   probed' = IF b THEN probed \cup {w.obj.gen} ELSE probed
            PROVE  w' \in Worker /\ probe' \in Probes /\ queued' \in BOOLEAN /\ probed' \subseteq Nat
                   /\ budget' \in [Events -> Nat]
        BY <4>2, <2>2 DEF TypeOK, Probes
      <4>3. CASE /\ probe.spec # w.obj.spec
                 /\ queued' = (queued \/ (probe # NoProbe /\ ~probe.done))
                 /\ Spend("fault") /\ probe' = NoProbe /\ FailWith(st) /\ UNCHANGED probed
        BY <4>3, <2>1, FailType, SpendType DEF TypeOK, Probes, Events
      <4> QED
        BY <3>2, <4>1, <4>2, <4>3 DEF ProberIsReady
    <3> QED
      BY <1>7, <3>1, <3>2 DEF CheckReady, st
  <2> QED
    BY <1>7, <2>3, ApiUnchangedType DEF CheckReady, TypeOK, Objects
<1>8. CASE CleanupIngressGateways
  <2>1. w' \in Worker
    BY <1>8, ProceedType DEF CleanupIngressGateways, TypeOK, Steps
  <2>2. Objects(objs') /\ lag' \subseteq Kinds \cup {"ingress"} /\ wake' \subseteq VSKinds
    BY <1>8, DeleteType, ApiUnchangedType
    DEF CleanupIngressGateways, Cleaned, Kinds, OwnedKinds
  <2> QED
    BY <1>8, <2>1, <2>2 DEF CleanupIngressGateways, TypeOK, Objects
<1>9. CASE CleanupTLSSecrets
  <2>1. MarkLoadBalancerReady(MarkNetworkConfigured(w.st), "mesh") \in Status
    BY MarksKeepType DEF LoadBalancers
  <2>2. w' \in Worker
    BY <1>9, <2>1, FinishType DEF CleanupTLSSecrets, TypeOK
  <2>3. Objects(objs') /\ lag' \subseteq Kinds \cup {"ingress"} /\ wake' \subseteq VSKinds
    BY <1>9, DeleteType, ApiUnchangedType
    DEF CleanupTLSSecrets, Cleaned, Kinds, SecretKinds
  <2> QED
    BY <1>9, <2>2, <2>3 DEF CleanupTLSSecrets, TypeOK, Objects
<1>10. CASE WriteStatus
  <2>1. ing' \in Ingress /\ lag' \subseteq Kinds \cup {"ingress"} /\ queued' \in BOOLEAN
    BY <1>10 DEF WriteStatus, TypeOK, Ingress
  <2> QED
    BY <1>10, <2>1, IdleType DEF WriteStatus, TypeOK, Objects
<1>11. CASE FinalizeKind
  <2>1. w' \in Worker /\ queued' \in BOOLEAN
    BY <1>11, ProceedType, IdleType DEF FinalizeKind, Retry, TypeOK, Steps
  <2>2. Objects(objs') /\ lag' \subseteq Kinds \cup {"ingress"} /\ wake' \subseteq VSKinds
    BY <1>11, DeleteType, ApiUnchangedType DEF FinalizeKind, Kinds, SecretKinds
  <2> QED
    BY <1>11, <2>1, <2>2 DEF FinalizeKind, TypeOK, Objects
<1>12. CASE ClearFinalizer
  <2>1. ing' \in Ingress /\ lag' \subseteq Kinds \cup {"ingress"}
    <3>1. ing \in Ingress /\ lag \subseteq Kinds \cup {"ingress"}
      BY DEF TypeOK
    <3>2. [ing EXCEPT !.live = FALSE, !.fin = FALSE] \in Ingress
      BY <3>1 DEF Ingress
    <3>3. (ing' = [ing EXCEPT !.live = FALSE, !.fin = FALSE] /\ lag' = lag \cup {"ingress"}) \/ UNCHANGED <<ing, lag>>
      BY <1>12 DEF ClearFinalizer
    <3> QED
      BY <3>1, <3>2, <3>3
  <2>2. w' \in Worker /\ queued' \in BOOLEAN
    BY <1>12, IdleType DEF ClearFinalizer, Retry, TypeOK
  <2> QED
    BY <1>12, <2>1, <2>2 DEF ClearFinalizer, TypeOK, Objects
<1>13. CASE CallFails
  <2>1. w' \in Worker /\ queued' \in BOOLEAN /\ tracked' \in BOOLEAN
    BY <1>13, FailType, IdleType DEF CallFails, Retry, TypeOK
  <2>2. budget' \in [Events -> Nat]
    BY <1>13, SpendType DEF CallFails, TypeOK, Events
  <2> QED
    BY <1>13, <2>1, <2>2, ApiUnchangedType DEF CallFails, TypeOK, Objects
<1> QED
  BY <1>1, <1>2, <1>3, <1>4, <1>5, <1>6, <1>7, <1>8, <1>9, <1>10, <1>11, <1>12, <1>13
  DEF WorkerStep

(* Informer events and the environment keep every type. *)
LEMMA EnvironmentType ==
  ASSUME TypeOK,
         \/ SyncIngress \/ ProbeCompletes \/ Environment
         \/ \E k \in Kinds : SyncObject(k)
  PROVE  TypeOK'
<1>1. CASE SyncIngress
  BY <1>1 DEF SyncIngress, ProbeAfterIngressEvent, TypeOK, Objects, Probes
<1>2. ASSUME NEW k \in Kinds, SyncObject(k)
      PROVE  TypeOK'
  <2>1. Objects(lister')
    BY <1>2 DEF SyncObject, TypeOK, Objects, Kinds
  <2>2. queued' \in BOOLEAN
    BY <1>2 DEF SyncObject, TypeOK
  <2> QED
    BY <1>2, <2>1, <2>2 DEF SyncObject, TypeOK, Objects
<1>3. CASE ProbeCompletes
  <2>1. probe \in [spec: Specs, done: BOOLEAN] /\ probe' = [probe EXCEPT !.done = TRUE]
    BY <1>3 DEF ProbeCompletes, TypeOK, Probes
  <2>2. probe' \in [spec: Specs, done: BOOLEAN]
    BY <2>1
  <2> QED
    BY <1>3, <2>2, ApiUnchangedType DEF Probes, ProbeCompletes, ReadyCallback, TypeOK, Objects
<1>4. ASSUME NEW s \in Specs, UpdateSpec(s)
      PROVE  TypeOK'
  <2>1. ing' \in Ingress /\ lag' \subseteq Kinds \cup {"ingress"}
    <3>1. ing \in Ingress /\ ing.gen \in Nat /\ ing.gen + 1 \in Nat
      BY DEF TypeOK, Ingress
    <3>2. ing' = [ing EXCEPT !.spec = s, !.gen = ing.gen + 1]
      BY <1>4, <3>1 DEF UpdateSpec, Ingress
    <3> QED
      BY <1>4, <3>1, <3>2 DEF UpdateSpec, TypeOK, Ingress
  <2>2. budget' \in [Events -> Nat]
    BY <1>4, SpendType DEF UpdateSpec, TypeOK, Events
  <2> QED
    BY <1>4, <2>1, <2>2 DEF UpdateSpec, TypeOK, Objects
<1>5. CASE DeleteIngress
  <2>1. ing' \in Ingress /\ lag' \subseteq Kinds \cup {"ingress"}
    <3>1. ing \in Ingress /\ ing.gen \in Nat /\ ing.gen + 1 \in Nat
      BY DEF TypeOK, Ingress
    <3>2. ing' = [ing EXCEPT !.del = TRUE, !.gen = ing.gen + 1] \/ ing' = [ing EXCEPT !.live = FALSE]
      BY <1>5, <3>1 DEF DeleteIngress, Ingress
    <3> QED
      BY <1>5, <3>1, <3>2 DEF DeleteIngress, TypeOK, Ingress
  <2>2. budget' \in [Events -> Nat]
    BY <1>5, SpendType DEF DeleteIngress, TypeOK, Events
  <2> QED
    BY <1>5, <2>1, <2>2 DEF DeleteIngress, TypeOK, Objects
<1>6. CASE FlipConfig \/ PeriodicResync
  <2>1. budget' \in [Events -> Nat]
    BY <1>6, SpendType DEF FlipConfig, PeriodicResync, TypeOK, Events
  <2>2. queued' \in BOOLEAN /\ mode' \in Modes
    BY <1>6 DEF FlipConfig, PeriodicResync, ResyncIngresses, TypeOK, Modes
  <2> QED
    BY <1>6, <2>1, <2>2, ApiUnchangedType DEF FlipConfig, PeriodicResync, TypeOK, Objects
<1>7. CASE RotateCertificate
  <2>1. budget' \in [Events -> Nat]
    BY <1>7, SpendType DEF RotateCertificate, TypeOK, Events
  <2> DEFINE v == IF objs["origin"] = Absent THEN 1 ELSE objs["origin"] + 1
  <2>2. v \in Nat
    BY DEF TypeOK, Objects, SecretKinds
  <2>3. "origin" \in Kinds /\ "origin" \notin OwnedKinds
    BY DEF Kinds, SecretKinds, OwnedKinds, VSKinds
  <2>4. Write("origin", v)
    BY <1>7 DEF RotateCertificate
  <2> HIDE DEF v
  <2>5. Objects(objs') /\ lag' \subseteq Kinds \cup {"ingress"} /\ wake' \subseteq VSKinds
    BY <2>2, <2>3, <2>4, WriteType DEF TypeOK
  <2> QED
    BY <1>7, <2>1, <2>5 DEF RotateCertificate, TypeOK, Objects
<1>8. CASE Restart
  <2>1. budget' \in [Events -> Nat]
    BY <1>8, SpendType DEF Restart, TypeOK, Events
  <2> QED
    BY <1>8, <2>1, IdleType DEF Restart, TypeOK, Objects, Probes, Ingress
<1>9. ASSUME NEW k \in OwnedKinds \cup {"cert"}, Tamper(k)
      PROVE  TypeOK'
  <2>1. budget' \in [Events -> Nat]
    BY <1>9, SpendType DEF Tamper, TypeOK, Events
  <2>2. Objects(objs') /\ lag' \subseteq Kinds \cup {"ingress"} /\ wake' \subseteq VSKinds
    BY <1>9, DeleteType DEF Tamper, Kinds, SecretKinds
  <2> QED
    BY <1>9, <2>1, <2>2 DEF Tamper, TypeOK, Objects
<1>10. ASSUME NEW k \in VSKinds, ForeignVirtualService(k)
       PROVE  TypeOK'
  <2>1. budget' \in [Events -> Nat]
    BY <1>10, SpendType DEF ForeignVirtualService, TypeOK, Events
  <2>2. Objects(objs')
    BY <1>10 DEF ForeignVirtualService, TypeOK, Objects, Kinds, OwnedKinds, VSKinds, SecretKinds
  <2>3. lag' \subseteq Kinds \cup {"ingress"}
    BY <1>10 DEF ForeignVirtualService, TypeOK, Kinds, OwnedKinds
  <2> QED
    BY <1>10, <2>1, <2>2, <2>3 DEF ForeignVirtualService, TypeOK, Objects
<1>11. ASSUME NEW k \in OwnedKinds, CollectGarbage(k)
       PROVE  TypeOK'
  <2>1. Objects(objs') /\ lag' \subseteq Kinds \cup {"ingress"} /\ wake' \subseteq VSKinds
    BY <1>11, DeleteType DEF CollectGarbage, Kinds
  <2> QED
    BY <1>11, <2>1 DEF CollectGarbage, TypeOK, Objects
<1> QED
  BY <1>1, <1>2, <1>3, <1>4, <1>5, <1>6, <1>7, <1>8, <1>9, <1>10, <1>11 DEF Environment

(* The initial states are well typed. *)
LEMMA InitType == Init => TypeOK
<1> SUFFICES ASSUME Init PROVE TypeOK
  OBVIOUS
<1>1. ing \in Ingress /\ cache \in Ingress
  <2>1. PICK s \in Specs : ing = [live |-> TRUE, gen |-> 1, spec |-> s, fin |-> FALSE,
                                  del |-> FALSE, status |-> NoStatus]
    BY DEF Init
  <2>2. ing \in Ingress
    BY <2>1, NoStatusType DEF Ingress
  <2>3. cache = [ing EXCEPT !.live = FALSE]
    BY DEF Init
  <2> QED
    BY <2>2, <2>3 DEF Ingress
<1>2. Objects(objs)
  <2>1. PICK v \in {Absent} \cup Nat : objs = [k \in Kinds |-> IF k = "origin" THEN v ELSE Absent]
    BY DEF Init
  <2>2. \A k \in Kinds : objs[k] = IF k = "origin" THEN v ELSE Absent
    BY <2>1
  <2>3. \A k \in OwnedKinds : objs[k] = Absent
    BY <2>2 DEF Kinds, OwnedKinds, VSKinds
  <2>4. \A k \in SecretKinds : objs[k] \in {Absent} \cup Nat
    BY <2>2 DEF Kinds, SecretKinds
  <2>5. objs = [k \in Kinds |-> objs[k]]
    BY <2>1
  <2> QED
    BY <2>3, <2>4, <2>5 DEF Objects
<1>3. mode \in Modes
  BY SpecsAssumption DEF Init, Modes
<1> QED
  BY <1>1, <1>2, <1>3, IdleType, BudgetAssumption DEF Init, TypeOK, Probes

(* A step that changes nothing keeps the types. *)
LEMMA StutterType == TypeOK /\ UNCHANGED vars => TypeOK'
  BY DEF TypeOK, vars, Objects

(* Every variable keeps its type, whatever the environment does: in          *)
(* particular the status written is always a status, and the worker never    *)
(* leaves its steps.                                                         *)
THEOREM TypeCorrect == Spec => []TypeOK
<1>1. TypeOK /\ [Next]_vars => TypeOK'
  BY WorkerStepType, EnvironmentType, StutterType DEF Next
<1> QED
  BY <1>1, InitType, PTL DEF Spec

-----------------------------------------------------------------------------
(***************************************************************************)
(* The finalizer and the observed generation.                              *)
(***************************************************************************)

(* The steps inside reconcileIngress, and those after the finalizer was set. *)
KindSteps == {"certs", "gateway", "meshVS", "ingressVS", "dropIngressVS", "dropMeshVS",
              "probe", "cleanGateway", "cleanCerts"}
HeldSteps == KindSteps \cup {"status"}

KindStep ==
  \/ ReconcileCertSecrets \/ ReconcileIngressGateways
  \/ \E k \in VSKinds : ReconcileVirtualService(k) \/ DropExtraVirtualService(k)
  \/ CheckReady \/ CleanupIngressGateways \/ CleanupTLSSecrets
  \/ CallFails /\ w.pc \in KindSteps

(* What each of these steps does to the worker. *)
LEMMA ProceedMoves ==
  ASSUME w \in Worker, NEW pc, NEW st, Proceed(pc, st)
  PROVE  w'.pc = pc /\ w'.st = st /\ w'.obj = w.obj /\ w'.cfg = w.cfg
  BY DEF Proceed, Worker

(* At the end of ReconcileKind the status observes the generation reconciled. *)
LEMMA FinishMoves ==
  ASSUME w \in Worker, NEW st \in Status, NEW err, Finish(st, err)
  PROVE  /\ w'.pc = "status" /\ w'.obj = w.obj
         /\ w'.st = PostProcessReconcile(st, w.obj.gen)
         /\ w'.st.og = w.obj.gen /\ w'.st.ready = st.ready
<1>1. w'.pc = "status" /\ w'.obj = w.obj /\ w'.st = PostProcessReconcile(st, w.obj.gen)
  BY DEF Finish, Worker
<1>2. /\ PostProcessReconcile(st, w.obj.gen).og = w.obj.gen
      /\ PostProcessReconcile(st, w.obj.gen).ready = st.ready
  BY DEF PostProcessReconcile, Status
<1> QED
  BY <1>1, <1>2

(* A failed reconciliation never reports Ready. *)
LEMMA FailMoves ==
  ASSUME w \in Worker, NEW st \in Status, FailWith(st) \/ FailVirtualServices(st)
  PROVE  w'.pc = "status" /\ w'.obj = w.obj /\ w'.st.og = w.obj.gen /\ w'.st.ready # "True"
<1>1. ASSUME NEW s \in Status
      PROVE  MarkIngressNotReady(s) \in Status /\ MarkIngressNotReady(s).ready # "True"
  <2>1. MarkIngressNotReady(s) \in Status
    BY MarksKeepType DEF LoadBalancers
  <2>2. MarkIngressNotReady(s).ready # "True"
    BY DEF MarkIngressNotReady, happyAfterUnknown, Status
  <2> QED
    BY <2>1, <2>2
<1>2. MarkLoadBalancerFailed(st) \in Status
  BY MarksKeepType DEF LoadBalancers
<1> QED
  BY <1>1, <1>2, FinishMoves DEF FailWith, FailVirtualServices

(* So does the status with the verdict of the prober. *)
LEMMA ReportReadyMoves ==
  ASSUME w \in Worker, NEW st \in Status, NEW ready \in BOOLEAN, ReportReady(st, ready)
  PROVE  w'.pc = "status" /\ w'.obj = w.obj /\ w'.st.og = w.obj.gen
<1>1. MarkLoadBalancerReady(st, "gateway") \in Status /\ MarkLoadBalancerNotReady(st) \in Status
  BY MarksKeepType DEF LoadBalancers
<1> QED
  BY <1>1, FinishMoves DEF ReportReady

(* CheckReady ends ReconcileKind for the Ingress that the worker holds. *)
LEMMA CheckReadyMoves ==
  ASSUME TypeOK, CheckReady
  PROVE  /\ w.pc = "probe" /\ w'.pc = "status" /\ w'.obj = w.obj /\ w'.st.og = w.obj.gen
<1> DEFINE st == MarkNetworkConfigured(w.st)
<1>1. st \in Status /\ w \in Worker
  BY WorkerParts, MarksKeepType DEF LoadBalancers, TypeOK
<1>2. ReportReady(st, TRUE) \/ ProberIsReady(st)
  BY DEF CheckReady
<1>3. probe.done \in BOOLEAN
  BY ProbeParts DEF TypeOK
<1> HIDE DEF st
<1>4. (\E b \in BOOLEAN : ReportReady(st, b)) \/ FailWith(st)
  BY <1>2, <1>3 DEF ProberIsReady
<1> QED
  BY <1>1, <1>4, ReportReadyMoves, FailMoves DEF CheckReady

(* A step of ReconcileKind goes on with the Ingress that the worker holds. *)
LEMMA KindStepMoves ==
  ASSUME TypeOK, KindStep
  PROVE  /\ w.pc \in KindSteps /\ w'.pc \in HeldSteps
         /\ w'.obj = w.obj
         /\ w'.pc = "status" => w'.st.og = w.obj.gen
         /\ UNCHANGED <<ing, cache>>
<1> USE DEF HeldSteps, KindSteps
<1>w. w \in Worker /\ w.st \in Status
  BY WorkerParts DEF TypeOK
<1>n. FirstVirtualServiceStep \in KindSteps /\ \A k \in VSKinds : AfterVirtualService(k) \in KindSteps
  BY DEF FirstVirtualServiceStep, AfterVirtualService
<1>1. CASE ReconcileCertSecrets
  BY <1>1, <1>w, ProceedMoves, FailMoves DEF ReconcileCertSecrets
<1>2. CASE ReconcileIngressGateways
  BY <1>2, <1>w, <1>n, ProceedMoves, FailMoves DEF ReconcileIngressGateways
<1>3. ASSUME NEW k \in VSKinds, ReconcileVirtualService(k)
      PROVE  /\ w.pc \in KindSteps /\ w'.pc \in HeldSteps
             /\ w'.obj = w.obj
             /\ w'.pc = "status" => w'.st.og = w.obj.gen
             /\ UNCHANGED <<ing, cache>>
  <2>1. MarkResourceNotOwned(w.st) \in Status
    BY <1>w, MarksKeepType DEF LoadBalancers
  <2> QED
    BY <1>3, <2>1, <1>w, <1>n, ProceedMoves, FailMoves DEF ReconcileVirtualService, VSKinds
<1>4. ASSUME NEW k \in VSKinds, DropExtraVirtualService(k)
      PROVE  /\ w.pc \in KindSteps /\ w'.pc \in HeldSteps
             /\ w'.obj = w.obj
             /\ w'.pc = "status" => w'.st.og = w.obj.gen
             /\ UNCHANGED <<ing, cache>>
  BY <1>4, <1>w, ProceedMoves, FailMoves DEF DropExtraVirtualService
<1>5. CASE CheckReady
  BY <1>5, CheckReadyMoves DEF CheckReady
<1>6. CASE CleanupIngressGateways
  BY <1>6, <1>w, ProceedMoves DEF CleanupIngressGateways
<1>7. CASE CleanupTLSSecrets
  <2>1. MarkLoadBalancerReady(MarkNetworkConfigured(w.st), "mesh") \in Status
    BY <1>w, MarksKeepType DEF LoadBalancers
  <2> QED
    BY <1>7, <2>1, <1>w, FinishMoves DEF CleanupTLSSecrets
<1>8. CASE CallFails /\ w.pc \in KindSteps
  BY <1>8, <1>w, FailMoves DEF CallFails
<1> QED
  BY <1>1, <1>2, <1>3, <1>4, <1>5, <1>6, <1>7, <1>8 DEF KindStep

(* Every step is one of the few that touch the Ingress, its cached copy or    *)
(* the worker, or leaves all three alone.                                     *)
LEMMA StepKinds ==
  ASSUME TypeOK, [Next]_vars
  PROVE  \/ KindStep
         \/ StartReconcile \/ SetFinalizer \/ WriteStatus \/ FinalizeKind \/ ClearFinalizer
         \/ w' = Idle /\ UNCHANGED <<ing, cache, lag, probe>>
         \/ SyncIngress \/ (\E s \in Specs : UpdateSpec(s)) \/ DeleteIngress \/ Restart
         \/ ProbeCompletes
         \/ UNCHANGED <<ing, cache, w, probe>> /\ ("ingress" \in lag <=> "ingress" \in lag')
<1> USE DEF Kinds, OwnedKinds, SecretKinds, VSKinds
<1>1. CASE UNCHANGED vars
  BY <1>1 DEF vars
<1>2. CASE CallFails
  <2>1. CASE w.pc \in KindSteps
    BY <1>2, <2>1 DEF KindStep
  <2>2. CASE w.pc \notin KindSteps
    <3>1. w.pc \in {"finalizer", "status", "finalize", "clearFinalizer"}
      BY <1>2, <2>2 DEF CallFails, Fallible, KindSteps
    <3> QED
      BY <1>2, <3>1 DEF CallFails, Retry, ApiUnchanged
  <2> QED
    BY <2>1, <2>2
<1>3. ASSUME NEW k \in Kinds, SyncObject(k)
      PROVE  UNCHANGED <<ing, cache, w, probe>> /\ ("ingress" \in lag <=> "ingress" \in lag')
  BY <1>3 DEF SyncObject
<1>4. CASE FlipConfig \/ PeriodicResync
  BY <1>4 DEF FlipConfig, PeriodicResync, ApiUnchanged
<1>5. CASE RotateCertificate
  BY <1>5 DEF RotateCertificate, Write
<1>6. ASSUME NEW k \in OwnedKinds \cup {"cert"}, Tamper(k)
      PROVE  UNCHANGED <<ing, cache, w, probe>> /\ ("ingress" \in lag <=> "ingress" \in lag')
  BY <1>6 DEF Tamper, Write
<1>7. ASSUME NEW k \in VSKinds, ForeignVirtualService(k)
      PROVE  UNCHANGED <<ing, cache, w, probe>> /\ ("ingress" \in lag <=> "ingress" \in lag')
  BY <1>7 DEF ForeignVirtualService
<1>8. ASSUME NEW k \in OwnedKinds, CollectGarbage(k)
      PROVE  UNCHANGED <<ing, cache, w, probe>> /\ ("ingress" \in lag <=> "ingress" \in lag')
  BY <1>8 DEF CollectGarbage, Write
<1>9. CASE WorkerStep
  BY <1>9 DEF WorkerStep, KindStep
<1> QED
  BY <1>1, <1>2, <1>3, <1>4, <1>5, <1>6, <1>7, <1>8, <1>9 DEF Next, Environment

(* The strengthening of FinalizerHeld.  A cached copy that carries the        *)
(* finalizer and is not being deleted is a copy of an Ingress that still has  *)
(* it; a deletion that a worker saw is one the cache shows.                   *)
FinalizerInv ==
  /\ FinalizerHeld
  /\ cache.live /\ cache.fin => (ing.live /\ ing.fin) \/ cache.del
  /\ cache.del => ing.del
  /\ w.pc # "idle" => w.obj.live
  /\ w.pc = "finalizer" /\ w.obj.fin => ing.live /\ ing.fin
  /\ w.pc \in {"finalize", "clearFinalizer"} => cache.del

(* The waiting worker is at no step. *)
LEMMA IdleIsIdle == Idle.pc = "idle"
  BY DEF Idle

(* Every step keeps the invariant about the finalizer. *)
LEMMA FinalizerInvInductive ==
  ASSUME TypeOK, TypeOK', FinalizerInv, [Next]_vars
  PROVE  FinalizerInv'
<1> USE DEF FinalizerInv, FinalizerHeld
<1>t. w \in Worker /\ w' \in Worker /\ ing \in Ingress /\ cache \in Ingress
  BY DEF TypeOK
<1>1. CASE KindStep
  BY <1>1, KindStepMoves DEF HeldSteps, KindSteps
<1>2. CASE StartReconcile
  <2>1. CASE cache.live
    <3>1. w'.pc = (IF cache.del THEN "finalize" ELSE "finalizer") /\ w'.obj = cache
      BY <1>2, <2>1 DEF StartReconcile
    <3> QED
      BY <1>2, <2>1, <3>1 DEF StartReconcile
  <2>2. CASE ~cache.live
    BY <1>2, <2>2, IdleIsIdle DEF StartReconcile
  <2> QED
    BY <2>1, <2>2
<1>3. CASE SetFinalizer
  <2>1. CASE w.obj.fin \/ w.obj = ing
    <3>1. w'.pc \in HeldSteps /\ w'.obj = w.obj
      BY <1>3, <1>t, <2>1, ProceedMoves
      DEF SetFinalizer, FirstStep, FirstVirtualServiceStep, HeldSteps, KindSteps
    <3>2. ing'.live /\ ing'.fin /\ ing'.del = ing.del
      BY <1>3, <1>t, <2>1 DEF SetFinalizer, Ingress
    <3> QED
      BY <1>3, <3>1, <3>2 DEF SetFinalizer, HeldSteps, KindSteps
  <2>2. CASE ~(w.obj.fin \/ w.obj = ing)
    BY <1>3, <2>2, IdleIsIdle DEF SetFinalizer, Retry
  <2> QED
    BY <2>1, <2>2
<1>4. CASE WriteStatus
  <2>1. ing'.live = ing.live /\ ing'.fin = ing.fin /\ ing'.del = ing.del
    BY <1>4, <1>t DEF WriteStatus, Ingress
  <2> QED
    BY <1>4, <2>1, IdleIsIdle DEF WriteStatus
<1>5. CASE FinalizeKind
  <2>1. w' = Idle \/ (w'.pc = "clearFinalizer" /\ w'.obj = w.obj)
    BY <1>5, <1>t, ProceedMoves DEF FinalizeKind, Retry
  <2> QED
    BY <1>5, <2>1, IdleIsIdle DEF FinalizeKind
<1>6. CASE ClearFinalizer
  <2>1. ing' = ing \/ ing' = [ing EXCEPT !.live = FALSE, !.fin = FALSE]
    BY <1>6 DEF ClearFinalizer
  <2>2. ing'.del = ing.del
    BY <1>t, <2>1 DEF Ingress
  <2>3. w' = Idle /\ cache' = cache
    BY <1>6 DEF ClearFinalizer, Retry
  <2> QED
    BY <1>6, <2>2, <2>3, IdleIsIdle DEF ClearFinalizer
<1>7. CASE w' = Idle /\ UNCHANGED <<ing, cache, lag, probe>>
  BY <1>7, IdleIsIdle
<1>8. CASE SyncIngress
  BY <1>8 DEF SyncIngress
<1>9. ASSUME NEW s \in Specs, UpdateSpec(s)
      PROVE  FinalizerInv'
  <2>1. ing'.live = ing.live /\ ing'.fin = ing.fin /\ ing'.del = ing.del
    BY <1>9, <1>t DEF UpdateSpec, Ingress
  <2> QED
    BY <1>9, <2>1 DEF UpdateSpec
<1>10. CASE DeleteIngress
  <2>1. CASE ing.fin
    <3>1. ing'.live = ing.live /\ ing'.fin = ing.fin /\ ing'.del = TRUE
      BY <1>10, <1>t, <2>1 DEF DeleteIngress, Ingress
    <3> QED
      BY <1>10, <3>1 DEF DeleteIngress
  <2>2. CASE ~ing.fin
    <3>1. ing'.del = ing.del
      BY <1>10, <1>t, <2>2 DEF DeleteIngress, Ingress
    <3> QED
      BY <1>10, <2>2, <3>1 DEF DeleteIngress
  <2> QED
    BY <2>1, <2>2
<1>11. CASE Restart
  BY <1>11, IdleIsIdle DEF Restart
<1>12. CASE UNCHANGED <<ing, cache, w>>
  BY <1>12
<1> QED
  BY <1>1, <1>2, <1>3, <1>4, <1>5, <1>6, <1>7, <1>8, <1>9, <1>10, <1>11, <1>12, StepKinds
  DEF ProbeCompletes

(* The initial state satisfies the strengthened invariant: nothing is cached. *)
LEMMA FinalizerInvInit == Init => FinalizerInv
<1> SUFFICES ASSUME Init PROVE FinalizerInv
  OBVIOUS
<1>1. PICK s \in Specs : ing = [live |-> TRUE, gen |-> 1, spec |-> s, fin |-> FALSE,
                                del |-> FALSE, status |-> NoStatus]
  BY DEF Init
<1>2. ~cache.live /\ ~cache.del
  BY <1>1 DEF Init
<1> QED
  BY <1>2, IdleIsIdle DEF Init, FinalizerInv, FinalizerHeld

(* The invariant about the finalizer holds in every reachable state. *)
LEMMA FinalizerInvariant == Spec => []FinalizerInv
<1> QED
  BY FinalizerInvInit, FinalizerInvInductive, TypeCorrect, PTL DEF Spec

(* ReconcileKind runs only on an Ingress that exists and carries the          *)
(* controller's finalizer, whatever the caches show.                          *)
THEOREM FinalizerCorrect == Spec => []FinalizerHeld
<1>1. FinalizerInv => FinalizerHeld
  BY DEF FinalizerInv
<1> QED
  BY <1>1, FinalizerInvariant, PTL

=============================================================================

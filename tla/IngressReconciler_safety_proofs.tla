------------------- MODULE IngressReconciler_safety_proofs -------------------
(***************************************************************************)
(* What the finalizer and the type invariant of IngressReconciler_proofs   *)
(* make possible: removed Ingresses are not probed, the observed generation*)
(* never goes back, and Ready never outruns the VirtualServices.           *)
(***************************************************************************)
EXTENDS IngressReconciler_proofs

-----------------------------------------------------------------------------
(***************************************************************************)
(* Probing.                                                                *)
(***************************************************************************)

(* Only the readiness check starts a probe, and FinalizerInv keeps it away    *)
(* from an Ingress that is gone.                                              *)
LEMMA ProbeInductive ==
  ASSUME TypeOK, FinalizerInv, NoProbeOfRemovedIngress, [Next]_vars
  PROVE  NoProbeOfRemovedIngress'
<1> USE DEF NoProbeOfRemovedIngress
<1>1. CASE KindStep
  <2>1. w.pc \in KindSteps /\ ing' = ing
    BY <1>1, KindStepMoves
  <2> QED
    BY <2>1 DEF FinalizerInv, FinalizerHeld, KindSteps
<1>2. CASE StartReconcile
  BY <1>2 DEF StartReconcile, ApiUnchanged
<1>3. CASE SetFinalizer
  BY <1>3 DEF SetFinalizer
<1>4. CASE WriteStatus
  BY <1>4 DEF WriteStatus
<1>5. CASE FinalizeKind
  BY <1>5 DEF FinalizeKind, ApiUnchanged, Write
<1>6. CASE ClearFinalizer
  BY <1>6 DEF ClearFinalizer
<1>7. CASE w' = Idle /\ UNCHANGED <<ing, cache, lag, probe>>
  BY <1>7
<1>8. CASE SyncIngress
  BY <1>8 DEF SyncIngress, ProbeAfterIngressEvent
<1>9. ASSUME NEW s \in Specs, UpdateSpec(s)
      PROVE  NoProbeOfRemovedIngress'
  BY <1>9 DEF UpdateSpec
<1>10. CASE DeleteIngress
  BY <1>10 DEF DeleteIngress
<1>11. CASE Restart
  BY <1>11 DEF Restart
<1>12. CASE ProbeCompletes
  BY <1>12 DEF ProbeCompletes, ApiUnchanged
<1>13. CASE UNCHANGED <<ing, cache, w, probe>> /\ ("ingress" \in lag <=> "ingress" \in lag')
  BY <1>13
<1> QED
  BY <1>1, <1>2, <1>3, <1>4, <1>5, <1>6, <1>7, <1>8, <1>9, <1>10, <1>11, <1>12, <1>13, StepKinds

(* CancelIngressProbing on the deletion event is enough: no reconciliation    *)
(* under way can start another probe afterwards.                              *)
THEOREM NoProbeCorrect == Spec => []NoProbeOfRemovedIngress
<1>1. Init => NoProbeOfRemovedIngress
  BY DEF Init, NoProbeOfRemovedIngress
<1> QED
  BY <1>1, ProbeInductive, TypeCorrect, FinalizerInvariant, PTL DEF Spec

-----------------------------------------------------------------------------
(***************************************************************************)
(* The observed generation.                                                *)
(***************************************************************************)

(* A status about to be written carries the generation that was reconciled.   *)
GenerationInv ==
  /\ ObservedGenerationOrder
  /\ w.pc = "status" => w.st.og = w.obj.gen

(* Every step keeps the order of the generations. *)
LEMMA GenerationInductive ==
  ASSUME TypeOK, TypeOK', GenerationInv, [Next]_vars
  PROVE  GenerationInv' /\ ing.status.og <= ing'.status.og
<1> USE DEF GenerationInv, ObservedGenerationOrder
<1>t. /\ w \in Worker /\ w' \in Worker /\ ing \in Ingress /\ cache \in Ingress
      /\ ing' \in Ingress /\ cache' \in Ingress
  BY DEF TypeOK
<1>n. /\ ing.gen \in Nat /\ ing.status.og \in Nat /\ cache.gen \in Nat
      /\ w.obj.gen \in Nat /\ w.st.og \in Nat
  BY <1>t DEF Worker, Ingress, Status
<1>1. CASE KindStep
  BY <1>1, <1>n, KindStepMoves DEF KindSteps
<1>2. CASE StartReconcile
  <2>1. CASE cache.live
    <3>1. w'.pc \in {"finalize", "finalizer"} /\ w'.obj = cache
      BY <1>2, <2>1 DEF StartReconcile
    <3> QED
      BY <1>2, <1>n, <3>1 DEF StartReconcile
  <2>2. CASE ~cache.live
    BY <1>2, <1>n, <2>2, IdleIsIdle DEF StartReconcile
  <2> QED
    BY <2>1, <2>2
<1>3. CASE SetFinalizer
  <2>0. ing'.gen = ing.gen /\ ing'.status = ing.status
    BY <1>3, <1>t DEF SetFinalizer, Ingress
  <2>1. CASE w.obj.fin \/ w.obj = ing
    <3>1. w'.pc \in KindSteps /\ w'.obj = w.obj
      BY <1>3, <1>t, <2>1, ProceedMoves
      DEF SetFinalizer, FirstStep, FirstVirtualServiceStep, KindSteps
    <3> QED
      BY <1>3, <1>n, <2>0, <3>1 DEF SetFinalizer, KindSteps
  <2>2. CASE ~(w.obj.fin \/ w.obj = ing)
    BY <1>3, <1>n, <2>0, <2>2, IdleIsIdle DEF SetFinalizer, Retry
  <2> QED
    BY <2>1, <2>2
<1>4. CASE WriteStatus
  <2>1. ing'.gen = ing.gen /\ ing'.status \in {ing.status, w.st}
    BY <1>4, <1>t DEF WriteStatus, Ingress
  <2>2. w.pc = "status" /\ w' = Idle /\ cache' = cache
    BY <1>4 DEF WriteStatus
  <2>3. ing'.status.og = ing.status.og \/ ing'.status.og = w.obj.gen
    BY <2>1, <2>2
  <2> QED
    BY <1>n, <2>1, <2>2, <2>3, IdleIsIdle
<1>5. CASE FinalizeKind
  <2>1. w' = Idle \/ (w'.pc = "clearFinalizer" /\ w'.obj = w.obj)
    BY <1>5, <1>t, ProceedMoves DEF FinalizeKind, Retry
  <2> QED
    BY <1>5, <1>n, <2>1, IdleIsIdle DEF FinalizeKind
<1>6. CASE ClearFinalizer
  <2>1. ing'.gen = ing.gen /\ ing'.status = ing.status
    <3>1. ing' = [ing EXCEPT !.live = FALSE, !.fin = FALSE] \/ ing' = ing
      BY <1>6 DEF ClearFinalizer
    <3>2. ing \in Ingress
      BY <1>t
    <3> QED
      BY <3>1, <3>2 DEF Ingress
  <2>2. w' = Idle /\ cache' = cache
    BY <1>6 DEF ClearFinalizer, Retry
  <2> QED
    BY <1>n, <2>1, <2>2, IdleIsIdle
<1>7. CASE w' = Idle /\ UNCHANGED <<ing, cache, lag, probe>>
  BY <1>7, <1>n, IdleIsIdle
<1>8. CASE SyncIngress
  BY <1>8, <1>n DEF SyncIngress
<1>9. ASSUME NEW s \in Specs, UpdateSpec(s)
      PROVE  GenerationInv' /\ ing.status.og <= ing'.status.og
  <2>1. ing'.gen = ing.gen + 1 /\ ing'.status = ing.status
    BY <1>9, <1>t DEF UpdateSpec, Ingress
  <2> QED
    BY <1>9, <1>n, <2>1 DEF UpdateSpec
<1>10. CASE DeleteIngress
  <2>1. ing'.gen \in {ing.gen, ing.gen + 1} /\ ing'.status = ing.status
    BY <1>10, <1>t DEF DeleteIngress, Ingress
  <2> QED
    BY <1>10, <1>n, <2>1 DEF DeleteIngress
<1>11. CASE Restart
  BY <1>11, <1>n, IdleIsIdle DEF Restart
<1>12. CASE UNCHANGED <<ing, cache, w>>
  BY <1>12, <1>n
<1> QED
  BY <1>1, <1>2, <1>3, <1>4, <1>5, <1>6, <1>7, <1>8, <1>9, <1>10, <1>11, <1>12, StepKinds
  DEF ProbeCompletes

(* The generations are ordered in the initial states. *)
LEMMA GenerationInit == Init => GenerationInv
<1> SUFFICES ASSUME Init PROVE GenerationInv
  OBVIOUS
<1>1. PICK s \in Specs : ing = [live |-> TRUE, gen |-> 1, spec |-> s, fin |-> FALSE,
                                del |-> FALSE, status |-> NoStatus]
  BY DEF Init
<1>2. ing.gen = 1 /\ cache.gen = 1 /\ ing.status.og = 0
  BY <1>1 DEF Init, NoStatus
<1> QED
  BY <1>2, IdleIsIdle DEF Init, GenerationInv, ObservedGenerationOrder

(* The generations are ordered in every reachable state. *)
LEMMA GenerationInvariant == Spec => []GenerationInv
<1>1. TypeOK /\ TypeOK' /\ GenerationInv /\ [Next]_vars => GenerationInv'
  BY GenerationInductive
<1> QED
  BY <1>1, GenerationInit, TypeCorrect, PTL DEF Spec

(* No reconciliation works on a generation older than the observed one.       *)
THEOREM GenerationOrderCorrect == Spec => []ObservedGenerationOrder
<1>1. GenerationInv => ObservedGenerationOrder
  BY DEF GenerationInv
<1> QED
  BY <1>1, GenerationInvariant, PTL

(* The observed generation in the API server never goes back.                 *)
THEOREM GenerationMonotoneCorrect == Spec => ObservedGenerationMonotone
<1>1. TypeOK /\ TypeOK' /\ GenerationInv /\ [Next]_vars => [ing.status.og <= ing'.status.og]_vars
  BY GenerationInductive
<1> QED
  BY <1>1, GenerationInvariant, TypeCorrect, PTL DEF Spec, ObservedGenerationMonotone

-----------------------------------------------------------------------------
(***************************************************************************)
(* Ready.                                                                  *)
(***************************************************************************)

(* After reconcileVirtualServices returned without an error. *)
AppliedSteps == {"probe", "cleanGateway", "cleanCerts"}

(* A status that says Ready names a generation that was applied, in the API   *)
(* server, in the cache and in the hands of the worker.  Inside ReconcileKind *)
(* the generation meant is the one being reconciled, not the one last         *)
(* observed: PreProcessReconcile has reset Ready if the two differ.           *)
ReadyInv ==
  /\ ReadyImpliesApplied
  /\ cache.status.ready = "True" => cache.status.og \in applied
  /\ w.pc \in {"finalizer", "status"} /\ w.st.ready = "True" => w.st.og \in applied
  /\ w.pc \in KindSteps /\ w.st.ready = "True" => w.obj.gen \in applied
  /\ w.pc \in AppliedSteps => w.obj.gen \in applied

(* PreProcessReconcile never makes an Ingress Ready, and keeps Ready only for *)
(* a generation that was observed.                                            *)
LEMMA PreProcessReady ==
  ASSUME NEW st \in Status, NEW gen \in Nat, PreProcessReconcile(st, gen).ready = "True"
  PROVE  st.ready = "True" /\ st.og = gen
<1> DEFINE init == InitializeConditions(st)
<1>1. init.og = st.og /\ (init.ready = "True" => st.ready = "True")
  BY DEF InitializeConditions, Status
<1>2. init \in Status
  BY MarksKeepType DEF LoadBalancers
<1>3. PreProcessReconcile(st, gen) = IF init.og # gen THEN happyAfterUnknown(init) ELSE init
  BY DEF PreProcessReconcile
<1> HIDE DEF init
<1>4. happyAfterUnknown(init).ready # "True"
  BY <1>2 DEF happyAfterUnknown, Status
<1> QED
  BY <1>1, <1>3, <1>4

(* Inside ReconcileKind the status is not touched until the end, and only the *)
(* end of reconcileIngress and of reconcileMeshOnlyIngress can set Ready.     *)
LEMMA KindStepStatus ==
  ASSUME TypeOK, KindStep
  PROVE  /\ w'.pc \in KindSteps => w'.st = w.st
         /\ w'.pc = "status" /\ w'.st.ready = "True" => w.pc \in AppliedSteps
         /\ w'.pc \in AppliedSteps => w.pc \in AppliedSteps \/ w.obj.gen \in applied'
         /\ applied \subseteq applied'
<1> USE DEF KindSteps, AppliedSteps
<1>w. w \in Worker /\ w.st \in Status
  BY WorkerParts DEF TypeOK
<1>n. /\ FirstVirtualServiceStep \in KindSteps \ AppliedSteps
      /\ \A k \in VSKinds : AfterVirtualService(k) \in KindSteps \ AppliedSteps
  BY DEF FirstVirtualServiceStep, AfterVirtualService
<1>1. CASE ReconcileCertSecrets
  BY <1>1, <1>w, ProceedMoves, FailMoves DEF ReconcileCertSecrets
<1>2. CASE ReconcileIngressGateways
  BY <1>2, <1>w, <1>n, ProceedMoves, FailMoves DEF ReconcileIngressGateways
<1>3. ASSUME NEW k \in VSKinds, ReconcileVirtualService(k)
      PROVE  /\ w'.pc \in KindSteps => w'.st = w.st
             /\ w'.pc = "status" => w'.st.ready # "True"
             /\ w'.pc \notin AppliedSteps
             /\ applied' = applied
  <2>1. MarkResourceNotOwned(w.st) \in Status
    BY <1>w, MarksKeepType DEF LoadBalancers
  <2> QED
    BY <1>3, <2>1, <1>w, <1>n, ProceedMoves, FailMoves DEF ReconcileVirtualService, VSKinds
<1>4. ASSUME NEW k \in VSKinds, DropExtraVirtualService(k)
      PROVE  /\ w'.pc \in KindSteps => w'.st = w.st
             /\ w'.pc = "status" => w'.st.ready # "True"
             /\ w'.pc \in AppliedSteps => w.obj.gen \in applied'
             /\ applied \subseteq applied'
  BY <1>4, <1>w, ProceedMoves, FailMoves DEF DropExtraVirtualService
<1>5. CASE CheckReady
  BY <1>5, CheckReadyMoves DEF CheckReady
<1>6. CASE CleanupIngressGateways
  BY <1>6, <1>w, ProceedMoves DEF CleanupIngressGateways
<1>7. CASE CleanupTLSSecrets
  <2>1. MarkLoadBalancerReady(MarkNetworkConfigured(w.st), "mesh") \in Status
    BY <1>w, MarksKeepType DEF LoadBalancers
  <2> QED
    BY <1>7, <2>1, <1>w, FinishMoves DEF CleanupTLSSecrets
<1>8. CASE CallFails /\ w.pc \in KindSteps
  BY <1>8, <1>w, FailMoves DEF CallFails
<1> QED
  BY <1>1, <1>2, <1>3, <1>4, <1>5, <1>6, <1>7, <1>8 DEF KindStep

(* Outside ReconcileKind no generation becomes applied, and none is forgotten. *)
LEMMA AppliedGrows ==
  ASSUME TypeOK, [Next]_vars
  PROVE  applied \subseteq applied'
<1>1. CASE KindStep
  BY <1>1, KindStepStatus
<1>2. CASE UNCHANGED vars
  BY <1>2 DEF vars
<1>3. CASE CallFails
  BY <1>3 DEF CallFails
<1>4. CASE WorkerStep /\ ~KindStep
  BY <1>4 DEF WorkerStep, KindStep, StartReconcile, SetFinalizer, WriteStatus, FinalizeKind, ClearFinalizer
<1>5. CASE SyncIngress \/ ProbeCompletes \/ \E k \in Kinds : SyncObject(k)
  BY <1>5 DEF SyncIngress, ProbeCompletes, SyncObject
<1>6. CASE Environment
  BY <1>6 DEF Environment, UpdateSpec, DeleteIngress, FlipConfig, PeriodicResync, RotateCertificate,
              Restart, Tamper, ForeignVirtualService, CollectGarbage
<1> QED
  BY <1>1, <1>2, <1>3, <1>4, <1>5, <1>6 DEF Next

(* Every step keeps the invariant about a Ready status. *)
LEMMA ReadyInductive ==
  ASSUME TypeOK, TypeOK', GenerationInv, ReadyInv, [Next]_vars
  PROVE  ReadyInv'
<1> USE DEF ReadyInv, ReadyImpliesApplied
<1>a. applied \subseteq applied'
  BY AppliedGrows
<1>t. w \in Worker /\ w' \in Worker /\ ing \in Ingress /\ cache \in Ingress
  BY DEF TypeOK
<1>k. "finalizer" \notin KindSteps /\ "status" \notin KindSteps /\ AppliedSteps \subseteq KindSteps
      /\ {"idle", "finalize", "clearFinalizer"} \cap KindSteps = {}
  BY DEF KindSteps, AppliedSteps
<1>i. ASSUME w' = Idle, ing'.status = ing.status, cache'.status = cache.status
      PROVE  ReadyInv'
  BY <1>i, <1>a, <1>k, IdleIsIdle
<1>1. CASE KindStep
  <2>1. w.pc \in KindSteps /\ w'.pc \in HeldSteps /\ w'.obj = w.obj /\ UNCHANGED <<ing, cache>>
    BY <1>1, KindStepMoves
  <2>2. CASE w'.pc = "status"
    BY <1>1, <1>a, <1>k, <2>1, <2>2, KindStepMoves, KindStepStatus
  <2>3. CASE w'.pc \in KindSteps
    BY <1>1, <1>a, <1>k, <2>1, <2>3, KindStepStatus
  <2> QED
    BY <2>1, <2>2, <2>3 DEF HeldSteps
<1>2. CASE StartReconcile
  <2>1. CASE cache.live
    <3>1. w'.pc \in {"finalize", "finalizer"} /\ w'.st = cache.status
      BY <1>2, <2>1 DEF StartReconcile
    <3> QED
      BY <1>2, <1>a, <1>k, <3>1 DEF StartReconcile
  <2>2. CASE ~cache.live
    BY <1>2, <2>2, <1>i DEF StartReconcile
  <2> QED
    BY <2>1, <2>2
<1>3. CASE SetFinalizer
  <2>0. ing'.status = ing.status /\ cache' = cache
    BY <1>3, <1>t DEF SetFinalizer, Ingress
  <2>1. CASE w.obj.fin \/ w.obj = ing
    <3>1. /\ w'.pc \in KindSteps \ AppliedSteps /\ w'.obj = w.obj
          /\ w'.st = PreProcessReconcile(w.st, w.obj.gen)
      BY <1>3, <1>t, <2>1, ProceedMoves
      DEF SetFinalizer, FirstStep, FirstVirtualServiceStep, KindSteps, AppliedSteps
    <3>2. w.st \in Status /\ w.obj.gen \in Nat /\ w.pc = "finalizer"
      BY <1>3, WorkerParts DEF SetFinalizer
    <3> QED
      BY <1>a, <1>k, <2>0, <3>1, <3>2, PreProcessReady
  <2>2. CASE ~(w.obj.fin \/ w.obj = ing)
    BY <1>3, <1>i, <2>0, <2>2 DEF SetFinalizer, Retry
  <2> QED
    BY <2>1, <2>2
<1>4. CASE WriteStatus
  <2>1. ing'.status \in {ing.status, w.st}
    BY <1>4, <1>t DEF WriteStatus, Ingress
  <2>2. w.pc = "status" /\ w' = Idle /\ cache' = cache
    BY <1>4 DEF WriteStatus
  <2> QED
    BY <1>a, <1>k, <2>1, <2>2, IdleIsIdle
<1>5. CASE FinalizeKind
  <2>1. w' = Idle \/ w'.pc = "clearFinalizer"
    BY <1>5, <1>t, ProceedMoves DEF FinalizeKind, Retry
  <2> QED
    BY <1>5, <1>a, <1>k, <2>1, IdleIsIdle DEF FinalizeKind
<1>6. CASE ClearFinalizer
  <2>1. ing'.status = ing.status
    BY <1>6, <1>t DEF ClearFinalizer, Ingress
  <2> QED
    BY <1>6, <1>i, <2>1 DEF ClearFinalizer, Retry
<1>7. CASE w' = Idle /\ UNCHANGED <<ing, cache, lag, probe>>
  BY <1>7, <1>i
<1>8. CASE SyncIngress
  BY <1>8, <1>a DEF SyncIngress
<1>9. ASSUME NEW s \in Specs, UpdateSpec(s)
      PROVE  ReadyInv'
  <2>1. ing'.status = ing.status
    BY <1>9, <1>t DEF UpdateSpec, Ingress
  <2> QED
    BY <1>9, <1>a, <2>1 DEF UpdateSpec
<1>10. CASE DeleteIngress
  <2>1. ing'.status = ing.status
    BY <1>10, <1>t DEF DeleteIngress, Ingress
  <2> QED
    BY <1>10, <1>a, <2>1 DEF DeleteIngress
<1>11. CASE Restart
  BY <1>11, <1>a, <1>k, IdleIsIdle DEF Restart
<1>12. CASE UNCHANGED <<ing, cache, w>>
  BY <1>12, <1>a
<1> QED
  BY <1>1, <1>2, <1>3, <1>4, <1>5, <1>6, <1>7, <1>8, <1>9, <1>10, <1>11, <1>12, StepKinds
  DEF ProbeCompletes

(* No Ingress is Ready in the initial states. *)
LEMMA ReadyInit == Init => ReadyInv
<1> SUFFICES ASSUME Init PROVE ReadyInv
  OBVIOUS
<1>1. PICK s \in Specs : ing = [live |-> TRUE, gen |-> 1, spec |-> s, fin |-> FALSE,
                                del |-> FALSE, status |-> NoStatus]
  BY DEF Init
<1>2. ing.status.ready # "True" /\ cache.status.ready # "True"
  BY <1>1 DEF Init, NoStatus
<1> QED
  BY <1>2, IdleIsIdle DEF Init, ReadyInv, ReadyImpliesApplied, KindSteps, AppliedSteps

(* An Ingress reported Ready had the VirtualServices of the observed          *)
(* generation reconciled, whatever failed, crashed or raced before.           *)
THEOREM ReadyCorrect == Spec => []ReadyImpliesApplied
<1>1. ReadyInv => ReadyImpliesApplied
  BY DEF ReadyInv
<1> QED
  BY <1>1, ReadyInit, ReadyInductive, GenerationInvariant, TypeCorrect, PTL DEF Spec

-----------------------------------------------------------------------------
(***************************************************************************)
(* Objects of somebody else.                                               *)
(***************************************************************************)

(* An object without undelivered events is in the lister as it is in the API  *)
(* server: what an Update with a resourceVersion relies on.                   *)
ListerCurrent == \A k \in Kinds \ lag : lister[k] = objs[k]

(* What a step does to the objects: nothing, a write of one of them that      *)
(* turns nothing of somebody else's into ours, or the delivery of an event.   *)
SafeWrite ==
  \E v : \E k \in Kinds :
    /\ Write(k, v)
    /\ k \in VSKinds /\ objs[k] = Foreign => ~Ours(v)
ObjectStep ==
  \/ UNCHANGED <<objs, lister, wake>> /\ lag' \ {"ingress"} = lag \ {"ingress"}
  \/ SafeWrite /\ UNCHANGED lister
  \/ \E k \in VSKinds : ForeignVirtualService(k)
  \/ \E k \in Kinds : SyncObject(k)
  \/ Restart

(* Deleting an object replaces nobody else's. *)
LEMMA AbsentSafe ==
  ASSUME NEW k \in Kinds, Write(k, Absent)
  PROVE  SafeWrite
  BY DEF SafeWrite, Ours

(* Create finds the name free, Update the lister's copy current, so the       *)
(* ownership check made on that copy holds of the object that is replaced.    *)
LEMMA ReconciledSafe ==
  ASSUME ListerCurrent, NEW k \in Kinds, NEW v, Reconciled(k, v) \/ Conflicts(k, v),
         k \in VSKinds => lister[k] # Foreign
  PROVE  SafeWrite \/ ApiUnchanged
<1>1. CASE ApiUnchanged
  BY <1>1
<1>2. CASE AcceptsWrite(k) /\ Write(k, v)
  <2>1. k \in VSKinds => objs[k] # Foreign
    BY <1>2 DEF AcceptsWrite, ListerCurrent
  <2> QED
    BY <1>2, <2>1 DEF SafeWrite
<1> QED
  BY <1>1, <1>2 DEF Reconciled, Conflicts

(* Every step of the system does to the objects only what an object step may do. *)
LEMMA StepIsObjectStep ==
  ASSUME TypeOK, ListerCurrent, [Next]_vars
  PROVE  ObjectStep
<1> USE DEF Kinds, OwnedKinds, SecretKinds, VSKinds
<1>0. ASSUME ApiUnchanged, UNCHANGED lister PROVE ObjectStep
  BY <1>0 DEF ObjectStep, ApiUnchanged
<1>1. CASE UNCHANGED vars
  BY <1>0, <1>1 DEF vars, ApiUnchanged
<1>2. CASE StartReconcile \/ CheckReady \/ CallFails \/ FlipConfig \/ PeriodicResync \/ ProbeCompletes
  BY <1>0, <1>2 DEF StartReconcile, CheckReady, CallFails, FlipConfig, PeriodicResync, ProbeCompletes
<1>3. CASE SetFinalizer \/ WriteStatus \/ ClearFinalizer \/ SyncIngress \/ DeleteIngress
           \/ \E s \in Specs : UpdateSpec(s)
  BY <1>3 DEF SetFinalizer, WriteStatus, ClearFinalizer, SyncIngress, DeleteIngress, UpdateSpec, ObjectStep
<1>4. CASE ReconcileCertSecrets
  <2>1. SafeWrite \/ ApiUnchanged
    BY <1>4, ReconciledSafe DEF ReconcileCertSecrets
  <2> QED
    BY <1>0, <1>4, <2>1 DEF ReconcileCertSecrets, ObjectStep
<1>5. CASE ReconcileIngressGateways
  <2>1. SafeWrite \/ ApiUnchanged
    BY <1>5, ReconciledSafe DEF ReconcileIngressGateways
  <2> QED
    BY <1>0, <1>5, <2>1 DEF ReconcileIngressGateways, ObjectStep
<1>6. ASSUME NEW k \in VSKinds, ReconcileVirtualService(k) PROVE ObjectStep
  <2>1. SafeWrite \/ ApiUnchanged
    BY <1>6, ReconciledSafe DEF ReconcileVirtualService
  <2> QED
    BY <1>0, <1>6, <2>1 DEF ReconcileVirtualService, ObjectStep
<1>7. ASSUME NEW k \in VSKinds, DropExtraVirtualService(k) PROVE ObjectStep
  BY <1>0, <1>7, AbsentSafe DEF DropExtraVirtualService, ObjectStep
<1>8. CASE CleanupIngressGateways \/ CleanupTLSSecrets \/ FinalizeKind
  BY <1>0, <1>8, AbsentSafe
  DEF CleanupIngressGateways, CleanupTLSSecrets, FinalizeKind, Cleaned, ObjectStep
<1>9. CASE RotateCertificate
  <2>1. PICK v : Write("origin", v)
    BY <1>9 DEF RotateCertificate
  <2>2. SafeWrite
    BY <2>1 DEF SafeWrite
  <2> QED
    BY <1>9, <2>2 DEF RotateCertificate, ObjectStep
<1>10. ASSUME NEW k \in OwnedKinds \cup {"cert"}, Tamper(k) PROVE ObjectStep
  BY <1>10, AbsentSafe DEF Tamper, ObjectStep
<1>11. ASSUME NEW k \in OwnedKinds, CollectGarbage(k) PROVE ObjectStep
  BY <1>11, AbsentSafe DEF CollectGarbage, ObjectStep
<1>12. CASE Restart \/ (\E k \in VSKinds : ForeignVirtualService(k)) \/ (\E k \in Kinds : SyncObject(k))
  BY <1>12 DEF ObjectStep
<1> QED
  BY <1>1, <1>2, <1>3, <1>4, <1>5, <1>6, <1>7, <1>8, <1>9, <1>10, <1>11, <1>12
  DEF Next, WorkerStep, Environment

(* An object step keeps the lister current and no foreign object becomes ours. *)
LEMMA ListerInductive ==
  ASSUME TypeOK, ListerCurrent, ObjectStep
  PROVE  /\ ListerCurrent'
         /\ \A k \in VSKinds : objs[k] = Foreign => ~Ours(objs'[k])
<1> USE DEF ListerCurrent
<1>o. /\ DOMAIN objs = Kinds /\ DOMAIN lister = Kinds
      /\ \A v : \A k \in Kinds : /\ [objs EXCEPT ![k] = v][k] = v
                                 /\ [lister EXCEPT ![k] = v][k] = v
                                 /\ \A j \in Kinds \ {k} : /\ [objs EXCEPT ![k] = v][j] = objs[j]
                                                           /\ [lister EXCEPT ![k] = v][j] = lister[j]
  BY DEF TypeOK, Objects
<1>v. VSKinds \subseteq Kinds /\ ~Ours(Foreign) /\ ~Ours(Absent) /\ "ingress" \notin Kinds
  BY DEF Ours, Kinds, OwnedKinds, SecretKinds, VSKinds
<1>1. CASE UNCHANGED <<objs, lister, wake>> /\ lag' \ {"ingress"} = lag \ {"ingress"}
  BY <1>1, <1>v
<1>2. ASSUME NEW k \in Kinds, NEW v, Write(k, v), UNCHANGED lister,
             k \in VSKinds /\ objs[k] = Foreign => ~Ours(v)
      PROVE  /\ ListerCurrent'
             /\ \A j \in VSKinds : objs[j] = Foreign => ~Ours(objs'[j])
  BY <1>2, <1>o, <1>v DEF Write
<1>3. ASSUME NEW k \in VSKinds, ForeignVirtualService(k)
      PROVE  /\ ListerCurrent'
             /\ \A j \in VSKinds : objs[j] = Foreign => ~Ours(objs'[j])
  BY <1>3, <1>o, <1>v DEF ForeignVirtualService
<1>4. ASSUME NEW k \in Kinds, SyncObject(k)
      PROVE  /\ ListerCurrent'
             /\ \A j \in VSKinds : objs[j] = Foreign => ~Ours(objs'[j])
  BY <1>4, <1>o, <1>v DEF SyncObject
<1>5. CASE Restart
  BY <1>5, <1>v DEF Restart
<1> QED
  BY <1>1, <1>2, <1>3, <1>4, <1>5 DEF ObjectStep, SafeWrite

(* reconcileVirtualServices never takes over a VirtualService of somebody     *)
(* else, although it looks at a lister that may be stale.                     *)
THEOREM ForeignCorrect == Spec => ForeignNeverOverwritten
<1>1. Init => ListerCurrent
  BY DEF Init, ListerCurrent
<1>2. /\ TypeOK /\ ListerCurrent /\ [Next]_vars => ListerCurrent'
      /\ TypeOK /\ ListerCurrent /\ [Next]_vars
           => [\A k \in VSKinds : objs[k] = Foreign => ~Ours(objs'[k])]_vars
  BY StepIsObjectStep, ListerInductive
<1> QED
  BY <1>1, <1>2, TypeCorrect, PTL DEF Spec, ForeignNeverOverwritten

=============================================================================

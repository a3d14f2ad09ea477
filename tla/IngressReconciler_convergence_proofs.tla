---------------- MODULE IngressReconciler_convergence_proofs ----------------
(***************************************************************************)
(* What the reconciler promises at rest: no event is lost, so a controller *)
(* with nothing to do has converged; and, where nothing fails, Ready is    *)
(* never reported without a probe.                                         *)
(*                                                                         *)
(* At rest there is nothing to argue from but the state, so the invariant  *)
(* speaks of the time before: whatever is not as the Ingress and the       *)
(* configuration want it is waited for by the queue, by an event that will *)
(* enqueue the Ingress, or by the worker, who has yet to come to it or has *)
(* failed and will put the key back.                                       *)
(***************************************************************************)
EXTENDS IngressReconciler_safety_proofs

(* A VirtualService is the one the Ingress and the configuration ask for. *)
Converged(k) ==
  IF Desired(k, ing.spec, mode) = Absent
  THEN objs[k] \in {Absent, Foreign}
  ELSE objs[k] = Desired(k, ing.spec, mode)

(* Neither the queue nor an event of the Ingress itself will start a pass.    *)
Settled == ~queued /\ "ingress" \notin lag /\ ing.live /\ ~ing.del

(* The pass under way failed: WriteStatus puts the key back. *)
Failing == w.pc = "status" /\ w.err

(* The steps from which a pass still comes to a VirtualService. *)
Upcoming(k) ==
  {"finalizer", "certs", "gateway", "meshVS"}
    \cup (IF k = "ingressVS" THEN {"ingressVS", "dropIngressVS"}
          ELSE IF Desired("meshVS", ing.spec, mode) = Absent
          THEN {"ingressVS", "dropIngressVS", "dropMeshVS"} ELSE {})

(* An event about a VirtualService that is ours, or that the lister knows as  *)
(* ours, enqueues the Ingress.                                                *)
EventsKept ==
  /\ wake \subseteq lag
  /\ \A k \in VSKinds \cap lag : Ours(objs[k]) \/ Ours(lister[k]) => k \in wake

(* The configuration of a pass decides which way it goes. *)
PathInv ==
  /\ w.pc \in {"dropIngressVS", "cleanGateway", "cleanCerts"} => w.cfg = "mesh"
  /\ w.pc = "probe" => w.cfg = "gateway"

(* A pass that nothing will follow works on the present Ingress in the present *)
(* configuration.                                                              *)
CacheCurrent == "ingress" \notin lag => cache = ing
CopyCurrent == Settled /\ w.pc # "idle" => w.obj = ing /\ w.cfg = mode

(* A VirtualService is converged, or somebody will see to it. *)
Attended(k) == Converged(k) \/ k \in wake \/ w.pc \in Upcoming(k) \/ Failing
VirtualServicesAttended == Settled => \A k \in VSKinds : Attended(k)

(* So is the copy of the certificate, by way of the tracker. *)
NeedsCertificate == mode = "gateway" /\ ing.spec \in TLSSpecs
CertificateWatched == tracked /\ (objs["cert"] = objs["origin"] \/ {"cert", "origin"} \cap lag # {})
CertificateAttended ==
  Settled /\ NeedsCertificate => w.pc \in {"finalizer", "certs"} \/ Failing \/ CertificateWatched

(* A status says that the Ingress is ready, or a probe will call back. *)
Says(st) ==
  /\ st.og = ing.gen
  /\ \/ st.ready = "True" /\ st.lbs = mode
     \/ mode = "gateway" /\ probe = [spec |-> ing.spec, done |-> FALSE]
StatusAttended ==
  Settled => /\ w.pc = "idle" => Says(ing.status)
             /\ w.pc = "status" /\ ~w.err => Says(w.st)

(* What is true while the controller is settled. *)
SettledInv == CopyCurrent /\ VirtualServicesAttended /\ CertificateAttended /\ StatusAttended

(* The invariants that this one builds on. *)
Basics == TypeOK /\ FinalizerInv /\ ListerCurrent

(* The inductive invariant. *)
ConvergenceInv == EventsKept /\ PathInv /\ CacheCurrent /\ SettledInv

-----------------------------------------------------------------------------
(***************************************************************************)
(* Objects and their events.                                               *)
(***************************************************************************)

(* What one change makes of the objects. *)
LEMMA ObjectFacts ==
  ASSUME Objects(objs), NEW k \in Kinds, NEW v, objs' = [objs EXCEPT ![k] = v]
  PROVE  objs'[k] = v /\ \A j \in Kinds \ {k} : objs'[j] = objs[j]
  BY DEF Objects

(* The kinds apart. *)
LEMMA KindNames ==
  /\ VSKinds \subseteq Kinds /\ "ingress" \notin Kinds /\ SecretKinds \cap VSKinds = {}
  /\ {"gateway", "cert", "origin"} \cap VSKinds = {} /\ {"gateway", "cert", "origin"} \subseteq Kinds
  BY DEF Kinds, OwnedKinds, VSKinds, SecretKinds

(* Every step keeps what is said about events. *)
LEMMA EventsInductive ==
  ASSUME Basics, EventsKept, [Next]_vars
  PROVE  EventsKept'
<1> USE KindNames DEF EventsKept
<1>0. TypeOK /\ ListerCurrent /\ wake \subseteq VSKinds /\ ObjectStep
  BY StepIsObjectStep DEF Basics, TypeOK
<1>1. CASE UNCHANGED <<objs, lister, wake>> /\ lag' \ {"ingress"} = lag \ {"ingress"}
  BY <1>0, <1>1
<1>2. ASSUME NEW k \in Kinds, NEW v, Write(k, v), UNCHANGED lister
      PROVE  EventsKept'
  <2>1. \A j \in Kinds \ {k} : objs'[j] = objs[j]
    BY <1>0, <1>2, ObjectFacts DEF Write, TypeOK
  <2> QED
    BY <1>0, <1>2, <2>1 DEF Write
<1>3. ASSUME NEW k \in VSKinds, ForeignVirtualService(k)
      PROVE  EventsKept'
  <2>1. PICK v \in {Absent, Foreign} : objs' = [objs EXCEPT ![k] = v]
    BY <1>3 DEF ForeignVirtualService
  <2>2. objs'[k] = v /\ \A j \in Kinds \ {k} : objs'[j] = objs[j]
    BY <1>0, <2>1, ObjectFacts DEF TypeOK
  <2>3. ~Ours(objs'[k]) /\ ~Ours(objs[k])
    BY <1>3, <2>2 DEF ForeignVirtualService, Ours
  <2>4. Ours(lister[k]) => k \in wake
    BY <1>0, <2>3 DEF ListerCurrent
  <2> QED
    BY <1>3, <2>2, <2>3, <2>4 DEF ForeignVirtualService
<1>4. ASSUME NEW k \in Kinds, SyncObject(k)
      PROVE  EventsKept'
  <2>1. \A j \in Kinds \ {k} : lister'[j] = lister[j]
    BY <1>0, <1>4 DEF SyncObject, TypeOK, Objects
  <2> QED
    BY <1>0, <1>4, <2>1 DEF SyncObject
<1>5. CASE Restart
  BY <1>5 DEF Restart
<1> QED
  BY <1>0, <1>1, <1>2, <1>3, <1>4, <1>5 DEF ObjectStep, SafeWrite

-----------------------------------------------------------------------------
(***************************************************************************)
(* The worker.                                                             *)
(***************************************************************************)

(* The end of a pass keeps the copy and the configuration. *)
LEMMA FinishKeeps ==
  ASSUME w \in Worker, NEW st, NEW err, Finish(st, err)
  PROVE  /\ w'.pc = "status" /\ w'.err = err /\ w'.obj = w.obj /\ w'.cfg = w.cfg
         /\ w'.st = PostProcessReconcile(st, w.obj.gen)
  BY DEF Finish, Worker

(* A failed pass will put the key back. *)
LEMMA FailKeeps ==
  ASSUME w \in Worker, NEW st, FailWith(st) \/ FailVirtualServices(st)
  PROVE  Failing' /\ w'.obj = w.obj /\ w'.cfg = w.cfg
  BY FinishKeeps DEF FailWith, FailVirtualServices, Failing

(* The end of reconcileIngress is either. *)
LEMMA CheckReadyKeeps ==
  ASSUME TypeOK, CheckReady
  PROVE  w'.pc = "status" /\ w'.obj = w.obj /\ w'.cfg = w.cfg
<1> DEFINE st == MarkNetworkConfigured(w.st)
<1>1. w \in Worker /\ (ReportReady(st, TRUE) \/ ProberIsReady(st))
  BY DEF CheckReady, TypeOK
<1> HIDE DEF st
<1>2. (\E b : ReportReady(st, b)) \/ FailWith(st)
  BY <1>1 DEF ProberIsReady
<1> QED
  BY <1>1, <1>2, FinishKeeps, FailKeeps DEF ReportReady, Failing

(* The first step at the VirtualServices is the mesh one if it is desired, and *)
(* deletes that of the gateways in mesh-only mode alone.                       *)
LEMMA FirstSteps ==
  ASSUME TypeOK
  PROVE  /\ FirstVirtualServiceStep \in {"meshVS", "ingressVS", "dropIngressVS"}
         /\ FirstVirtualServiceStep = "dropIngressVS" => w.cfg = "mesh"
         /\ WorkerDesires("meshVS") # Absent => FirstVirtualServiceStep = "meshVS"
         /\ FirstStep \in {"certs", "gateway", FirstVirtualServiceStep}
         /\ w.cfg = "gateway" /\ w.obj.spec \in TLSSpecs => FirstStep = "certs"
<1>1. WorkerDesires("ingressVS") = Absent => w.cfg = "mesh"
  BY ContentAssumption, WorkerParts DEF WorkerDesires, Desired, Content, Modes
<1> QED
  BY <1>1 DEF FirstVirtualServiceStep, FirstStep

(* A step of ReconcileKind moves the worker, on the path its configuration *)
(* prescribes, and leaves alone what the pass works on.                    *)
LEMMA KindStepPath ==
  ASSUME TypeOK, PathInv, KindStep
  PROVE  PathInv' /\ w'.cfg = w.cfg /\ UNCHANGED mode
<1>w. w \in Worker /\ w.cfg \in Modes
  BY WorkerParts DEF TypeOK
<1> USE DEF PathInv, Failing
<1>1. CASE ReconcileCertSecrets
  BY <1>1, <1>w, ProceedMoves, FailKeeps DEF ReconcileCertSecrets
<1>2. CASE ReconcileIngressGateways
  <2> QED
    BY <1>2, <1>w, FirstSteps, ProceedMoves, FailKeeps DEF ReconcileIngressGateways
<1>3. ASSUME NEW k \in VSKinds, ReconcileVirtualService(k)
      PROVE  PathInv' /\ w'.cfg = w.cfg /\ UNCHANGED mode
  <2>1. AfterVirtualService(k) \in {"dropMeshVS", "ingressVS"} \/ (AfterVirtualService(k) = "dropIngressVS" /\ w.cfg = "mesh")
    BY <1>w DEF AfterVirtualService, Modes
  <2> QED
    BY <1>3, <1>w, <2>1, ProceedMoves, FailKeeps DEF ReconcileVirtualService
<1>4. ASSUME NEW k \in VSKinds, DropExtraVirtualService(k)
      PROVE  PathInv' /\ w'.cfg = w.cfg /\ UNCHANGED mode
  BY <1>4, <1>w, ProceedMoves, FailKeeps DEF DropExtraVirtualService, Modes
<1>5. CASE CheckReady
  BY <1>5, CheckReadyKeeps DEF CheckReady
<1>6. CASE CleanupIngressGateways
  BY <1>6, <1>w, ProceedMoves DEF CleanupIngressGateways
<1>7. CASE CleanupTLSSecrets
  BY <1>7, <1>w, FinishKeeps DEF CleanupTLSSecrets
<1>8. CASE CallFails /\ w.pc \in KindSteps
  BY <1>8, <1>w, FailKeeps DEF CallFails, KindSteps
<1> QED
  BY <1>1, <1>2, <1>3, <1>4, <1>5, <1>6, <1>7, <1>8 DEF KindStep

(* Every step keeps the worker on its path. *)
LEMMA PathInductive ==
  ASSUME TypeOK, PathInv, [Next]_vars
  PROVE  PathInv'
<1> USE DEF PathInv
<1>w. w \in Worker
  BY DEF TypeOK
<1>i. ASSUME w' = Idle PROVE PathInv'
  BY <1>i, IdleIsIdle
<1>1. CASE KindStep
  BY <1>1, KindStepPath
<1>2. CASE StartReconcile
  <2>1. w' = Idle \/ w'.pc \in {"finalize", "finalizer"}
    BY <1>2 DEF StartReconcile
  <2> QED
    BY <1>i, <2>1
<1>3. CASE SetFinalizer
  <2>1. w' = Idle \/ (w'.pc = FirstStep /\ w'.cfg = w.cfg)
    BY <1>3, <1>w, ProceedMoves DEF SetFinalizer, Retry
  <2> QED
    BY <1>i, <2>1, FirstSteps
<1>4. CASE FinalizeKind
  <2>1. w' = Idle \/ w'.pc = "clearFinalizer"
    BY <1>4, <1>w, ProceedMoves DEF FinalizeKind, Retry
  <2> QED
    BY <1>i, <2>1
<1>5. CASE WriteStatus \/ ClearFinalizer \/ Restart
  BY <1>5, <1>i DEF WriteStatus, ClearFinalizer, Retry, Restart
<1>6. CASE w' = Idle
  BY <1>i, <1>6
<1>7. CASE w' = w
  BY <1>7
<1> QED
  BY <1>1, <1>2, <1>3, <1>4, <1>5, <1>6, <1>7, StepKinds
  DEF ProbeCompletes, SyncIngress, UpdateSpec, DeleteIngress

(* Whatever changes the Ingress leaves an event. *)
LEMMA CacheInductive ==
  ASSUME TypeOK, CacheCurrent, [Next]_vars
  PROVE  CacheCurrent'
<1> USE DEF CacheCurrent
<1>1. CASE KindStep
  <2>1. UNCHANGED <<ing, cache>> /\ lag \subseteq lag'
    BY <1>1, KindStepMoves DEF KindStep, ReconcileCertSecrets, ReconcileIngressGateways,
         ReconcileVirtualService, DropExtraVirtualService, CheckReady, CleanupIngressGateways,
         CleanupTLSSecrets, CallFails, Cleaned, Reconciled, Conflicts, ApiUnchanged, Write
  <2> QED
    BY <2>1
<1>2. CASE StartReconcile \/ ProbeCompletes
  BY <1>2 DEF StartReconcile, ProbeCompletes, ApiUnchanged
<1>3. CASE SetFinalizer \/ WriteStatus \/ ClearFinalizer
  BY <1>3 DEF SetFinalizer, WriteStatus, ClearFinalizer
<1>4. CASE FinalizeKind
  BY <1>4 DEF FinalizeKind, ApiUnchanged, Write
<1>5. CASE SyncIngress \/ Restart \/ DeleteIngress \/ \E s \in Specs : UpdateSpec(s)
  BY <1>5 DEF SyncIngress, Restart, DeleteIngress, UpdateSpec
<1>6. CASE UNCHANGED <<ing, cache, lag>>
  BY <1>6
<1>7. CASE UNCHANGED <<ing, cache>> /\ ("ingress" \in lag <=> "ingress" \in lag')
  BY <1>7
<1> QED
  BY <1>1, <1>2, <1>3, <1>4, <1>5, <1>6, <1>7, StepKinds

-----------------------------------------------------------------------------
(***************************************************************************)
(* The settled controller.                                                 *)
(***************************************************************************)

(* Nothing is said about a controller that will start another pass. *)
LEMMA Unsettled ==
  ASSUME ~Settled'
  PROVE  SettledInv'
  BY DEF SettledInv, CopyCurrent, VirtualServicesAttended, CertificateAttended, StatusAttended

(* A step that does not touch the Ingress settles nothing. *)
LEMMA SettledBefore ==
  ASSUME Settled', UNCHANGED ing, "ingress" \in lag <=> "ingress" \in lag', queued => queued'
  PROVE  Settled
  BY DEF Settled

(* A VirtualService that is left alone stays as it was. *)
LEMMA StaysAttended ==
  ASSUME NEW k \in VSKinds, Converged(k) \/ k \in wake, UNCHANGED <<ing, mode>>,
         objs'[k] = objs[k], wake \subseteq wake'
  PROVE  Attended(k)'
  BY DEF Attended, Converged

(* A certificate that is left alone stays as it was. *)
LEMMA StaysWatched ==
  ASSUME CertificateWatched, UNCHANGED tracked, objs'["cert"] = objs["cert"],
         objs'["origin"] = objs["origin"], lag \subseteq lag'
  PROVE  CertificateWatched'
  BY DEF CertificateWatched

(* A failing pass will be followed by another one. *)
LEMMA FailingAttends ==
  ASSUME Failing', CopyCurrent'
  PROVE  SettledInv'
  BY DEF Failing, SettledInv, VirtualServicesAttended, Attended, CertificateAttended, StatusAttended

(* Creating, updating or deleting leaves the VirtualService as desired or an *)
(* event under way, whatever the lister showed.                              *)
LEMMA ReconciledAttends ==
  ASSUME Basics, EventsKept, NEW k \in VSKinds, lister[k] # Foreign, Reconciled(k, WorkerDesires(k)),
         w.obj.spec = ing.spec, w.cfg = mode, UNCHANGED <<ing, mode>>
  PROVE  Attended(k)'
<1>k. k \in Kinds
  BY KindNames
<1>1. CASE Write(k, WorkerDesires(k))
  BY <1>1 DEF Write, Attended
<1>2. CASE lister[k] = WorkerDesires(k) /\ ApiUnchanged
  <2>1. CASE k \notin lag
    <3>1. objs[k] = Desired(k, ing.spec, mode)
      BY <1>k, <1>2, <2>1 DEF Basics, ListerCurrent, WorkerDesires
    <3> QED
      BY <1>2, <3>1 DEF Attended, Converged, ApiUnchanged
  <2>2. CASE k \in lag /\ Desired(k, ing.spec, mode) = Absent
    <3>1. objs[k] \in {Absent, Foreign} \/ k \in wake
      BY <2>2 DEF EventsKept, Ours
    <3> QED
      BY <1>2, <2>2, <3>1 DEF Attended, Converged, ApiUnchanged
  <2>3. CASE k \in lag /\ Desired(k, ing.spec, mode) # Absent
    <3>1. k \in wake
      BY <1>2, <2>3 DEF EventsKept, Ours, WorkerDesires
    <3> QED
      BY <1>2, <3>1 DEF Attended, ApiUnchanged
  <2> QED
    BY <2>1, <2>2, <2>3
<1> QED
  BY <1>1, <1>2 DEF Reconciled

(* So does the deletion of one that is not desired. *)
LEMMA DropAttends ==
  ASSUME Basics, EventsKept, NEW k \in VSKinds, Desired(k, ing.spec, mode) = Absent,
         w.obj.spec = ing.spec, w.cfg = mode, UNCHANGED <<ing, mode>>,
         IF Extra(k) THEN Write(k, Absent) ELSE ApiUnchanged
  PROVE  Attended(k)'
<1>k. k \in Kinds
  BY KindNames
<1>1. CASE Extra(k)
  BY <1>1 DEF Write, Attended
<1>2. CASE ~Extra(k)
  <2>1. ~Ours(lister[k]) /\ ApiUnchanged
    BY <1>2 DEF Extra, WorkerDesires
  <2>2. objs[k] \in {Absent, Foreign} \/ k \in wake
    BY <1>k, <2>1 DEF Basics, ListerCurrent, EventsKept, Ours
  <2> QED
    BY <2>1, <2>2 DEF Attended, Converged, ApiUnchanged
<1> QED
  BY <1>1, <1>2

(***************************************************************************)
(* The steps of ReconcileKind.  Each of them works on the present Ingress  *)
(* (CopyCurrent), so what it does is what the present Ingress wants.       *)
(***************************************************************************)

(* What is common to them. *)
LEMMA KindStepFrame ==
  ASSUME Basics, ConvergenceInv, KindStep
  PROVE  /\ CopyCurrent' /\ UNCHANGED <<ing, mode>> /\ wake \subseteq wake' /\ lag \subseteq lag'
         /\ w \in Worker /\ w.cfg \in Modes
         /\ Settled' => Settled /\ w.obj = ing /\ w.cfg = mode /\ ~Failing
<1>1. /\ UNCHANGED <<ing, cache, mode>> /\ w.pc \in KindSteps /\ w'.obj = w.obj /\ w'.cfg = w.cfg
      /\ w \in Worker /\ w.cfg \in Modes
  BY KindStepMoves, KindStepPath, WorkerParts DEF Basics, ConvergenceInv, TypeOK
<1> USE KindNames
<1>2. wake \subseteq wake' /\ lag \subseteq lag' /\ ("ingress" \in lag' => "ingress" \in lag)
  <2>1. ApiUnchanged \/ \E k \in Kinds : \E v : Write(k, v)
    BY DEF KindStep, ReconcileCertSecrets, ReconcileIngressGateways, ReconcileVirtualService,
           DropExtraVirtualService, CheckReady, CleanupIngressGateways, CleanupTLSSecrets, CallFails,
           Cleaned, Reconciled, Conflicts
  <2> QED
    BY <2>1 DEF ApiUnchanged, Write
<1>q. queued => queued'
  BY DEF KindStep, ReconcileCertSecrets, ReconcileIngressGateways, ReconcileVirtualService,
         DropExtraVirtualService, CheckReady, ProberIsReady, CleanupIngressGateways,
         CleanupTLSSecrets, CallFails, KindSteps
<1>3. Settled' => Settled
  BY <1>1, <1>2, <1>q, SettledBefore
<1>4. Settled => w.obj = ing /\ w.cfg = mode /\ ~Failing
  BY <1>1 DEF ConvergenceInv, SettledInv, CopyCurrent, KindSteps, Failing
<1> QED
  BY <1>1, <1>2, <1>3, <1>4 DEF CopyCurrent

(* A pass that has come past the certificate leaves it to the tracker. *)
LEMMA CertificateFrame ==
  ASSUME Basics, ConvergenceInv, KindStep, w.pc \notin {"certs", "cleanCerts"}, UNCHANGED tracked,
         objs'["cert"] = objs["cert"], objs'["origin"] = objs["origin"]
  PROVE  CertificateAttended'
<1> SUFFICES ASSUME Settled', NeedsCertificate' PROVE CertificateWatched'
  BY DEF CertificateAttended
<1>1. Settled /\ NeedsCertificate /\ ~Failing /\ lag \subseteq lag'
  BY KindStepFrame DEF NeedsCertificate
<1>2. w.pc # "finalizer"
  BY KindStepMoves DEF Basics, KindSteps
<1> QED
  BY <1>1, <1>2, StaysWatched DEF ConvergenceInv, SettledInv, CertificateAttended

(* GetSecrets and reconcileCertSecrets leave the copy as the origin is, or an *)
(* event of one of the two under way that the tracker will take up.           *)
LEMMA CertsSettled ==
  ASSUME Basics, ConvergenceInv, ReconcileCertSecrets
  PROVE  SettledInv'
<1>f. /\ CopyCurrent' /\ UNCHANGED <<ing, mode>> /\ w \in Worker
  BY KindStepFrame DEF KindStep
<1>1. CASE \E st : FailWith(st)
  BY <1>1, <1>f, FailKeeps, FailingAttends
<1>2. CASE tracked' = TRUE /\ Reconciled("cert", lister["origin"]) /\ Proceed("gateway", w.st)
  <2>1. w'.pc = "gateway"
    BY <1>2, <1>f, ProceedMoves
  <2>2. CertificateWatched'
    <3>1. CASE Write("cert", lister["origin"])
      BY <1>2, <3>1 DEF Write, CertificateWatched
    <3>2. CASE lister["cert"] = lister["origin"] /\ ApiUnchanged
      BY <1>2, <3>2, KindNames DEF ApiUnchanged, CertificateWatched, Basics, ListerCurrent
    <3> QED
      BY <1>2, <3>1, <3>2 DEF Reconciled
  <2>3. \A k \in VSKinds : Attended(k)'
    BY <2>1 DEF Attended, Upcoming
  <2> QED
    BY <1>f, <2>1, <2>2, <2>3
    DEF SettledInv, VirtualServicesAttended, CertificateAttended, StatusAttended
<1> QED
  BY <1>1, <1>2 DEF ReconcileCertSecrets

(* The Gateway's own step leads to the VirtualServices. *)
LEMMA GatewaySettled ==
  ASSUME Basics, ConvergenceInv, ReconcileIngressGateways
  PROVE  SettledInv'
<1>f. /\ CopyCurrent' /\ UNCHANGED <<ing, mode>> /\ w \in Worker /\ KindStep
      /\ Settled' => Settled /\ w.obj = ing /\ w.cfg = mode
  BY KindStepFrame DEF KindStep
<1>1. CASE \E st : FailWith(st)
  BY <1>1, <1>f, FailKeeps, FailingAttends
<1>2. CASE Reconciled("gateway", WorkerDesires("gateway")) /\ Proceed(FirstVirtualServiceStep, w.st)
  <2>1. w'.pc = FirstVirtualServiceStep /\ w.pc = "gateway"
    BY <1>2, <1>f, ProceedMoves DEF ReconcileIngressGateways
  <2>2. objs'["cert"] = objs["cert"] /\ objs'["origin"] = objs["origin"]
    BY <1>2, KindNames, ObjectFacts DEF Reconciled, Write, ApiUnchanged, Basics, TypeOK
  <2>3. CertificateAttended'
    BY <1>f, <2>1, <2>2, CertificateFrame DEF ReconcileIngressGateways
  <2>4. ASSUME Settled', NEW k \in VSKinds PROVE Attended(k)'
    <3>1. Desired("meshVS", ing.spec, mode) # Absent => w'.pc = "meshVS"
      BY <1>f, <2>1, <2>4, FirstSteps DEF WorkerDesires, Basics
    <3> QED
      BY <1>f, <2>1, <3>1, FirstSteps DEF Attended, Upcoming, Basics
  <2> QED
    BY <1>f, <2>1, <2>3, <2>4, FirstSteps DEF SettledInv, VirtualServicesAttended, StatusAttended, Basics
<1> QED
  BY <1>1, <1>2 DEF ReconcileIngressGateways

(* A VirtualService that a step does not write. *)
LEMMA OtherObjects ==
  ASSUME Basics, NEW k \in VSKinds, NEW v, Write(k, v) \/ ApiUnchanged
  PROVE  /\ \A j \in VSKinds \ {k} : objs'[j] = objs[j]
         /\ objs'["cert"] = objs["cert"] /\ objs'["origin"] = objs["origin"]
  BY KindNames, ObjectFacts DEF Write, ApiUnchanged, Basics, TypeOK

(* After the step at a desired VirtualService that one is attended to, and a *)
(* pass that is past the other one was so before.                            *)
LEMMA VirtualServiceSettled ==
  ASSUME Basics, ConvergenceInv, NEW k \in VSKinds, ReconcileVirtualService(k)
  PROVE  SettledInv'
<1>f. /\ CopyCurrent' /\ UNCHANGED <<ing, mode>> /\ w \in Worker /\ KindStep /\ wake \subseteq wake'
      /\ Settled' => Settled /\ w.obj = ing /\ w.cfg = mode /\ ~Failing
  BY KindStepFrame DEF KindStep
<1>1. CASE \E st : FailWith(st) \/ FailVirtualServices(st)
  BY <1>1, <1>f, FailKeeps, FailingAttends
<1>2. CASE lister[k] # Foreign /\ Reconciled(k, WorkerDesires(k)) /\ Proceed(AfterVirtualService(k), w.st)
  <2>1. w'.pc = AfterVirtualService(k) /\ w.pc = k
    BY <1>2, <1>f, ProceedMoves DEF ReconcileVirtualService
  <2>2. /\ \A j \in VSKinds \ {k} : objs'[j] = objs[j]
        /\ objs'["cert"] = objs["cert"] /\ objs'["origin"] = objs["origin"]
    BY <1>2, OtherObjects DEF Reconciled
  <2>3. CertificateAttended'
    BY <1>f, <2>1, <2>2, CertificateFrame DEF ReconcileVirtualService, VSKinds
  <2>4. ASSUME Settled' PROVE Attended(k)'
    BY <1>2, <1>f, <2>4, ReconciledAttends DEF ConvergenceInv
  <2>5. ASSUME Settled', NEW j \in VSKinds \ {k} PROVE Attended(j)'
    <3>1. CASE w'.pc \in Upcoming(j)
      BY <1>f, <3>1 DEF Attended, Upcoming
    <3>2. CASE w'.pc \notin Upcoming(j)
      <4>1. w.pc \notin Upcoming(j)
        BY <2>1, <2>5, <3>2 DEF Upcoming, AfterVirtualService, VSKinds
      <4>2. Converged(j) \/ j \in wake
        BY <1>f, <2>5, <4>1 DEF ConvergenceInv, SettledInv, VirtualServicesAttended, Attended
      <4> QED
        BY <1>f, <2>2, <2>5, <4>2, StaysAttended
    <3> QED
      BY <3>1, <3>2
  <2> QED
    BY <1>f, <2>1, <2>3, <2>4, <2>5
    DEF SettledInv, VirtualServicesAttended, StatusAttended, AfterVirtualService
<1> QED
  BY <1>1, <1>2 DEF ReconcileVirtualService

(* The same of the step at one that may be extra. *)
LEMMA DropSettled ==
  ASSUME Basics, ConvergenceInv, NEW k \in VSKinds, DropExtraVirtualService(k)
  PROVE  SettledInv'
<1>f. /\ CopyCurrent' /\ UNCHANGED <<ing, mode>> /\ w \in Worker /\ KindStep /\ wake \subseteq wake'
      /\ Settled' => Settled /\ w.obj = ing /\ w.cfg = mode /\ ~Failing
  BY KindStepFrame DEF KindStep
<1>1. CASE \E st : FailVirtualServices(st)
  BY <1>1, <1>f, FailKeeps, FailingAttends
<1>2. CASE /\ IF Extra(k) THEN Write(k, Absent) ELSE ApiUnchanged
           /\ \E st : \/ k = "ingressVS" /\ Proceed("dropMeshVS", st)
                      \/ k # "ingressVS" /\ Proceed(IF w.cfg = "mesh" THEN "cleanGateway" ELSE "probe", st)
  <2>1. /\ w.pc = IF k = "ingressVS" THEN "dropIngressVS" ELSE "dropMeshVS"
        /\ w'.pc \in {"dropMeshVS", "cleanGateway", "probe"}
        /\ k = "ingressVS" => w'.pc = "dropMeshVS"
    BY <1>2, <1>f, ProceedMoves DEF DropExtraVirtualService
  <2>2. /\ \A j \in VSKinds \ {k} : objs'[j] = objs[j]
        /\ objs'["cert"] = objs["cert"] /\ objs'["origin"] = objs["origin"]
    BY <1>2, OtherObjects
  <2>3. CertificateAttended'
    BY <1>f, <2>1, <2>2, CertificateFrame DEF DropExtraVirtualService
  <2>4. ASSUME Settled' PROVE Attended(k)'
    <3>1. CASE Desired(k, ing.spec, mode) = Absent
      BY <1>2, <1>f, <2>4, <3>1, DropAttends DEF ConvergenceInv
    <3>2. CASE Desired(k, ing.spec, mode) # Absent
      <4>1. k = "meshVS"
        BY <1>f, <2>1, <2>4, <3>2 DEF ConvergenceInv, PathInv, Desired, VSKinds
      <4>2. Converged(k) \/ k \in wake
        BY <1>f, <2>1, <2>4, <3>2, <4>1
        DEF ConvergenceInv, SettledInv, VirtualServicesAttended, Attended, Upcoming
      <4>3. ApiUnchanged
        BY <1>2, <1>f, <2>4, <3>2 DEF Extra, WorkerDesires
      <4> QED
        BY <1>f, <4>2, <4>3, StaysAttended DEF ApiUnchanged
    <3> QED
      BY <3>1, <3>2
  <2>5. ASSUME Settled', NEW j \in VSKinds \ {k} PROVE Attended(j)'
    <3>1. CASE w'.pc \in Upcoming(j)
      BY <1>f, <3>1 DEF Attended, Upcoming
    <3>2. CASE w'.pc \notin Upcoming(j)
      <4>1. w.pc \notin Upcoming(j)
        BY <2>1, <2>5, <3>2 DEF Upcoming, VSKinds
      <4>2. Converged(j) \/ j \in wake
        BY <1>f, <2>5, <4>1 DEF ConvergenceInv, SettledInv, VirtualServicesAttended, Attended
      <4> QED
        BY <1>f, <2>2, <2>5, <4>2, StaysAttended
    <3> QED
      BY <3>1, <3>2
  <2> QED
    BY <1>f, <2>1, <2>3, <2>4, <2>5 DEF SettledInv, VirtualServicesAttended, StatusAttended
<1> QED
  BY <1>1, <1>2 DEF DropExtraVirtualService

(* A pass that is past the VirtualServices leaves them to their events. *)
LEMMA VirtualServicesFrame ==
  ASSUME Basics, ConvergenceInv, KindStep, w.pc \in {"probe", "cleanGateway", "cleanCerts"},
         \A k \in VSKinds : objs'[k] = objs[k]
  PROVE  VirtualServicesAttended'
<1> SUFFICES ASSUME Settled', NEW k \in VSKinds PROVE Attended(k)'
  BY DEF VirtualServicesAttended
<1>1. UNCHANGED <<ing, mode>> /\ wake \subseteq wake' /\ Settled /\ ~Failing
  BY KindStepFrame
<1>2. Converged(k) \/ k \in wake
  BY <1>1 DEF ConvergenceInv, SettledInv, VirtualServicesAttended, Attended, Upcoming
<1> QED
  BY <1>1, <1>2, StaysAttended

(* Both dependents True make the Ingress ready, for the generation observed. *)
LEMMA ReadyStatus ==
  ASSUME NEW st \in Status, NEW lbs \in LoadBalancers, NEW gen \in Nat
  PROVE  LET res == PostProcessReconcile(MarkLoadBalancerReady(MarkNetworkConfigured(st), lbs), gen)
         IN  res.og = gen /\ res.ready = "True" /\ res.lbs = lbs
<1> DEFINE nc == MarkNetworkConfigured(st)
<1>1. nc \in Status /\ nc.nc = "True"
  <2>1. [st EXCEPT !.nc = "True"] \in Status
    BY DEF Status, CondStatus
  <2> QED
    BY <2>1, MarksKeepType DEF MarkNetworkConfigured, recomputeHappiness, Status
<1> HIDE DEF nc
<1> DEFINE lb == [nc EXCEPT !.lb = "True", !.lbs = lbs]
<1>2. lb \in Status /\ lb.nc = "True" /\ lb.lb = "True" /\ lb.lbs = lbs
  BY <1>1 DEF Status, CondStatus
<1>3. MarkLoadBalancerReady(nc, lbs) = recomputeHappiness(lb)
  BY DEF MarkLoadBalancerReady
<1> HIDE DEF lb
<1>4. Dependents(lb) = {"True"}
  BY <1>2 DEF Dependents
<1>5. recomputeHappiness(lb) = [lb EXCEPT !.ready = "True"]
  BY <1>4 DEF recomputeHappiness
<1>6. /\ recomputeHappiness(lb) \in Status /\ recomputeHappiness(lb).ready = "True"
      /\ recomputeHappiness(lb).lbs = lbs
  BY <1>2, <1>5 DEF Status, CondStatus
<1> QED
  BY <1>3, <1>6 DEF nc, PostProcessReconcile, Status

(* The readiness check reports what is so, or leaves a probe that calls back. *)
LEMMA CheckReadySettled ==
  ASSUME Basics, ConvergenceInv, CheckReady
  PROVE  SettledInv'
<1>f. /\ CopyCurrent' /\ UNCHANGED <<ing, mode>> /\ w \in Worker /\ KindStep
      /\ Settled' => Settled /\ w.obj = ing /\ w.cfg = mode
  BY KindStepFrame DEF KindStep
<1> DEFINE st == MarkNetworkConfigured(w.st)
<1>p. /\ w.st \in Status /\ w.obj.gen \in Nat /\ w.pc = "probe" /\ UNCHANGED <<objs, tracked>>
      /\ ReportReady(st, TRUE) \/ ProberIsReady(st)
  BY WorkerParts DEF CheckReady, ApiUnchanged, Basics
<1>r. ASSUME ReportReady(st, TRUE)
      PROVE  w'.st.og = w.obj.gen /\ w'.st.ready = "True" /\ w'.st.lbs = "gateway"
  <2>1. w'.st = PostProcessReconcile(MarkLoadBalancerReady(MarkNetworkConfigured(w.st), "gateway"), w.obj.gen)
    BY <1>r, <1>f, FinishKeeps DEF ReportReady
  <2>2. "gateway" \in LoadBalancers
    BY DEF LoadBalancers
  <2> QED
    BY <1>p, <2>1, <2>2, ReadyStatus
<1>o. ASSUME NEW b, ReportReady(st, b) PROVE w'.st.og = w.obj.gen
  <2>1. st \in Status /\ MarkLoadBalancerReady(st, "gateway") \in Status /\ MarkLoadBalancerNotReady(st) \in Status
    BY <1>p, MarksKeepType DEF LoadBalancers
  <2> HIDE DEF st
  <2> QED
    BY <1>f, <1>o, <2>1, FinishMoves DEF ReportReady
<1>c. CertificateAttended' /\ VirtualServicesAttended'
  BY <1>f, <1>p, CertificateFrame, VirtualServicesFrame
<1>1. CASE \E s : FailWith(s)
  BY <1>1, <1>f, FailKeeps, FailingAttends
<1>2. CASE ReportReady(st, TRUE)
  <2>1. ASSUME Settled' PROVE Says(w.st)'
    BY <1>f, <1>p, <1>2, <1>r, <2>1 DEF Says, ConvergenceInv, PathInv
  <2> QED
    BY <1>f, <1>c, <2>1, CheckReadyKeeps DEF SettledInv, StatusAttended, Basics
<1>3. CASE ReportReady(st, FALSE) /\ probe' = [spec |-> w.obj.spec, done |-> FALSE]
  <2>1. ASSUME Settled' PROVE Says(w.st)'
    BY <1>f, <1>p, <1>3, <1>o, <2>1 DEF Says, ConvergenceInv, PathInv
  <2> QED
    BY <1>f, <1>c, <2>1, CheckReadyKeeps DEF SettledInv, StatusAttended, Basics
<1>4. ASSUME ProberIsReady(st)
      PROVE  \/ \E s : FailWith(s)
             \/ ReportReady(st, TRUE)
             \/ ReportReady(st, FALSE) /\ probe' = [spec |-> w.obj.spec, done |-> FALSE]
  <2> HIDE DEF st
  <2>1. CASE probe.spec = w.obj.spec /\ ReportReady(st, probe.done) /\ UNCHANGED probe
    <3>1. probe \in Probes /\ probe.done \in BOOLEAN
      BY ProbeParts DEF Basics, TypeOK
    <3>2. probe.done = FALSE => probe = [spec |-> w.obj.spec, done |-> FALSE]
      BY <2>1, <3>1 DEF Probes, NoProbe
    <3> QED
      BY <2>1, <3>1, <3>2
  <2>2. ASSUME NEW b \in BOOLEAN, probe' = [spec |-> w.obj.spec, done |-> b], ReportReady(st, b)
        PROVE  \/ ReportReady(st, TRUE)
               \/ ReportReady(st, FALSE) /\ probe' = [spec |-> w.obj.spec, done |-> FALSE]
    BY <2>2
  <2> QED
    BY <1>4, <2>1, <2>2 DEF ProberIsReady
<1> HIDE DEF st
<1> QED
  BY <1>p, <1>1, <1>2, <1>3, <1>4

(* The mesh-only path ends with an Ingress that is ready through the mesh. *)
LEMMA CleanupSettled ==
  ASSUME Basics, ConvergenceInv, CleanupIngressGateways \/ CleanupTLSSecrets
  PROVE  SettledInv'
<1>f. /\ CopyCurrent' /\ UNCHANGED <<ing, mode>> /\ w \in Worker /\ KindStep
      /\ Settled' => Settled /\ w.obj = ing /\ w.cfg = mode
  BY KindStepFrame DEF KindStep
<1>p. w.pc \in {"cleanGateway", "cleanCerts"} /\ w.cfg = "mesh"
  BY DEF CleanupIngressGateways, CleanupTLSSecrets, ConvergenceInv, PathInv
<1>o. \A k \in VSKinds : objs'[k] = objs[k]
  BY KindNames, ObjectFacts
  DEF CleanupIngressGateways, CleanupTLSSecrets, Cleaned, Write, ApiUnchanged, Basics, TypeOK
<1>c. CertificateAttended' /\ VirtualServicesAttended'
  BY <1>f, <1>p, <1>o, VirtualServicesFrame DEF CertificateAttended, NeedsCertificate
<1>1. CASE CleanupIngressGateways
  BY <1>1, <1>f, <1>c, ProceedMoves DEF CleanupIngressGateways, SettledInv, StatusAttended
<1>2. CASE CleanupTLSSecrets
  <2>1. w'.pc = "status" /\ w'.st.og = w.obj.gen /\ w'.st.ready = "True" /\ w'.st.lbs = "mesh"
    <3>1. w.st \in Status /\ w.obj.gen \in Nat /\ "mesh" \in LoadBalancers
      BY WorkerParts DEF LoadBalancers, Basics
    <3>2. /\ w'.pc = "status"
          /\ w'.st = PostProcessReconcile(MarkLoadBalancerReady(MarkNetworkConfigured(w.st), "mesh"), w.obj.gen)
      BY <1>2, <1>f, FinishKeeps DEF CleanupTLSSecrets
    <3> QED
      BY <3>1, <3>2, ReadyStatus
  <2> QED
    BY <1>f, <1>p, <1>c, <2>1 DEF SettledInv, StatusAttended, Says
<1> QED
  BY <1>1, <1>2

(* Every step of ReconcileKind keeps what is said of a settled controller. *)
LEMMA KindStepSettled ==
  ASSUME Basics, ConvergenceInv, KindStep
  PROVE  SettledInv'
<1>1. CASE CallFails /\ w.pc \in KindSteps
  <2>1. Failing'
    BY <1>1, FailKeeps DEF CallFails, KindSteps, Basics, TypeOK
  <2> QED
    BY <2>1, KindStepFrame, FailingAttends
<1> QED
  BY <1>1, CertsSettled, GatewaySettled, VirtualServiceSettled, DropSettled, CheckReadySettled, CleanupSettled
  DEF KindStep

-----------------------------------------------------------------------------
(***************************************************************************)
(* The steps around ReconcileKind.                                         *)
(***************************************************************************)

(* A pass starts with the cached Ingress, which is the present one if no event *)
(* of it is under way.                                                         *)
LEMMA StartSettled ==
  ASSUME Basics, ConvergenceInv, StartReconcile
  PROVE  SettledInv'
<1>1. CASE Settled'
  <2>1. cache = ing /\ cache.live /\ ~cache.del /\ UNCHANGED <<ing, mode>>
    BY <1>1 DEF StartReconcile, ApiUnchanged, Settled, ConvergenceInv, CacheCurrent
  <2>2. w'.pc = "finalizer" /\ w'.obj = ing /\ w'.cfg = mode
    BY <2>1 DEF StartReconcile
  <2> QED
    BY <2>1, <2>2 DEF SettledInv, CopyCurrent, VirtualServicesAttended, Attended, Upcoming,
                      CertificateAttended, StatusAttended
<1> QED
  BY <1>1, Unsettled

(* The finalizer is written, which is an event of the Ingress; or it conflicts, *)
(* which puts the key back; or the pass goes on.                                *)
LEMMA SetFinalizerSettled ==
  ASSUME Basics, ConvergenceInv, SetFinalizer
  PROVE  SettledInv'
<1>1. CASE Settled'
  <2>1. w.obj.fin /\ UNCHANGED <<ing, lag, queued, mode>>
    BY <1>1 DEF SetFinalizer, Retry, Settled
  <2>2. Settled /\ w.pc = "finalizer"
    BY <1>1, <2>1, SettledBefore DEF SetFinalizer
  <2>3. w.obj = ing /\ w.cfg = mode
    BY <2>2 DEF ConvergenceInv, SettledInv, CopyCurrent
  <2>4. w'.pc = FirstStep /\ w'.obj = w.obj /\ w'.cfg = w.cfg
    BY <2>1, ProceedMoves DEF SetFinalizer, Basics, TypeOK
  <2>5. /\ w'.pc \in {"certs", "gateway", "meshVS", "ingressVS", "dropIngressVS"}
        /\ Desired("meshVS", ing.spec, mode) # Absent => w'.pc \in {"certs", "gateway", "meshVS"}
        /\ NeedsCertificate => w'.pc = "certs"
    BY <2>3, <2>4, FirstSteps DEF Basics, WorkerDesires, NeedsCertificate
  <2>6. VirtualServicesAttended' /\ CertificateAttended'
    BY <2>1, <2>5 DEF VirtualServicesAttended, Attended, Upcoming, CertificateAttended, NeedsCertificate
  <2> QED
    BY <2>1, <2>3, <2>4, <2>5, <2>6 DEF SettledInv, CopyCurrent, StatusAttended
<1> QED
  BY <1>1, Unsettled

(* The status is written, which is an event of the Ingress; or the pass failed,*)
(* which puts the key back; or the status was there already.                   *)
LEMMA WriteStatusSettled ==
  ASSUME Basics, ConvergenceInv, WriteStatus
  PROVE  SettledInv'
<1>1. CASE Settled'
  <2>1. ~w.err /\ UNCHANGED <<ing, lag, queued, mode, objs, wake, tracked, probe>> /\ w.pc = "status" /\ w' = Idle
    BY <1>1 DEF WriteStatus, Settled, Basics, TypeOK
  <2>2. Settled
    BY <1>1, <2>1, SettledBefore
  <2>3. w.obj = ing
    BY <2>1, <2>2 DEF ConvergenceInv, SettledInv, CopyCurrent
  <2>4. ing.status = w.st
    BY <1>1, <2>1, <2>3 DEF WriteStatus, Settled
  <2>5. Says(ing.status) /\ UNCHANGED <<ing, mode, probe>>
    BY <2>1, <2>2, <2>4 DEF ConvergenceInv, SettledInv, StatusAttended
  <2>6. Says(ing.status)'
    BY <2>5 DEF Says
  <2>7. \A k \in VSKinds : Converged(k) \/ k \in wake
    BY <2>1, <2>2 DEF ConvergenceInv, SettledInv, VirtualServicesAttended, Attended, Upcoming, Failing
  <2>8. VirtualServicesAttended'
    BY <2>1, <2>7, StaysAttended DEF VirtualServicesAttended
  <2>9. CertificateAttended'
    BY <2>1, <2>2 DEF ConvergenceInv, SettledInv, CertificateAttended, NeedsCertificate, CertificateWatched, Failing
  <2> QED
    BY <2>1, <2>6, <2>8, <2>9, IdleIsIdle DEF SettledInv, CopyCurrent, StatusAttended
<1> QED
  BY <1>1, Unsettled

(* FinalizeKind and the removal of the finalizer work on an Ingress that is *)
(* being deleted.                                                           *)
LEMMA FinalizeSettled ==
  ASSUME Basics, FinalizeKind \/ ClearFinalizer
  PROVE  SettledInv'
<1>1. ing.del
  BY DEF FinalizeKind, ClearFinalizer, Basics, FinalizerInv
<1>2. ing'.del
  BY <1>1 DEF FinalizeKind, ClearFinalizer, Basics, TypeOK, Ingress
<1> QED
  BY <1>2, Unsettled DEF Settled

(* A write of somebody else leaves an event that will be attended to. *)
LEMMA EnvWriteSettled ==
  ASSUME Basics, ConvergenceInv, NEW k \in Kinds, NEW v, Write(k, v),
         UNCHANGED <<ing, cache, mode, lister, queued, tracked, w, probe>>
  PROVE  SettledInv'
<1>1. CASE Settled'
  <2>1. Settled /\ wake \subseteq wake' /\ lag' = lag \cup {k}
    BY <1>1, KindNames, SettledBefore DEF Write
  <2>2. \A j \in Kinds \ {k} : objs'[j] = objs[j]
    BY ObjectFacts DEF Write, Basics, TypeOK
  <2>3. CopyCurrent' /\ StatusAttended'
    BY <2>1 DEF ConvergenceInv, SettledInv, CopyCurrent, StatusAttended, Says
  <2>4. ASSUME NEW j \in VSKinds PROVE Attended(j)'
    <3>1. CASE j = k
      BY <3>1 DEF Write, Attended
    <3>2. CASE j # k
      <4>1. Attended(j) /\ objs'[j] = objs[j]
        BY <2>1, <2>2, <3>2, KindNames DEF ConvergenceInv, SettledInv, VirtualServicesAttended
      <4> QED
        BY <2>1, <4>1 DEF Attended, Converged, Upcoming, Failing
    <3> QED
      BY <3>1, <3>2
  <2>5. CertificateAttended'
    BY <2>1, <2>2, KindNames
    DEF ConvergenceInv, SettledInv, CertificateAttended, CertificateWatched, NeedsCertificate, Failing
  <2> QED
    BY <2>3, <2>4, <2>5 DEF SettledInv, VirtualServicesAttended
<1> QED
  BY <1>1, Unsettled

(* A VirtualService of somebody else comes or goes where ours is not desired, *)
(* or where its absence is being attended to.                                 *)
LEMMA ForeignSettled ==
  ASSUME Basics, ConvergenceInv, NEW k \in VSKinds, ForeignVirtualService(k)
  PROVE  SettledInv'
<1>1. CASE Settled'
  <2>1. Settled /\ wake' = wake /\ lag' = lag \cup {k}
        /\ UNCHANGED <<ing, cache, mode, lister, queued, tracked, w, probe>>
    BY <1>1, KindNames, SettledBefore DEF ForeignVirtualService
  <2>2. PICK v \in {Absent, Foreign} : objs' = [objs EXCEPT ![k] = v]
    BY DEF ForeignVirtualService
  <2>3. objs'[k] = v /\ \A j \in Kinds \ {k} : objs'[j] = objs[j]
    BY <2>2, ObjectFacts, KindNames DEF Basics, TypeOK
  <2>4. CopyCurrent' /\ StatusAttended'
    BY <2>1 DEF ConvergenceInv, SettledInv, CopyCurrent, StatusAttended, Says
  <2>5. objs[k] \in {Absent, Foreign} /\ Desired(k, ing.spec, mode) \in {Absent} \cup Content
    BY DesiredType DEF ForeignVirtualService, Basics, TypeOK, Ingress
  <2>6. Converged(k) => Desired(k, ing.spec, mode) = Absent
    BY <2>5, ContentAssumption DEF Converged
  <2>7. ASSUME NEW j \in VSKinds PROVE Attended(j)'
    <3>1. Attended(j)
      BY <2>1 DEF ConvergenceInv, SettledInv, VirtualServicesAttended
    <3>2. Converged(j) => Converged(j)'
      BY <2>1, <2>3, <2>6, KindNames DEF Converged
    <3> QED
      BY <2>1, <3>1, <3>2 DEF Attended, Upcoming, Failing
  <2>8. CertificateAttended'
    BY <2>1, <2>3, KindNames
    DEF ConvergenceInv, SettledInv, CertificateAttended, CertificateWatched, NeedsCertificate, Failing
  <2> QED
    BY <2>4, <2>7, <2>8 DEF SettledInv, VirtualServicesAttended
<1> QED
  BY <1>1, Unsettled

(* A delivered event that does not enqueue was nobody's hope. *)
LEMMA SyncObjectSettled ==
  ASSUME Basics, ConvergenceInv, NEW k \in Kinds, SyncObject(k)
  PROVE  SettledInv'
<1>1. CASE Settled'
  <2>1. Settled /\ UNCHANGED <<ing, cache, mode, objs, tracked, w, probe>> /\ ~EventEnqueues(k)
    BY <1>1, KindNames, SettledBefore DEF SyncObject, Settled
  <2>2. CopyCurrent' /\ StatusAttended'
    BY <2>1 DEF ConvergenceInv, SettledInv, CopyCurrent, StatusAttended, Says
  <2>3. k \notin wake /\ (k \in SecretKinds => ~tracked)
    BY <2>1, KindNames DEF EventEnqueues, Basics, TypeOK
  <2>4. wake' = wake /\ lag' = lag \ {k}
    BY <2>3 DEF SyncObject
  <2>5. VirtualServicesAttended'
    BY <2>1, <2>4 DEF ConvergenceInv, SettledInv, VirtualServicesAttended, Attended, Converged, Upcoming, Failing
  <2>6. CertificateWatched => CertificateWatched'
    BY <2>1, <2>3, <2>4 DEF CertificateWatched, SecretKinds
  <2>7. CertificateAttended'
    BY <2>1, <2>6 DEF ConvergenceInv, SettledInv, CertificateAttended, NeedsCertificate, Failing
  <2> QED
    BY <2>2, <2>5, <2>7 DEF SettledInv
<1> QED
  BY <1>1, Unsettled

(* Every step keeps what is said of a settled controller. *)
LEMMA SettledInductive ==
  ASSUME Basics, ConvergenceInv, [Next]_vars
  PROVE  SettledInv'
<1>1. CASE UNCHANGED vars
  BY <1>1 DEF vars, ConvergenceInv, SettledInv, CopyCurrent, Settled, VirtualServicesAttended, Attended,
              Converged, Upcoming, Failing, CertificateAttended, NeedsCertificate, CertificateWatched,
              StatusAttended, Says
<1>2. CASE WorkerStep
  BY <1>2, KindStepSettled, StartSettled, SetFinalizerSettled, WriteStatusSettled, FinalizeSettled
  DEF WorkerStep, KindStep
<1>3. CASE CallFails
  <2>1. CASE w.pc \in KindSteps
    BY <1>3, <2>1, KindStepSettled DEF KindStep
  <2>2. CASE w.pc \notin KindSteps
    <3>1. w.pc \in {"finalizer", "status", "finalize", "clearFinalizer"}
      BY <1>3, <2>2 DEF CallFails, Fallible, KindSteps, VSKinds
    <3>2. queued'
      BY <1>3, <3>1 DEF CallFails, Retry
    <3> QED
      BY <3>2, Unsettled DEF Settled
  <2> QED
    BY <2>1, <2>2
<1>4. CASE SyncIngress \/ ProbeCompletes \/ Restart
  BY <1>4, Unsettled DEF SyncIngress, ProbeCompletes, ReadyCallback, Restart, Settled
<1>5. CASE DeleteIngress \/ \E s \in Specs : UpdateSpec(s)
  BY <1>5, Unsettled DEF DeleteIngress, UpdateSpec, Settled
<1>6. CASE FlipConfig \/ PeriodicResync
  <2>1. queued' = (queued \/ cache.live) /\ UNCHANGED <<ing, lag>>
    BY <1>6 DEF FlipConfig, PeriodicResync, ResyncIngresses, ApiUnchanged
  <2>2. ~Settled'
    BY <2>1 DEF Settled, ConvergenceInv, CacheCurrent
  <2> QED
    BY <2>2, Unsettled
<1>7. CASE RotateCertificate
  <2>1. PICK v : Write("origin", v)
    BY <1>7 DEF RotateCertificate
  <2> QED
    BY <1>7, <2>1, KindNames, EnvWriteSettled DEF RotateCertificate
<1>8. ASSUME NEW k \in OwnedKinds \cup {"cert"}, Tamper(k) PROVE SettledInv'
  BY <1>8, EnvWriteSettled DEF Tamper, Kinds, SecretKinds
<1>9. ASSUME NEW k \in OwnedKinds, CollectGarbage(k) PROVE SettledInv'
  BY <1>9, EnvWriteSettled DEF CollectGarbage, Kinds
<1> QED
  BY <1>1, <1>2, <1>3, <1>4, <1>5, <1>6, <1>7, <1>8, <1>9, ForeignSettled, SyncObjectSettled
  DEF Next, Environment

(* Every step keeps the invariant. *)
LEMMA ConvergenceInductive ==
  ASSUME Basics, ConvergenceInv, [Next]_vars
  PROVE  ConvergenceInv'
<1>1. TypeOK /\ EventsKept /\ PathInv /\ CacheCurrent
  BY DEF Basics, ConvergenceInv
<1> QED
  BY <1>1, EventsInductive, PathInductive, CacheInductive, SettledInductive DEF ConvergenceInv

(* The initial states satisfy the invariant: the event of the new Ingress is *)
(* under way.                                                                *)
LEMMA ConvergenceInit == Init => ConvergenceInv /\ ListerCurrent
<1> SUFFICES ASSUME Init PROVE ConvergenceInv /\ ListerCurrent
  OBVIOUS
<1>1. ListerCurrent /\ EventsKept
  BY KindNames DEF Init, ListerCurrent, EventsKept
<1>2. PathInv /\ CacheCurrent
  BY IdleIsIdle DEF Init, PathInv, CacheCurrent
<1>3. ~Settled
  BY DEF Init, Settled
<1>4. SettledInv
  BY <1>3 DEF SettledInv, CopyCurrent, VirtualServicesAttended, CertificateAttended, StatusAttended
<1> QED
  BY <1>1, <1>2, <1>4 DEF ConvergenceInv

(* At rest nobody is left to attend to anything, so all of it is as wanted. *)
LEMMA RestConverged == ConvergenceInv => ConvergedWhenQuiescent
<1> SUFFICES ASSUME ConvergenceInv, Quiescent, ing.live, ~ing.del
             PROVE  VirtualServicesConverged /\ CertificateConverged /\ StatusConverged
  BY DEF ConvergedWhenQuiescent
<1>1. Settled /\ w.pc = "idle" /\ lag = {} /\ wake = {}
  BY DEF Quiescent, Settled, ConvergenceInv, EventsKept
<1>2. \A k \in VSKinds : Converged(k)
  BY <1>1 DEF ConvergenceInv, SettledInv, VirtualServicesAttended, Attended, Upcoming, Failing
<1>3. VirtualServicesConverged
  BY <1>2 DEF VirtualServicesConverged, Converged
<1>4. CertificateConverged
  BY <1>1 DEF ConvergenceInv, SettledInv, CertificateAttended, NeedsCertificate, CertificateWatched,
              Failing, CertificateConverged
<1>5. StatusConverged
  BY <1>1 DEF ConvergenceInv, SettledInv, StatusAttended, Says, StatusConverged
<1> QED
  BY <1>3, <1>4, <1>5

(* When the controller comes to rest the VirtualServices and the copy of the  *)
(* certificate are those of the present spec and configuration, and the status*)
(* says so or a probe will call back: stale listers, conflicts, failed calls, *)
(* crashes and the writes of others lose no event.                            *)
THEOREM ConvergenceCorrect == Spec => []ConvergedWhenQuiescent
<1>1. TypeOK /\ ListerCurrent /\ [Next]_vars => ListerCurrent'
  BY StepIsObjectStep, ListerInductive
<1>2. Spec => []ListerCurrent
  BY <1>1, ConvergenceInit, TypeCorrect, PTL DEF Spec
<1>3. TypeOK /\ FinalizerInv /\ ListerCurrent /\ ConvergenceInv /\ [Next]_vars => ConvergenceInv'
  BY ConvergenceInductive DEF Basics
<1> QED
  BY <1>2, <1>3, ConvergenceInit, RestConverged, TypeCorrect, FinalizerInvariant, PTL DEF Spec

-----------------------------------------------------------------------------
(***************************************************************************)
(* Ready and the prober.                                                   *)
(*                                                                         *)
(* ReadyImpliesProbed does not hold of every run: a pass that fails with   *)
(* anything but an error of reconcileVirtualServices leaves                *)
(* LoadBalancerReady True from the generation before, and the next pass    *)
(* takes the Ingress for ready without a probe.  Such a pass takes a failed*)
(* call, or a Gateway or certificate of the Ingress to conflict over; a    *)
(* switch of the gateway mode has the same effect.  Where none of the three*)
(* can happen the property holds, whatever else does.                      *)
(***************************************************************************)
Unfailing ==
  /\ GatewaySpecs = {} /\ InitModes \subseteq {"gateway"}
  /\ \A b \in Budgets : b["fault"] = 0 /\ b["flip"] = 0

(* A status with a ready load balancer observes a generation that was probed, *)
(* and Ready is never True without it.                                        *)
Vouched(st) == (st.ready = "True" => st.lb = "True") /\ (st.lb = "True" => st.og \in probed)

(* No call fails, the mode stays, and every status about is vouched for. *)
ProbedInv ==
  /\ budget["fault"] = 0 /\ budget["flip"] = 0
  /\ mode = "gateway"
  /\ w.pc # "idle" => w.cfg = "gateway"
  /\ w.pc \notin {"certs", "gateway", "cleanGateway", "cleanCerts"}
  /\ Vouched(ing.status) /\ Vouched(cache.status) /\ Vouched(w.st)

(* Only the prober's verdict adds to what was probed. *)
LEMMA ProbedGrows ==
  ASSUME [Next]_vars
  PROVE  probed \subseteq probed'
<1>1. CASE UNCHANGED vars
  BY <1>1 DEF vars
<1>2. CASE CallFails
  BY <1>2 DEF CallFails
<1>3. CASE WorkerStep
  BY <1>3 DEF WorkerStep, StartReconcile, SetFinalizer, ReconcileCertSecrets, ReconcileIngressGateways,
              ReconcileVirtualService, DropExtraVirtualService, CheckReady, ProberIsReady,
              CleanupIngressGateways, CleanupTLSSecrets, WriteStatus, FinalizeKind, ClearFinalizer
<1>4. CASE SyncIngress \/ ProbeCompletes \/ \E k \in Kinds : SyncObject(k)
  BY <1>4 DEF SyncIngress, ProbeCompletes, SyncObject
<1>5. CASE Environment
  BY <1>5 DEF Environment, UpdateSpec, DeleteIngress, FlipConfig, PeriodicResync, RotateCertificate,
              Restart, Tamper, ForeignVirtualService, CollectGarbage
<1> QED
  BY <1>1, <1>2, <1>3, <1>4, <1>5 DEF Next

(* Without failing calls and changes of the mode there are none to spend. *)
LEMMA UnspentBudget ==
  ASSUME TypeOK, budget["fault"] = 0, budget["flip"] = 0, [Next]_vars
  PROVE  budget'["fault"] = 0 /\ budget'["flip"] = 0 /\ ~CallFails /\ ~FlipConfig
<1>1. ASSUME NEW e \in Events, Spend(e)
      PROVE  e \notin {"fault", "flip"} /\ budget'["fault"] = 0 /\ budget'["flip"] = 0
  <2>1. e \notin {"fault", "flip"}
    BY <1>1 DEF Spend
  <2> QED
    BY <1>1, <2>1 DEF Spend, TypeOK, Events
<1>2. ~CallFails /\ ~FlipConfig /\ ~Spend("fault")
  BY <1>1 DEF CallFails, FlipConfig, Events
<1>3. CASE UNCHANGED budget
  BY <1>2, <1>3
<1>4. CASE \E e \in Events : Spend(e)
  BY <1>1, <1>2, <1>4
<1>5. UNCHANGED budget \/ \E e \in Events : Spend(e)
  <2>1. CASE UNCHANGED vars
    BY <2>1 DEF vars
  <2>2. CASE WorkerStep
    BY <1>2, <2>2
    DEF WorkerStep, StartReconcile, SetFinalizer, ReconcileCertSecrets, ReconcileIngressGateways,
        ReconcileVirtualService, DropExtraVirtualService, CheckReady, ProberIsReady,
        CleanupIngressGateways, CleanupTLSSecrets, WriteStatus, FinalizeKind, ClearFinalizer
  <2>3. CASE SyncIngress \/ ProbeCompletes \/ \E k \in Kinds : SyncObject(k)
    BY <2>3 DEF SyncIngress, ProbeCompletes, SyncObject
  <2>4. CASE Environment
    BY <2>4 DEF Environment, UpdateSpec, DeleteIngress, FlipConfig, PeriodicResync, RotateCertificate,
                Restart, Tamper, ForeignVirtualService, CollectGarbage, Events
  <2> QED
    BY <1>2, <2>1, <2>2, <2>3, <2>4 DEF Next
<1> QED
  BY <1>2, <1>3, <1>4, <1>5

(* What the generated reconciler does first keeps a status vouched for. *)
LEMMA PreProcessVouched ==
  ASSUME NEW st \in Status, NEW gen \in Nat, Vouched(st)
  PROVE  Vouched(PreProcessReconcile(st, gen))
<1> DEFINE init == InitializeConditions(st)
<1>1. init.og = st.og /\ (init.ready = "True" => st.ready = "True") /\ (init.lb = "True" => st.lb = "True")
      /\ (st.lb = "True" => init.lb = "True")
  BY DEF InitializeConditions, Status, Vouched
<1>2. init \in Status
  BY MarksKeepType DEF LoadBalancers
<1>3. PreProcessReconcile(st, gen) = IF init.og # gen THEN happyAfterUnknown(init) ELSE init
  BY DEF PreProcessReconcile
<1> HIDE DEF init
<1>4. happyAfterUnknown(init).ready # "True" /\ happyAfterUnknown(init).lb = init.lb
      /\ happyAfterUnknown(init).og = init.og
  BY <1>2 DEF happyAfterUnknown, Status
<1> QED
  BY <1>1, <1>3, <1>4 DEF Vouched

(* A failure of reconcileVirtualServices takes LoadBalancerReady back. *)
LEMMA FailVouched ==
  ASSUME w \in Worker, NEW st \in Status, FailVirtualServices(st)
  PROVE  w'.pc = "status" /\ w'.cfg = w.cfg /\ w'.st.lb = "False" /\ w'.st.ready # "True"
<1> DEFINE lb == MarkLoadBalancerFailed(st)
<1>1. lb \in Status /\ lb.lb = "False"
  BY MarksKeepType DEF LoadBalancers, MarkLoadBalancerFailed, Status
<1>2. w'.pc = "status" /\ w'.cfg = w.cfg /\ w'.st = PostProcessReconcile(MarkIngressNotReady(lb), w.obj.gen)
  BY FinishKeeps DEF FailVirtualServices, FailWith
<1> HIDE DEF lb
<1>3. MarkIngressNotReady(lb).lb = "False" /\ MarkIngressNotReady(lb).ready # "True"
      /\ MarkIngressNotReady(lb) \in Status
  BY <1>1, MarksKeepType DEF MarkIngressNotReady, happyAfterUnknown, Status, LoadBalancers
<1> QED
  BY <1>2, <1>3 DEF PostProcessReconcile, Status

(* The readiness check: an Ingress that is taken for ready was probed in an *)
(* earlier pass of the same generation, or is probed now.                   *)
LEMMA CheckReadyVouched ==
  ASSUME TypeOK, Vouched(w.st), budget["fault"] = 0, CheckReady
  PROVE  Vouched(w.st)'
<1> DEFINE st == MarkNetworkConfigured(w.st)
<1>0. w \in Worker /\ w.st \in Status /\ w.obj.gen \in Nat /\ probe.done \in BOOLEAN
  BY WorkerParts, ProbeParts DEF TypeOK
<1>1. st \in Status /\ st.og = w.st.og /\ st.lb = w.st.lb
  BY <1>0, MarksKeepType DEF LoadBalancers, MarkNetworkConfigured, recomputeHappiness, Status
<1>2. st.ready = "True" => st.lb = "True"
  <2> DEFINE nc == [w.st EXCEPT !.nc = "True"]
  <2>1. nc \in Status /\ st = recomputeHappiness(nc)
    BY <1>0 DEF MarkNetworkConfigured, Status, CondStatus
  <2> HIDE DEF nc, st
  <2>2. st.ready = "True" => Dependents(nc) = {"True"}
    BY <2>1 DEF recomputeHappiness, Status
  <2>3. st.lb = nc.lb
    BY <2>1 DEF recomputeHappiness, Status
  <2> QED
    BY <2>2, <2>3 DEF Dependents
<1>3. \/ IsReady(st, w.obj.gen) /\ ReportReady(st, TRUE) /\ UNCHANGED probed
      \/ ProberIsReady(st)
  BY DEF CheckReady
<1>s. ~Spend("fault")
  BY DEF Spend
<1> HIDE DEF st
<1>4. \/ ReportReady(st, TRUE) /\ w.obj.gen \in probed'
      \/ ReportReady(st, FALSE)
  <2>1. CASE IsReady(st, w.obj.gen) /\ ReportReady(st, TRUE) /\ UNCHANGED probed
    BY <1>1, <1>2, <2>1 DEF IsReady, Vouched
  <2>2. CASE ProberIsReady(st)
    BY <1>0, <1>s, <2>2 DEF ProberIsReady
  <2> QED
    BY <1>3, <2>1, <2>2
<1>5. CASE ReportReady(st, TRUE) /\ w.obj.gen \in probed'
  <2>1. w'.st = PostProcessReconcile(MarkLoadBalancerReady(st, "gateway"), w.obj.gen)
    BY <1>0, <1>5, FinishKeeps DEF ReportReady
  <2>2. MarkLoadBalancerReady(st, "gateway") \in Status /\ MarkLoadBalancerReady(st, "gateway").lb = "True"
    <3> DEFINE lb == [st EXCEPT !.lb = "True", !.lbs = "gateway"]
    <3>1. lb \in Status /\ lb.lb = "True" /\ MarkLoadBalancerReady(st, "gateway") = recomputeHappiness(lb)
      BY <1>1 DEF Status, CondStatus, LoadBalancers, MarkLoadBalancerReady
    <3> HIDE DEF lb
    <3>2. recomputeHappiness(lb).lb = "True"
      BY <3>1 DEF recomputeHappiness, Status
    <3>3. MarkLoadBalancerReady(st, "gateway") \in Status
      BY <1>1, MarksKeepType DEF LoadBalancers
    <3> QED
      BY <3>1, <3>2, <3>3
  <2>3. w'.st.og = w.obj.gen /\ w'.st.lb = "True"
    BY <2>1, <2>2 DEF PostProcessReconcile, Status
  <2> QED
    BY <1>5, <2>3 DEF Vouched
<1>6. CASE ReportReady(st, FALSE)
  <2>1. w'.st = PostProcessReconcile(MarkLoadBalancerNotReady(st), w.obj.gen)
    BY <1>0, <1>6, FinishKeeps DEF ReportReady
  <2>2. /\ MarkLoadBalancerNotReady(st) \in Status /\ MarkLoadBalancerNotReady(st).lb = "Unknown"
        /\ MarkLoadBalancerNotReady(st).ready # "True"
    <3>1. [st EXCEPT !.lb = "Unknown"] \in Status /\ [st EXCEPT !.lb = "Unknown"].lb = "Unknown"
      BY <1>1 DEF Status, CondStatus
    <3> QED
      BY <1>1, <3>1, MarksKeepType DEF LoadBalancers, MarkLoadBalancerNotReady, happyAfterUnknown, Status
  <2>3. w'.st.ready # "True" /\ w'.st.lb = "Unknown"
    BY <2>1, <2>2 DEF PostProcessReconcile, Status
  <2> QED
    BY <2>3 DEF Vouched
<1> QED
  BY <1>4, <1>5, <1>6

(* Vouched stays with a status when more is probed. *)
LEMMA StaysVouched ==
  ASSUME NEW st, Vouched(st), probed \subseteq probed'
  PROVE  (st.ready = "True" => st.lb = "True") /\ (st.lb = "True" => st.og \in probed')
  BY DEF Vouched

(* Where the worker goes, and with which status, in a run without failures. *)
LEMMA ProbedWorker ==
  ASSUME Unfailing, TypeOK, ProbedInv, [Next]_vars
  PROVE  /\ w'.pc # "idle" => w'.cfg = "gateway"
         /\ w'.pc \notin {"certs", "gateway", "cleanGateway", "cleanCerts"}
         /\ Vouched(w.st)'
<1>t. w \in Worker /\ w.st \in Status /\ w.obj.gen \in Nat
  BY WorkerParts DEF TypeOK
<1>b. ~CallFails /\ probed \subseteq probed' /\ budget["fault"] = 0
  BY UnspentBudget, ProbedGrows DEF ProbedInv
<1> DEFINE Goal == /\ w'.pc # "idle" => w'.cfg = "gateway"
                   /\ w'.pc \notin {"certs", "gateway", "cleanGateway", "cleanCerts"}
                   /\ Vouched(w.st)'
<1>i. ASSUME w' = Idle PROVE Goal
  BY <1>i DEF Idle, NoStatus, Vouched
<1>s. ASSUME w'.pc \notin {"certs", "gateway", "cleanGateway", "cleanCerts"}, w'.cfg = w.cfg, w'.st = w.st,
             w.pc # "idle"
      PROVE  Goal
  BY <1>s, <1>b DEF ProbedInv, Vouched
<1>f. ASSUME NEW st \in Status, FailVirtualServices(st), w.pc # "idle" PROVE Goal
  BY <1>f, <1>t, FailVouched DEF ProbedInv, Vouched
<1>1. ASSUME NEW k \in VSKinds, ReconcileVirtualService(k) PROVE Goal
  <2>1. CASE \E st \in Status : FailVirtualServices(st)
    BY <1>1, <1>f, <2>1 DEF ReconcileVirtualService, VSKinds
  <2>2. CASE Proceed(AfterVirtualService(k), w.st)
    BY <1>1, <1>t, <1>s, <2>2, ProceedMoves DEF ReconcileVirtualService, VSKinds, AfterVirtualService
  <2>3. MarkResourceNotOwned(w.st) \in Status
    BY <1>t, MarksKeepType DEF LoadBalancers
  <2> QED
    BY <1>1, <1>t, <2>1, <2>2, <2>3 DEF ReconcileVirtualService
<1>2. ASSUME NEW k \in VSKinds, DropExtraVirtualService(k) PROVE Goal
  <2>0. w.pc # "idle" /\ w.cfg = "gateway"
    BY <1>2 DEF DropExtraVirtualService, ProbedInv
  <2>1. CASE FailVirtualServices(w.st)
    BY <1>f, <1>t, <2>0, <2>1
  <2>2. CASE Proceed("dropMeshVS", w.st) \/ Proceed("probe", w.st)
    BY <1>t, <1>s, <2>0, <2>2, ProceedMoves
  <2> QED
    BY <1>2, <2>0, <2>1, <2>2 DEF DropExtraVirtualService
<1>3. CASE CheckReady
  <2>1. Vouched(w.st)'
    BY <1>3, <1>b, CheckReadyVouched DEF ProbedInv
  <2>2. w'.pc = "status" /\ w'.cfg = w.cfg /\ w.pc = "probe"
    BY <1>3, CheckReadyKeeps DEF CheckReady
  <2> QED
    BY <2>1, <2>2 DEF ProbedInv
<1>4. CASE ReconcileCertSecrets \/ ReconcileIngressGateways \/ CleanupIngressGateways \/ CleanupTLSSecrets
  BY <1>4 DEF ReconcileCertSecrets, ReconcileIngressGateways, CleanupIngressGateways, CleanupTLSSecrets, ProbedInv
<1>5. CASE StartReconcile
  <2>1. \/ w' = Idle
        \/ w'.pc \in {"finalize", "finalizer"} /\ w'.cfg = mode /\ w'.st = cache.status
    BY <1>5 DEF StartReconcile
  <2> QED
    BY <1>b, <1>i, <2>1 DEF ProbedInv, Vouched
<1>6. CASE SetFinalizer
  <2>1. w' = Idle \/ Proceed(FirstStep, PreProcessReconcile(w.st, w.obj.gen))
    BY <1>6 DEF SetFinalizer, Retry
  <2>2. FirstStep = FirstVirtualServiceStep
    BY SpecsAssumption DEF FirstStep, WorkerDesires, Desired, Unfailing
  <2>3. Vouched(PreProcessReconcile(w.st, w.obj.gen)) /\ w.cfg = "gateway"
    BY <1>t, <1>6, PreProcessVouched DEF ProbedInv, SetFinalizer
  <2>4. ASSUME Proceed(FirstStep, PreProcessReconcile(w.st, w.obj.gen)) PROVE Goal
    <3>1. w'.pc = FirstVirtualServiceStep /\ w'.cfg = w.cfg /\ w'.st = PreProcessReconcile(w.st, w.obj.gen)
      BY <1>t, <2>2, <2>4, ProceedMoves
    <3>2. Vouched(w.st)'
      BY <1>b, <2>3, <3>1, StaysVouched DEF Vouched
    <3> QED
      BY <2>3, <3>1, <3>2, FirstSteps
  <2> QED
    BY <1>i, <2>1, <2>4
<1>7. CASE FinalizeKind
  <2>1. w' = Idle \/ Proceed("clearFinalizer", w.st)
    BY <1>7 DEF FinalizeKind, Retry
  <2> QED
    BY <1>7, <1>i, <1>s, <1>t, <2>1, ProceedMoves DEF FinalizeKind
<1>8. CASE WriteStatus \/ ClearFinalizer \/ Restart
  BY <1>8, <1>i DEF WriteStatus, ClearFinalizer, Retry, Restart
<1>9. CASE w' = w
  BY <1>9, <1>b DEF ProbedInv, Vouched
<1>10. CASE w' = Idle
  BY <1>10, <1>i
<1> QED
  BY <1>b, <1>1, <1>2, <1>3, <1>4, <1>5, <1>6, <1>7, <1>8, <1>9, <1>10, StepKinds
  DEF KindStep, ProbeCompletes, SyncIngress, UpdateSpec, DeleteIngress

(* The statuses in the API server and in the cache. *)
LEMMA ProbedStatuses ==
  ASSUME TypeOK, ProbedInv, [Next]_vars
  PROVE  Vouched(ing.status)' /\ Vouched(cache.status)'
<1>t. ing \in Ingress
  BY DEF TypeOK
<1>b. probed \subseteq probed'
  BY ProbedGrows
<1>s. ASSUME ing'.status \in {ing.status, w.st}, cache'.status \in {cache.status, ing.status}
      PROVE  Vouched(ing.status)' /\ Vouched(cache.status)'
  BY <1>s, <1>b, StaysVouched DEF ProbedInv, Vouched
<1>1. CASE KindStep
  BY <1>1, <1>s, KindStepMoves
<1>2. CASE StartReconcile \/ FinalizeKind \/ ProbeCompletes
  BY <1>2, <1>s DEF StartReconcile, FinalizeKind, ProbeCompletes
<1>3. CASE SetFinalizer
  BY <1>3, <1>s, <1>t DEF SetFinalizer, Ingress
<1>4. CASE WriteStatus
  BY <1>4, <1>s, <1>t DEF WriteStatus, Ingress
<1>5. CASE ClearFinalizer
  BY <1>5, <1>s, <1>t DEF ClearFinalizer, Ingress
<1>6. CASE SyncIngress \/ Restart
  BY <1>6, <1>s DEF SyncIngress, Restart
<1>7. ASSUME NEW s \in Specs, UpdateSpec(s) PROVE Vouched(ing.status)' /\ Vouched(cache.status)'
  BY <1>7, <1>s, <1>t DEF UpdateSpec, Ingress
<1>8. CASE DeleteIngress
  BY <1>8, <1>s, <1>t DEF DeleteIngress, Ingress
<1>9. CASE UNCHANGED <<ing, cache>>
  BY <1>9, <1>s
<1> QED
  BY <1>1, <1>2, <1>3, <1>4, <1>5, <1>6, <1>7, <1>8, <1>9, StepKinds

(* The mode changes only with the configuration. *)
LEMMA ModeStays ==
  ASSUME [Next]_vars, ~FlipConfig
  PROVE  mode' = mode
<1>1. CASE UNCHANGED vars
  BY <1>1 DEF vars
<1>2. CASE WorkerStep \/ CallFails
  BY <1>2 DEF WorkerStep, StartReconcile, SetFinalizer, ReconcileCertSecrets, ReconcileIngressGateways,
              ReconcileVirtualService, DropExtraVirtualService, CheckReady, CleanupIngressGateways,
              CleanupTLSSecrets, WriteStatus, FinalizeKind, ClearFinalizer, CallFails
<1>3. CASE SyncIngress \/ ProbeCompletes \/ \E k \in Kinds : SyncObject(k)
  BY <1>3 DEF SyncIngress, ProbeCompletes, SyncObject
<1>4. CASE Environment
  BY <1>4 DEF Environment, UpdateSpec, DeleteIngress, PeriodicResync, RotateCertificate,
              Restart, Tamper, ForeignVirtualService, CollectGarbage
<1> QED
  BY <1>1, <1>2, <1>3, <1>4 DEF Next

(* Where no call fails, no Gateway of an Ingress can conflict and the mode     *)
(* stays, an Ingress reported Ready through the gateways was reported ready by *)
(* the prober for the observed generation: edits that come and go,             *)
(* VirtualServices of others, deletions and restarts do not make the shortcut  *)
(* of reconcileIngress (no probe of an Ingress that is ready already) wrong.   *)
THEOREM ReadyProbedCorrect ==
  ASSUME Unfailing
  PROVE  Spec => []ReadyImpliesProbed
<1>1. Init => ProbedInv
  <2> SUFFICES ASSUME Init PROVE ProbedInv
    OBVIOUS
  <2>1. PICK s \in Specs : ing = [live |-> TRUE, gen |-> 1, spec |-> s, fin |-> FALSE,
                                  del |-> FALSE, status |-> NoStatus]
    BY DEF Init
  <2>2. ing.status = NoStatus /\ cache.status = NoStatus /\ w.st = NoStatus /\ w.pc = "idle"
    BY <2>1 DEF Init, Idle
  <2>3. Vouched(NoStatus)
    BY DEF Vouched, NoStatus
  <2> QED
    BY <2>2, <2>3 DEF Init, ProbedInv, Unfailing
<1>2. TypeOK /\ ProbedInv /\ [Next]_vars => ProbedInv'
  <2> SUFFICES ASSUME TypeOK, ProbedInv, [Next]_vars PROVE ProbedInv'
    OBVIOUS
  <2>1. budget'["fault"] = 0 /\ budget'["flip"] = 0 /\ mode' = "gateway"
    BY UnspentBudget, ModeStays DEF ProbedInv
  <2> QED
    BY <2>1, ProbedWorker, ProbedStatuses DEF ProbedInv
<1>3. ProbedInv => ReadyImpliesProbed
  BY DEF ProbedInv, Vouched, ReadyImpliesProbed
<1> QED
  BY <1>1, <1>2, <1>3, TypeCorrect, PTL DEF Spec

=============================================================================

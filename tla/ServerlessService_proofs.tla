---------------------- MODULE ServerlessService_proofs ----------------------
(***************************************************************************)
(* Proofs about ServerlessService, for any number of services of one name  *)
(* and any budget of events: type correctness, that no object is ever      *)
(* taken over, and that the pods of a service are addressable at rest.     *)
(***************************************************************************)
EXTENDS ServerlessService, TLAPS

(* What the API server or a lister can hold under a name. *)
Objects == Object \cup {Absent}

(* What one write makes of a function on the kinds. *)
LEMMA ExceptFacts ==
  ASSUME NEW S, NEW f \in [Kinds -> S], NEW k \in Kinds, NEW v \in S
  PROVE  /\ [f EXCEPT ![k] = v] \in [Kinds -> S]
         /\ [f EXCEPT ![k] = v][k] = v
         /\ \A j \in Kinds \ {k} : [f EXCEPT ![k] = v][j] = f[j]
  OBVIOUS

(* What MakeVirtualService and MakeDestinationRule make is an object of its owner. *)
LEMMA DesiredType ==
  ASSUME NEW k \in Kinds, NEW uid \in 1 .. MaxUid
  PROVE  Desired(k, uid) \in Object /\ Desired(k, uid).owner = uid
  BY UidAssumption DEF Desired, MakeVirtualService, MakeDestinationRule, Object, Subsets

(* A write of an object keeps the types of the API server. *)
LEMMA WriteType ==
  ASSUME TypeOK, NEW k \in Kinds, NEW v \in Objects, Write(k, v)
  PROVE  objs' \in [Kinds -> Objects] /\ lag' \subseteq Kinds \cup {"sks"} /\ wake' \subseteq Kinds
  BY DEF TypeOK, Write, Objects

(* Spending an event keeps the budget a function to Nat. *)
LEMMA SpendType ==
  ASSUME budget \in [Events -> Nat], NEW e \in Events, Spend(e)
  PROVE  budget' \in [Events -> Nat]
<1>1. budget[e] \in Nat /\ budget[e] > 0
  BY DEF Spend
<1>2. budget[e] - 1 \in Nat
  BY <1>1
<1> QED
  BY <1>2 DEF Spend

(* An accessor writes what is desired for the worker's service, or nothing. *)
LEMMA AccessWrites ==
  ASSUME NEW k \in Kinds, NEW next, Access(k, next)
  PROVE  \/ ApiUnchanged
         \/ NeedsWrite(k) /\ AcceptsWrite(k) /\ Write(k, Desired(k, w.uid))
  BY DEF Access

(* An accessor keeps the types. *)
LEMMA AccessType ==
  ASSUME TypeOK, NEW k \in Kinds, w.pc = k, NEW next \in Worker, Access(k, next)
  PROVE  /\ objs' \in [Kinds -> Objects] /\ lag' \subseteq Kinds \cup {"sks"} /\ wake' \subseteq Kinds
         /\ w' \in Worker /\ queued' \in BOOLEAN
<1>1. w.uid \in 1 .. MaxUid /\ Idle \in Worker
  BY DEF TypeOK, Worker, Idle, Kinds
<1>2. Desired(k, w.uid) \in Objects
  BY <1>1, DesiredType DEF Objects
<1>3. objs' \in [Kinds -> Objects] /\ lag' \subseteq Kinds \cup {"sks"} /\ wake' \subseteq Kinds
  BY <1>2, AccessWrites, WriteType DEF ApiUnchanged, TypeOK, Objects
<1> QED
  BY <1>1, <1>3 DEF Access, Retry, TypeOK

-----------------------------------------------------------------------------
(* Every step keeps the types. *)
LEMMA TypeInductive ==
  ASSUME TypeOK, [Next]_vars
  PROVE  TypeOK'
<1> USE DEF Objects
<1>i. Idle \in Worker /\ NoService \in Service /\ Absent \in Objects
  BY UidAssumption DEF Worker, Idle, NoService, Service, Nobody
<1>1. CASE UNCHANGED vars
  BY <1>1 DEF vars, TypeOK
<1>2. CASE StartReconcile
  <2>1. cache.uid # Nobody => cache.uid \in 1 .. MaxUid
    BY UidAssumption DEF TypeOK, Service, Nobody
  <2>2. w' \in Worker
    BY <1>2, <1>i, <2>1 DEF StartReconcile, Worker, Kinds
  <2> QED
    BY <1>2, <2>2 DEF StartReconcile, ApiUnchanged, TypeOK
<1>3. CASE ReconcileVirtualService
  <2>1. "vs" \in Kinds /\ [w EXCEPT !.pc = "dr"] \in Worker
    BY <1>3 DEF ReconcileVirtualService, TypeOK, Worker, Kinds, Idle
  <2> QED
    BY <1>3, <2>1, AccessType DEF ReconcileVirtualService, TypeOK
<1>4. CASE ReconcileDestinationRule
  <2>1. "dr" \in Kinds
    BY DEF Kinds
  <2> QED
    BY <1>4, <1>i, <2>1, AccessType DEF ReconcileDestinationRule, TypeOK
<1>5. CASE CallFails
  <2>1. budget' \in [Events -> Nat]
    BY <1>5, SpendType DEF CallFails, TypeOK, Events
  <2> QED
    BY <1>5, <1>i, <2>1 DEF CallFails, Retry, ApiUnchanged, TypeOK
<1>6. CASE SyncService \/ Resync
  BY <1>6 DEF SyncService, Resync, TypeOK
<1>7. CASE FlipSetting
  <2>1. budget' \in [Events -> Nat]
    BY <1>7, SpendType DEF FlipSetting, TypeOK, Events
  <2> QED
    BY <1>7, <2>1 DEF FlipSetting, TypeOK
<1>8. CASE CreateService \/ NamePrivateService \/ DeleteService
  <2>1. CASE CreateService
    <3>1. uids \in Nat /\ uids + 1 \in 0 .. MaxUid
      BY <2>1, UidAssumption DEF CreateService, TypeOK
    <3> QED
      BY <2>1, <3>1 DEF CreateService, ServiceStep, TypeOK, Service
  <2>2. CASE NamePrivateService \/ DeleteService
    <3>1. sks' \in Service
      BY <2>2, <1>i DEF NamePrivateService, DeleteService, ServiceStep, TypeOK, Service
    <3> QED
      BY <2>2, <3>1 DEF NamePrivateService, DeleteService, ServiceStep, TypeOK
  <2> QED
    BY <1>8, <2>1, <2>2
<1>9. ASSUME NEW k \in Kinds, SyncObject(k) PROVE TypeOK'
  BY <1>9 DEF SyncObject, Deliver, TypeOK, EventEnqueues
<1>10. ASSUME NEW k \in Kinds, CollectGarbage(k) PROVE TypeOK'
  BY <1>10, <1>i, WriteType DEF CollectGarbage, EnvWrite, TypeOK
<1>11. ASSUME NEW k \in Kinds, Tamper(k) PROVE TypeOK'
  <2>1. budget' \in [Events -> Nat]
    BY <1>11, SpendType DEF Tamper, TypeOK, Events
  <2>2. PICK v \in {Absent, [objs[k] EXCEPT !.subsets = {}]} : EnvWrite(k, v)
    BY <1>11 DEF Tamper
  <2>3. v \in Objects
    BY <1>11 DEF Tamper, Controlled, TypeOK, Object
  <2> QED
    BY <2>1, <2>2, <2>3, WriteType DEF EnvWrite, TypeOK
<1>12. ASSUME NEW k \in Kinds, ForeignObject(k) PROVE TypeOK'
  <2>1. budget' \in [Events -> Nat]
    BY <1>12, SpendType DEF ForeignObject, TypeOK, Events
  <2>2. [owner |-> Nobody, subsets |-> {}] \in Objects
    BY UidAssumption DEF Object, Nobody
  <2> QED
    BY <1>12, <1>i, <2>1, <2>2, WriteType DEF ForeignObject, EnvWrite, TypeOK
<1>13. CASE Restart
  <2>1. budget' \in [Events -> Nat]
    BY <1>13, SpendType DEF Restart, TypeOK, Events
  <2> QED
    BY <1>13, <1>i, <2>1 DEF Restart, TypeOK
<1>14. ASSUME NEW k \in Kinds, FindDeleted(k) PROVE TypeOK'
  <2>1. budget' \in [Events -> Nat]
    BY <1>14, SpendType DEF FindDeleted, TypeOK, Events
  <2> QED
    BY <1>14, <2>1 DEF FindDeleted, Deliver, TypeOK
<1> QED
  BY <1>1, <1>2, <1>3, <1>4, <1>5, <1>6, <1>7, <1>8, <1>9, <1>10, <1>11, <1>12, <1>13, <1>14
     DEF Next, WorkerStep

(* The initial states are well typed. *)
LEMMA InitType == Init => TypeOK
<1> SUFFICES ASSUME Init PROVE TypeOK
  OBVIOUS
<1>1. sks \in Service /\ cache \in Service
  BY UidAssumption DEF Init, NoService, Service, Nobody
<1>2. /\ objs \in [Kinds -> Object \cup {Absent}] /\ lister \in [Kinds -> Object \cup {Absent}]
      /\ lag \subseteq Kinds \cup {"sks"} /\ wake \subseteq Kinds
  BY DEF Init
<1>3. w \in Worker /\ uids \in 0 .. MaxUid /\ budget \in [Events -> Nat]
  BY UidAssumption, EventsAssumption DEF Init, Worker
<1>4. enabled \in BOOLEAN /\ queued \in BOOLEAN /\ seen \in BOOLEAN
  BY DEF Init
<1> QED
  BY <1>1, <1>2, <1>3, <1>4 DEF TypeOK

(* The state keeps its shape, and the early returns of ReconcileKind keep the *)
(* worker from working for a service that is gone from the cache.             *)
THEOREM ServiceTypeCorrect == Spec => []TypeOK
  BY InitType, TypeInductive, PTL DEF Spec

-----------------------------------------------------------------------------
(***************************************************************************)
(* Nothing is taken over.                                                  *)
(***************************************************************************)

(* An object without undelivered events is in the lister as it is in the API *)
(* server.                                                                   *)
ListerCurrent == \A k \in Kinds \ lag : lister[k] = objs[k]

(* A write that leaves the object with its owner, if it leaves it at all. *)
KeepsOwner(k, v) == objs[k] = Absent \/ v = Absent \/ v.owner = objs[k].owner

(* What a step does to the objects: nothing, a write that keeps the owner, *)
(* the delivery of an event, or a new list of everything.                  *)
ObjectStep ==
  \/ UNCHANGED <<objs, lister>> /\ (lag \ {"sks"}) \subseteq lag'
  \/ \E k \in Kinds : \E v \in Objects : Write(k, v) /\ KeepsOwner(k, v) /\ UNCHANGED lister
  \/ \E k \in Kinds : Deliver(k)
  \/ Restart

(* An accessor keeps the owner: it creates where there is nothing, and updates *)
(* only a current copy of which it has checked the owner.                      *)
LEMMA AccessKeepsOwner ==
  ASSUME TypeOK, ListerCurrent, NEW k \in Kinds, w.pc = k, NEW next, Access(k, next), UNCHANGED lister
  PROVE  ObjectStep
<1>1. w.uid \in 1 .. MaxUid
  BY DEF TypeOK, Worker, Idle, Kinds
<1>2. Desired(k, w.uid) \in Objects /\ Desired(k, w.uid).owner = w.uid
  BY <1>1, DesiredType DEF Objects
<1>3. CASE ApiUnchanged
  BY <1>3 DEF ApiUnchanged, ObjectStep
<1>4. CASE NeedsWrite(k) /\ AcceptsWrite(k) /\ Write(k, Desired(k, w.uid))
  <2>1. KeepsOwner(k, Desired(k, w.uid))
    BY <1>2, <1>4 DEF NeedsWrite, NotControlled, AcceptsWrite, ListerCurrent, KeepsOwner
  <2> QED
    BY <1>2, <1>4, <2>1 DEF ObjectStep
<1> QED
  BY <1>3, <1>4, AccessWrites

(* Every step is an object step. *)
LEMMA StepIsObjectStep ==
  ASSUME TypeOK, ListerCurrent, [Next]_vars
  PROVE  ObjectStep
<1>1. CASE UNCHANGED vars
  BY <1>1 DEF vars, ObjectStep
<1>2. CASE StartReconcile \/ CallFails \/ Resync \/ FlipSetting
  BY <1>2 DEF StartReconcile, CallFails, Resync, FlipSetting, ApiUnchanged, ObjectStep
<1>3. CASE ReconcileVirtualService \/ ReconcileDestinationRule
  BY <1>3, AccessKeepsOwner DEF ReconcileVirtualService, ReconcileDestinationRule, Kinds
<1>4. CASE SyncService
  BY <1>4 DEF SyncService, ObjectStep
<1>5. CASE CreateService \/ NamePrivateService \/ DeleteService
  BY <1>5 DEF CreateService, NamePrivateService, DeleteService, ServiceStep, ObjectStep
<1>6. ASSUME NEW k \in Kinds, CollectGarbage(k) PROVE ObjectStep
  BY <1>6 DEF CollectGarbage, EnvWrite, ObjectStep, KeepsOwner, Objects
<1>7. ASSUME NEW k \in Kinds, Tamper(k) PROVE ObjectStep
  <2>1. PICK v \in {Absent, [objs[k] EXCEPT !.subsets = {}]} : EnvWrite(k, v)
    BY <1>7 DEF Tamper
  <2>2. v \in Objects /\ KeepsOwner(k, v)
    BY <1>7 DEF Tamper, Controlled, TypeOK, Object, Objects, KeepsOwner
  <2> QED
    BY <2>1, <2>2 DEF EnvWrite, ObjectStep
<1>8. ASSUME NEW k \in Kinds, ForeignObject(k) PROVE ObjectStep
  <2>1. [owner |-> Nobody, subsets |-> {}] \in Objects /\ Absent \in Objects
    BY UidAssumption DEF Object, Objects, Nobody
  <2> QED
    BY <1>8, <2>1 DEF ForeignObject, EnvWrite, ObjectStep, KeepsOwner
<1>9. ASSUME NEW k \in Kinds, SyncObject(k) \/ FindDeleted(k) PROVE ObjectStep
  BY <1>9 DEF SyncObject, FindDeleted, ObjectStep
<1> QED
  BY <1>1, <1>2, <1>3, <1>4, <1>5, <1>6, <1>7, <1>8, <1>9 DEF Next, WorkerStep, ObjectStep

(* An object step keeps the lister current and every object with its owner. *)
LEMMA ListerInductive ==
  ASSUME TypeOK, ListerCurrent, ObjectStep
  PROVE  /\ ListerCurrent'
         /\ \A k \in Kinds : objs[k] # Absent /\ objs'[k] # Absent => objs'[k].owner = objs[k].owner
<1> USE DEF ListerCurrent
<1>o. objs \in [Kinds -> Objects] /\ lister \in [Kinds -> Objects] /\ "sks" \notin Kinds
  BY DEF TypeOK, Objects, Kinds
<1>1. CASE UNCHANGED <<objs, lister>> /\ (lag \ {"sks"}) \subseteq lag'
  BY <1>1, <1>o
<1>2. ASSUME NEW k \in Kinds, NEW v \in Objects, Write(k, v), KeepsOwner(k, v), UNCHANGED lister
      PROVE  /\ ListerCurrent'
             /\ \A j \in Kinds : objs[j] # Absent /\ objs'[j] # Absent => objs'[j].owner = objs[j].owner
  <2>1. objs'[k] = v /\ \A j \in Kinds \ {k} : objs'[j] = objs[j]
    BY <1>2, <1>o, ExceptFacts DEF Write
  <2> QED
    BY <1>2, <2>1 DEF Write, KeepsOwner
<1>3. ASSUME NEW k \in Kinds, Deliver(k)
      PROVE  /\ ListerCurrent'
             /\ \A j \in Kinds : objs[j] # Absent /\ objs'[j] # Absent => objs'[j].owner = objs[j].owner
  <2>1. lister'[k] = objs[k] /\ \A j \in Kinds \ {k} : lister'[j] = lister[j]
    BY <1>3, <1>o, ExceptFacts DEF Deliver
  <2> QED
    BY <1>3, <2>1 DEF Deliver
<1>4. CASE Restart
  BY <1>4 DEF Restart
<1> QED
  BY <1>1, <1>2, <1>3, <1>4 DEF ObjectStep

(* ReconcileVirtualService and ReconcileDestinationRule never replace an     *)
(* object of somebody else or of a deleted service of the same name.         *)
THEOREM NeverTakenOverCorrect == Spec => NeverTakenOver
<1>1. Init => ListerCurrent
  BY DEF Init, ListerCurrent
<1>2. /\ TypeOK /\ ListerCurrent /\ [Next]_vars => ListerCurrent'
      /\ TypeOK /\ ListerCurrent /\ [Next]_vars
           => [\A k \in Kinds : objs[k] # Absent /\ objs'[k] # Absent
                                  => objs'[k].owner = objs[k].owner]_vars
  BY StepIsObjectStep, ListerInductive
<1> QED
  BY <1>1, <1>2, ServiceTypeCorrect, PTL DEF Spec, NeverTakenOver

-----------------------------------------------------------------------------
(***************************************************************************)
(* Addressable at rest.                                                    *)
(*                                                                         *)
(* At rest there is nothing to argue from but the state itself, so the     *)
(* invariant says what is true while work is left: whatever is not as the  *)
(* service wants it is waited for by the queue, by an event that will fill *)
(* the queue, or by the worker, who has yet to come to it.                 *)
(***************************************************************************)

(* An event that enqueues the service is an event not delivered yet, and any *)
(* event about an object that the lister knows as a service's enqueues: the  *)
(* handlers see the version before and after.                                *)
WakePending ==
  /\ wake \subseteq lag
  /\ \A k \in Kinds : k \in lag /\ Controlled(lister[k]) => k \in wake

(* The service's own cache is behind only while its event is under way. *)
CacheCurrent == "sks" \notin lag => cache = sks

(* The worker works for the present service, or it will be called again. *)
WorkerCurrent == ~queued /\ "sks" \notin lag /\ w.pc # "idle" => w.uid = sks.uid

(* The worker has yet to come to this object. *)
Ahead(k) == w.pc = "vs" \/ (w.pc = "dr" /\ k = "dr")

(* Nobody is waiting for the queue, and the last pass had the setting on. *)
Watched == seen /\ Wanted /\ ~queued /\ "sks" \notin lag

(* An object is as it should be, or somebody will see to it. *)
Attended == Watched => \A k \in Kinds : objs[k] = Desired(k, sks.uid) \/ k \in wake \/ Ahead(k)

(* The inductive invariant. *)
RestInv ==
  /\ TypeOK
  /\ ListerCurrent
  /\ WakePending
  /\ CacheCurrent
  /\ WorkerCurrent
  /\ Attended

(* What the service wants is controlled by it. *)
LEMMA DesiredControlled ==
  ASSUME NEW k \in Kinds, NEW uid \in 1 .. MaxUid
  PROVE  Controlled(Desired(k, uid)) /\ Desired(k, uid) # Absent
<1>1. Desired(k, uid) \in Object /\ Desired(k, uid).owner = uid
  BY DesiredType
<1>2. uid # 0
  BY UidAssumption
<1> QED
  BY <1>1, <1>2, AbsentAssumption DEF Controlled, Nobody

(* A write, whoever makes it, leaves an event that enqueues the service if the *)
(* object was or becomes a service's, and no such event is lost.               *)
LEMMA WriteWakes ==
  ASSUME TypeOK, ListerCurrent, WakePending, NEW k \in Kinds, NEW v \in Objects,
         Write(k, v), UNCHANGED lister
  PROVE  /\ WakePending'
         /\ wake \subseteq wake' /\ lag \subseteq lag' /\ ("sks" \in lag' => "sks" \in lag)
         /\ objs'[k] = v /\ \A j \in Kinds \ {k} : objs'[j] = objs[j]
         /\ Controlled(objs[k]) \/ Controlled(v) => k \in wake'
<1>1. objs'[k] = v /\ \A j \in Kinds \ {k} : objs'[j] = objs[j]
  BY ExceptFacts DEF Write, TypeOK, Objects
<1>2. /\ wake \subseteq wake' /\ lag \subseteq lag' /\ ("sks" \in lag' => "sks" \in lag)
      /\ lag' = lag \cup {k} /\ wake' \subseteq wake \cup {k}
      /\ Controlled(objs[k]) \/ Controlled(v) => k \in wake'
  BY DEF Write, Kinds
<1>3. ASSUME NEW j \in Kinds, j \in lag', Controlled(lister'[j]) PROVE j \in wake'
  <2>1. CASE j \in lag
    BY <1>2, <1>3, <2>1 DEF WakePending
  <2>2. CASE j \notin lag
    <3>1. j = k /\ lister[k] = objs[k]
      BY <1>2, <1>3, <2>2 DEF ListerCurrent
    <3> QED
      BY <1>2, <1>3, <3>1
  <2> QED
    BY <2>1, <2>2
<1>4. wake' \subseteq lag'
  BY <1>2 DEF WakePending
<1> QED
  BY <1>1, <1>2, <1>3, <1>4 DEF WakePending

(* The service is one of those there have been. *)
LEMMA WantedUid ==
  ASSUME TypeOK, Wanted
  PROVE  sks.uid \in 1 .. MaxUid
  BY UidAssumption DEF TypeOK, Wanted, Service, Nobody

(* What somebody else does to an object is attended to. *)
LEMMA EnvWriteAttended ==
  ASSUME RestInv, NEW k \in Kinds, NEW v \in Objects, EnvWrite(k, v)
  PROVE  WakePending' /\ CacheCurrent' /\ WorkerCurrent' /\ Attended'
<1> USE DEF RestInv
<1>1. /\ WakePending' /\ wake \subseteq wake' /\ lag \subseteq lag' /\ ("sks" \in lag' => "sks" \in lag)
      /\ objs'[k] = v /\ \A j \in Kinds \ {k} : objs'[j] = objs[j]
      /\ Controlled(objs[k]) \/ Controlled(v) => k \in wake'
  BY WriteWakes DEF EnvWrite
<1>2. CacheCurrent' /\ WorkerCurrent'
  BY <1>1 DEF EnvWrite, CacheCurrent, WorkerCurrent
<1>3. ASSUME Watched', NEW j \in Kinds
      PROVE  objs'[j] = Desired(j, sks.uid) \/ j \in wake' \/ Ahead(j)
  <2>1. Watched
    BY <1>1, <1>3 DEF EnvWrite, Watched, Wanted
  <2>2. objs[j] = Desired(j, sks.uid) \/ j \in wake \/ Ahead(j)
    BY <2>1 DEF Attended
  <2>3. Controlled(Desired(j, sks.uid))
    BY <2>1, WantedUid, DesiredControlled DEF Watched
  <2> QED
    BY <1>1, <2>2, <2>3
<1>4. sks' = sks /\ w' = w
  BY DEF EnvWrite
<1> QED
  BY <1>1, <1>2, <1>3, <1>4 DEF Attended, Ahead

(* An accessor that returns without an error leaves the object as its service *)
(* wants it, or an event under way: its lister was behind.                    *)
LEMMA AccessAttends ==
  ASSUME RestInv, NEW k \in Kinds, w.pc = k, NEW next, Access(k, next), UNCHANGED lister
  PROVE  /\ WakePending'
         /\ wake \subseteq wake' /\ ("sks" \in lag' <=> "sks" \in lag)
         /\ \A j \in Kinds \ {k} : objs'[j] = objs[j]
         /\ \/ w' = Idle /\ queued' = TRUE
            \/ w' = next /\ UNCHANGED queued /\ (objs'[k] = Desired(k, w.uid) \/ k \in wake')
<1> USE DEF RestInv
<1>1. w.uid \in 1 .. MaxUid
  BY DEF TypeOK, Worker, Idle, Kinds
<1>2. Desired(k, w.uid) \in Objects /\ Controlled(Desired(k, w.uid))
  BY <1>1, DesiredType, DesiredControlled DEF Objects
<1>3. CASE NotControlled(k) \/ (NeedsWrite(k) /\ ~AcceptsWrite(k))
  BY <1>3 DEF Access, Retry, ApiUnchanged, WakePending
<1>4. CASE ~NotControlled(k) /\ ~NeedsWrite(k)
  <2>1. w' = next /\ UNCHANGED queued /\ ApiUnchanged
    BY <1>4 DEF Access
  <2>2. lister[k] = Desired(k, w.uid)
    BY <1>4 DEF NeedsWrite
  <2>3. objs[k] = Desired(k, w.uid) \/ k \in wake
    BY <1>2, <2>2 DEF WakePending, ListerCurrent
  <2> QED
    BY <2>1, <2>3 DEF ApiUnchanged, WakePending
<1>5. CASE NeedsWrite(k) /\ AcceptsWrite(k)
  <2>1. w' = next /\ UNCHANGED queued /\ Write(k, Desired(k, w.uid))
    BY <1>5 DEF Access, NeedsWrite
  <2> QED
    BY <1>2, <2>1, WriteWakes
<1> QED
  BY <1>3, <1>4, <1>5 DEF NeedsWrite

(* A step that leaves the objects and their events alone, or makes the service *)
(* known to the queue, keeps what is said about events.                        *)
LEMMA QuietWakes ==
  ASSUME WakePending, UNCHANGED <<lister, wake>>, lag' \cap Kinds = lag \cap Kinds, wake \subseteq Kinds
  PROVE  WakePending'
  BY DEF WakePending

(* A delivery leaves the object current, and enqueues whatever it was that the *)
(* service had to know of, unless the event is dropped.                        *)
LEMMA DeliverAttended ==
  ASSUME RestInv, NEW k \in Kinds, Deliver(k), k \in wake => queued' = TRUE \/ seen' = FALSE,
         queued => queued', seen' => seen
  PROVE  WakePending' /\ CacheCurrent' /\ WorkerCurrent' /\ Attended'
<1> USE DEF RestInv
<1>1. lister'[k] = objs[k] /\ \A j \in Kinds \ {k} : lister'[j] = lister[j]
  BY ExceptFacts DEF Deliver, TypeOK, Objects
<1>2. WakePending'
  BY <1>1 DEF Deliver, WakePending
<1>3. "sks" \in lag' <=> "sks" \in lag
  BY DEF Deliver, Kinds
<1>4. CacheCurrent' /\ WorkerCurrent'
  BY <1>3 DEF Deliver, CacheCurrent, WorkerCurrent
<1>5. ASSUME Watched', NEW j \in Kinds
      PROVE  objs'[j] = Desired(j, sks.uid) \/ j \in wake' \/ Ahead(j)
  <2>1. Watched /\ k \notin wake
    BY <1>3, <1>5 DEF Deliver, Watched, Wanted
  <2>2. objs[j] = Desired(j, sks.uid) \/ j \in wake \/ Ahead(j)
    BY <2>1 DEF Attended
  <2> QED
    BY <2>1, <2>2 DEF Deliver
<1>6. sks' = sks /\ w' = w
  BY DEF Deliver
<1> QED
  BY <1>2, <1>4, <1>5, <1>6 DEF Attended, Ahead

(* A step that keeps the objects, their events and the worker, and does not *)
(* empty the queue, keeps the invariant.                                    *)
LEMMA QuietAttended ==
  ASSUME RestInv, UNCHANGED <<sks, cache, objs, lister, lag, wake, w>>, queued => queued', seen' => seen
  PROVE  WakePending' /\ CacheCurrent' /\ WorkerCurrent' /\ Attended'
<1>1. WakePending' /\ CacheCurrent' /\ WorkerCurrent'
  BY DEF RestInv, WakePending, CacheCurrent, WorkerCurrent
<1>2. Watched' => Watched
  BY DEF Watched, Wanted
<1> QED
  BY <1>1, <1>2 DEF RestInv, Attended, Ahead

(* Every step keeps the invariant. *)
LEMMA RestInductive ==
  ASSUME RestInv, [Next]_vars
  PROVE  RestInv'
<1>t. TypeOK' /\ ListerCurrent'
  BY TypeInductive, StepIsObjectStep, ListerInductive DEF RestInv
<1> DEFINE Goal == WakePending' /\ CacheCurrent' /\ WorkerCurrent' /\ Attended'
<1> SUFFICES Goal
  BY <1>t DEF RestInv
<1>k. "vs" \in Kinds /\ "dr" \in Kinds /\ "sks" \notin Kinds
  BY DEF Kinds
<1>1. CASE UNCHANGED vars
  BY <1>1, QuietAttended DEF vars
<1>2. CASE StartReconcile
  <2>1. WakePending' /\ CacheCurrent'
    BY <1>2 DEF StartReconcile, ApiUnchanged, RestInv, WakePending, CacheCurrent
  <2>2. WorkerCurrent'
    BY <1>2 DEF StartReconcile, ApiUnchanged, RestInv, CacheCurrent, WorkerCurrent, Idle
  <2>3. ASSUME Watched' PROVE w'.pc = "vs"
    <3>1. enabled /\ cache.uid # Nobody /\ cache.named
      BY <1>2, <2>3 DEF StartReconcile, ApiUnchanged, RestInv, CacheCurrent, Watched, Wanted
    <3> QED
      BY <1>2, <3>1 DEF StartReconcile
  <2> QED
    BY <2>1, <2>2, <2>3 DEF Attended, Ahead
<1>3. CASE ReconcileVirtualService
  <2>1. /\ WakePending' /\ wake \subseteq wake' /\ ("sks" \in lag' <=> "sks" \in lag)
        /\ \A j \in Kinds \ {"vs"} : objs'[j] = objs[j]
        /\ \/ w' = Idle /\ queued' = TRUE
           \/ /\ w' = [w EXCEPT !.pc = "dr"] /\ UNCHANGED queued
              /\ objs'["vs"] = Desired("vs", w.uid) \/ "vs" \in wake'
    BY <1>3, <1>k, AccessAttends DEF ReconcileVirtualService
  <2>2. CASE w' = Idle /\ queued' = TRUE
    BY <1>3, <2>1, <2>2 DEF ReconcileVirtualService, RestInv, CacheCurrent, WorkerCurrent, Attended, Watched
  <2>3. CASE /\ w' = [w EXCEPT !.pc = "dr"] /\ UNCHANGED queued
             /\ objs'["vs"] = Desired("vs", w.uid) \/ "vs" \in wake'
    <3>1. w'.pc = "dr" /\ w'.uid = w.uid /\ w.pc = "vs"
      BY <1>3, <2>3 DEF ReconcileVirtualService, RestInv, TypeOK, Worker, Idle
    <3>2. CacheCurrent' /\ WorkerCurrent'
      BY <1>3, <2>1, <2>3, <3>1 DEF ReconcileVirtualService, RestInv, CacheCurrent, WorkerCurrent
    <3>3. ASSUME Watched' PROVE w.uid = sks.uid
      BY <1>3, <2>1, <2>3, <3>1, <3>3 DEF ReconcileVirtualService, RestInv, WorkerCurrent, Watched
    <3> QED
      BY <1>3, <2>1, <2>3, <3>1, <3>2, <3>3 DEF ReconcileVirtualService, Attended, Ahead, Kinds
  <2> QED
    BY <2>1, <2>2, <2>3
<1>4. CASE ReconcileDestinationRule
  <2>1. /\ WakePending' /\ wake \subseteq wake' /\ ("sks" \in lag' <=> "sks" \in lag)
        /\ \A j \in Kinds \ {"dr"} : objs'[j] = objs[j]
        /\ \/ w' = Idle /\ queued' = TRUE
           \/ w' = Idle /\ UNCHANGED queued /\ (objs'["dr"] = Desired("dr", w.uid) \/ "dr" \in wake')
    BY <1>4, <1>k, AccessAttends DEF ReconcileDestinationRule
  <2>2. CacheCurrent' /\ WorkerCurrent'
    BY <1>4, <2>1 DEF ReconcileDestinationRule, RestInv, CacheCurrent, WorkerCurrent, Idle
  <2>3. ASSUME Watched', NEW j \in Kinds PROVE objs'[j] = Desired(j, sks.uid) \/ j \in wake'
    <3>1. w.pc = "dr" /\ Watched
      BY <1>4, <2>1, <2>3 DEF ReconcileDestinationRule, Watched, Wanted
    <3>2. w.uid = sks.uid
      BY <3>1 DEF RestInv, WorkerCurrent, Watched
    <3>3. CASE j = "dr"
      BY <2>1, <2>3, <3>2, <3>3 DEF Watched
    <3>4. CASE j = "vs"
      <4>1. objs[j] = Desired(j, sks.uid) \/ j \in wake
        BY <3>1, <3>4 DEF RestInv, Attended, Ahead
      <4> QED
        BY <2>1, <3>4, <4>1
    <3> QED
      BY <3>3, <3>4 DEF Kinds
  <2> QED
    BY <1>4, <2>1, <2>2, <2>3 DEF ReconcileDestinationRule, Attended
<1>5. CASE CallFails
  <2>1. WakePending' /\ CacheCurrent'
    BY <1>5 DEF CallFails, ApiUnchanged, RestInv, WakePending, CacheCurrent
  <2> QED
    BY <1>5, <2>1 DEF CallFails, Retry, WorkerCurrent, Attended, Watched
<1>6. CASE SyncService
  <2>1. WakePending'
    BY <1>6, <1>k, QuietWakes DEF SyncService, RestInv, TypeOK
  <2> QED
    BY <1>6, <2>1 DEF SyncService, CacheCurrent, WorkerCurrent, Attended, Watched
<1>7. CASE Resync \/ FlipSetting
  BY <1>7, QuietAttended DEF Resync, FlipSetting
<1>8. CASE CreateService \/ NamePrivateService \/ DeleteService
  <2>1. lag' = lag \cup {"sks"} /\ UNCHANGED <<lister, wake>>
    BY <1>8 DEF CreateService, NamePrivateService, DeleteService, ServiceStep
  <2>2. WakePending'
    BY <1>k, <2>1, QuietWakes DEF RestInv, TypeOK
  <2> QED
    BY <2>1, <2>2 DEF CacheCurrent, WorkerCurrent, Attended, Watched
<1>9. ASSUME NEW k \in Kinds, SyncObject(k) PROVE Goal
  BY <1>9, DeliverAttended DEF SyncObject, EventEnqueues, RestInv, TypeOK
<1>10. ASSUME NEW k \in Kinds, FindDeleted(k) PROVE Goal
  BY <1>10, DeliverAttended DEF FindDeleted
<1>11. ASSUME NEW k \in Kinds, CollectGarbage(k) PROVE Goal
  BY <1>11, EnvWriteAttended DEF CollectGarbage, Objects
<1>12. ASSUME NEW k \in Kinds, Tamper(k) PROVE Goal
  <2>1. PICK v \in {Absent, [objs[k] EXCEPT !.subsets = {}]} : EnvWrite(k, v)
    BY <1>12 DEF Tamper
  <2>2. v \in Objects
    BY <1>12 DEF Tamper, Controlled, RestInv, TypeOK, Object, Objects
  <2> QED
    BY <2>1, <2>2, EnvWriteAttended
<1>13. ASSUME NEW k \in Kinds, ForeignObject(k) PROVE Goal
  <2>1. [owner |-> Nobody, subsets |-> {}] \in Objects /\ Absent \in Objects
    BY UidAssumption DEF Object, Objects, Nobody
  <2> QED
    BY <1>13, <2>1, EnvWriteAttended DEF ForeignObject
<1>14. CASE Restart
  <2>1. WakePending' /\ CacheCurrent' /\ WorkerCurrent'
    BY <1>14 DEF Restart, WakePending, CacheCurrent, WorkerCurrent, Idle
  <2>2. ~Watched'
    BY <1>14 DEF Restart, Watched, Wanted
  <2> QED
    BY <2>1, <2>2 DEF Attended
<1> QED
  BY <1>1, <1>2, <1>3, <1>4, <1>5, <1>6, <1>7, <1>8, <1>9, <1>10, <1>11, <1>12, <1>13, <1>14
     DEF Next, WorkerStep

(* The initial states satisfy the invariant: no reconciliation has run. *)
LEMMA InitRest == Init => RestInv
<1> SUFFICES ASSUME Init PROVE RestInv
  OBVIOUS
<1>1. ListerCurrent /\ WakePending /\ CacheCurrent
  BY DEF Init, ListerCurrent, WakePending, CacheCurrent
<1>2. WorkerCurrent /\ Attended
  BY DEF Init, WorkerCurrent, Attended, Watched, Idle
<1> QED
  BY <1>1, <1>2, InitType DEF RestInv

(* At rest nobody is left to attend to an object, so both are as wanted. *)
LEMMA RestAddressable == RestInv => AddressableAtRest
<1> SUFFICES ASSUME RestInv, AtRest, Wanted, seen PROVE Addressable
  BY DEF AddressableAtRest
<1>1. Watched /\ wake = {} /\ w = Idle
  BY DEF RestInv, AtRest, Watched, WakePending
<1>2. \A k \in Kinds : objs[k] = Desired(k, sks.uid)
  BY <1>1 DEF RestInv, Attended, Ahead, Idle
<1>3. \A k \in Kinds : Desired(k, sks.uid) # Absent /\ Desired(k, sks.uid).owner = sks.uid
  BY WantedUid, DesiredType, DesiredControlled DEF RestInv
<1>4. objs["vs"].subsets = {"direct", "normal"} /\ objs["dr"].subsets = {"normal", "direct"}
  BY <1>2 DEF Desired, MakeVirtualService, MakeDestinationRule, Kinds
<1> QED
  BY <1>2, <1>3, <1>4 DEF Addressable

(* When nothing is left to do and the last reconciliation had the setting on, *)
(* the pods of a service are addressable: no interleaving of writes of others, *)
(* failed calls, deletions and restarts loses the event that would repair it.  *)
THEOREM AddressableCorrect == Spec => []AddressableAtRest
  BY InitRest, RestInductive, RestAddressable, PTL DEF Spec

=============================================================================

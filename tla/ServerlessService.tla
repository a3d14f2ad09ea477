------------------------- MODULE ServerlessService -------------------------
(***************************************************************************)
(* The life of ONE ServerlessService key in the controller that makes pods *)
(* of a service addressable through the mesh: a VirtualService that routes *)
(* to two subsets, a DestinationRule that defines them, both of the name   *)
(* of the private service.                                                 *)
(*                                                                         *)
(* Simplifications.                                                        *)
(*  - The private service's name is a function of the key: a service that  *)
(*    is deleted and made again finds the objects of the one before.       *)
(*  - An object is its owner and the subsets it names.                     *)
(*  - An informer jumps to the newest state of an object and delivers the  *)
(*    events in between with it; its watch does not break.                 *)
(*  - A deletion removes the ServerlessService at once: the reconciler has *)
(*    no finalizer.                                                        *)
(***************************************************************************)
EXTENDS Naturals

CONSTANTS
  MaxUid,   \* how many ServerlessServices of that name there may be, one after the other
  Absent,   \* no such object
  Budget    \* how often each event of the environment may happen

Events == {"flip", "tamper", "foreign", "fault", "restart", "relist"}

ASSUME UidAssumption == MaxUid \in Nat
ASSUME EventsAssumption == Budget \in [Events -> Nat]

VARIABLES
  sks,      \* the ServerlessService in the API server
  cache,    \* the ServerlessService in the informer's cache
  enabled,  \* Network.EnableMeshPodAddressability in the configuration store
  objs,     \* the two objects in the API server
  lister,   \* the two objects in the informers' caches
  lag,      \* what has events not delivered yet
  wake,     \* the objects among them with an event that is about a ServerlessService's
  queued,   \* the key is in the work queue
  w,        \* the worker
  seen,     \* history: the last reconciliation saw the setting on, and no event was dropped since
  uids,     \* how many ServerlessServices there have been
  budget    \* what is left of Budget

vars == <<sks, cache, enabled, objs, lister, lag, wake, queued, w, seen, uids, budget>>

-----------------------------------------------------------------------------
(***************************************************************************)
(* State.                                                                  *)
(***************************************************************************)
Kinds == {"vs", "dr"}
Subsets == {"normal", "direct"}
Nobody == 0   \* the owner of what no ServerlessService controls

Service == [uid: 0 .. MaxUid, named: BOOLEAN]
NoService == [uid |-> Nobody, named |-> FALSE]
Object == [owner: 0 .. MaxUid, subsets: SUBSET Subsets]
ASSUME AbsentAssumption == Absent \notin Object

Idle == [pc |-> "idle", uid |-> Nobody]
Worker == {Idle} \cup [pc: Kinds, uid: 1 .. MaxUid]

(* Requests with the pass-through header go to "direct", the others to "normal". *)
MakeVirtualService(uid) == [owner |-> uid, subsets |-> {"direct", "normal"}]

(* "normal" balances the load, "direct" passes through. *)
MakeDestinationRule(uid) == [owner |-> uid, subsets |-> {"normal", "direct"}]

Desired(k, uid) == IF k = "vs" THEN MakeVirtualService(uid) ELSE MakeDestinationRule(uid)

Controlled(v) == v # Absent /\ v.owner # Nobody

Spend(e) == budget[e] > 0 /\ budget' = [budget EXCEPT ![e] = @ - 1]

-----------------------------------------------------------------------------
(***************************************************************************)
(* API server and accessors.                                               *)
(***************************************************************************)
ApiUnchanged == UNCHANGED <<objs, lag, wake>>

(* A write and its event; the handlers see the version before and after. *)
Write(k, v) ==
  /\ objs' = [objs EXCEPT ![k] = v]
  /\ lag' = lag \cup {k}
  /\ wake' = IF Controlled(objs[k]) \/ Controlled(v) THEN wake \cup {k} ELSE wake

(* Create needs the name to be free, Update the lister's copy to be current. *)
AcceptsWrite(k) == IF lister[k] = Absent THEN objs[k] = Absent ELSE k \notin lag

NotControlled(k) == lister[k] # Absent /\ lister[k].owner # w.uid

NeedsWrite(k) == ~NotControlled(k) /\ lister[k] # Desired(k, w.uid)

(* The key goes back to the queue with an error. *)
Retry == w' = Idle /\ queued' = TRUE

(* Slip: the object is not asked who controls it. *)
AccessUncontrolled(k, next) ==
  LET write == lister[k] # Desired(k, w.uid)
  IN  IF write /\ ~AcceptsWrite(k)
      THEN Retry /\ ApiUnchanged
      ELSE /\ IF write THEN Write(k, Desired(k, w.uid)) ELSE ApiUnchanged
           /\ w' = next
           /\ UNCHANGED queued

(* Get from the lister; then create, refuse what the service does not        *)
(* control, or update on a difference.                                       *)
Access(k, next) ==
  IF NotControlled(k) \/ (NeedsWrite(k) /\ ~AcceptsWrite(k))
  THEN Retry /\ ApiUnchanged
  ELSE /\ IF NeedsWrite(k) THEN Write(k, Desired(k, w.uid)) ELSE ApiUnchanged
       /\ w' = next
       /\ UNCHANGED queued

-----------------------------------------------------------------------------
(***************************************************************************)
(* The worker.                                                             *)
(***************************************************************************)

(* Slip: a ServerlessService that is gone is reconciled as the cache had it. *)
StartReconcileUnchecked ==
  /\ w.pc = "idle"
  /\ queued
  /\ queued' = FALSE
  /\ seen' = enabled
  /\ w' = IF enabled /\ (cache.uid = Nobody \/ cache.named) THEN [pc |-> "vs", uid |-> cache.uid] ELSE Idle
  /\ ApiUnchanged
  /\ UNCHANGED <<sks, cache, enabled, lister, uids, budget>>

(* Nothing to do without the service, its private service or the setting. *)
StartReconcile ==
  /\ w.pc = "idle"
  /\ queued
  /\ queued' = FALSE
  /\ seen' = enabled
  /\ w' = IF enabled /\ cache.uid # Nobody /\ cache.named
          THEN [pc |-> "vs", uid |-> cache.uid]
          ELSE Idle
  /\ ApiUnchanged
  /\ UNCHANGED <<sks, cache, enabled, lister, uids, budget>>

ReconcileVirtualService ==
  /\ w.pc = "vs"
  /\ Access("vs", [w EXCEPT !.pc = "dr"])
  /\ UNCHANGED <<sks, cache, enabled, lister, seen, uids, budget>>

ReconcileDestinationRule ==
  /\ w.pc = "dr"
  /\ Access("dr", Idle)
  /\ UNCHANGED <<sks, cache, enabled, lister, seen, uids, budget>>

(* A Create or an Update fails. *)
CallFails ==
  /\ w.pc \in Kinds /\ NeedsWrite(w.pc)
  /\ Spend("fault")
  /\ Retry
  /\ ApiUnchanged
  /\ UNCHANGED <<sks, cache, enabled, lister, seen, uids>>

WorkerStep == StartReconcile \/ ReconcileVirtualService \/ ReconcileDestinationRule

-----------------------------------------------------------------------------
(***************************************************************************)
(* Informers and configuration.                                            *)
(***************************************************************************)
SyncService ==
  /\ "sks" \in lag
  /\ lag' = lag \ {"sks"}
  /\ cache' = sks
  /\ queued' = TRUE
  /\ UNCHANGED <<sks, enabled, objs, lister, wake, w, seen, uids, budget>>

(* Slip: only VirtualServices are watched. *)
EventEnqueuesVirtualServices(k) == k = "vs" /\ k \in wake

(* FilterController and EnqueueControllerOf. *)
EventEnqueues(k) == k \in wake

Deliver(k) ==
  /\ k \in lag
  /\ lag' = lag \ {k}
  /\ wake' = wake \ {k}
  /\ lister' = [lister EXCEPT ![k] = objs[k]]
  /\ UNCHANGED <<sks, cache, enabled, objs, w, uids>>

SyncObject(k) ==
  /\ Deliver(k)
  /\ queued' = (queued \/ EventEnqueues(k))
  /\ UNCHANGED <<seen, budget>>

(* After a broken watch the deletion is found by a new list and delivered as *)
(* a DeletedFinalStateUnknown, which FilterController takes for no object.   *)
FindDeleted(k) ==
  /\ objs[k] = Absent /\ lister[k] # Absent
  /\ Spend("relist")
  /\ Deliver(k)
  /\ seen' = FALSE
  /\ UNCHANGED queued

(* Slip: a resync only delivers objects that changed. *)
ResyncNothing == UNCHANGED vars

(* A new configuration of Istio (GlobalResync), or the informer's resync: *)
(* whatever the cache holds is enqueued.                                  *)
Resync ==
  /\ cache.uid # Nobody
  /\ queued' = TRUE
  /\ UNCHANGED <<sks, cache, enabled, objs, lister, lag, wake, w, seen, uids, budget>>

(* A new configuration of the network is stored; the resync is for Istio's only. *)
FlipSetting ==
  /\ Spend("flip")
  /\ enabled' = ~enabled
  /\ UNCHANGED <<sks, cache, objs, lister, lag, wake, queued, w, seen, uids>>

-----------------------------------------------------------------------------
(***************************************************************************)
(* The rest of the cluster.                                                *)
(***************************************************************************)
ServiceStep(s) ==
  /\ sks' = s
  /\ lag' = lag \cup {"sks"}
  /\ UNCHANGED <<cache, enabled, objs, lister, wake, queued, w, seen, budget>>

CreateService ==
  /\ sks = NoService /\ uids < MaxUid
  /\ uids' = uids + 1
  /\ ServiceStep([uid |-> uids + 1, named |-> FALSE])

(* Serving has made the private service. *)
NamePrivateService ==
  /\ sks.uid # Nobody /\ ~sks.named
  /\ ServiceStep([sks EXCEPT !.named = TRUE])
  /\ UNCHANGED uids

(* The last ServerlessService stays: the bound on their number. *)
DeleteService ==
  /\ sks.uid # Nobody /\ uids < MaxUid
  /\ ServiceStep(NoService)
  /\ UNCHANGED uids

EnvWrite(k, v) ==
  /\ Write(k, v)
  /\ UNCHANGED <<sks, cache, enabled, lister, queued, w, seen, uids>>

(* Objects go with the ServerlessService that controls them. *)
CollectGarbage(k) ==
  /\ Controlled(objs[k]) /\ objs[k].owner # sks.uid
  /\ EnvWrite(k, Absent)
  /\ UNCHANGED budget

(* Somebody deletes or edits an object. *)
Tamper(k) ==
  /\ Spend("tamper")
  /\ Controlled(objs[k])
  /\ \E v \in {Absent, [objs[k] EXCEPT !.subsets = {}]} : EnvWrite(k, v)

(* Somebody creates or removes an object of that name of their own. *)
ForeignObject(k) ==
  /\ Spend("foreign")
  /\ ~Controlled(objs[k])
  /\ EnvWrite(k, IF objs[k] = Absent THEN [owner |-> Nobody, subsets |-> {}] ELSE Absent)

(* The process dies; its successor lists everything. *)
Restart ==
  /\ Spend("restart")
  /\ cache' = sks /\ lister' = objs
  /\ lag' = {} /\ wake' = {}
  /\ queued' = (sks.uid # Nobody \/ \E k \in Kinds : Controlled(objs[k]))
  /\ w' = Idle
  /\ UNCHANGED <<sks, enabled, objs, seen, uids>>

-----------------------------------------------------------------------------
Init ==
  /\ sks = NoService /\ cache = NoService
  /\ enabled \in BOOLEAN
  /\ objs = [k \in Kinds |-> Absent] /\ lister = objs
  /\ lag = {} /\ wake = {}
  /\ queued = FALSE
  /\ w = Idle
  /\ seen = FALSE
  /\ uids = 0
  /\ budget = Budget

Next ==
  \/ WorkerStep \/ CallFails
  \/ SyncService \/ Resync \/ FlipSetting
  \/ CreateService \/ NamePrivateService \/ DeleteService
  \/ \E k \in Kinds : SyncObject(k) \/ FindDeleted(k) \/ CollectGarbage(k) \/ Tamper(k) \/ ForeignObject(k)
  \/ Restart

Spec == Init /\ [][Next]_vars

(* The worker runs, informers deliver and resync, garbage is collected. *)
FairSpec ==
  /\ Spec
  /\ WF_vars(WorkerStep) /\ WF_vars(SyncService) /\ WF_vars(Resync)
  /\ \A k \in Kinds : WF_vars(SyncObject(k)) /\ WF_vars(CollectGarbage(k))

-----------------------------------------------------------------------------
(***************************************************************************)
(* Properties.                                                             *)
(***************************************************************************)

(* The state has its shape; the worker only works for a service that exists *)
(* in the cache with a private service (early returns of ReconcileKind).    *)
TypeOK ==
  /\ sks \in Service /\ cache \in Service
  /\ enabled \in BOOLEAN /\ queued \in BOOLEAN /\ seen \in BOOLEAN
  /\ objs \in [Kinds -> Object \cup {Absent}] /\ lister \in [Kinds -> Object \cup {Absent}]
  /\ lag \subseteq Kinds \cup {"sks"} /\ wake \subseteq Kinds
  /\ w \in Worker
  /\ uids \in 0 .. MaxUid
  /\ budget \in [Events -> Nat]

Wanted == sks.uid # Nobody /\ sks.named

AtRest == w = Idle /\ ~queued /\ lag = {}

(* Both objects belong to the service, the header's route exists, and every *)
(* subset that is routed to is defined: what makes its pods addressable.    *)
Addressable ==
  /\ \A k \in Kinds : objs[k] # Absent /\ objs[k].owner = sks.uid
  /\ "direct" \in objs["vs"].subsets
  /\ objs["vs"].subsets \subseteq objs["dr"].subsets

(* No event is lost: when nothing is left to do and the last reconciliation *)
(* ran with the setting on, the pods of a service are addressable, whatever *)
(* was deleted, edited, owned by others or failed between the two writes.   *)
(* (A broken watch may drop an event, and the setting has no event.)        *)
AddressableAtRest == AtRest /\ Wanted /\ seen => Addressable

(* The accessors never take an object over, be it somebody else's or that of *)
(* a deleted ServerlessService of the same name, stale as their lister is.   *)
NeverTakenOver ==
  [][\A k \in Kinds : objs[k] # Absent /\ objs'[k] # Absent => objs'[k].owner = objs[k].owner]_vars

(* A service that stays, with the setting left on and nobody else's objects *)
(* in the way, becomes and stays addressable: after a switch of the setting *)
(* or a dropped event it is the informer's resync that sees to it.          *)
EventuallyAddressable ==
  <>[](Wanted /\ enabled /\ \A k \in Kinds : objs[k] = Absent \/ Controlled(objs[k]))
    => <>[]Addressable

=============================================================================

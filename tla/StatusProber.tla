---------------------------- MODULE StatusProber ----------------------------
(***************************************************************************)
(* The status prober: IsReady as the ingress controller calls it, the work *)
(* queue of probes, the goroutines that wait for cancellation, and the     *)
(* counters they share without a lock.                                     *)
(*                                                                         *)
(* A step is one section under the mutex, one atomic operation on a        *)
(* counter, or one decision of a goroutine.                                *)
(*                                                                         *)
(* Simplifications.                                                        *)
(*  - A pod is its IP.  The probes of one pod for one Ingress state are    *)
(*    counted, not named: their URLs make no difference here.              *)
(*  - The work queue keeps no order, delays are left out, and there is    *)
(*    always a worker for a probe.  A probe that fails goes back to the     *)
(*    queue as it was.                                                      *)
(*  - Controllers call IsReady for one key at a time, which the work queue *)
(*    of the controller ensures, and cancel a key only between such calls  *)
(*    (IngressReconciler: FinalizerHeld).                                  *)
(***************************************************************************)
EXTENDS Integers, FiniteSets

CONSTANTS
  Keys,        \* the Ingresses
  Hashes,      \* the hashes of their specs
  Pods,        \* the IPs of gateway pods
  MaxStates,   \* how many states IsReady may create
  MaxURLs,     \* how many probes a pod may be given at once
  Limits       \* how often each event of the environment may happen

Happenings == {"podDeleted", "podStarted", "watchBroken", "listFails", "cancel"}

ASSUME ProberAssumption ==
  /\ Keys # {} /\ "none" \notin Hashes
  /\ IsFiniteSet(Pods)
  /\ MaxStates \in Nat /\ MaxURLs \in Nat \ {0}
  /\ Limits \in [Happenings -> Nat]

VARIABLES
  made,       \* how many ingressStates IsReady has created: their ids are 1 .. made
  state,      \* the ingressStates by id, whether they are still in the map or not
  pod,        \* the podStates, with the probes and goroutines that refer to them
  current,    \* the map ingressStates: the id of a key, 0 if it has none
  contexts,   \* the map podContexts
  caller,     \* IsReady, by key
  answer,     \* history: what IsReady last answered, from which state
  woken,      \* the keys that the callback enqueued and no IsReady has followed up
  alive,      \* the pods that exist
  endpoints,  \* the pods in the Endpoints lister
  deleted,    \* the pods whose deletion the pod informer has yet to deliver
  limits      \* what is left of Limits

vars == <<made, state, pod, current, contexts, caller, answer, woken, alive, endpoints, deleted, limits>>

Ids == 1 .. MaxStates

(* done: the context of the state is cancelled.  calling: the readyCallback   *)
(* is about to be called; called: history, how often it was.                  *)
NoState == [key |-> CHOOSE k \in Keys : TRUE, hash |-> "none",
            pending |-> 0, done |-> FALSE, calling |-> 0, called |-> 0]

(* size: the probes it was made with.  pending: pendingCount.  done: podCtx    *)
(* itself is cancelled.  ip: which context of the pod it was joined with.      *)
(* watch: the goroutine that waits for podCtx; seen: the pendingCount it loaded.*)
(* queued, passed: probes in the queue or with a worker, and verified but not  *)
(* yet counted.  owed: decrements of the Ingress's pendingCount to do.         *)
(* ok, settled: history, the probes verified and the decrements done.          *)
NoPod == [size |-> 0, pending |-> 0, done |-> FALSE, ip |-> 0, watch |-> "none", seen |-> 0,
          queued |-> 0, passed |-> 0, owed |-> 0, ok |-> 0, settled |-> 0]

NoCaller == [pc |-> "idle", hash |-> "none", id |-> 0, todo |-> {}]
NoAnswer == [verdict |-> "none", hash |-> "none", id |-> 0]

Targets(i) == {p \in Pods : pod[i][p].size > 0}

(* A context in the map is open; the one before it, or the last one once it  *)
(* left the map, is cancelled.                                               *)
IpCancelled(i, p) ==
  pod[i][p].ip > 0 /\ (pod[i][p].ip < contexts[p].last \/ ~contexts[p].open)

(* podCtx is a child of the context of the Ingress state. *)
CtxDone(i, p) == pod[i][p].done \/ state[i].done

Use(e) == limits[e] > 0 /\ limits' = [limits EXCEPT ![e] = @ - 1]

-----------------------------------------------------------------------------
(***************************************************************************)
(* IsReady.                                                                *)
(***************************************************************************)

(* Under the mutex: answer from a state of the same hash, or cancel it. *)
CheckState(k, h) ==
  /\ caller[k].pc = "idle"
  /\ woken' = woken \ {k}
  /\ IF current[k] # 0 /\ state[current[k]].hash = h
     THEN /\ answer' = [answer EXCEPT ![k] =
               [verdict |-> IF state[current[k]].pending = 0 THEN "ready" ELSE "notReady",
                hash |-> h, id |-> current[k]]]
          /\ UNCHANGED <<state, current, caller>>
     ELSE /\ made < MaxStates
          /\ state' = IF current[k] # 0 THEN [state EXCEPT ![current[k]].done = TRUE] ELSE state
          /\ current' = [current EXCEPT ![k] = 0]
          /\ caller' = [caller EXCEPT ![k] = [pc |-> "list", hash |-> h, id |-> 0, todo |-> {}]]
          /\ answer' = [answer EXCEPT ![k] = NoAnswer]
  /\ UNCHANGED <<made, pod, contexts, alive, endpoints, deleted, limits>>

(* The probes by pod.  Any pods of the Endpoints lister: a Gateway without    *)
(* Service, or without a server to probe, is skipped.                         *)
ListProbeTargets == UNION {[ips -> 1 .. MaxURLs] : ips \in SUBSET endpoints}

(* The targets are grouped by pod and counted. *)
ListTargets(k) ==
  /\ caller[k].pc = "list"
  /\ made < MaxStates
  /\ \E urls \in ListProbeTargets :
       LET id == made + 1
           ips == DOMAIN urls
       IN  /\ made' = id
           /\ state' = [state EXCEPT ![id] = [NoState EXCEPT !.key = k, !.hash = caller[k].hash,
                                                             !.pending = Cardinality(ips)]]
           /\ pod' = [pod EXCEPT ![id] = [p \in Pods |->
                        IF p \in ips THEN [NoPod EXCEPT !.size = urls[p], !.pending = urls[p]] ELSE NoPod]]
           /\ caller' = [caller EXCEPT ![k].pc = "register", ![k].id = id, ![k].todo = ips]
  /\ UNCHANGED <<current, contexts, answer, woken, alive, endpoints, deleted, limits>>

(* The controller retries. *)
ListFails(k) ==
  /\ caller[k].pc = "list"
  /\ Use("listFails")
  /\ caller' = [caller EXCEPT ![k] = NoCaller]
  /\ woken' = woken \cup {k}
  /\ UNCHANGED <<made, state, pod, current, contexts, answer, alive, endpoints, deleted>>

(* One turn of the loop: the context of the IP, under the mutex, the two     *)
(* goroutines and the probes.                                                *)
RegisterPod(k, p) ==
  /\ caller[k].pc = "register" /\ p \in caller[k].todo
  /\ LET ctx == IF contexts[p].open THEN contexts[p] ELSE [last |-> contexts[p].last + 1, open |-> TRUE]
     IN  /\ contexts' = [contexts EXCEPT ![p] = ctx]
         /\ pod' = [pod EXCEPT ![caller[k].id][p].ip = ctx.last,
                               ![caller[k].id][p].watch = "waiting",
                               ![caller[k].id][p].queued = pod[caller[k].id][p].size]
  /\ caller' = [caller EXCEPT ![k].todo = @ \ {p}]
  /\ UNCHANGED <<made, state, current, answer, woken, alive, endpoints, deleted, limits>>

(* Under the mutex again: the state becomes the one of the key. *)
StoreState(k) ==
  /\ caller[k].pc = "register" /\ caller[k].todo = {}
  /\ current' = [current EXCEPT ![k] = caller[k].id]
  /\ answer' = [answer EXCEPT ![k] =
       [verdict |-> IF Targets(caller[k].id) = {} THEN "ready" ELSE "notReady",
        hash |-> caller[k].hash, id |-> caller[k].id]]
  /\ caller' = [caller EXCEPT ![k] = NoCaller]
  /\ UNCHANGED <<made, state, pod, contexts, woken, alive, endpoints, deleted, limits>>

-----------------------------------------------------------------------------
(***************************************************************************)
(* processWorkItem, and the counters.                                      *)
(***************************************************************************)
(* What a pod can answer: one of the hashes, no hash, or another status. *)
Responses == Hashes \cup {"noHash", "notFound", "unavailable", "otherStatus"}

(* 404 and 503 mean not yet, and so does another hash; anything else ends it. *)
probeVerifier(r, hash) == r \notin {"notFound", "unavailable"} /\ (r \in Hashes => r = hash)

(* A probe that was answered well while its context was not cancelled.  Any   *)
(* other answer, or none, leaves the probe in the queue.                      *)
ProbeVerified(i, p) ==
  /\ pod[i][p].queued > 0
  /\ p \in alive
  /\ ~CtxDone(i, p)
  /\ \E r \in Responses : probeVerifier(r, state[i].hash)
  /\ pod' = [pod EXCEPT ![i][p].queued = @ - 1, ![i][p].passed = @ + 1, ![i][p].ok = @ + 1]
  /\ UNCHANGED <<made, state, current, contexts, caller, answer, woken, alive, endpoints, deleted, limits>>

(* Slip: a probe of a cancelled context is retried like one that failed. *)
ProbeNeverDropped(i, p) == pod[i][p].queued > 0 /\ CtxDone(i, p) /\ UNCHANGED vars

(* In case of cancellation, drop the work item. *)
ProbeDropped(i, p) ==
  /\ pod[i][p].queued > 0
  /\ CtxDone(i, p)
  /\ pod' = [pod EXCEPT ![i][p].queued = @ - 1]
  /\ UNCHANGED <<made, state, current, contexts, caller, answer, woken, alive, endpoints, deleted, limits>>

(* Slip: the first probe of a pod that succeeds makes it ready. *)
onProbingSuccessFirst(i, p) ==
  /\ pod[i][p].passed > 0
  /\ pod' = [pod EXCEPT ![i][p].passed = @ - 1, ![i][p].pending = 0, ![i][p].done = TRUE,
                        ![i][p].owed = IF pod[i][p].pending > 0 THEN @ + 1 ELSE @]
  /\ UNCHANGED <<made, state, current, contexts, caller, answer, woken, alive, endpoints, deleted, limits>>

(* Slip: the counter is compared before it is decremented. *)
onProbingSuccessOffByOne(i, p) ==
  /\ pod[i][p].passed > 0
  /\ LET last == pod[i][p].pending = 0
     IN  pod' = [pod EXCEPT ![i][p].passed = @ - 1, ![i][p].pending = @ - 1,
                            ![i][p].done = @ \/ last, ![i][p].owed = IF last THEN @ + 1 ELSE @]
  /\ UNCHANGED <<made, state, current, contexts, caller, answer, woken, alive, endpoints, deleted, limits>>

(* podState.pendingCount.Add(-1), and podState.cancel() if that was the last. *)
onProbingSuccess(i, p) ==
  /\ pod[i][p].passed > 0
  /\ LET last == pod[i][p].pending = 1
     IN  pod' = [pod EXCEPT ![i][p].passed = @ - 1, ![i][p].pending = @ - 1,
                            ![i][p].done = @ \/ last, ![i][p].owed = IF last THEN @ + 1 ELSE @]
  /\ UNCHANGED <<made, state, current, contexts, caller, answer, woken, alive, endpoints, deleted, limits>>

(* Slip: the context of the IP is not waited for. *)
JoinNothing(i, p) == pod[i][p].ip > 0 /\ ~CtxDone(i, p) /\ IpCancelled(i, p) /\ UNCHANGED vars

(* The goroutine that joins podCtx with the context of the IP. *)
JoinContexts(i, p) ==
  /\ pod[i][p].ip > 0
  /\ ~CtxDone(i, p) /\ IpCancelled(i, p)
  /\ pod' = [pod EXCEPT ![i][p].done = TRUE]
  /\ UNCHANGED <<made, state, current, contexts, caller, answer, woken, alive, endpoints, deleted, limits>>

(* onProbingCancellation: Load, and return if probing had succeeded. *)
LoadPending(i, p) ==
  /\ pod[i][p].watch = "waiting"
  /\ CtxDone(i, p)
  /\ pod' = IF pod[i][p].pending <= 0
            THEN [pod EXCEPT ![i][p].watch = "ended"]
            ELSE [pod EXCEPT ![i][p].watch = "loaded", ![i][p].seen = pod[i][p].pending]
  /\ UNCHANGED <<made, state, current, contexts, caller, answer, woken, alive, endpoints, deleted, limits>>

(* Slip: a plain Store(0) in the place of the compare-and-swap. *)
StoreZero(i, p) ==
  /\ pod[i][p].watch = "loaded"
  /\ pod' = [pod EXCEPT ![i][p].pending = 0, ![i][p].owed = @ + 1, ![i][p].watch = "ended"]
  /\ UNCHANGED <<made, state, current, contexts, caller, answer, woken, alive, endpoints, deleted, limits>>

(* CompareAndSwap(pendingCount, 0), and around again if it fails. *)
SwapPending(i, p) ==
  /\ pod[i][p].watch = "loaded"
  /\ pod' = IF pod[i][p].pending = pod[i][p].seen
            THEN [pod EXCEPT ![i][p].pending = 0, ![i][p].owed = @ + 1,
                              ![i][p].watch = "ended", ![i][p].seen = 0]
            ELSE [pod EXCEPT ![i][p].watch = "waiting", ![i][p].seen = 0]
  /\ UNCHANGED <<made, state, current, contexts, caller, answer, woken, alive, endpoints, deleted, limits>>

(* Slip: nobody calls back for the last pod. *)
SettlePodSilently(i, p) ==
  /\ pod[i][p].owed > 0
  /\ pod' = [pod EXCEPT ![i][p].owed = @ - 1, ![i][p].settled = @ + 1]
  /\ state' = [state EXCEPT ![i].pending = @ - 1]
  /\ UNCHANGED <<made, current, contexts, caller, answer, woken, alive, endpoints, deleted, limits>>

(* ingressState.pendingCount.Add(-1), by whoever brought the pod to zero. *)
SettlePod(i, p) ==
  /\ pod[i][p].owed > 0
  /\ pod' = [pod EXCEPT ![i][p].owed = @ - 1, ![i][p].settled = @ + 1]
  /\ state' = [state EXCEPT ![i].pending = @ - 1,
                            ![i].calling = IF state[i].pending = 1 THEN @ + 1 ELSE @]
  /\ UNCHANGED <<made, current, contexts, caller, answer, woken, alive, endpoints, deleted, limits>>

(* readyCallback enqueues the key of the Ingress, cancelled or not. *)
CallReady(i) ==
  /\ state[i].calling > 0
  /\ state' = [state EXCEPT ![i].calling = @ - 1, ![i].called = @ + 1]
  /\ woken' = woken \cup {state[i].key}
  /\ UNCHANGED <<made, pod, current, contexts, caller, answer, alive, endpoints, deleted, limits>>

-----------------------------------------------------------------------------
(***************************************************************************)
(* Cancellation, and the pods.                                             *)
(***************************************************************************)
CancelIngressProbing(k) ==
  /\ Use("cancel")
  /\ caller[k].pc = "idle" /\ current[k] # 0
  /\ state' = [state EXCEPT ![current[k]].done = TRUE]
  /\ current' = [current EXCEPT ![k] = 0]
  /\ answer' = [answer EXCEPT ![k] = NoAnswer]
  /\ UNCHANGED <<made, pod, contexts, caller, woken, alive, endpoints, deleted>>

(* The pod informer delivers a deletion. *)
CancelPodProbing(p) ==
  /\ p \in deleted
  /\ deleted' = deleted \ {p}
  /\ contexts' = [contexts EXCEPT ![p].open = FALSE]
  /\ UNCHANGED <<made, state, pod, current, caller, answer, woken, alive, endpoints, limits>>

(* The watch was broken and the deletion is found by listing: the handler is  *)
(* given a DeletedFinalStateUnknown, which is not a Pod.                      *)
DeletionFoundByList(p) ==
  /\ p \in deleted
  /\ Use("watchBroken")
  /\ deleted' = deleted \ {p}
  /\ UNCHANGED <<made, state, pod, current, contexts, caller, answer, woken, alive, endpoints>>

PodDeleted(p) ==
  /\ p \in alive
  /\ Use("podDeleted")
  /\ alive' = alive \ {p}
  /\ deleted' = deleted \cup {p}
  /\ UNCHANGED <<made, state, pod, current, contexts, caller, answer, woken, endpoints>>

(* A pod with an IP that was free. *)
PodStarted(p) ==
  /\ p \notin alive \cup deleted
  /\ Use("podStarted")
  /\ alive' = alive \cup {p}
  /\ UNCHANGED <<made, state, pod, current, contexts, caller, answer, woken, endpoints, deleted>>

SyncEndpoints ==
  /\ endpoints # alive
  /\ endpoints' = alive
  /\ UNCHANGED <<made, state, pod, current, contexts, caller, answer, woken, alive, deleted, limits>>

-----------------------------------------------------------------------------
(***************************************************************************)
(* Specification.                                                          *)
(***************************************************************************)
Init ==
  /\ made = 0
  /\ state = [i \in Ids |-> NoState]
  /\ pod = [i \in Ids |-> [p \in Pods |-> NoPod]]
  /\ current = [k \in Keys |-> 0]
  /\ contexts = [p \in Pods |-> [last |-> 0, open |-> FALSE]]
  /\ caller = [k \in Keys |-> NoCaller]
  /\ answer = [k \in Keys |-> NoAnswer]
  /\ woken = {}
  /\ alive = Pods
  /\ endpoints = alive
  /\ deleted = {}
  /\ limits = Limits

Caller(k) ==
  \/ ListTargets(k) \/ StoreState(k)
  \/ \E p \in Pods : RegisterPod(k, p)

Probing(i, p) ==
  \/ ProbeVerified(i, p) \/ ProbeDropped(i, p) \/ onProbingSuccess(i, p) \/ JoinContexts(i, p)
  \/ LoadPending(i, p) \/ SwapPending(i, p) \/ SettlePod(i, p)

(* What goroutines and informers do by themselves. *)
Progress ==
  \/ \E k \in Keys : Caller(k)
  \/ \E i \in Ids : CallReady(i)
  \/ \E i \in Ids, p \in Pods : Probing(i, p)
  \/ \E p \in Pods : CancelPodProbing(p)
  \/ SyncEndpoints

Next ==
  \/ Progress
  \/ \E k \in Keys : (\E h \in Hashes : CheckState(k, h)) \/ ListFails(k) \/ CancelIngressProbing(k)
  \/ \E p \in Pods : DeletionFoundByList(p) \/ PodDeleted(p) \/ PodStarted(p)

Spec == Init /\ [][Next]_vars

(* Goroutines and informers run, and a pod that exists and is probed again    *)
(* and again gives a good answer in the end: it receives the configuration.   *)
(* None of these steps can repeat for ever, so that one condition for all of  *)
(* them leaves none behind.                                                   *)
FairSpec == Spec /\ WF_vars(Progress)

-----------------------------------------------------------------------------
(***************************************************************************)
(* Properties.                                                             *)
(***************************************************************************)
AnyHash == Hashes \cup {"none"}
States == [key: Keys, hash: AnyHash, pending: Nat, done: BOOLEAN, calling: Nat, called: Nat]
PodStates == [size: Nat, pending: Int, done: BOOLEAN, ip: Nat,
              watch: {"none", "waiting", "loaded", "ended"}, seen: Int,
              queued: Nat, passed: Nat, owed: Nat, ok: Nat, settled: Nat]

(* Every variable keeps its type; the pendingCount of an Ingress is never     *)
(* negative.                                                                  *)
TypeOK ==
  /\ made \in 0 .. MaxStates
  /\ state \in [Ids -> States]
  /\ pod \in [Ids -> [Pods -> PodStates]]
  /\ current \in [Keys -> 0 .. MaxStates]
  /\ contexts \in [Pods -> [last: Nat, open: BOOLEAN]]
  /\ caller \in [Keys -> [pc: {"idle", "list", "register"}, hash: AnyHash, id: 0 .. MaxStates, todo: SUBSET Pods]]
  /\ answer \in [Keys -> [verdict: {"none", "ready", "notReady"}, hash: AnyHash, id: 0 .. MaxStates]]
  /\ woken \subseteq Keys
  /\ alive \subseteq Pods /\ endpoints \subseteq Pods /\ deleted \subseteq Pods
  /\ limits \in [Happenings -> Nat]

(* However success and cancellation race for a pod, it is taken off the       *)
(* pendingCount of its Ingress once: the count is the number of pods that     *)
(* are not settled, and never negative.                                       *)
PendingCountExact ==
  \A i \in Ids : state[i].pending = Cardinality({p \in Targets(i) : pod[i][p].settled = 0})

(* The callback of an Ingress state is called once, when its last pod is      *)
(* settled.                                                                   *)
CallbackOnce ==
  \A i \in Ids : state[i].calling + state[i].called =
    IF state[i].pending = 0 /\ Targets(i) # {} THEN 1 ELSE 0

(* No lost wake-up: a controller that was told "not ready" is called back     *)
(* once the pods are settled, even if that happened before IsReady returned.  *)
NotReadyIsFollowedUp ==
  \A k \in Keys :
    answer[k].verdict = "notReady" =>
      \/ state[answer[k].id].pending > 0
      \/ state[answer[k].id].calling > 0
      \/ k \in woken

(* "Ready" is an answer about the hash that was asked for, and every pod it   *)
(* rests on has passed all of its probes or lost its context.                 *)
VerdictSound ==
  \A k \in Keys :
    answer[k].verdict = "ready" =>
      /\ state[answer[k].id].hash = answer[k].hash
      /\ \A p \in Targets(answer[k].id) :
           pod[answer[k].id][p].ok = pod[answer[k].id][p].size \/ IpCancelled(answer[k].id, p)

(* The probes as the reconciler sees them. *)
NoProbe == [hash |-> "none", done |-> FALSE]
Probes ==
  [k \in Keys |->
    IF current[k] = 0 THEN NoProbe
    ELSE [hash |-> state[current[k]].hash, done |-> state[current[k]].pending = 0]]

Contract == INSTANCE ProbeContract WITH probe <- Probes, None <- NoProbe

(* The counters, the map and the goroutines together behave like one probe    *)
(* per Ingress: it completes once and is not pending again, and it is never   *)
(* replaced by another one of the same spec.                                  *)
ProberImplementsContract == Contract!Spec

(* A cancelled context ends the probing of its pods: each is settled ...      *)
CancelledIsSettled ==
  \A i \in Ids, p \in Pods :
    pod[i][p].ip > 0 /\ (state[i].done \/ IpCancelled(i, p)) ~> pod[i][p].settled = 1

(* ... and leaves nothing in the work queue, which retries for ever.          *)
QueueDrains ==
  \A i \in Ids, p \in Pods :
    pod[i][p].ip > 0 /\ (state[i].done \/ IpCancelled(i, p)) ~> pod[i][p].queued = 0

(* An Ingress whose pods stay alive becomes ready, or is superseded.          *)
ProbingEnds ==
  \A i \in Ids :
    i <= made ~> \/ state[i].pending = 0 \/ state[i].done
                 \/ ~(Targets(i) \subseteq alive)

(* The deletion of a pod that is being probed ends its probing.               *)
ProbedPodIsDropped ==
  \A i \in Ids, p \in Pods :
    pod[i][p].ip > 0 /\ p \in deleted ~> pod[i][p].settled = 1 \/ p \in alive

(* Probing of a pod is cancelled when the pod is deleted.                     *)
DeletedPodIsDropped ==
  \A i \in Ids, p \in Pods :
    p \in Targets(i) /\ p \notin alive ~> pod[i][p].settled = 1 \/ p \in alive

=============================================================================

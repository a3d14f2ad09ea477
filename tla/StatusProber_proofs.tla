------------------------ MODULE StatusProber_proofs ------------------------
(***************************************************************************)
(* Proofs about StatusProber, for any Ingresses, specs, finite set of pods *)
(* and number of states: the counters that goroutines share without a lock *)
(* are exact, the callback is made once and wakes whoever was told "not    *)
(* ready", "ready" is about pods that passed, and all of it together is    *)
(* one probe per Ingress (ProbeContract).                                  *)
(***************************************************************************)
EXTENDS StatusProber, FiniteSetTheorems, TLAPS

-----------------------------------------------------------------------------
(***************************************************************************)
(* The inductive invariant.                                                *)
(***************************************************************************)

(* One pod of one state.  Nothing happens before its registration; each probe *)
(* is queued, verified or dropped; and as soon as the counter is not positive *)
(* exactly one decrement of the Ingress's count is owed or done.              *)
Counted(x) ==
  /\ x.ip = 0 => /\ x.pending = x.size /\ x.queued = 0 /\ x.passed = 0 /\ x.ok = 0
                 /\ x.owed = 0 /\ x.settled = 0 /\ ~x.done /\ x.watch = "none"
  /\ x.size = 0 => x.ip = 0
  /\ x.ok + x.queued <= x.size
  /\ x.pending > 0 => x.pending + x.ok = x.size + x.passed /\ x.owed = 0 /\ x.settled = 0
  /\ x.size > 0 /\ x.pending <= 0 => x.owed + x.settled = 1
  /\ x.watch = "loaded" => x.seen > 0

(* Why the probing of a pod ended: its probes passed, the Ingress was given   *)
(* up, or the context of the IP was cancelled.                                *)
Caused(i, p) ==
  /\ pod[i][p].ip <= contexts[p].last
  /\ pod[i][p].watch = "loaded" => CtxDone(i, p)
  /\ pod[i][p].done => pod[i][p].pending <= 0 \/ IpCancelled(i, p)
  /\ pod[i][p].size > 0 /\ pod[i][p].pending <= 0 =>
       pod[i][p].ok = pod[i][p].size \/ state[i].done \/ IpCancelled(i, p)

PodsInv ==
  /\ \A p \in Pods : contexts[p].open => contexts[p].last > 0
  /\ \A i \in Ids, p \in Pods : Counted(pod[i][p]) /\ Caused(i, p)
  /\ \A i \in Ids : i > made => state[i] = NoState /\ \A p \in Pods : pod[i][p] = NoPod

CountInv == PendingCountExact /\ CallbackOnce

(* A state that was or will be told of is called back for. *)
Followed(k, i) == state[i].pending > 0 \/ state[i].calling > 0 \/ k \in woken

(* The state an IsReady under way has made is its own, and new.               *)
CallerInv ==
  \A k \in Keys :
    /\ caller[k].pc # "idle" =>
         current[k] = 0 /\ caller[k].hash \in Hashes /\ answer[k] = NoAnswer
    /\ caller[k].pc = "register" =>
         /\ caller[k].id \in 1 .. made
         /\ state[caller[k].id].key = k /\ state[caller[k].id].hash = caller[k].hash
         /\ ~state[caller[k].id].done
         /\ \A p \in caller[k].todo : pod[caller[k].id][p].size > 0 /\ pod[caller[k].id][p].ip = 0
         /\ Targets(caller[k].id) # {} => Followed(k, caller[k].id)

(* The state in the map is of its key, and not cancelled; answers are of it.  *)
MapInv ==
  \A k \in Keys :
    /\ current[k] # 0 =>
         /\ current[k] \in 1 .. made
         /\ state[current[k]].key = k /\ state[current[k]].hash \in Hashes
         /\ ~state[current[k]].done
    /\ answer[k].verdict # "none" =>
         /\ current[k] # 0 /\ answer[k].id = current[k]
         /\ state[current[k]].hash = answer[k].hash
    /\ answer[k].verdict = "ready" => state[current[k]].pending = 0

Inv == TypeOK /\ PodsInv /\ CountInv /\ CallerInv /\ MapInv /\ NotReadyIsFollowedUp

-----------------------------------------------------------------------------
(***************************************************************************)
(* Counting.                                                               *)
(***************************************************************************)
Unsettled(i) == {p \in Targets(i) : pod[i][p].settled = 0}

(* The pods of a state that are not settled can be counted. *)
LEMMA UnsettledFinite ==
  ASSUME NEW i \in Ids
  PROVE  /\ IsFiniteSet(Unsettled(i)) /\ Cardinality(Unsettled(i)) \in Nat
         /\ Cardinality(Unsettled(i)) = 0 <=> Unsettled(i) = {}
<1>1. Unsettled(i) \in SUBSET Pods
  BY DEF Unsettled, Targets
<1>2. IsFiniteSet(Unsettled(i))
  BY <1>1, ProberAssumption, FS_Subset
<1> QED
  BY <1>2, FS_CardinalityType, FS_EmptySet

(* A pod that owes a decrement is a registered pod, and not settled. *)
LEMMA OwedIsUnsettled ==
  ASSUME TypeOK, PodsInv, NEW i \in Ids, NEW p \in Pods, pod[i][p].owed > 0
  PROVE  /\ pod[i][p].size > 0 /\ pod[i][p].ip > 0 /\ i <= made
         /\ pod[i][p].owed = 1 /\ pod[i][p].settled = 0 /\ pod[i][p].pending <= 0
<1>1. pod[i][p] \in PodStates /\ Counted(pod[i][p])
  BY DEF TypeOK, PodsInv
<1>2. i <= made
  BY DEF PodsInv, NoPod, TypeOK, Ids
<1> QED
  BY <1>1, <1>2 DEF Counted, PodStates

-----------------------------------------------------------------------------
(***************************************************************************)
(* Steps of one pod that settle nothing.                                   *)
(***************************************************************************)
LocalStep(i, p) ==
  /\ pod' \in [Ids -> [Pods -> PodStates]]
  /\ \A j \in Ids, q \in Pods : j # i \/ q # p => pod'[j][q] = pod[j][q]
  /\ pod[i][p].ip > 0 /\ pod'[i][p].ip = pod[i][p].ip
  /\ pod'[i][p].size = pod[i][p].size /\ pod'[i][p].settled = pod[i][p].settled
  /\ Counted(pod'[i][p])
  /\ Caused(i, p)'
  /\ UNCHANGED <<made, state, current, contexts, caller, answer, woken, alive, endpoints, deleted, limits>>

(* Such a step keeps the invariant: nobody else looks at the pod. *)
LEMMA LocalStepInv ==
  ASSUME Inv, NEW i \in Ids, NEW p \in Pods, LocalStep(i, p)
  PROVE  Inv'
<1> USE DEF Inv
<1>0. UNCHANGED <<made, state, current, contexts, caller, answer, woken, alive, endpoints, deleted, limits>>
  BY DEF LocalStep
<1>1. TypeOK'
  BY <1>0 DEF LocalStep, TypeOK
<1>2. \A j \in Ids, q \in Pods : /\ pod'[j][q].size = pod[j][q].size /\ pod'[j][q].settled = pod[j][q].settled
                               /\ pod'[j][q].ip = pod[j][q].ip
  BY DEF LocalStep
<1>3. \A j \in Ids : Targets(j)' = Targets(j) /\ Unsettled(j)' = Unsettled(j)
  BY <1>2 DEF Targets, Unsettled
<1>4. PodsInv'
  <2>1. ASSUME NEW j \in Ids, NEW q \in Pods PROVE (Counted(pod[j][q]) /\ Caused(j, q))'
    <3>1. CASE j = i /\ q = p
      BY <3>1 DEF LocalStep
    <3>2. CASE j # i \/ q # p
      BY <1>0, <3>2 DEF LocalStep, PodsInv, Caused, CtxDone, IpCancelled
    <3> QED
      BY <3>1, <3>2
  <2>2. i <= made
    BY DEF LocalStep, PodsInv, NoPod, TypeOK, Ids
  <2>3. ASSUME NEW j \in Ids, j > made' PROVE state'[j] = NoState /\ \A q \in Pods : pod'[j][q] = NoPod
    <3>1. j > made /\ j # i
      BY <1>0, <2>2, <2>3 DEF TypeOK, Ids
    <3> QED
      BY <1>0, <3>1 DEF LocalStep, PodsInv
  <2> QED
    BY <1>0, <2>1, <2>3 DEF PodsInv
<1>5. CountInv'
  BY <1>0, <1>3 DEF CountInv, PendingCountExact, CallbackOnce, Unsettled
<1>6. CallerInv'
  <2>1. \A k \in Keys : caller[k].id \in 1 .. made => caller[k].id \in Ids
    BY DEF TypeOK, Ids
  <2>2. \A k \in Keys : caller[k].todo \subseteq Pods
    BY DEF TypeOK
  <2> QED
    BY <1>0, <1>2, <1>3, <2>1, <2>2 DEF CallerInv, Followed
<1>7. MapInv' /\ NotReadyIsFollowedUp'
  BY <1>0 DEF MapInv, NotReadyIsFollowedUp
<1> QED
  BY <1>1, <1>4, <1>5, <1>6, <1>7

(* A probe that passes is counted as one: queued and verified ones still add up. *)
LEMMA ProbeVerifiedLocal ==
  ASSUME TypeOK, PodsInv, NEW i \in Ids, NEW p \in Pods, ProbeVerified(i, p)
  PROVE  LocalStep(i, p)
<1> DEFINE x == [pod[i][p] EXCEPT !.queued = @ - 1, !.passed = @ + 1, !.ok = @ + 1]
<1>1. pod[i][p] \in PodStates /\ Counted(pod[i][p]) /\ Caused(i, p)
  BY DEF TypeOK, PodsInv
<1>t. pod[i][p].queued - 1 \in Nat /\ pod[i][p].passed + 1 \in Nat /\ pod[i][p].ok + 1 \in Nat
  BY <1>1 DEF PodStates, ProbeVerified
<1>2. x \in PodStates
  BY <1>1, <1>t DEF PodStates
<1>3. pod' = [pod EXCEPT ![i][p] = x]
  BY <1>1 DEF ProbeVerified, TypeOK, PodStates
<1>4. pod'[i][p] = x /\ \A j \in Ids, q \in Pods : j # i \/ q # p => pod'[j][q] = pod[j][q]
  BY <1>3 DEF TypeOK
<1>5. pod' \in [Ids -> [Pods -> PodStates]]
  BY <1>2, <1>3 DEF TypeOK
<1>6. UNCHANGED <<made, state, current, contexts, caller, answer, woken, alive, endpoints, deleted, limits>>
  BY DEF ProbeVerified
<1>7. Counted(x) /\ pod[i][p].ip > 0 /\ x.ip = pod[i][p].ip /\ x.size = pod[i][p].size /\ x.settled = pod[i][p].settled
  <2>1. /\ x.ip = pod[i][p].ip /\ x.size = pod[i][p].size /\ x.settled = pod[i][p].settled
        /\ x.pending = pod[i][p].pending /\ x.owed = pod[i][p].owed
        /\ x.watch = pod[i][p].watch /\ x.seen = pod[i][p].seen
        /\ x.queued = pod[i][p].queued - 1 /\ x.passed = pod[i][p].passed + 1 /\ x.ok = pod[i][p].ok + 1
    BY <1>1 DEF PodStates
  <2> HIDE DEF x
  <2>2. PICK y : y = pod[i][p]
    OBVIOUS
  <2>3. y \in PodStates /\ Counted(y) /\ y.queued > 0
    BY <1>1, <2>2 DEF ProbeVerified
  <2>4. y.ip # 0 /\ y.ip > 0
    BY <2>3 DEF Counted, PodStates
  <2>5. Counted(x)
    BY <2>1, <2>2, <2>3, <2>4 DEF Counted, PodStates
  <2> QED
    BY <2>1, <2>2, <2>4, <2>5
<1>8. /\ x.done = pod[i][p].done /\ x.pending = pod[i][p].pending
      /\ x.watch = pod[i][p].watch /\ x.ok = pod[i][p].ok + 1
  BY <1>1 DEF PodStates
<1>9. Caused(i, p)'
  <2> HIDE DEF x
  <2>1. pod[i][p].ok # pod[i][p].size
    BY <1>1 DEF Counted, ProbeVerified, PodStates
  <2>2. (CtxDone(i, p)' <=> CtxDone(i, p)) /\ (IpCancelled(i, p)' <=> IpCancelled(i, p))
    BY <1>4, <1>6, <1>7, <1>8 DEF CtxDone, IpCancelled
  <2>3. state'[i].done = state[i].done /\ contexts'[p].last = contexts[p].last
    BY <1>6
  <2> QED
    BY <1>1, <1>4, <1>7, <1>8, <2>1, <2>2, <2>3 DEF Caused
<1> QED
  BY <1>4, <1>5, <1>6, <1>7, <1>9 DEF LocalStep

(* A probe that is dropped is of a context that is done. *)
LEMMA ProbeDroppedLocal ==
  ASSUME TypeOK, PodsInv, NEW i \in Ids, NEW p \in Pods, ProbeDropped(i, p)
  PROVE  LocalStep(i, p)
<1> DEFINE x == [pod[i][p] EXCEPT !.queued = @ - 1]
<1>1. pod[i][p] \in PodStates /\ Counted(pod[i][p]) /\ Caused(i, p)
  BY DEF TypeOK, PodsInv
<1>t. pod[i][p].queued - 1 \in Nat
  BY <1>1 DEF PodStates, ProbeDropped
<1>2. x \in PodStates
  BY <1>1, <1>t DEF PodStates
<1>3. pod' = [pod EXCEPT ![i][p] = x]
  BY <1>1 DEF ProbeDropped, TypeOK, PodStates
<1>4. pod'[i][p] = x /\ \A j \in Ids, q \in Pods : j # i \/ q # p => pod'[j][q] = pod[j][q]
  BY <1>3 DEF TypeOK
<1>5. pod' \in [Ids -> [Pods -> PodStates]]
  BY <1>2, <1>3 DEF TypeOK
<1>6. UNCHANGED <<made, state, current, contexts, caller, answer, woken, alive, endpoints, deleted, limits>>
  BY DEF ProbeDropped
<1>7. Counted(x) /\ pod[i][p].ip > 0 /\ x.ip = pod[i][p].ip /\ x.size = pod[i][p].size /\ x.settled = pod[i][p].settled
  BY <1>1 DEF Counted, Caused, ProbeDropped, PodStates
<1>8. /\ x.done = pod[i][p].done /\ x.pending = pod[i][p].pending
      /\ x.watch = pod[i][p].watch /\ x.ok = pod[i][p].ok
  BY <1>1 DEF PodStates
<1>9. Caused(i, p)'
  <2> HIDE DEF x
  <2> QED
    BY <1>1, <1>4, <1>6, <1>7, <1>8 DEF Counted, Caused, CtxDone, IpCancelled, ProbeDropped, PodStates
<1> QED
  BY <1>4, <1>5, <1>6, <1>7, <1>9 DEF LocalStep

(* The success that brings the counter to zero is that of the last probe. *)
LEMMA onProbingSuccessLocal ==
  ASSUME TypeOK, PodsInv, NEW i \in Ids, NEW p \in Pods, onProbingSuccess(i, p)
  PROVE  LocalStep(i, p)
<1> DEFINE x == [pod[i][p] EXCEPT !.passed = @ - 1, !.pending = @ - 1,
                !.done = @ \/ pod[i][p].pending = 1, !.owed = IF pod[i][p].pending = 1 THEN @ + 1 ELSE @]
<1>1. pod[i][p] \in PodStates /\ Counted(pod[i][p]) /\ Caused(i, p)
  BY DEF TypeOK, PodsInv
<1>t. /\ pod[i][p].passed - 1 \in Nat /\ pod[i][p].pending - 1 \in Int /\ pod[i][p].owed + 1 \in Nat
      /\ (pod[i][p].done \/ pod[i][p].pending = 1) \in BOOLEAN
  <2>1. pod[i][p].passed \in Nat /\ pod[i][p].pending \in Int /\ pod[i][p].owed \in Nat
    BY <1>1 DEF PodStates
  <2>2. pod[i][p].passed > 0
    BY DEF onProbingSuccess
  <2>3. (pod[i][p].done \/ pod[i][p].pending = 1) \in BOOLEAN
    BY Zenon
  <2> QED
    BY <2>1, <2>2, <2>3
<1>2. x \in PodStates
  <2> DEFINE d == pod[i][p].done \/ pod[i][p].pending = 1
             o == IF pod[i][p].pending = 1 THEN pod[i][p].owed + 1 ELSE pod[i][p].owed
             y == [pod[i][p] EXCEPT !.passed = @ - 1, !.pending = @ - 1]
  <2>1. d \in BOOLEAN /\ o \in Nat
    BY <1>1, <1>t DEF PodStates
  <2>2. y \in PodStates
    BY <1>1, <1>t DEF PodStates
  <2>3. x = [y EXCEPT !.done = d, !.owed = o]
    OBVIOUS
  <2> HIDE DEF x, y, d, o
  <2>4. PICK z : z = [y EXCEPT !.done = d]
    OBVIOUS
  <2>5. z \in PodStates
    BY <2>1, <2>2, <2>4 DEF PodStates
  <2>6. x = [z EXCEPT !.owed = o]
    BY <2>3, <2>4
  <2> QED
    BY <2>1, <2>5, <2>6 DEF PodStates
<1>3. pod' = [pod EXCEPT ![i][p] = x]
  <2> DEFINE d == pod[i][p].done \/ pod[i][p].pending = 1
             o == IF pod[i][p].pending = 1 THEN pod[i][p].owed + 1 ELSE pod[i][p].owed
             a == pod[i][p].passed - 1
             b == pod[i][p].pending - 1
             first == [pod EXCEPT ![i][p].passed = a, ![i][p].pending = b]
             y == [pod[i][p] EXCEPT !.passed = a, !.pending = b]
  <2>1. pod' = [first EXCEPT ![i][p].done = d, ![i][p].owed = o]
    BY DEF onProbingSuccess
  <2>2. x = [y EXCEPT !.done = d, !.owed = o]
    OBVIOUS
  <2> HIDE DEF x, d, o, a, b
  <2>3. pod \in [Ids -> [Pods -> PodStates]]
    BY DEF TypeOK
  <2>4. first = [pod EXCEPT ![i][p] = y]
    BY <2>3
  <2> HIDE DEF first, y
  <2> QED
    BY <2>1, <2>2, <2>3, <2>4
<1>4. pod'[i][p] = x /\ \A j \in Ids, q \in Pods : j # i \/ q # p => pod'[j][q] = pod[j][q]
  BY <1>3 DEF TypeOK
<1>5. pod' \in [Ids -> [Pods -> PodStates]]
  BY <1>2, <1>3 DEF TypeOK
<1>6. UNCHANGED <<made, state, current, contexts, caller, answer, woken, alive, endpoints, deleted, limits>>
  BY DEF onProbingSuccess
<1>7. Counted(x) /\ pod[i][p].ip > 0 /\ x.ip = pod[i][p].ip /\ x.size = pod[i][p].size /\ x.settled = pod[i][p].settled
  <2>1. /\ x.ip = pod[i][p].ip /\ x.size = pod[i][p].size /\ x.settled = pod[i][p].settled
        /\ x.ok = pod[i][p].ok /\ x.queued = pod[i][p].queued /\ x.watch = pod[i][p].watch /\ x.seen = pod[i][p].seen
        /\ x.passed = pod[i][p].passed - 1 /\ x.pending = pod[i][p].pending - 1
        /\ x.owed = IF pod[i][p].pending = 1 THEN pod[i][p].owed + 1 ELSE pod[i][p].owed
    BY <1>1 DEF PodStates
  <2> HIDE DEF x
  <2>2. PICK y : y = pod[i][p]
    OBVIOUS
  <2>3. y \in PodStates /\ Counted(y) /\ y.passed > 0
    BY <1>1, <2>2 DEF onProbingSuccess
  <2>4. y.ip # 0 /\ y.ip > 0
    BY <2>3 DEF Counted, PodStates
  <2>5. Counted(x)
    <3>1. /\ x.ip # 0 /\ (x.watch = "loaded" => x.seen > 0) /\ x.ok + x.queued <= x.size
          /\ (x.size = 0 => x.ip = 0)
      BY <2>1, <2>2, <2>3, <2>4 DEF Counted
    <3>2. x.pending > 0 => x.pending + x.ok = x.size + x.passed /\ x.owed = 0 /\ x.settled = 0
      BY <2>1, <2>2, <2>3 DEF Counted, PodStates
    <3>3. x.size > 0 /\ x.pending <= 0 => x.owed + x.settled = 1
      BY <2>1, <2>2, <2>3 DEF Counted, PodStates
    <3> QED
      BY <3>1, <3>2, <3>3 DEF Counted
  <2> QED
    BY <2>1, <2>2, <2>4, <2>5
<1>8. /\ x.done = (pod[i][p].done \/ pod[i][p].pending = 1) /\ x.pending = pod[i][p].pending - 1
      /\ x.watch = pod[i][p].watch /\ x.ok = pod[i][p].ok
  BY <1>1 DEF PodStates
<1>9. Caused(i, p)'
  <2> HIDE DEF x
  <2>1. pod[i][p].passed > 0
    BY DEF onProbingSuccess
  <2>2. pod[i][p].pending = 1 => pod[i][p].ok = pod[i][p].size
    BY <1>1, <2>1 DEF Counted, PodStates
  <2>3. IpCancelled(i, p)' <=> IpCancelled(i, p)
    BY <1>4, <1>6, <1>7 DEF IpCancelled
  <2>4. x.done => x.pending <= 0 \/ IpCancelled(i, p)
    BY <1>1, <1>8 DEF Caused, PodStates
  <2>5. x.size > 0 /\ x.pending <= 0 => x.ok = x.size \/ state[i].done \/ IpCancelled(i, p)
    BY <1>1, <1>7, <1>8, <2>2 DEF Caused, PodStates
  <2>6. x.watch = "loaded" => x.done \/ state[i].done
    BY <1>1, <1>8 DEF Caused, CtxDone
  <2> QED
    BY <1>1, <1>4, <1>6, <1>7, <2>3, <2>4, <2>5, <2>6 DEF Caused, CtxDone
<1> QED
  BY <1>4, <1>5, <1>6, <1>7, <1>9 DEF LocalStep

(* A pod's context ends with that of its IP. *)
LEMMA JoinContextsLocal ==
  ASSUME TypeOK, PodsInv, NEW i \in Ids, NEW p \in Pods, JoinContexts(i, p)
  PROVE  LocalStep(i, p)
<1> DEFINE x == [pod[i][p] EXCEPT !.done = TRUE]
<1>1. pod[i][p] \in PodStates /\ Counted(pod[i][p]) /\ Caused(i, p)
  BY DEF TypeOK, PodsInv
<1>2. x \in PodStates
  BY <1>1 DEF PodStates
<1>3. pod' = [pod EXCEPT ![i][p] = x]
  BY <1>1 DEF JoinContexts, TypeOK, PodStates
<1>4. pod'[i][p] = x /\ \A j \in Ids, q \in Pods : j # i \/ q # p => pod'[j][q] = pod[j][q]
  BY <1>3 DEF TypeOK
<1>5. pod' \in [Ids -> [Pods -> PodStates]]
  BY <1>2, <1>3 DEF TypeOK
<1>6. UNCHANGED <<made, state, current, contexts, caller, answer, woken, alive, endpoints, deleted, limits>>
  BY DEF JoinContexts
<1>7. Counted(x) /\ pod[i][p].ip > 0 /\ x.ip = pod[i][p].ip /\ x.size = pod[i][p].size /\ x.settled = pod[i][p].settled
  BY <1>1 DEF Counted, Caused, JoinContexts, PodStates
<1>8. x.done /\ x.pending = pod[i][p].pending /\ x.watch = pod[i][p].watch /\ x.ok = pod[i][p].ok
  BY <1>1 DEF PodStates
<1>9. Caused(i, p)'
  <2> HIDE DEF x
  <2> QED
    BY <1>1, <1>4, <1>6, <1>7, <1>8 DEF Counted, Caused, CtxDone, IpCancelled, JoinContexts, PodStates
<1> QED
  BY <1>4, <1>5, <1>6, <1>7, <1>9 DEF LocalStep

(* The goroutine that saw the cancellation remembers a positive count. *)
LEMMA LoadPendingLocal ==
  ASSUME TypeOK, PodsInv, NEW i \in Ids, NEW p \in Pods, LoadPending(i, p)
  PROVE  LocalStep(i, p)
<1> DEFINE x == IF pod[i][p].pending <= 0 THEN [pod[i][p] EXCEPT !.watch = "ended"]
            ELSE [pod[i][p] EXCEPT !.watch = "loaded", !.seen = pod[i][p].pending]
<1>1. pod[i][p] \in PodStates /\ Counted(pod[i][p]) /\ Caused(i, p)
  BY DEF TypeOK, PodsInv
<1>2. x \in PodStates
  BY <1>1 DEF PodStates
<1>3. pod' = [pod EXCEPT ![i][p] = x]
  BY <1>1 DEF LoadPending, TypeOK, PodStates
<1>4. pod'[i][p] = x /\ \A j \in Ids, q \in Pods : j # i \/ q # p => pod'[j][q] = pod[j][q]
  BY <1>3 DEF TypeOK
<1>5. pod' \in [Ids -> [Pods -> PodStates]]
  BY <1>2, <1>3 DEF TypeOK
<1>6. UNCHANGED <<made, state, current, contexts, caller, answer, woken, alive, endpoints, deleted, limits>>
  BY DEF LoadPending
<1>7. Counted(x) /\ pod[i][p].ip > 0 /\ x.ip = pod[i][p].ip /\ x.size = pod[i][p].size /\ x.settled = pod[i][p].settled
  BY <1>1 DEF Counted, Caused, LoadPending, PodStates
<1>8. x.done = pod[i][p].done /\ x.pending = pod[i][p].pending /\ x.ok = pod[i][p].ok
  BY <1>1 DEF PodStates
<1>9. Caused(i, p)'
  <2> HIDE DEF x
  <2> QED
    BY <1>1, <1>4, <1>6, <1>7, <1>8 DEF Counted, Caused, CtxDone, IpCancelled, LoadPending, PodStates
<1> QED
  BY <1>4, <1>5, <1>6, <1>7, <1>9 DEF LocalStep

(* A swap that succeeds takes the count from the successes that were still to come. *)
LEMMA SwapPendingLocal ==
  ASSUME TypeOK, PodsInv, NEW i \in Ids, NEW p \in Pods, SwapPending(i, p)
  PROVE  LocalStep(i, p)
<1> DEFINE x == IF pod[i][p].pending = pod[i][p].seen
            THEN [pod[i][p] EXCEPT !.pending = 0, !.owed = @ + 1, !.watch = "ended", !.seen = 0]
            ELSE [pod[i][p] EXCEPT !.watch = "waiting", !.seen = 0]
<1>1. pod[i][p] \in PodStates /\ Counted(pod[i][p]) /\ Caused(i, p)
  BY DEF TypeOK, PodsInv
<1>t. pod[i][p].owed + 1 \in Nat /\ 0 \in Int /\ "ended" \in {"none", "waiting", "loaded", "ended"}
  BY <1>1 DEF PodStates, SwapPending
<1>2. x \in PodStates
  <2>1. CASE pod[i][p].pending = pod[i][p].seen
    <3>1. x = [pod[i][p] EXCEPT !.pending = 0, !.owed = @ + 1, !.watch = "ended", !.seen = 0]
      BY <2>1
    <3> HIDE DEF x
    <3> QED
      BY <1>1, <1>t, <3>1 DEF PodStates
  <2>2. CASE pod[i][p].pending # pod[i][p].seen
    <3>1. x = [pod[i][p] EXCEPT !.watch = "waiting", !.seen = 0]
      BY <2>2
    <3> HIDE DEF x
    <3> QED
      BY <1>1, <1>t, <3>1 DEF PodStates
  <2> QED
    BY <2>1, <2>2
<1>3. pod' = [pod EXCEPT ![i][p] = x]
  <2>0. pod \in [Ids -> [Pods -> PodStates]]
    BY DEF TypeOK
  <2>1. CASE pod[i][p].pending = pod[i][p].seen
    <3> DEFINE o == pod[i][p].owed + 1
               first == [pod EXCEPT ![i][p].pending = 0, ![i][p].owed = o]
               y == [pod[i][p] EXCEPT !.pending = 0, !.owed = o]
    <3>1. pod' = [first EXCEPT ![i][p].watch = "ended", ![i][p].seen = 0]
      BY <2>1 DEF SwapPending
    <3>2. x = [y EXCEPT !.watch = "ended", !.seen = 0]
      BY <2>1
    <3> HIDE DEF x, o
    <3>3. first = [pod EXCEPT ![i][p] = y]
      BY <2>0
    <3> HIDE DEF first, y
    <3> QED
      BY <2>0, <3>1, <3>2, <3>3
  <2>2. CASE pod[i][p].pending # pod[i][p].seen
    <3>1. pod' = [pod EXCEPT ![i][p].watch = "waiting", ![i][p].seen = 0]
      BY <2>2 DEF SwapPending
    <3>2. x = [pod[i][p] EXCEPT !.watch = "waiting", !.seen = 0]
      BY <2>2
    <3> HIDE DEF x
    <3> QED
      BY <2>0, <3>1, <3>2
  <2> QED
    BY <2>1, <2>2
<1>4. pod'[i][p] = x /\ \A j \in Ids, q \in Pods : j # i \/ q # p => pod'[j][q] = pod[j][q]
  BY <1>3 DEF TypeOK
<1>5. pod' \in [Ids -> [Pods -> PodStates]]
  BY <1>2, <1>3 DEF TypeOK
<1>6. UNCHANGED <<made, state, current, contexts, caller, answer, woken, alive, endpoints, deleted, limits>>
  BY DEF SwapPending
<1>7. Counted(x) /\ pod[i][p].ip > 0 /\ x.ip = pod[i][p].ip /\ x.size = pod[i][p].size /\ x.settled = pod[i][p].settled
  <2>1. /\ x.ip = pod[i][p].ip /\ x.size = pod[i][p].size /\ x.settled = pod[i][p].settled
        /\ x.ok = pod[i][p].ok /\ x.queued = pod[i][p].queued /\ x.passed = pod[i][p].passed /\ x.watch # "loaded"
        /\ IF pod[i][p].pending = pod[i][p].seen
           THEN x.pending = 0 /\ x.owed = pod[i][p].owed + 1
           ELSE x.pending = pod[i][p].pending /\ x.owed = pod[i][p].owed
    BY <1>1 DEF PodStates
  <2> HIDE DEF x
  <2>2. PICK y : y = pod[i][p]
    OBVIOUS
  <2>3. y \in PodStates /\ Counted(y) /\ y.watch = "loaded"
    BY <1>1, <2>2 DEF SwapPending
  <2>4. y.ip # 0 /\ y.ip > 0
    BY <2>3 DEF Counted, PodStates
  <2>5. Counted(x)
    BY <2>1, <2>2, <2>3, <2>4 DEF Counted, PodStates
  <2> QED
    BY <2>1, <2>2, <2>4, <2>5
<1>8. /\ x.done = pod[i][p].done /\ x.ok = pod[i][p].ok
      /\ x.watch # "loaded" /\ x.pending \in {0, pod[i][p].pending}
  BY <1>1 DEF PodStates
<1>9. Caused(i, p)'
  <2>1. pod[i][p].watch = "loaded" /\ pod[i][p].seen > 0 /\ CtxDone(i, p)
    BY <1>1 DEF SwapPending, Counted, Caused
  <2>2. x.pending # pod[i][p].pending => state[i].done \/ IpCancelled(i, p)
    BY <1>1, <2>1 DEF Caused, CtxDone, PodStates
  <2> HIDE DEF x
  <2>3. IpCancelled(i, p)' <=> IpCancelled(i, p)
    BY <1>4, <1>6, <1>7 DEF IpCancelled
  <2>4. x.done => x.pending <= 0 \/ IpCancelled(i, p)
    BY <1>1, <1>8 DEF Caused, PodStates
  <2>5. x.size > 0 /\ x.pending <= 0 => x.ok = x.size \/ state[i].done \/ IpCancelled(i, p)
    BY <1>1, <1>7, <1>8, <2>2 DEF Caused, PodStates
  <2> QED
    BY <1>1, <1>4, <1>6, <1>7, <1>8, <2>3, <2>4, <2>5 DEF Caused, CtxDone
<1> QED
  BY <1>4, <1>5, <1>6, <1>7, <1>9 DEF LocalStep

-----------------------------------------------------------------------------
(***************************************************************************)
(* The count of an Ingress, and its callback.                              *)
(***************************************************************************)

(* One decrement takes one pod from those that are not settled; the last one  *)
(* leads to the callback.                                                     *)
LEMMA SettlePodInv ==
  ASSUME Inv, NEW i \in Ids, NEW p \in Pods, SettlePod(i, p)
  PROVE  Inv'
<1> USE DEF Inv
<1> DEFINE x == [pod[i][p] EXCEPT !.owed = @ - 1, !.settled = @ + 1]
           last == state[i].pending = 1
           y == [state[i] EXCEPT !.pending = @ - 1, !.calling = IF last THEN @ + 1 ELSE @]
<1>0. UNCHANGED <<made, current, contexts, caller, answer, woken, alive, endpoints, deleted, limits>>
  BY DEF SettlePod
<1>1. /\ pod[i][p].size > 0 /\ pod[i][p].ip > 0 /\ i <= made
      /\ pod[i][p].owed = 1 /\ pod[i][p].settled = 0 /\ pod[i][p].pending <= 0
  BY OwedIsUnsettled DEF SettlePod
<1>2. pod[i][p] \in PodStates /\ Counted(pod[i][p]) /\ Caused(i, p) /\ state[i] \in States
  BY DEF TypeOK, PodsInv
<1>3. pod' = [pod EXCEPT ![i][p] = x] /\ state' = [state EXCEPT ![i] = y]
  BY <1>2 DEF SettlePod, TypeOK, PodStates, States
<1>4. pod'[i][p] = x /\ \A j \in Ids, q \in Pods : j # i \/ q # p => pod'[j][q] = pod[j][q]
  BY <1>3 DEF TypeOK
<1>5. state'[i] = y /\ \A j \in Ids : j # i => state'[j] = state[j]
  BY <1>3 DEF TypeOK
<1>6. /\ x.owed = 0 /\ x.settled = 1 /\ x.size = pod[i][p].size /\ x.ip = pod[i][p].ip
      /\ x.pending = pod[i][p].pending /\ x.done = pod[i][p].done /\ x.watch = pod[i][p].watch
      /\ x.seen = pod[i][p].seen /\ x.queued = pod[i][p].queued /\ x.passed = pod[i][p].passed
      /\ x.ok = pod[i][p].ok
  BY <1>1, <1>2 DEF PodStates
<1>7. /\ y.pending = state[i].pending - 1 /\ y.key = state[i].key /\ y.hash = state[i].hash
      /\ y.done = state[i].done /\ y.called = state[i].called
      /\ y.calling = IF last THEN state[i].calling + 1 ELSE state[i].calling
  BY <1>2 DEF States
<1>8. /\ \A j \in Ids : Targets(j)' = Targets(j)
      /\ \A j \in Ids : j # i => Unsettled(j)' = Unsettled(j)
      /\ p \in Unsettled(i) /\ Unsettled(i)' = Unsettled(i) \ {p}
  <2> HIDE DEF x
  <2>1. \A j \in Ids, q \in Pods : pod'[j][q].size = pod[j][q].size
    BY <1>4, <1>6
  <2>2. \A j \in Ids : Targets(j)' = Targets(j)
    BY <2>1 DEF Targets
  <2> QED
    BY <1>1, <1>4, <1>6, <2>2 DEF Targets, Unsettled
<1>9. Cardinality(Unsettled(i)') = Cardinality(Unsettled(i)) - 1 /\ Cardinality(Unsettled(i)) \in Nat \ {0}
  BY <1>8, UnsettledFinite, FS_RemoveElement
<1>10. state[i].pending = Cardinality(Unsettled(i)) /\ state[i].pending - 1 \in Nat
  BY <1>9 DEF CountInv, PendingCountExact, Unsettled
<1> HIDE DEF x, y
<1>11. TypeOK'
  <2>0. pod[i][p].owed - 1 \in Nat /\ pod[i][p].settled + 1 \in Nat
    BY <1>1
  <2>1. x \in PodStates
    BY <1>2, <2>0 DEF PodStates, x
  <2>2. state[i].calling + 1 \in Nat
    BY <1>2 DEF States
  <2>3. y \in States
    BY <1>2, <1>10, <2>2 DEF States, y
  <2> QED
    BY <1>0, <1>3, <2>1, <2>3 DEF TypeOK
<1>12. PodsInv'
  <2>1. ASSUME NEW j \in Ids, NEW q \in Pods PROVE (Counted(pod[j][q]) /\ Caused(j, q))'
    <3>0. state'[j].done = state[j].done
      BY <1>5, <1>7
    <3>1. CASE j = i /\ q = p
      <4>1. Counted(x)
        BY <1>1, <1>2, <1>6 DEF Counted, PodStates
      <4> QED
        BY <1>0, <1>2, <1>4, <1>6, <3>0, <3>1, <4>1 DEF Caused, CtxDone, IpCancelled
    <3>2. CASE j # i \/ q # p
      BY <1>0, <1>4, <3>0, <3>2 DEF PodsInv, Caused, CtxDone, IpCancelled
    <3> QED
      BY <3>1, <3>2
  <2>2. ASSUME NEW j \in Ids, j > made' PROVE state'[j] = NoState /\ \A q \in Pods : pod'[j][q] = NoPod
    <3>1. j > made /\ j # i
      BY <1>0, <1>1, <2>2 DEF TypeOK, Ids
    <3> QED
      BY <1>4, <1>5, <3>1 DEF PodsInv
  <2> QED
    BY <1>0, <2>1, <2>2 DEF PodsInv
<1>13. CountInv'
  <2>1. ASSUME NEW j \in Ids PROVE state'[j].pending = Cardinality(Unsettled(j)')
    <3>1. CASE j = i
      BY <1>5, <1>7, <1>9, <1>10, <3>1
    <3>2. CASE j # i
      <4>1. state[j].pending = Cardinality(Unsettled(j))
        BY DEF CountInv, PendingCountExact, Unsettled
      <4> QED
        BY <1>5, <1>8, <3>2, <4>1
    <3> QED
      BY <3>1, <3>2
  <2>2. ASSUME NEW j \in Ids
        PROVE  state'[j].calling + state'[j].called = IF state'[j].pending = 0 /\ Targets(j)' # {} THEN 1 ELSE 0
    <3>1. CASE j = i
      <4>1. state[i].calling + state[i].called = 0 /\ Targets(i) # {}
        BY <1>8, <1>9, <1>10 DEF CountInv, CallbackOnce, Unsettled
      <4> QED
        BY <1>2, <1>5, <1>7, <1>8, <1>10, <3>1, <4>1 DEF States
    <3>2. CASE j # i
      BY <1>5, <1>8, <3>2 DEF CountInv, CallbackOnce
    <3> QED
      BY <3>1, <3>2
  <2> QED
    BY <2>1, <2>2 DEF CountInv, PendingCountExact, CallbackOnce, Unsettled
<1>14. \A j \in Ids : /\ state'[j].key = state[j].key /\ state'[j].hash = state[j].hash
                      /\ state'[j].done = state[j].done
                      /\ state[j].pending = 0 => state'[j].pending = 0
                      /\ state[j].pending > 0 => state'[j].pending > 0 \/ state'[j].calling > 0
                      /\ state[j].calling > 0 => state'[j].calling > 0
  BY <1>2, <1>5, <1>7, <1>10 DEF States
<1>15. CallerInv'
  <2>1. \A k \in Keys : caller[k].id \in 1 .. made => caller[k].id \in Ids
    BY DEF TypeOK, Ids
  <2>2. \A k \in Keys : caller[k].todo \subseteq Pods
    BY DEF TypeOK
  <2>3. \A j \in Ids, q \in Pods : pod'[j][q].size = pod[j][q].size /\ pod'[j][q].ip = pod[j][q].ip
    BY <1>4, <1>6
  <2>4. ASSUME NEW k \in Keys, caller[k].pc = "register"
        PROVE  /\ state'[caller[k].id].key = k /\ state'[caller[k].id].hash = caller[k].hash
               /\ ~state'[caller[k].id].done
               /\ Targets(caller[k].id)' # {} => Followed(k, caller[k].id)'
    <3>1. caller[k].id \in Ids
      BY <2>1, <2>4 DEF CallerInv
    <3>2. Followed(k, caller[k].id) => Followed(k, caller[k].id)'
      BY <1>0, <1>14, <3>1 DEF Followed
    <3>3. Targets(caller[k].id)' = Targets(caller[k].id)
      BY <1>0, <2>3, <3>1 DEF Targets
    <3> QED
      BY <1>14, <2>4, <3>1, <3>2, <3>3 DEF CallerInv
  <2> QED
    BY <1>0, <2>1, <2>2, <2>3, <2>4 DEF CallerInv
<1>16. MapInv' /\ NotReadyIsFollowedUp'
  <2>1. \A k \in Keys : current[k] \in 1 .. made => current[k] \in Ids
    BY DEF TypeOK, Ids
  <2>2. \A k \in Keys : answer[k].verdict # "none" => answer[k].id \in Ids
    BY <2>1 DEF MapInv
  <2>3. MapInv'
    BY <1>0, <1>14, <2>1 DEF MapInv
  <2>4. \A k \in Keys : answer[k].verdict = "notReady" => answer[k].id \in Ids
    BY <2>2
  <2> QED
    BY <1>0, <1>14, <2>3, <2>4 DEF NotReadyIsFollowedUp
<1> QED
  BY <1>11, <1>12, <1>13, <1>15, <1>16

-----------------------------------------------------------------------------
(***************************************************************************)
(* Steps that leave the pods alone.                                        *)
(***************************************************************************)

(* Nothing is said of a pod that the end of its Ingress's context could make  *)
(* wrong.                                                                     *)
LEMMA PodsFrame ==
  ASSUME TypeOK, PodsInv, UNCHANGED <<made, pod, contexts>>,
         \A j \in Ids : state[j].done => state'[j].done,
         \A j \in Ids : j > made => state'[j] = state[j]
  PROVE  PodsInv'
<1>1. ASSUME NEW j \in Ids, NEW q \in Pods PROVE (Counted(pod[j][q]) /\ Caused(j, q))'
  BY DEF PodsInv, Caused, CtxDone, IpCancelled
<1> QED
  BY <1>1 DEF PodsInv

(* The counts are of pods and counters only. *)
LEMMA CountFrame ==
  ASSUME CountInv, UNCHANGED pod,
         \A j \in Ids : /\ state'[j].pending = state[j].pending
                        /\ state'[j].calling + state'[j].called = state[j].calling + state[j].called
  PROVE  CountInv'
<1>1. \A j \in Ids : Targets(j)' = Targets(j) /\ Unsettled(j)' = Unsettled(j)
  BY DEF Targets, Unsettled
<1> QED
  BY <1>1 DEF CountInv, PendingCountExact, CallbackOnce, Unsettled

(* States in the map, and those that IsReady is making, are in range, and one *)
(* key's are not another's.                                                   *)
LEMMA OwnStates ==
  ASSUME TypeOK, CallerInv, MapInv, NEW k \in Keys
  PROVE  /\ current[k] # 0 => current[k] \in Ids /\ current[k] <= made /\ state[current[k]].key = k
         /\ caller[k].pc = "register" =>
              caller[k].id \in Ids /\ caller[k].id <= made /\ state[caller[k].id].key = k
  BY DEF TypeOK, CallerInv, MapInv, Ids

(* The callback reaches the key it was made for. *)
LEMMA CallReadyInv ==
  ASSUME Inv, NEW i \in Ids, CallReady(i)
  PROVE  Inv'
<1> USE DEF Inv
<1> DEFINE y == [state[i] EXCEPT !.calling = @ - 1, !.called = @ + 1]
<1>0. UNCHANGED <<made, pod, current, contexts, caller, answer, alive, endpoints, deleted, limits>>
  BY DEF CallReady
<1>1. state[i] \in States /\ state[i].calling > 0 /\ woken' = woken \cup {state[i].key}
  BY DEF TypeOK, CallReady
<1>2. state' = [state EXCEPT ![i] = y]
  BY <1>1 DEF CallReady, TypeOK, States
<1>3. state'[i] = y /\ \A j \in Ids : j # i => state'[j] = state[j]
  BY <1>2 DEF TypeOK
<1>4. /\ y.pending = state[i].pending /\ y.key = state[i].key /\ y.hash = state[i].hash /\ y.done = state[i].done
      /\ y.calling = state[i].calling - 1 /\ y.called = state[i].called + 1
  BY <1>1 DEF States
<1>5. y \in States
  <2>1. state[i].calling - 1 \in Nat /\ state[i].called + 1 \in Nat
    BY <1>1 DEF States
  <2> QED
    BY <1>1, <2>1 DEF States
<1> HIDE DEF y
<1>6. TypeOK'
  <2>1. woken' \subseteq Keys
    BY <1>1 DEF TypeOK, States
  <2> QED
    BY <1>0, <1>2, <1>5, <2>1 DEF TypeOK
<1>7. i <= made
  BY <1>1 DEF PodsInv, NoState, TypeOK, Ids
<1>8. PodsInv'
  <2>1. \A j \in Ids : j > made => state'[j] = state[j]
    BY <1>3, <1>7 DEF TypeOK, Ids
  <2>2. \A j \in Ids : state[j].done => state'[j].done
    BY <1>3, <1>4
  <2> QED
    BY <1>0, <2>1, <2>2, PodsFrame
<1>9. \A j \in Ids : /\ state'[j].key = state[j].key /\ state'[j].hash = state[j].hash
                     /\ state'[j].done = state[j].done /\ state'[j].pending = state[j].pending
                     /\ state'[j].calling + state'[j].called = state[j].calling + state[j].called
  BY <1>1, <1>3, <1>4 DEF States
<1>10. CountInv'
  BY <1>0, <1>9, CountFrame
<1>11. ASSUME NEW k \in Keys, NEW j \in Ids, state[j].key = k, Followed(k, j)
       PROVE  Followed(k, j)'
  BY <1>1, <1>3, <1>9, <1>11 DEF Followed
<1>12. CallerInv'
  <2>1. ASSUME NEW k \in Keys, caller[k].pc = "register"
        PROVE  /\ state'[caller[k].id].key = k /\ state'[caller[k].id].hash = caller[k].hash
               /\ ~state'[caller[k].id].done
               /\ Targets(caller[k].id)' # {} => Followed(k, caller[k].id)'
    <3>1. PICK j \in Ids : j = caller[k].id
      BY <2>1, OwnStates
    <3>2. Targets(caller[k].id)' = Targets(caller[k].id)
      BY <1>0 DEF Targets
    <3>3. Targets(caller[k].id) # {} => Followed(k, j)'
      BY <1>11, <2>1, <3>1 DEF CallerInv
    <3>4. Followed(k, j)' <=> Followed(k, caller[k].id)'
      BY <1>0, <3>1 DEF Followed
    <3> QED
      BY <1>9, <2>1, <3>1, <3>2, <3>3, <3>4 DEF CallerInv
  <2> QED
    BY <1>0, <2>1 DEF CallerInv
<1>13. MapInv'
  BY <1>0, <1>9, OwnStates DEF MapInv
<1>14. NotReadyIsFollowedUp'
  <2>1. ASSUME NEW k \in Keys, answer[k].verdict = "notReady" PROVE Followed(k, answer[k].id)'
    <3>1. PICK j \in Ids : j = answer[k].id /\ state[j].key = k
      BY <2>1, OwnStates DEF MapInv
    <3>2. Followed(k, j)
      BY <2>1, <3>1 DEF NotReadyIsFollowedUp, Followed
    <3>3. Followed(k, j)'
      BY <1>11, <3>1, <3>2
    <3> QED
      BY <1>0, <3>1, <3>3 DEF Followed
  <2> QED
    BY <1>0, <2>1 DEF NotReadyIsFollowedUp, Followed
<1> QED
  BY <1>6, <1>8, <1>10, <1>12, <1>13, <1>14

(* Giving up the state of a key: what CheckState does for another spec, and   *)
(* CancelIngressProbing.  The caller goes on to list targets or stays idle.   *)
GiveUp(k, c) ==
  /\ caller[k].pc = "idle"
  /\ c \in {[pc |-> "list", hash |-> h, id |-> 0, todo |-> {}] : h \in Hashes} \cup {caller[k]}
  /\ state' = IF current[k] # 0 THEN [state EXCEPT ![current[k]].done = TRUE] ELSE state
  /\ current' = [current EXCEPT ![k] = 0]
  /\ caller' = [caller EXCEPT ![k] = c]
  /\ answer' = [answer EXCEPT ![k] = NoAnswer]
  /\ woken' \in {woken, woken \ {k}}
  /\ limits' \in [Happenings -> Nat]
  /\ UNCHANGED <<made, pod, contexts, alive, endpoints, deleted>>

(* Nobody else works with the state that is given up. *)
LEMMA GiveUpInv ==
  ASSUME Inv, NEW k \in Keys, NEW c, GiveUp(k, c)
  PROVE  Inv'
<1> USE DEF Inv
<1>0. UNCHANGED <<made, pod, contexts, alive, endpoints, deleted>> /\ caller[k].pc = "idle"
  BY DEF GiveUp
<1>1. /\ caller'[k] = c /\ current'[k] = 0 /\ answer'[k] = NoAnswer
      /\ \A k2 \in Keys \ {k} : caller'[k2] = caller[k2] /\ current'[k2] = current[k2] /\ answer'[k2] = answer[k2]
      /\ \A k2 \in Keys \ {k} : k2 \in woken' <=> k2 \in woken
  BY DEF GiveUp, TypeOK
<1>2. current[k] # 0 => current[k] \in Ids /\ current[k] <= made /\ state[current[k]].key = k
  BY OwnStates
<1>3. /\ state' \in [Ids -> States]
      /\ \A j \in Ids : /\ state'[j].key = state[j].key /\ state'[j].hash = state[j].hash
                        /\ state'[j].pending = state[j].pending /\ state'[j].calling = state[j].calling
                        /\ state'[j].called = state[j].called
                        /\ state[j].done => state'[j].done
      /\ \A j \in Ids : j # current[k] => state'[j] = state[j]
  <2>1. CASE current[k] = 0
    BY <2>1 DEF GiveUp, TypeOK
  <2>2. CASE current[k] # 0
    <3>1. state' = [state EXCEPT ![current[k]] = [state[current[k]] EXCEPT !.done = TRUE]]
      BY <2>2 DEF GiveUp, TypeOK
    <3>2. state[current[k]] \in States
      BY <1>2, <2>2 DEF TypeOK
    <3>3. [state[current[k]] EXCEPT !.done = TRUE] \in States
      BY <3>2 DEF States
    <3> QED
      BY <1>2, <2>2, <3>1, <3>2, <3>3 DEF TypeOK, States
  <2> QED
    BY <2>1, <2>2
<1>4. TypeOK'
  <2>1. c \in [pc: {"idle", "list", "register"}, hash: AnyHash, id: 0 .. MaxStates, todo: SUBSET Pods]
    BY ProberAssumption DEF GiveUp, TypeOK, AnyHash
  <2>2. NoAnswer \in [verdict: {"none", "ready", "notReady"}, hash: AnyHash, id: 0 .. MaxStates]
    BY ProberAssumption DEF NoAnswer, AnyHash
  <2>3. current' \in [Keys -> 0 .. MaxStates]
    BY ProberAssumption DEF GiveUp, TypeOK
  <2>4. caller' \in [Keys -> [pc: {"idle", "list", "register"}, hash: AnyHash, id: 0 .. MaxStates, todo: SUBSET Pods]]
    BY <2>1 DEF GiveUp, TypeOK
  <2>5. answer' \in [Keys -> [verdict: {"none", "ready", "notReady"}, hash: AnyHash, id: 0 .. MaxStates]]
    BY <2>2 DEF GiveUp, TypeOK
  <2> QED
    BY <1>3, <2>3, <2>4, <2>5 DEF GiveUp, TypeOK
<1>5. PodsInv'
  <2>1. \A j \in Ids : j > made => state'[j] = state[j]
    BY <1>2, <1>3 DEF TypeOK, Ids
  <2> QED
    BY <1>0, <1>3, <2>1, PodsFrame
<1>6. CountInv'
  BY <1>0, <1>3, CountFrame
<1>7. \A k2 \in Keys \ {k}, j \in Ids : Followed(k2, j)' <=> Followed(k2, j)
  BY <1>1, <1>3 DEF Followed
<1>8. CallerInv'
  <2>1. c.pc # "register" /\ (c.pc # "idle" => c.hash \in Hashes)
    BY <1>0 DEF GiveUp
  <2>2. ASSUME NEW k2 \in Keys, k2 # k, caller[k2].pc = "register"
        PROVE  /\ state'[caller[k2].id].key = k2 /\ state'[caller[k2].id].hash = caller[k2].hash
               /\ ~state'[caller[k2].id].done
               /\ Targets(caller[k2].id)' # {} => Followed(k2, caller[k2].id)'
    <3>1. PICK j \in Ids : j = caller[k2].id /\ state[j].key = k2
      BY <2>2, OwnStates
    <3>2. j # current[k]
      BY <1>2, <2>2, <3>1 DEF Ids
    <3>3. Targets(caller[k2].id)' = Targets(caller[k2].id)
      BY <1>0, <1>1, <2>2 DEF Targets
    <3>4. Targets(caller[k2].id) # {} => Followed(k2, j)'
      BY <1>7, <2>2, <3>1 DEF CallerInv
    <3>5. Followed(k2, j)' <=> Followed(k2, caller[k2].id)'
      BY <1>1, <2>2, <3>1 DEF Followed
    <3> QED
      BY <1>3, <2>2, <3>1, <3>2, <3>3, <3>4, <3>5 DEF CallerInv
  <2>3. \A k2 \in Keys : caller'[k2].pc # "idle" => current'[k2] = 0 /\ caller'[k2].hash \in Hashes /\ answer'[k2] = NoAnswer
    BY <1>0, <1>1, <2>1 DEF CallerInv
  <2>4. ASSUME NEW k2 \in Keys, caller'[k2].pc = "register"
        PROVE  /\ k2 # k /\ caller'[k2] = caller[k2] /\ caller[k2].id \in 1 .. made'
               /\ \A p \in caller[k2].todo : pod'[caller[k2].id][p].size > 0 /\ pod'[caller[k2].id][p].ip = 0
    BY <1>0, <1>1, <2>1, <2>4 DEF CallerInv
  <2>5. \A k2 \in Keys : caller'[k2].pc = "register" => k2 # k /\ caller[k2].pc = "register" /\ caller'[k2] = caller[k2]
    BY <2>4
  <2> QED
    BY <2>2, <2>3, <2>4, <2>5 DEF CallerInv
<1>9. MapInv'
  <2>1. ASSUME NEW k2 \in Keys, k2 # k, current[k2] # 0 PROVE current[k2] \in Ids /\ state'[current[k2]] = state[current[k2]]
    BY <1>2, <1>3, <2>1, OwnStates
  <2> QED
    BY <1>0, <1>1, <2>1 DEF MapInv, NoAnswer
<1>10. NotReadyIsFollowedUp'
  <2>1. ASSUME NEW k2 \in Keys, k2 # k, answer[k2].verdict = "notReady" PROVE Followed(k2, answer[k2].id)'
    <3>1. PICK j \in Ids : j = answer[k2].id
      BY <2>1, OwnStates DEF MapInv
    <3>2. Followed(k2, j)
      BY <2>1, <3>1 DEF NotReadyIsFollowedUp, Followed
    <3> QED
      BY <1>1, <1>7, <2>1, <3>1, <3>2 DEF Followed
  <2> QED
    BY <1>1, <2>1 DEF NotReadyIsFollowedUp, Followed, NoAnswer
<1> QED
  BY <1>4, <1>5, <1>6, <1>8, <1>9, <1>10

(* An event of the environment that is spent keeps its budget a number. *)
LEMMA UseType ==
  ASSUME limits \in [Happenings -> Nat], NEW e \in Happenings, Use(e)
  PROVE  limits' \in [Happenings -> Nat]
<1>1. limits[e] - 1 \in Nat
  BY DEF Use
<1> QED
  BY <1>1 DEF Use

(* Cancellation gives up the state of its key. *)
LEMMA CancelInv ==
  ASSUME Inv, NEW k \in Keys, CancelIngressProbing(k)
  PROVE  Inv'
<1>1. limits' \in [Happenings -> Nat]
  BY UseType DEF CancelIngressProbing, Inv, TypeOK, Happenings
<1>2. GiveUp(k, caller[k])
  BY <1>1 DEF CancelIngressProbing, GiveUp, Inv, TypeOK
<1> QED
  BY <1>2, GiveUpInv

(* An answer from the state in the map is followed up, or gives it up. *)
LEMMA CheckStateInv ==
  ASSUME Inv, NEW k \in Keys, NEW h \in Hashes, CheckState(k, h)
  PROVE  Inv'
<1>1. CASE ~(current[k] # 0 /\ state[current[k]].hash = h)
  <2>1. GiveUp(k, [pc |-> "list", hash |-> h, id |-> 0, todo |-> {}])
    BY <1>1 DEF CheckState, GiveUp, Inv, TypeOK
  <2> QED
    BY <2>1, GiveUpInv
<1>2. CASE current[k] # 0 /\ state[current[k]].hash = h
  <2> USE DEF Inv
  <2> DEFINE a == [verdict |-> IF state[current[k]].pending = 0 THEN "ready" ELSE "notReady",
                   hash |-> h, id |-> current[k]]
  <2>0. /\ UNCHANGED <<made, state, pod, current, contexts, caller, alive, endpoints, deleted, limits>>
        /\ caller[k].pc = "idle" /\ woken' = woken \ {k} /\ answer' = [answer EXCEPT ![k] = a]
    BY <1>2 DEF CheckState
  <2>1. current[k] \in Ids /\ state[current[k]].pending \in Nat
    BY <1>2, OwnStates DEF TypeOK, States
  <2>2. TypeOK'
    BY <2>0 DEF TypeOK, AnyHash
  <2>3. PodsInv' /\ CountInv'
    BY <2>0, PodsFrame, CountFrame
  <2>4. answer'[k] = a /\ \A k2 \in Keys \ {k} : answer'[k2] = answer[k2] /\ (k2 \in woken' <=> k2 \in woken)
    BY <2>0 DEF TypeOK
  <2>5. CallerInv'
    BY <2>0, <2>4 DEF CallerInv, Followed, Targets
  <2>6. MapInv'
    BY <1>2, <2>0, <2>4 DEF MapInv
  <2>7. NotReadyIsFollowedUp'
    BY <2>0, <2>1, <2>4 DEF NotReadyIsFollowedUp
  <2> QED
    BY <2>2, <2>3, <2>5, <2>6, <2>7
<1> QED
  BY <1>1, <1>2

-----------------------------------------------------------------------------
(***************************************************************************)
(* The rest of IsReady, and the pods.                                      *)
(***************************************************************************)

Fresh(n) == [NoPod EXCEPT !.size = n, !.pending = n]

(* A pod with n probes, before its registration. *)
LEMMA FreshPod ==
  ASSUME NEW n \in Nat
  PROVE  /\ Fresh(n) \in PodStates /\ Counted(Fresh(n)) /\ Fresh(0) = NoPod
         /\ Fresh(n).size = n /\ Fresh(n).pending = n /\ Fresh(n).ip = 0 /\ Fresh(n).settled = 0
         /\ Fresh(n).watch = "none" /\ Fresh(n).done = FALSE
<1>1. NoPod \in PodStates
  BY DEF NoPod, PodStates
<1>2. Fresh(n) \in PodStates /\ Fresh(0) = NoPod
  <2>1. NoPod.size = 0 /\ NoPod.pending = 0
    BY DEF NoPod
  <2>2. \A r \in PodStates : r.size = 0 /\ r.pending = 0 => [r EXCEPT !.size = 0, !.pending = 0] = r
    BY DEF PodStates
  <2>3. \A r \in PodStates : [r EXCEPT !.size = n, !.pending = n] \in PodStates
    <3>1. n \in Int
      OBVIOUS
    <3> QED
      BY <3>1 DEF PodStates
  <2> QED
    BY <1>1, <2>1, <2>2, <2>3 DEF Fresh
<1>3. /\ Fresh(n).size = n /\ Fresh(n).pending = n /\ Fresh(n).ip = 0 /\ Fresh(n).settled = 0
      /\ Fresh(n).watch = "none" /\ Fresh(n).done = FALSE /\ Fresh(n).queued = 0
      /\ Fresh(n).passed = 0 /\ Fresh(n).owed = 0 /\ Fresh(n).ok = 0
  BY DEF Fresh, NoPod
<1>4. Counted(Fresh(n))
  BY <1>3 DEF Counted
<1> QED
  BY <1>2, <1>3, <1>4

(* A new state has a number that nobody refers to yet. *)
LEMMA ListTargetsInv ==
  ASSUME Inv, NEW k \in Keys, ListTargets(k)
  PROVE  Inv'
<1> USE DEF Inv
<1>0. /\ UNCHANGED <<current, contexts, answer, woken, alive, endpoints, deleted, limits>>
      /\ caller[k].pc = "list" /\ made < MaxStates
  BY DEF ListTargets
<1>a. PICK id \in Ids : id = made + 1 /\ id \in 0 .. MaxStates /\ made \in Nat
  BY <1>0, ProberAssumption DEF TypeOK, Ids
<1>1. PICK urls \in ListProbeTargets :
        LET ips == DOMAIN urls
        IN  /\ made' = id
            /\ state' = [state EXCEPT ![id] = [NoState EXCEPT !.key = k, !.hash = caller[k].hash,
                                                              !.pending = Cardinality(ips)]]
            /\ pod' = [pod EXCEPT ![id] = [p \in Pods |->
                         IF p \in ips THEN [NoPod EXCEPT !.size = urls[p], !.pending = urls[p]] ELSE NoPod]]
            /\ caller' = [caller EXCEPT ![k].pc = "register", ![k].id = id, ![k].todo = ips]
  BY <1>a DEF ListTargets
<1> DEFINE ips == DOMAIN urls
           y == [NoState EXCEPT !.key = k, !.hash = caller[k].hash, !.pending = Cardinality(ips)]
           n(p) == IF p \in ips THEN urls[p] ELSE 0
           x(p) == Fresh(n(p))
           c == [caller[k] EXCEPT !.pc = "register", !.id = id, !.todo = ips]
<1>2. ips \subseteq Pods /\ \A p \in ips : urls[p] \in Nat \ {0}
  <2>1. PICK S \in SUBSET endpoints : urls \in [S -> 1 .. MaxURLs]
    BY <1>1 DEF ListProbeTargets
  <2> QED
    BY <2>1, ProberAssumption DEF TypeOK
<1>3. IsFiniteSet(ips) /\ Cardinality(ips) \in Nat /\ (Cardinality(ips) = 0 <=> ips = {})
  BY <1>2, ProberAssumption, FS_Subset, FS_CardinalityType, FS_EmptySet
<1>5. y \in States /\ y.key = k /\ y.hash = caller[k].hash /\ y.pending = Cardinality(ips)
      /\ y.done = FALSE /\ y.calling = 0 /\ y.called = 0
  <2>1. caller[k].hash \in AnyHash
    BY DEF TypeOK
  <2> QED
    BY <1>3, <2>1 DEF NoState, States
<1>6. \A p \in Pods : n(p) \in Nat /\ (n(p) > 0 <=> p \in ips)
  BY <1>2
<1> HIDE DEF n
<1>7. \A p \in Pods : /\ x(p) \in PodStates /\ x(p).ip = 0 /\ x(p).settled = 0 /\ x(p).watch = "none"
                      /\ x(p).done = FALSE /\ x(p).pending = x(p).size
                      /\ x(p).size > 0 <=> p \in ips
                      /\ Counted(x(p))
  BY <1>6, FreshPod
<1>8. /\ state'[id] = y /\ \A j \in Ids : j # id => state'[j] = state[j]
      /\ state' \in [Ids -> States]
  BY <1>1, <1>5 DEF TypeOK
<1>9. /\ \A p \in Pods : pod'[id][p] = x(p)
      /\ \A j \in Ids : j # id => pod'[j] = pod[j]
      /\ pod' \in [Ids -> [Pods -> PodStates]]
  <2>1. \A p \in Pods : x(p) = IF p \in ips THEN [NoPod EXCEPT !.size = urls[p], !.pending = urls[p]] ELSE NoPod
    BY FreshPod DEF n, Fresh
  <2> HIDE DEF x, ips
  <2>2. pod' = [pod EXCEPT ![id] = [p \in Pods |-> x(p)]]
    BY <1>1, <2>1 DEF ips
  <2> QED
    BY <1>7, <2>2 DEF TypeOK
<1>10. caller' = [caller EXCEPT ![k] = c] /\ c.pc = "register" /\ c.id = id /\ c.todo = ips /\ c.hash = caller[k].hash
  <2>1. caller \in [Keys -> [pc: {"idle", "list", "register"}, hash: AnyHash, id: 0 .. MaxStates, todo: SUBSET Pods]]
    BY DEF TypeOK
  <2>2. caller' = [caller EXCEPT ![k].pc = "register", ![k].id = id, ![k].todo = ips]
    BY <1>1
  <2> HIDE DEF ips
  <2>3. c.pc = "register" /\ c.id = id /\ c.todo = ips /\ c.hash = caller[k].hash
    BY <2>1
  <2> QED
    BY <2>1, <2>2, <2>3
<1>11. c \in [pc: {"idle", "list", "register"}, hash: AnyHash, id: 0 .. MaxStates, todo: SUBSET Pods]
  <2>1. caller[k] \in [pc: {"idle", "list", "register"}, hash: AnyHash, id: 0 .. MaxStates, todo: SUBSET Pods]
    BY DEF TypeOK
  <2> QED
    BY <1>2, <1>a, <2>1
<1>12. made' = id
  BY <1>1
<1> HIDE DEF x, y, c, ips
<1>13. caller'[k] = c /\ \A k2 \in Keys \ {k} : caller'[k2] = caller[k2]
  BY <1>10 DEF TypeOK
<1>14. TypeOK'
  BY <1>0, <1>a, <1>8, <1>9, <1>10, <1>11, <1>12 DEF TypeOK
<1>15. PodsInv'
  <2>1. ASSUME NEW j \in Ids, NEW q \in Pods PROVE (Counted(pod[j][q]) /\ Caused(j, q))'
    <3>1. CASE j = id
      <4>1. contexts[q].last \in Nat
        BY DEF TypeOK
      <4>2. x(q).size > 0 => x(q).pending > 0
        BY <1>7
      <4>3. x(q).size \in Nat /\ x(q).pending \in Int
        BY <1>7 DEF PodStates
      <4> QED
        BY <1>0, <1>7, <1>9, <3>1, <4>1, <4>2, <4>3 DEF Caused
    <3>2. CASE j # id
      BY <1>0, <1>8, <1>9, <3>2 DEF PodsInv, Caused, CtxDone, IpCancelled
    <3> QED
      BY <3>1, <3>2
  <2>2. ASSUME NEW j \in Ids, j > made' PROVE state'[j] = NoState /\ \A q \in Pods : pod'[j][q] = NoPod
    <3>1. j > made /\ j # id
      BY <1>a, <1>12, <2>2 DEF Ids
    <3> QED
      BY <1>8, <1>9, <3>1 DEF PodsInv
  <2> QED
    BY <1>0, <2>1, <2>2 DEF PodsInv
<1>16. Targets(id)' = ips /\ Unsettled(id)' = ips
  <2>1. {p \in Pods : pod'[id][p].size > 0} = ips
    BY <1>2, <1>7, <1>9
  <2>2. {p \in ips : pod'[id][p].settled = 0} = ips
    BY <1>2, <1>7, <1>9
  <2> QED
    BY <2>1, <2>2 DEF Targets, Unsettled
<1>17. \A j \in Ids : j # id => Targets(j)' = Targets(j) /\ Unsettled(j)' = Unsettled(j)
  BY <1>9 DEF Targets, Unsettled
<1>18. CountInv'
  <2>1. ASSUME NEW j \in Ids PROVE state'[j].pending = Cardinality(Unsettled(j)')
    BY <1>5, <1>8, <1>16, <1>17 DEF CountInv, PendingCountExact, Unsettled
  <2>2. ASSUME NEW j \in Ids
        PROVE  state'[j].calling + state'[j].called = IF state'[j].pending = 0 /\ Targets(j)' # {} THEN 1 ELSE 0
    BY <1>3, <1>5, <1>8, <1>16, <1>17 DEF CountInv, CallbackOnce
  <2> QED
    BY <2>1, <2>2 DEF CountInv, PendingCountExact, CallbackOnce, Unsettled
<1>19. \A k2 \in Keys : /\ current[k2] # 0 => current[k2] \in Ids /\ current[k2] # id /\ current[k2] \in 1 .. made'
                        /\ caller[k2].pc = "register" =>
                             caller[k2].id \in Ids /\ caller[k2].id # id /\ caller[k2].id \in 1 .. made'
  BY <1>a, <1>12, OwnStates DEF Ids
<1>20. CallerInv'
  <2>1. ASSUME NEW k2 \in Keys, k2 # k, caller[k2].pc = "register"
        PROVE  /\ state'[caller[k2].id] = state[caller[k2].id] /\ pod'[caller[k2].id] = pod[caller[k2].id]
               /\ Targets(caller[k2].id)' = Targets(caller[k2].id)
               /\ Followed(k2, caller[k2].id)' <=> Followed(k2, caller[k2].id)
    <3>1. state'[caller[k2].id] = state[caller[k2].id] /\ pod'[caller[k2].id] = pod[caller[k2].id]
      BY <1>8, <1>9, <1>19, <2>1
    <3> QED
      BY <1>0, <1>13, <2>1, <3>1 DEF Targets, Followed
  <2>2. /\ Targets(caller[k].id)' = ips
        /\ ips # {} => Followed(k, caller[k].id)'
    BY <1>3, <1>5, <1>8, <1>10, <1>13, <1>16 DEF Followed, Targets
  <2>3. /\ current[k] = 0 /\ caller[k].hash \in Hashes /\ answer[k] = NoAnswer
    BY <1>0 DEF CallerInv
  <2>4. id \in 1 .. made'
    BY <1>a, <1>12 DEF Ids
  <2>5. \A p \in ips : pod'[id][p].size > 0 /\ pod'[id][p].ip = 0
    BY <1>2, <1>7, <1>9
  <2>6. ASSUME NEW k2 \in Keys, k2 # k, caller[k2].pc = "register"
        PROVE  /\ caller'[k2].id \in 1 .. made'
               /\ state'[caller'[k2].id].key = k2 /\ state'[caller'[k2].id].hash = caller'[k2].hash
               /\ ~state'[caller'[k2].id].done
               /\ \A p \in caller'[k2].todo : pod'[caller'[k2].id][p].size > 0 /\ pod'[caller'[k2].id][p].ip = 0
               /\ Targets(caller[k2].id)' # {} => Followed(k2, caller[k2].id)'
    BY <1>13, <1>19, <2>1, <2>6 DEF CallerInv
  <2>7. /\ caller'[k].id \in 1 .. made'
        /\ state'[caller'[k].id].key = k /\ state'[caller'[k].id].hash = caller'[k].hash
        /\ ~state'[caller'[k].id].done
        /\ \A p \in caller'[k].todo : pod'[caller'[k].id][p].size > 0 /\ pod'[caller'[k].id][p].ip = 0
        /\ Targets(caller[k].id)' # {} => Followed(k, caller[k].id)'
    BY <1>5, <1>8, <1>10, <1>13, <2>2, <2>4, <2>5
  <2>8. \A k2 \in Keys : caller'[k2].pc # "idle" => current'[k2] = 0 /\ caller'[k2].hash \in Hashes /\ answer'[k2] = NoAnswer
    BY <1>0, <1>10, <1>13, <2>3 DEF CallerInv
  <2>9. \A k2 \in Keys \ {k} : caller'[k2].pc = caller[k2].pc /\ caller'[k2].id = caller[k2].id
    BY <1>13
  <2> QED
    BY <2>6, <2>7, <2>8, <2>9 DEF CallerInv
<1>21. MapInv' /\ NotReadyIsFollowedUp'
  <2>1. \A k2 \in Keys : current[k2] # 0 => state'[current[k2]] = state[current[k2]]
    BY <1>8, <1>19
  <2>2. MapInv'
    BY <1>0, <1>19, <2>1 DEF MapInv
  <2> QED
    BY <1>0, <2>1, <2>2 DEF MapInv, NotReadyIsFollowedUp
<1> QED
  BY <1>14, <1>15, <1>18, <1>20, <1>21

(* A context of an IP that was cancelled stays cancelled: a new one has a     *)
(* higher number.                                                             *)
LEMMA CancelledStays ==
  ASSUME TypeOK, TypeOK', NEW j \in Ids, NEW q \in Pods,
         pod'[j][q].ip = pod[j][q].ip, pod[j][q].ip <= contexts[q].last,
         \/ contexts'[q] = contexts[q]
         \/ contexts'[q].last = contexts[q].last /\ ~contexts'[q].open
         \/ contexts'[q].last = contexts[q].last + 1
  PROVE  /\ pod'[j][q].ip <= contexts'[q].last
         /\ IpCancelled(j, q) => IpCancelled(j, q)'
<1>1. pod[j][q].ip \in Nat /\ contexts[q].last \in Nat /\ contexts'[q].last \in Nat
  BY DEF TypeOK, PodStates
<1> QED
  BY <1>1 DEF IpCancelled

(* A pod is registered once, with the context that its IP has then. *)
LEMMA RegisterPodInv ==
  ASSUME Inv, NEW k \in Keys, NEW p \in Pods, RegisterPod(k, p)
  PROVE  Inv'
<1> USE DEF Inv
<1>0. /\ UNCHANGED <<made, state, current, answer, woken, alive, endpoints, deleted, limits>>
      /\ caller[k].pc = "register" /\ p \in caller[k].todo
  BY DEF RegisterPod
<1>1. PICK id \in Ids : id = caller[k].id /\ id <= made /\ state[id].key = k
  BY <1>0, OwnStates
<1> DEFINE ctx == IF contexts[p].open THEN contexts[p] ELSE [last |-> contexts[p].last + 1, open |-> TRUE]
           x == [pod[id][p] EXCEPT !.ip = ctx.last, !.watch = "waiting", !.queued = pod[id][p].size]
           c == [caller[k] EXCEPT !.todo = @ \ {p}]
<1>2. /\ pod[id][p] \in PodStates /\ Counted(pod[id][p]) /\ pod[id][p].ip = 0 /\ pod[id][p].size > 0
  BY <1>0, <1>1 DEF TypeOK, PodsInv, CallerInv
<1>3. contexts[p] \in [last: Nat, open: BOOLEAN] /\ (contexts[p].open => contexts[p].last > 0)
  BY DEF TypeOK, PodsInv
<1>4. ctx \in [last: Nat, open: BOOLEAN] /\ ctx.open /\ ctx.last \in Nat /\ ctx.last > 0
      /\ (ctx = contexts[p] \/ ctx.last = contexts[p].last + 1)
  BY <1>3
<1>5. contexts' = [contexts EXCEPT ![p] = ctx]
  BY DEF RegisterPod
<1>6. pod' = [pod EXCEPT ![id][p] = x]
  <2>1. pod' = [pod EXCEPT ![id][p].ip = ctx.last, ![id][p].watch = "waiting", ![id][p].queued = pod[id][p].size]
    BY <1>1 DEF RegisterPod
  <2> HIDE DEF ctx
  <2>2. pod \in [Ids -> [Pods -> PodStates]]
    BY DEF TypeOK
  <2> QED
    BY <1>2, <2>1, <2>2
<1>7. caller' = [caller EXCEPT ![k] = c]
  BY DEF RegisterPod, TypeOK
<1> HIDE DEF ctx
<1>8. x \in PodStates
  BY <1>2, <1>4 DEF PodStates
<1>9. /\ x.ip = ctx.last /\ x.watch = "waiting" /\ x.queued = x.size /\ x.size = pod[id][p].size
      /\ x.settled = pod[id][p].settled /\ x.pending = pod[id][p].pending /\ x.done = pod[id][p].done
      /\ x.owed = pod[id][p].owed /\ x.ok = pod[id][p].ok /\ x.passed = pod[id][p].passed
  BY <1>2 DEF PodStates
<1>10. /\ c \in [pc: {"idle", "list", "register"}, hash: AnyHash, id: 0 .. MaxStates, todo: SUBSET Pods]
       /\ c.pc = caller[k].pc /\ c.hash = caller[k].hash /\ c.id = caller[k].id /\ c.todo = caller[k].todo \ {p}
  <2>1. caller[k] \in [pc: {"idle", "list", "register"}, hash: AnyHash, id: 0 .. MaxStates, todo: SUBSET Pods]
    BY DEF TypeOK
  <2> HIDE DEF Inv
  <2> QED
    BY <2>1
<1> HIDE DEF x, c
<1>11. TypeOK'
  BY <1>0, <1>4, <1>5, <1>6, <1>7, <1>8, <1>10 DEF TypeOK
<1>12. /\ pod'[id][p] = x /\ \A j \in Ids, q \in Pods : j # id \/ q # p => pod'[j][q] = pod[j][q]
       /\ contexts'[p] = ctx /\ \A q \in Pods \ {p} : contexts'[q] = contexts[q]
       /\ caller'[k] = c /\ \A k2 \in Keys \ {k} : caller'[k2] = caller[k2]
  BY <1>5, <1>6, <1>7 DEF TypeOK
<1>13. PodsInv'
  <2>1. ASSUME NEW j \in Ids, NEW q \in Pods PROVE (Counted(pod[j][q]) /\ Caused(j, q))'
    <3>1. CASE j = id /\ q = p
      <4>1. Counted(x)
        BY <1>2, <1>4, <1>8, <1>9 DEF Counted, PodStates
      <4>2. x.done = FALSE /\ x.pending > 0
        BY <1>2, <1>9 DEF Counted, PodStates
      <4> QED
        BY <1>4, <1>8, <1>9, <1>12, <3>1, <4>1, <4>2 DEF Caused, PodStates
    <3>2. CASE j # id \/ q # p
      <4>0. pod'[j][q] = pod[j][q]
        BY <1>12, <3>2
      <4>1. pod[j][q].ip <= contexts[q].last
        BY DEF PodsInv, Caused
      <4>2. contexts'[q] = contexts[q] \/ contexts'[q].last = contexts[q].last + 1
        BY <1>4, <1>12
      <4>3. pod'[j][q].ip <= contexts'[q].last /\ (IpCancelled(j, q) => IpCancelled(j, q)')
        BY <1>11, <4>0, <4>1, <4>2, CancelledStays
      <4> QED
        BY <1>0, <4>0, <4>3 DEF PodsInv, Caused, CtxDone
    <3> QED
      BY <3>1, <3>2
  <2>2. ASSUME NEW j \in Ids, j > made' PROVE state'[j] = NoState /\ \A q \in Pods : pod'[j][q] = NoPod
    <3>1. j > made /\ j # id
      BY <1>0, <1>1, <2>2 DEF TypeOK, Ids
    <3> QED
      BY <1>0, <1>12, <3>1 DEF PodsInv
  <2>3. \A q \in Pods : contexts'[q].open => contexts'[q].last > 0
    BY <1>4, <1>12 DEF PodsInv
  <2> QED
    BY <2>1, <2>2, <2>3 DEF PodsInv
<1>14. \A j \in Ids, q \in Pods : pod'[j][q].size = pod[j][q].size /\ pod'[j][q].settled = pod[j][q].settled
  BY <1>9, <1>12
<1>15. \A j \in Ids : Targets(j)' = Targets(j) /\ Unsettled(j)' = Unsettled(j)
  BY <1>14 DEF Targets, Unsettled
<1>16. CountInv'
  BY <1>0, <1>15 DEF CountInv, PendingCountExact, CallbackOnce, Unsettled
<1>17. CallerInv'
  <2>1. ASSUME NEW k2 \in Keys, caller[k2].pc = "register"
        PROVE  /\ \A q \in caller'[k2].todo : pod'[caller[k2].id][q].size > 0 /\ pod'[caller[k2].id][q].ip = 0
               /\ Targets(caller[k2].id)' # {} => Followed(k2, caller[k2].id)'
    <3>1. PICK j \in Ids : j = caller[k2].id /\ state[j].key = k2
      BY <2>1, OwnStates
    <3>2. caller'[k2].todo \subseteq Pods /\ caller'[k2].todo \subseteq caller[k2].todo /\ caller'[k2].id = caller[k2].id
      BY <1>10, <1>11, <1>12 DEF TypeOK
    <3>3. \A q \in caller'[k2].todo : j # id \/ q # p
      BY <1>1, <1>10, <1>12, <3>1
    <3>4. \A q \in caller'[k2].todo : pod'[j][q] = pod[j][q]
      BY <1>12, <3>2, <3>3
    <3>5. Targets(caller[k2].id)' = Targets(caller[k2].id)
      BY <1>14, <3>1, <3>2 DEF Targets
    <3>6. Followed(k2, caller[k2].id)' <=> Followed(k2, caller[k2].id)
      BY <1>0, <3>2 DEF Followed
    <3> QED
      BY <2>1, <3>1, <3>2, <3>4, <3>5, <3>6 DEF CallerInv
  <2>2. \A k2 \in Keys : caller'[k2].pc = caller[k2].pc /\ caller'[k2].hash = caller[k2].hash /\ caller'[k2].id = caller[k2].id
    BY <1>10, <1>12
  <2> QED
    BY <1>0, <2>1, <2>2 DEF CallerInv
<1>18. MapInv' /\ NotReadyIsFollowedUp'
  BY <1>0 DEF MapInv, NotReadyIsFollowedUp
<1> QED
  BY <1>11, <1>13, <1>16, <1>17, <1>18

(* IsReady ends: the state it made is the one of the key, and if pods are     *)
(* settled already the callback has come or is on its way.                    *)
LEMMA StoreStateInv ==
  ASSUME Inv, NEW k \in Keys, StoreState(k)
  PROVE  Inv'
<1> USE DEF Inv
<1>0. /\ UNCHANGED <<made, state, pod, contexts, woken, alive, endpoints, deleted, limits>>
      /\ caller[k].pc = "register"
  BY DEF StoreState
<1>1. PICK id \in Ids : id = caller[k].id /\ id <= made /\ state[id].key = k
  BY <1>0, OwnStates
<1> DEFINE a == [verdict |-> IF Targets(id) = {} THEN "ready" ELSE "notReady", hash |-> caller[k].hash, id |-> id]
<1>2. /\ current' = [current EXCEPT ![k] = id] /\ caller' = [caller EXCEPT ![k] = NoCaller]
      /\ answer' = [answer EXCEPT ![k] = a]
  BY <1>1 DEF StoreState
<1>3. /\ id \in 1 .. made /\ id \in 0 .. MaxStates /\ caller[k].hash \in Hashes /\ state[id].hash = caller[k].hash
      /\ ~state[id].done /\ (Targets(id) # {} => Followed(k, id))
  BY <1>0, <1>1, ProberAssumption DEF CallerInv, Ids
<1>4. Targets(id) = {} => state[id].pending = 0
  <2>1. Targets(id) = {} => {p \in Targets(id) : pod[id][p].settled = 0} = {}
    OBVIOUS
  <2> QED
    BY <2>1, FS_EmptySet DEF CountInv, PendingCountExact
<1>5. TypeOK'
  <2>1. NoCaller \in [pc: {"idle", "list", "register"}, hash: AnyHash, id: 0 .. MaxStates, todo: SUBSET Pods]
    BY ProberAssumption DEF NoCaller, AnyHash
  <2>2. a \in [verdict: {"none", "ready", "notReady"}, hash: AnyHash, id: 0 .. MaxStates]
    BY <1>3 DEF AnyHash
  <2> QED
    BY <1>0, <1>2, <1>3, <2>1, <2>2 DEF TypeOK
<1>6. /\ current'[k] = id /\ caller'[k] = NoCaller /\ answer'[k] = a
      /\ \A k2 \in Keys \ {k} : caller'[k2] = caller[k2] /\ current'[k2] = current[k2] /\ answer'[k2] = answer[k2]
  BY <1>2 DEF TypeOK
<1>7. PodsInv' /\ CountInv'
  BY <1>0, PodsFrame, CountFrame
<1>8. CallerInv'
  <2>1. ASSUME NEW k2 \in Keys, k2 # k
        PROVE  /\ Targets(caller[k2].id)' = Targets(caller[k2].id)
               /\ Followed(k2, caller[k2].id)' <=> Followed(k2, caller[k2].id)
    BY <1>0, <1>6, <2>1 DEF Targets, Followed
  <2>2. NoCaller.pc = "idle"
    BY DEF NoCaller
  <2> QED
    BY <1>0, <1>6, <2>1, <2>2 DEF CallerInv
<1>9. MapInv'
  BY <1>0, <1>1, <1>3, <1>4, <1>6 DEF MapInv
<1>10. NotReadyIsFollowedUp'
  BY <1>0, <1>3, <1>6 DEF NotReadyIsFollowedUp, Followed
<1> QED
  BY <1>5, <1>7, <1>8, <1>9, <1>10

(* A failed listing leaves no state and wakes the controller. *)
LEMMA ListFailsInv ==
  ASSUME Inv, NEW k \in Keys, ListFails(k)
  PROVE  Inv'
<1> USE DEF Inv
<1>0. /\ UNCHANGED <<made, state, pod, current, contexts, answer, alive, endpoints, deleted>>
      /\ caller' = [caller EXCEPT ![k] = NoCaller] /\ woken' = woken \cup {k}
  BY DEF ListFails
<1>1. limits' \in [Happenings -> Nat]
  BY UseType DEF ListFails, TypeOK, Happenings
<1>2. NoCaller \in [pc: {"idle", "list", "register"}, hash: AnyHash, id: 0 .. MaxStates, todo: SUBSET Pods]
  BY ProberAssumption DEF NoCaller, AnyHash
<1>3. TypeOK'
  BY <1>0, <1>1, <1>2 DEF TypeOK
<1>4. caller'[k].pc = "idle" /\ \A k2 \in Keys \ {k} : caller'[k2] = caller[k2]
  BY <1>0 DEF TypeOK, NoCaller
<1>5. PodsInv' /\ CountInv'
  BY <1>0, PodsFrame, CountFrame
<1>6. CallerInv'
  <2>1. ASSUME NEW k2 \in Keys, k2 # k
        PROVE  /\ Targets(caller[k2].id)' = Targets(caller[k2].id)
               /\ Followed(k2, caller[k2].id)' <=> Followed(k2, caller[k2].id)
    BY <1>0, <1>4, <2>1 DEF Targets, Followed
  <2> QED
    BY <1>0, <1>4, <2>1 DEF CallerInv
<1>7. MapInv' /\ NotReadyIsFollowedUp'
  BY <1>0 DEF MapInv, NotReadyIsFollowedUp
<1> QED
  BY <1>3, <1>5, <1>6, <1>7

(* What neither pods, contexts nor states depend on. *)
LEMMA QuietInv ==
  ASSUME Inv, UNCHANGED <<made, state, pod, current, contexts, caller, answer, woken>>, TypeOK'
  PROVE  Inv'
<1> USE DEF Inv
<1>1. PodsInv' /\ CountInv'
  BY PodsFrame, CountFrame
<1>2. CallerInv'
  BY DEF CallerInv, Targets, Followed
<1>3. MapInv' /\ NotReadyIsFollowedUp'
  BY DEF MapInv, NotReadyIsFollowedUp
<1> QED
  BY <1>1, <1>2, <1>3

(* The end of an IP's context is a reason to stop, never to go on. *)
LEMMA CancelPodProbingInv ==
  ASSUME Inv, NEW p \in Pods, CancelPodProbing(p)
  PROVE  Inv'
<1> USE DEF Inv
<1>0. UNCHANGED <<made, state, pod, current, caller, answer, woken, alive, endpoints, limits>>
  BY DEF CancelPodProbing
<1>1. /\ contexts' \in [Pods -> [last: Nat, open: BOOLEAN]]
      /\ contexts'[p].last = contexts[p].last /\ ~contexts'[p].open
      /\ \A q \in Pods \ {p} : contexts'[q] = contexts[q]
  <2>1. contexts \in [Pods -> [last: Nat, open: BOOLEAN]]
    BY DEF TypeOK
  <2>2. contexts' = [contexts EXCEPT ![p].open = FALSE]
    BY DEF CancelPodProbing
  <2> HIDE DEF Inv
  <2> QED
    BY <2>1, <2>2
<1>2. TypeOK'
  BY <1>0, <1>1 DEF TypeOK, CancelPodProbing
<1>3. PodsInv'
  <2>1. ASSUME NEW j \in Ids, NEW q \in Pods PROVE (Counted(pod[j][q]) /\ Caused(j, q))'
    <3>1. pod[j][q].ip <= contexts[q].last
      BY DEF PodsInv, Caused
    <3>2. pod'[j][q].ip <= contexts'[q].last /\ (IpCancelled(j, q) => IpCancelled(j, q)')
      BY <1>0, <1>1, <1>2, <3>1, CancelledStays
    <3> QED
      BY <1>0, <3>2 DEF PodsInv, Caused, CtxDone
  <2> QED
    BY <1>0, <1>1, <2>1 DEF PodsInv
<1>4. CountInv'
  BY <1>0, CountFrame
<1>5. CallerInv'
  BY <1>0 DEF CallerInv, Targets, Followed
<1>6. MapInv' /\ NotReadyIsFollowedUp'
  BY <1>0 DEF MapInv, NotReadyIsFollowedUp
<1> QED
  BY <1>2, <1>3, <1>4, <1>5, <1>6

-----------------------------------------------------------------------------
(***************************************************************************)
(* Induction, and what follows.                                            *)
(***************************************************************************)

(* Before the first IsReady there is nothing to count. *)
LEMMA InitInv == Init => Inv
<1> SUFFICES ASSUME Init PROVE Inv
  OBVIOUS
<1>1. \A i \in Ids, p \in Pods : pod[i][p] = NoPod
  BY DEF Init
<1>2. \A i \in Ids : state[i] = NoState
  BY DEF Init
<1>3. NoState \in States /\ NoState.pending = 0 /\ NoState.calling = 0 /\ NoState.called = 0 /\ ~NoState.done
  <2>1. (CHOOSE k \in Keys : TRUE) \in Keys
    BY ProberAssumption
  <2> QED
    BY <2>1 DEF NoState, States, AnyHash
<1>4. /\ NoPod \in PodStates /\ Counted(NoPod) /\ NoPod.size = 0 /\ NoPod.ip = 0 /\ NoPod.watch = "none"
      /\ NoPod.done = FALSE
  <2>1. 0 \in Nat
    OBVIOUS
  <2> QED
    BY <2>1, FreshPod
<1>5. TypeOK
  <2>1. NoCaller \in [pc: {"idle", "list", "register"}, hash: AnyHash, id: 0 .. MaxStates, todo: SUBSET Pods]
    BY ProberAssumption DEF NoCaller, AnyHash
  <2>2. NoAnswer \in [verdict: {"none", "ready", "notReady"}, hash: AnyHash, id: 0 .. MaxStates]
    BY ProberAssumption DEF NoAnswer, AnyHash
  <2>3. state \in [Ids -> States] /\ pod \in [Ids -> [Pods -> PodStates]]
    BY <1>3, <1>4 DEF Init
  <2>4. made \in 0 .. MaxStates /\ current \in [Keys -> 0 .. MaxStates] /\ limits \in [Happenings -> Nat]
    BY ProberAssumption DEF Init
  <2>5. contexts \in [Pods -> [last: Nat, open: BOOLEAN]]
    BY DEF Init
  <2> QED
    BY <2>1, <2>2, <2>3, <2>4, <2>5 DEF Init, TypeOK
<1>6. PodsInv
  <2>1. ASSUME NEW i \in Ids, NEW p \in Pods PROVE Counted(pod[i][p]) /\ Caused(i, p)
    BY <1>1, <1>4 DEF Caused, Init
  <2> QED
    BY <1>1, <1>2, <2>1 DEF PodsInv, Init
<1>7. CountInv
  <2>1. \A i \in Ids : Targets(i) = {} /\ {p \in Targets(i) : pod[i][p].settled = 0} = {}
    BY <1>1, <1>4 DEF Targets
  <2>2. PendingCountExact
    BY <1>2, <1>3, <2>1, FS_EmptySet DEF PendingCountExact
  <2>3. CallbackOnce
    BY <1>2, <1>3, <2>1 DEF CallbackOnce
  <2> QED
    BY <2>2, <2>3 DEF CountInv
<1>8. CallerInv /\ MapInv /\ NotReadyIsFollowedUp
  BY DEF Init, CallerInv, MapInv, NotReadyIsFollowedUp, NoCaller, NoAnswer
<1> QED
  BY <1>5, <1>6, <1>7, <1>8 DEF Inv

(* Every step of the prober, its pods and its callers keeps the invariant. *)
LEMMA NextInv ==
  ASSUME Inv, [Next]_vars
  PROVE  Inv'
<1>t. TypeOK /\ PodsInv
  BY DEF Inv
<1>1. ASSUME NEW i \in Ids, NEW p \in Pods, Probing(i, p) PROVE Inv'
  <2>1. CASE SettlePod(i, p)
    BY <2>1, SettlePodInv
  <2>2. CASE ~SettlePod(i, p)
    <3>1. LocalStep(i, p)
      BY <1>t, <1>1, <2>2, ProbeVerifiedLocal, ProbeDroppedLocal, onProbingSuccessLocal, JoinContextsLocal,
         LoadPendingLocal, SwapPendingLocal DEF Probing
    <3> QED
      BY <3>1, LocalStepInv
  <2> QED
    BY <2>1, <2>2
<1>2. ASSUME NEW k \in Keys, Caller(k) PROVE Inv'
  BY <1>2, ListTargetsInv, StoreStateInv, RegisterPodInv DEF Caller
<1>3. ASSUME NEW p \in Pods, PodDeleted(p) \/ PodStarted(p) \/ DeletionFoundByList(p) PROVE Inv'
  <2>1. limits' \in [Happenings -> Nat]
    BY <1>t, <1>3, UseType DEF PodDeleted, PodStarted, DeletionFoundByList, TypeOK, Happenings
  <2>2. TypeOK'
    BY <1>t, <1>3, <2>1 DEF PodDeleted, PodStarted, DeletionFoundByList, TypeOK
  <2> QED
    BY <1>3, <2>2, QuietInv DEF PodDeleted, PodStarted, DeletionFoundByList
<1>4. CASE SyncEndpoints
  <2>1. TypeOK'
    BY <1>t, <1>4 DEF SyncEndpoints, TypeOK
  <2> QED
    BY <1>4, <2>1, QuietInv DEF SyncEndpoints
<1>5. CASE UNCHANGED vars
  <2>1. TypeOK'
    BY <1>t, <1>5 DEF vars, TypeOK
  <2> QED
    BY <1>5, <2>1, QuietInv DEF vars
<1>6. CASE Progress
  BY <1>1, <1>2, <1>4, <1>6, CallReadyInv, CancelPodProbingInv DEF Progress
<1> QED
  BY <1>3, <1>5, <1>6, CheckStateInv, ListFailsInv, CancelInv DEF Next

(* The invariant holds in every state the prober reaches. *)
LEMMA Invariance == Spec => []Inv
<1>1. Inv /\ [Next]_vars => Inv'
  BY NextInv
<1> QED
  BY <1>1, InitInv, PTL DEF Spec

(* Every variable keeps its type, and no pendingCount of an Ingress goes      *)
(* below zero, however many goroutines decrement it.                          *)
THEOREM ProberTypeCorrect == Spec => []TypeOK
<1>1. Inv => TypeOK
  BY DEF Inv
<1> QED
  BY <1>1, Invariance, PTL

(* Success and cancellation race for a pod, and one of them takes it off the  *)
(* pendingCount of its Ingress, once.                                         *)
THEOREM PendingCountCorrect == Spec => []PendingCountExact
<1>1. Inv => PendingCountExact
  BY DEF Inv, CountInv
<1> QED
  BY <1>1, Invariance, PTL

(* The readyCallback of an Ingress state is called once, and only when its    *)
(* last pod is settled.                                                       *)
THEOREM CallbackCorrect == Spec => []CallbackOnce
<1>1. Inv => CallbackOnce
  BY DEF Inv, CountInv
<1> QED
  BY <1>1, Invariance, PTL

(* Whoever was told "not ready" is called back, also when the last probe came *)
(* in before IsReady had stored its state.                                    *)
THEOREM FollowUpCorrect == Spec => []NotReadyIsFollowedUp
<1>1. Inv => NotReadyIsFollowedUp
  BY DEF Inv
<1> QED
  BY <1>1, Invariance, PTL

(* "Ready" is about the hash asked for, and all pods it rests on have passed  *)
(* their probes or lost the context of their IP.                              *)
THEOREM VerdictCorrect == Spec => []VerdictSound
<1>1. ASSUME Inv PROVE VerdictSound
  <2> SUFFICES ASSUME NEW k \in Keys, answer[k].verdict = "ready"
               PROVE  /\ state[answer[k].id].hash = answer[k].hash
                      /\ \A p \in Targets(answer[k].id) :
                           pod[answer[k].id][p].ok = pod[answer[k].id][p].size \/ IpCancelled(answer[k].id, p)
    BY DEF VerdictSound
  <2> USE <1>1 DEF Inv
  <2>1. PICK i \in Ids : /\ i = answer[k].id /\ i = current[k] /\ state[i].hash = answer[k].hash
                         /\ ~state[i].done /\ state[i].pending = 0
    BY OwnStates DEF MapInv
  <2>2. Unsettled(i) = {}
    BY <2>1, UnsettledFinite DEF CountInv, PendingCountExact, Unsettled
  <2>3. ASSUME NEW p \in Targets(i) PROVE pod[i][p].ok = pod[i][p].size \/ IpCancelled(i, p)
    <3>1. p \in Pods /\ pod[i][p].size > 0 /\ pod[i][p].settled # 0
      BY <2>2 DEF Unsettled, Targets
    <3>2. pod[i][p] \in PodStates /\ Counted(pod[i][p]) /\ Caused(i, p)
      BY <3>1 DEF TypeOK, PodsInv
    <3>3. pod[i][p].pending <= 0
      BY <3>1, <3>2 DEF Counted, PodStates
    <3> QED
      BY <2>1, <3>1, <3>2, <3>3 DEF Caused
  <2> QED
    BY <2>1, <2>3
<1>2. Inv => VerdictSound
  BY <1>1
<1> QED
  BY <1>2, Invariance, PTL

-----------------------------------------------------------------------------
(***************************************************************************)
(* Refinement of ProbeContract.                                            *)
(***************************************************************************)

(* The probe of a key changes with the entry of the key in the map, and with  *)
(* the hash and count of the state there, with nothing else.                  *)
LEMMA ProbesFrame ==
  ASSUME UNCHANGED current,
         \A k \in Keys : current[k] # 0 =>
           /\ state'[current[k]].hash = state[current[k]].hash
           /\ state'[current[k]].pending = 0 <=> state[current[k]].pending = 0
  PROVE  Probes' = Probes
  BY DEF Probes, NoProbe

(* A key whose entry is dropped has no probe any more. *)
LEMMA GiveUpCancels ==
  ASSUME Inv, NEW k \in Keys, NEW c, GiveUp(k, c)
  PROVE  Contract!Cancel(k)
<1>1. /\ current' \in [Keys -> 0 .. MaxStates] /\ current'[k] = 0
      /\ \A k2 \in Keys \ {k} : current'[k2] = current[k2]
  BY ProberAssumption DEF GiveUp, Inv, TypeOK
<1>2. ASSUME NEW k2 \in Keys, k2 # k, current[k2] # 0 PROVE state'[current[k2]] = state[current[k2]]
  <2>1. current[k2] \in Ids /\ (current[k] # 0 => current[k] \in Ids /\ current[k] # current[k2])
    BY <1>2, OwnStates DEF Inv
  <2> QED
    BY <2>1 DEF GiveUp, Inv, TypeOK
<1>3. \A k2 \in Keys : Probes'[k2] = IF k2 = k THEN NoProbe ELSE Probes[k2]
  BY <1>1, <1>2 DEF Probes
<1>4. Probes' = [Probes EXCEPT ![k] = NoProbe]
  BY <1>3 DEF Probes
<1> QED
  BY <1>4 DEF Contract!Cancel

(* The prober implements the contract: each step starts, completes or cancels *)
(* the probe of one key, or is none of the contract's business.               *)
THEOREM ProberRefinesContract == Spec => ProberImplementsContract
<1>1. ASSUME Init PROVE Contract!Init
  BY <1>1 DEF Init, Contract!Init, Probes
<1>2. ASSUME Inv, [Next]_vars PROVE [Contract!Next]_Probes
  <2> USE <1>2
  <2>t. TypeOK /\ PodsInv /\ MapInv /\ CallerInv
    BY DEF Inv
  <2>s. \A k \in Keys : current[k] # 0 => /\ current[k] \in Ids /\ current[k] <= made /\ state[current[k]].key = k
                                          /\ state[current[k]].hash \in Hashes /\ state[current[k]].pending \in Nat
    BY <2>t, OwnStates DEF MapInv, TypeOK, States
  <2>0. CASE UNCHANGED <<state, current>>
    BY <2>0, ProbesFrame
  <2>1. ASSUME NEW k \in Keys, NEW c, GiveUp(k, c) PROVE Contract!Next
    BY <2>1, GiveUpCancels DEF Contract!Next
  <2>2. ASSUME NEW k \in Keys, NEW h \in Hashes, CheckState(k, h) PROVE [Contract!Next]_Probes
    <3>1. CASE current[k] # 0 /\ state[current[k]].hash = h
      BY <2>0, <2>2, <3>1 DEF CheckState
    <3>2. CASE ~(current[k] # 0 /\ state[current[k]].hash = h)
      <4>1. GiveUp(k, [pc |-> "list", hash |-> h, id |-> 0, todo |-> {}])
        BY <2>2, <2>t, <3>2 DEF CheckState, GiveUp, TypeOK
      <4> QED
        BY <2>1, <4>1
    <3> QED
      BY <3>1, <3>2
  <2>3. ASSUME NEW k \in Keys, CancelIngressProbing(k) PROVE Contract!Next
    <3>1. limits' \in [Happenings -> Nat]
      BY <2>t, <2>3, UseType DEF CancelIngressProbing, TypeOK, Happenings
    <3>2. GiveUp(k, caller[k])
      BY <2>t, <2>3, <3>1 DEF CancelIngressProbing, GiveUp, TypeOK
    <3> QED
      BY <2>1, <3>2
  <2>4. ASSUME NEW k \in Keys, ListTargets(k) PROVE UNCHANGED Probes
    <3>1. UNCHANGED current
      BY <2>4 DEF ListTargets
    <3>2. \A j \in Ids : j <= made => state'[j] = state[j]
      <4>1. PICK y : state' = [state EXCEPT ![made + 1] = y]
        BY <2>4 DEF ListTargets
      <4> QED
        BY <2>t, <4>1 DEF TypeOK, Ids
    <3> QED
      BY <2>s, <3>1, <3>2, ProbesFrame
  <2>5. ASSUME NEW k \in Keys, StoreState(k) PROVE Contract!Next
    <3>0. caller[k].id \in Ids /\ state[caller[k].id].hash \in Hashes
      <4>1. caller[k].pc = "register"
        BY <2>5 DEF StoreState
      <4>2. caller[k].id \in Ids
        BY <2>t, <4>1, OwnStates
      <4>3. state[caller[k].id].hash = caller[k].hash /\ caller[k].hash \in Hashes
        BY <2>t, <4>1 DEF CallerInv
      <4> QED
        BY <4>2, <4>3
    <3>1. PICK id \in Ids : id = caller[k].id /\ state[id].hash \in Hashes
      BY <3>0
    <3>2. current' = [current EXCEPT ![k] = id] /\ UNCHANGED state /\ id # 0 /\ current[k] = 0
      BY <2>t, <2>5, <3>1 DEF StoreState, CallerInv, Ids
    <3> DEFINE d == state[id].pending = 0
    <3>3. \A k2 \in Keys : Probes'[k2] = IF k2 = k THEN [hash |-> state[id].hash, done |-> d] ELSE Probes[k2]
      BY <2>t, <3>2 DEF Probes, TypeOK
    <3>4. Probes' = [Probes EXCEPT ![k] = [hash |-> state[id].hash, done |-> d]]
      BY <3>3 DEF Probes
    <3>5. Probes[k] = NoProbe
      BY <3>2 DEF Probes
    <3>6. Contract!Start(k, state[id].hash, d)
      BY <3>4, <3>5 DEF Contract!Start
    <3>7. d \in BOOLEAN
      OBVIOUS
    <3> QED
      BY <3>1, <3>6, <3>7 DEF Contract!Next
  <2>6. ASSUME NEW i \in Ids, CallReady(i) PROVE UNCHANGED Probes
    <3>1. UNCHANGED current /\ \A j \in Ids : state'[j].hash = state[j].hash /\ state'[j].pending = state[j].pending
      BY <2>t, <2>6 DEF CallReady, TypeOK, States
    <3> QED
      BY <2>s, <3>1, ProbesFrame
  <2>7. ASSUME NEW i \in Ids, NEW p \in Pods, SettlePod(i, p) PROVE [Contract!Next]_Probes
    <3>1. /\ UNCHANGED current /\ \A j \in Ids : state'[j].hash = state[j].hash
          /\ \A j \in Ids : state'[j].pending = IF j = i THEN state[j].pending - 1 ELSE state[j].pending
      BY <2>t, <2>7 DEF SettlePod, TypeOK, States
    <3>2. state[i].pending \in Nat \ {0}
      <4>1. p \in Unsettled(i)
        BY <2>t, <2>7, OwedIsUnsettled DEF SettlePod, Unsettled, Targets
      <4> QED
        BY <4>1, UnsettledFinite DEF Inv, CountInv, PendingCountExact, Unsettled
    <3>3. CASE state[i].pending # 1 \/ \A k \in Keys : current[k] # i
      BY <2>s, <3>1, <3>2, <3>3, ProbesFrame
    <3>4. ASSUME NEW k \in Keys, state[i].pending = 1, current[k] = i PROVE Contract!Next
      <4>1. i # 0
        BY DEF Ids
      <4>2. \A k2 \in Keys : k2 # k => current[k2] # i
        BY <2>s, <3>4, <4>1
      <4>3. Probes[k] = [hash |-> state[i].hash, done |-> FALSE]
        <5>1. Probes[k] = [hash |-> state[i].hash, done |-> state[i].pending = 0]
          BY <3>4, <4>1 DEF Probes
        <5>2. (state[i].pending = 0) = FALSE
          BY <3>4
        <5> QED
          BY <5>1, <5>2, Zenon
      <4>4. Probes'[k] = [hash |-> state[i].hash, done |-> TRUE]
        <5>1. Probes'[k] = [hash |-> state'[i].hash, done |-> state'[i].pending = 0]
          BY <3>1, <3>4, <4>1 DEF Probes
        <5>2. (state'[i].pending = 0) = TRUE /\ state'[i].hash = state[i].hash
          BY <3>1, <3>4
        <5> QED
          BY <5>1, <5>2, Zenon
      <4>5. \A k2 \in Keys : k2 # k => Probes'[k2] = Probes[k2]
        BY <2>s, <3>1, <4>2 DEF Probes
      <4>6. Probes' = [Probes EXCEPT ![k].done = TRUE]
        <5>0. PICK t, f : t = TRUE /\ f = FALSE
          OBVIOUS
        <5>1. Probes[k] = [hash |-> state[i].hash, done |-> f] /\ Probes'[k] = [hash |-> state[i].hash, done |-> t]
          BY <4>3, <4>4, <5>0, Zenon
        <5>2. [Probes[k] EXCEPT !.done = t] = Probes'[k]
          BY ONLY <5>1
        <5>3. \A k2 \in Keys : Probes'[k2] = [Probes EXCEPT ![k].done = t][k2]
          BY <4>5, <5>2 DEF Probes
        <5>4. Probes' = [Probes EXCEPT ![k].done = t]
          BY <5>3 DEF Probes
        <5> QED
          BY <5>0, <5>4, Zenon
      <4>7. Probes[k] # NoProbe
        BY <2>s, <3>4, <4>1, <4>3, ProberAssumption DEF NoProbe
      <4>8. Contract!Complete(k)
        BY <4>3, <4>6, <4>7 DEF Contract!Complete
      <4> QED
        BY <4>8 DEF Contract!Next
    <3> QED
      BY <3>3, <3>4
  <2>8. CASE Progress
    <3>1. ASSUME NEW i \in Ids, NEW p \in Pods, Probing(i, p), ~SettlePod(i, p) PROVE UNCHANGED <<state, current>>
      BY <3>1 DEF Probing, ProbeVerified, ProbeDropped, onProbingSuccess, JoinContexts, LoadPending, SwapPending
    <3>2. ASSUME NEW k \in Keys, NEW p \in Pods, RegisterPod(k, p) PROVE UNCHANGED <<state, current>>
      BY <3>2 DEF RegisterPod
    <3>3. ASSUME NEW p \in Pods, CancelPodProbing(p) PROVE UNCHANGED <<state, current>>
      BY <3>3 DEF CancelPodProbing
    <3>4. CASE SyncEndpoints
      BY <2>0, <3>4 DEF SyncEndpoints
    <3>5. ASSUME NEW k \in Keys, Caller(k) PROVE [Contract!Next]_Probes
      BY <2>0, <2>4, <2>5, <3>2, <3>5 DEF Caller
    <3>6. ASSUME NEW i \in Ids, NEW p \in Pods, Probing(i, p) PROVE [Contract!Next]_Probes
      BY <2>0, <2>7, <3>1, <3>6
    <3> QED
      BY <2>0, <2>6, <2>8, <3>3, <3>4, <3>5, <3>6 DEF Progress
  <2>9. ASSUME NEW k \in Keys, ListFails(k) PROVE UNCHANGED <<state, current>>
    BY <2>9 DEF ListFails
  <2>10. ASSUME NEW p \in Pods, DeletionFoundByList(p) \/ PodDeleted(p) \/ PodStarted(p) PROVE UNCHANGED <<state, current>>
    BY <2>10 DEF DeletionFoundByList, PodDeleted, PodStarted
  <2>11. CASE UNCHANGED vars
    BY <2>0, <2>11 DEF vars
  <2> QED
    BY <2>0, <2>2, <2>3, <2>8, <2>9, <2>10, <2>11 DEF Next
<1>3. Inv /\ [Next]_vars => [Contract!Next]_Probes
  BY <1>2
<1>4. Init => Contract!Init
  BY <1>1
<1> QED
  BY <1>3, <1>4, Invariance, PTL DEF Spec, ProberImplementsContract, Contract!Spec

=============================================================================

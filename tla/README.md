# A TLA+ model of net-istio

net-istio is the controller that implements Knative's `Ingress` resource with
Istio `VirtualService`s and `Gateway`s. This directory holds TLA+ modules that
model the controller from its source, TLC configurations that check them on
small instances, and TLAPS proofs of the safety properties for all instances.

All paths below are relative to the root of the repository (`src/` in
`PROJECT.json`). `PROJECT.json` lists components, runs, the source lines behind
each definition, the hazards and the findings.

## 1. Inventory

| Component | State it keeps | Operations | Talks to |
|---|---|---|---|
| Ingress reconciler (`pkg/reconciler/ingress/ingress.go`) | none between calls: the objects in the API server and the status of the Ingress | `ReconcileKind`, `FinalizeKind` | API server (writes), informer listers (reads), prober (`IsReady`), tracker |
| Generated reconciler and conditions (`vendor/knative.dev/...`) | finalizer, observed generation, conditions | `Reconcile`, finalizer patches, `updateStatus`, `Mark*` | API server, work queue |
| Controller wiring (`controller.go`) | work queue, tracker, configuration store | event handlers, resync, ready callback | everything |
| Status prober (`vendor/knative.dev/networking/pkg/status`) | `ingressStates`, `podContexts`, work items, atomic counters | `IsReady`, `processWorkItem`, `CancelIngressProbing`, `CancelPodProbing` | gateway pods, the controller (callback) |
| Probe target lister (`lister.go`) | none | `ListProbeTargets`: service, port and host that stand for an Ingress | listers |
| Accessors (`pkg/reconciler/accessor`) | none | get, create, ownership check, update on a difference | listers, API server |
| Resources (`ingress/resources`) | none: pure functions | VirtualServices, Gateways, copies of Secrets; shared Gateways and copies are found by names and labels | |
| Configuration (`ingress/config`) | the last good `config-istio` | two formats, defaults, validation, gateway selection, `ToContext` | config map watcher, webhook |
| ServerlessService reconciler (`pkg/reconciler/serverlessservice`) | none between calls | `ReconcileKind`: one VirtualService and one DestinationRule per service, event handlers, resync | API server, listers, configuration store |
| Defaulting webhook, entry points, generated clients | none of interest | | |

What is hard here:

* **Stale reads.** Every decision is made on an informer's copy that trails the
  API server: which objects exist, who owns them, whether the Ingress is being
  deleted, which generation is current.
* **Concurrency without locks.** One worker per key, but informer handlers, the
  prober's workers and goroutines, users and other controllers run between any
  two of its API calls. The prober's counters are atomics shared by goroutines.
* **Lost wake-ups.** A reconciliation that returns "not ready" is only continued
  by an event: of a tracked object, of the configuration, of the prober.
* **Partial failure and crash.** A reconciliation is a dozen calls, each of which
  may fail or be the last before the process dies.
* **Sharing.** Ingresses share default Gateways, Gateways of wildcard certificates,
  origin Secrets and, when they have the same name, copies of them. Whoever is
  deleted cleans up for all; the tracker has to bring back what others need.
* **Agreement between functions.** Credential, copy, namespace, port, host and
  gateway are worked out in half a dozen places; a host is served, and probed,
  only if they agree for every configuration and every earlier state.
* **Status that outlives its cause.** Conditions are kept from one generation to
  the next and from one gateway mode to the other.

What makes each component correct: for the reconciler, that it converges (no
event lost), that Ready is true of the generation it names, that nothing of
somebody else's is touched, that nothing is made for a removed Ingress and nothing
is left of it; for the objects it makes, that every host is encrypted, routed and
visible as spec and configuration say, and probed where it is served; for what is
shared, that nothing of others is taken away for good; for the status, that the
observed generation never goes back; for the prober, that each pod is counted once,
each callback made once, that "ready" is about the spec asked for, and that probing
ends; for the ServerlessService reconciler, that the pair of objects it writes one
after the other is completed. The list of hazards with their source lines is in
`PROJECT.json`.

## 2. Modules

| Module | Models |
|---|---|
| `IngressStatus` | conditions `Ready`, `NetworkConfigured`, `LoadBalancerReady`, the `Mark*` functions, `PreProcessReconcile`, `PostProcessReconcile` as operators on a record |
| `IngressReconciler` | one Ingress key: API server, caches, queue, worker, prober as the reconciler sees it, environment |
| `MCIngressReconciler` | budgets of environment events for TLC |
| `IngressReconciler_proofs` | type correctness, the finalizer |
| `IngressReconciler_safety_proofs` | probing, observed generation, Ready, foreign objects |
| `IngressReconciler_convergence_proofs` | convergence; Ready rests on a probe where no call fails |
| `IstioConfig` | `config-istio`: formats, defaults, validation, selection, as operators on records |
| `IngressResources` | copies of certificates, Gateways and VirtualServices as functions of Ingress, configuration and Secrets, and what a VirtualService means to Istio |
| `ProbeTargets` | `ListProbeTargets` as a function of Ingress, configuration and installed Gateways |
| `IngressNetworking`, `MCIngressNetworking` | several Ingresses, configurations and certificates that change while reconciliations run; extends the three modules above |
| `IngressNetworking_proofs` | loops over slices, mesh-only mode, what makes a reconciliation fail |
| `IngressNetworking_gateway_proofs` | what an Ingress with gateways has at rest: certificates, routing, visibility, probes |
| `SharedResources`, `MCSharedResources` | the shared servers and copies, one API call at a time, on stale listers |
| `SharedResources_proofs` | its types, servers of shared Gateways, copies |
| `ProbeContract` | what the reconciler may rely on of the prober |
| `StatusProber`, `MCStatusProber` | the prober with its goroutines and counters; implements `ProbeContract` |
| `StatusProber_proofs` | counters, callback, verdicts, the refinement of `ProbeContract` |
| `ServerlessService`, `MCServerlessService` | one ServerlessService key: API server, caches, queue, worker, setting |
| `ServerlessService_proofs` | its types, that no object is taken over, that the pair is complete at rest |

Definitions named "Slip: ..." are plausible programming errors. The properties
must fail when such a definition takes the place of the one it is a variant of
(`mutants` in `PROJECT.json`); no specification uses them.

### IngressReconciler

State and code:

* `ing`, `cache`: the Ingress in the API server and in the informer. `objs`,
  `lister`: the same for its two VirtualServices, its Gateway, the copied
  certificate Secret and the origin Secret. `lag` are the objects whose last
  change the informer has not delivered, `wake` the VirtualServices among them
  with an event of a version we control (what `FilterController` looks at).
* `w` is the worker between two API calls: `pc` names the next call, `cfg` the
  configuration frozen by `ToContext`, `obj` the copy taken from the cache, `st`
  the status computed so far.
* `probe` is the prober's state of this Ingress; `ProbeContract` says what it may
  do, and `StatusProber` shows that the prober does no more.
* `applied`, `probed` are history variables for the properties.

One worker action is one call that the rest of the world can observe:
`StartReconcile` → `SetFinalizer` → `ReconcileCertSecrets` →
`ReconcileIngressGateways` → `ReconcileVirtualService` (mesh, then ingress) →
`DropExtraVirtualService` → `CheckReady` → `WriteStatus`, with
`CleanupIngressGateways`, `CleanupTLSSecrets` in mesh-only mode and `FinalizeKind`,
`ClearFinalizer` for an Ingress under deletion. `CallFails` is an error of
the call that is next. `Create` needs the name to be free and `Update` the
lister's copy to be the latest; deletes have no precondition, as in the code.

An informer jumps to the newest version of an object. The versions in between
would be those of an earlier jump: a worker that acts on one of them either
finds its update refused by the resourceVersion or acts as it would have acted
just after that earlier event. Two events of one object with nothing read in
between enqueue the same key once.

The environment edits the spec, deletes the Ingress, switches gateways on and
off, renews the certificate, deletes our objects, creates and removes a
VirtualService of our name, lets calls fail and restarts the process, each as
often as its budget says. The budgets are the only bounds: with them the
generations, certificate versions and retries are finite.

### StatusProber

A step is one section under the mutex, one atomic operation on a counter, or one
decision of a goroutine. `CheckState`, `ListTargets`, `RegisterPod`, `StoreState`
are the four parts of `IsReady` between which the lock is released. For each
pod of a state: `ProbeVerified` and `ProbeDropped` are `processWorkItem`,
`onProbingSuccess` the decrement of the pod's counter, `JoinContexts`,
`LoadPending`, `SwapPending` the two goroutines, `SettlePod` the decrement of the
Ingress's counter by whoever brought the pod's to zero, `CallReady` the callback.
`contexts[p]` numbers the contexts that were made for an IP: the last one may be
in the map, all others are cancelled.

`IsReady` is never called concurrently for one key (the controller's queue), and
`CancelIngressProbing` never comes while it runs (`FinalizerHeld` of
`IngressReconciler`: the Ingress exists during every step of `ReconcileKind`).

### IstioConfig, IngressResources, ProbeTargets, IngressNetworking

The first three hold no state: they are the pure functions of the code, under its
names (`parseNewFormat`, `Validate`, `GatewaysFromContext`, `MakeSecrets`,
`MakeIngressTLSGateways`, `MakeWildcardTLSGateways`, `getDistinctHostPrefixes`,
`makeVirtualServiceSpec`, `listGatewayTargets`, ...). A ConfigMap is what YAML makes
of it, a certificate the list of its DNS names, a host a sequence of ordered tokens
(so that prefix, suffix and sort order are those of the strings), a generated name
the record of what it is generated from. `Route` says which route of a VirtualService
answers a request at a gateway: that is Istio's part, and what properties are
stated with.

`IngressNetworking` is the state machine around them: `config` (the last accepted
ConfigMap), `spec`, `life`, `secrets`, `copies`, `gateways`, `vs`, `lb` (the load
balancers in the status), `tracked`, `queued`, and `work[i]`, the reconciliation
under way with the configuration and object it started from. Its steps are the
parts of `reconcileIngress` up to the next place where a decision is made from
a lister: `ReconcileExternalTLS`, `ReconcileClusterLocalTLS`,
`ReconcileIngressGateways`, `ReconcileVirtualServices` (with the probe), or
`ReconcileMeshOnlyIngress`, or `FinalizeKind`. Between them ConfigMaps are
written (accepted or refused), Ingresses edited and deleted, certificates issued
and renewed, and other Ingresses reconciled. Whether the Secret informer is
filtered, and whether cluster-local TLS is on, is part of the scenario.

### SharedResources

What `IngressNetworking` takes in one step is here one API call at a time, with
listers (`gwLister`, `scLister`) that trail the API server, for the two things
Ingresses fight over. `ReadOrigin` and `ReconcileCertSecret` are the reading of the
certificate and the writing of its copy, between which the tracker learns of both;
`ReconcileIngressServers` (once for each default Gateway), `ListCopies`,
`DeleteCopy` and `EndFinalize` are `FinalizeKind`. Updates of Gateways and Secrets
are refused when the lister was stale; deletes are not.

### ServerlessService

The same picture for the smaller controller, with `sks`, `cache`, `objs`, `lister`,
`lag`, `wake`, `queued` and `w` as above and `enabled` for
`EnableMeshPodAddressability`. `StartReconcile` is the generated `Reconcile` up to
the early returns of `ReconcileKind`, `ReconcileVirtualService` and
`ReconcileDestinationRule` are its two accessor calls (`Access`). An object is its
owner and the subsets it routes to or defines, so that `Addressable` can say that
every subset routed to exists. A service that is deleted and made again meets the
objects of its predecessor until garbage collection takes them. `Resync` stands for
both a new `config-istio` (`GlobalResync`) and the informer's own resync.
`FlipSetting` enqueues nothing: the resync is filtered to Istio's configuration.
`FindDeleted` is a broken watch: the informer lists again, finds an object gone, and
the event, a `DeletedFinalStateUnknown`, is dropped by `FilterController`.

## 3. Runs

Deadlock checking is off in all of them: a controller without events is at rest.

| Run | Instance | Shows |
|---|---|---|
| `edits` | 2 specs, one with a mesh VirtualService; 2 edits, a foreign VirtualService, a periodic resync | types, no lost event, foreign objects untouched; without failing calls Ready rests on a probe |
| `faults` | a plain and a TLS spec, from either mode; 2 failing calls, a restart, an edit, a deletion; or a switch of the gateways, issue/renewal of the certificate, deletion of an object by hand | finalizer, probing, observed generation, Ready; no event lost, the copied certificate follows its origin, a configuration change reaches an Ingress that is being reconciled |
| `liveness` | an edit, a deletion, a fault, under `FairSpec` | the Ingress becomes and stays Ready; deletion completes |
| `prober_races` | 1 Ingress, 2 pods, 2 specs | counters exact, callback once, no lost wake-up |
| `prober_shared` | 2 Ingresses on 1 pod, 2 probes each, an IP used again | verdicts sound; refinement of `ProbeContract` |
| `prober_liveness` | 1 pod, 2 specs, cancellation, a failing listing | cancelled probes end, probing ends |
| `addressable` | 2 ServerlessServices one after the other; one each of a switch of the setting, a failing write, tampering, a foreign object, a broken watch, a restart; under its `FairSpec` | the pair of objects is completed, nothing is taken over, resync makes up for the switch and the dropped event |
| `networking` | 1 Ingress with 5 specs, under 14 ConfigMaps, one change of each; 2 Ingresses of one name in two namespaces, one deleted, with a certificate issued, renewed or made a wildcard, or a change of ConfigMap, alone or with an edit | hosts are encrypted, routed and hidden as spec and configuration say; probes reach their Ingress; mesh-only mode is entered only when asked for, and cleans up behind itself; nothing but the environment makes a reconciliation fail |
| `shared` | 2 Ingresses of one name or of one namespace, 2 default Gateways and one that does not exist; both deleted, or one with an operator's edit and a failing call, a renewal, or a restart; under its `FairSpec` | servers of others stay, those of a released Ingress go, a deleted copy comes back, finalization ends |

The 14 ConfigMaps are the classes that the parser tells apart: absent, blank, empty
list, no YAML, one or several gateways with and without selector, no default,
invalid selector, URL too short, Service or Gateway that does not exist, old format
with and without namespace, both formats at once. The five specs are those that
`reconcileIngress` tells apart: plain, redirected, TLS for both visibilities, TLS
with certificates in and outside the gateways' namespace, and cluster-local with two
hosts whose order changes when the suffix is trimmed. One change after an arbitrary
first state is enough to meet every pair of old and new. The change of ConfigMap
with an edit, for two Ingresses that share a certificate, is what makes mesh-only
mode hard: a reconciliation that still holds the configuration with gateways writes
the shared copy after the other Ingress has cleaned up. `MeshOnlyIsClean` therefore
says what each Ingress can see to: no VirtualService of it is bound to a gateway, no
Gateway is controlled by it, and no copy that it tracks, of a certificate it
names, is left. (A copy of a certificate that nobody alive names any more stays.)

The other properties of `networking` are as strong as the code lets them be, and the
proofs showed where they had been true of the instance only:

* `EncryptedHostsServed`: the Gateway of a wildcard certificate carries the DNS names
  that the certificate had when it was reconciled. If the origin lies in the namespace
  of all gateways it is used in place, not copied and not tracked, and a renewal with
  other names reaches the Gateway only with the next reconciliation. `ShownFor` is
  what the Gateway may have been made of; every one of these has to cover the host.
* `RoutedToItsRule` and `ServedOnlyWhereVisible` are about Ingresses no host of which is
  a prefix of a host of another rule (`RulesApart`): matches are by prefix. A host that
  ends in the cluster's domain has to be a service's name (`svc.<domain>`), because
  `hostPrefix` and `ExpandedHosts` trim only these.
* `ServedOnlyWhereVisible`: a local Gateway of the Ingress is a way in for all of its
  cluster-local rules (`LocalHosts`), since one list of names goes into every match.
* `ProbesReachTheIngress` holds for the installations that `InstallationAssumption`
  describes (section 4).

Two edits are enough to have three generations at once (API server, cache,
worker), which is the most that can differ. One fault in the middle of a retry of
another needs two. One restart at any step, because nothing survives it. Two
states of the prober are needed for one to supersede the other, two pods for a
count that is neither the first nor the last.

**Fairness** (`FairSpec` of `IngressReconciler`): the worker runs when the queue
has the key, informers deliver, garbage is collected, and a probe completes once
the gateways were given the VirtualService it asks for. The first three are
client-go's and Kubernetes' loops; the last is the best that can be said of
Istio, and nothing is assumed of a probe for a VirtualService that is not
there. For the prober one condition covers all steps of goroutines and informers,
none of which can repeat for ever; it includes that a pod which exists
answers well in the end. For `ServerlessService` the worker, the informers with
their periodic resync, and garbage collection are fair. For `SharedResources` the
workers and the informers are; that retries are delayed does not matter, and
nothing is assumed of the environment. `IngressNetworking` states no liveness: with
listers that are up to date what is left is whether a reconciliation succeeds,
which `OnlyBlockedFail` says as a safety property.

### Findings: runs that end in a counterexample

Each states what a comment or a test of the repository says, and fails.

* `unprobed`: after an edit, an error while listing probe targets leaves
  `LoadBalancerReady` True from the old generation; the retry recomputes Ready from
  its dependents, takes the Ingress for Ready and skips the probe. A second road
  to the same place: an Ingress made Ready by mesh-only mode is never probed when
  gateways are switched on.
* `leftover`: finalization does not see a certificate copy that the lister
  does not show yet; the copy has no owner and stays. Finalization in mesh-only mode
  does not look at copies at all, and mesh-only reconciliation does not see a
  Gateway that the lister does not show yet, which leave things behind in the same
  way.
* `prober_deleted`: a pod deleted between the listing of targets and the
  registration of its context is probed for ever and keeps its Ingress not ready. So is
  one whose deletion is delivered as `DeletedFinalStateUnknown`, which the
  informer's handler ignores.

What the models also show, and no comment or test denies (the hazards in
`PROJECT.json` that carry a note): switching `EnableMeshPodAddressability` on enqueues
no ServerlessService before the next resync; an Ingress that drops TLS while
gateways stay on keeps its Gateway and copy; copies made for gateways of an earlier
configuration are not found again; with an empty list of local gateways a
cluster-local host is routed at the external ones; an Ingress that redirects and
has no TLS entry is probed on the HTTPS server of a default Gateway, if there is
one, where its VirtualService is not bound.

## 4. Proofs

The theorems hold for every value of the constants that satisfies the assumptions of
the modules, with nothing assumed finite except the pods of the prober (a sum is taken over them):

* `IngressReconciler`: every set of specs, every classification of them and every
  budget (`SpecsAssumption`, `BudgetAssumption`);
* `ServerlessService`: every number of services and every budget (`UidAssumption`,
  `EventsAssumption`);
* `SharedResources`: every set of Ingresses (with a namespace), every set of Gateways
  and every list of configured ones (`SharedAssumption`);
* `StatusProber`: every set of keys, spec hashes and pods, any number of states and
  of URLs per pod (`ProberAssumption`);
* `IngressNetworking`: every set of Ingresses, specs, ConfigMaps, certificates,
  Services and installed Gateways (`NetworkingAssumption`, `ScenariosAssumption`,
  `InstalledAssumption`). A rule has finitely many hosts and at least one path, and
  a spec names only certificates of the model, present or not (`WellFormed`; the
  webhook refuses a rule without paths). `InstallationAssumption` is used by
  `ProbesCorrect` alone: each rule has a path for everything, only cluster-local
  hosts have short names, and the configured Gateways are like those of
  `config/202-gateway.yaml`: their servers take every host, and the external ones
  listen on port 80 of the Service that the configuration names beside them. Without the port,
  the counterexample is the one of section 3 (an HTTPS server on a default
  Gateway); without the Service, targets are pods where the Ingress's own Gateway
  is not.

Three assumptions only say that the values which stand for "no object", "somebody
else's object" and "no hash" are not objects or hashes (`AbsentAssumption`,
`ContentAssumption`, and `"none" \notin Hashes` in `ProberAssumption`).

| Theorem | States |
|---|---|
| `TypeCorrect` | `Spec => []TypeOK` |
| `FinalizerCorrect` | `Spec => []FinalizerHeld` |
| `NoProbeCorrect` | `Spec => []NoProbeOfRemovedIngress` |
| `GenerationOrderCorrect` | `Spec => []ObservedGenerationOrder` |
| `GenerationMonotoneCorrect` | `Spec => ObservedGenerationMonotone` |
| `ReadyCorrect` | `Spec => []ReadyImpliesApplied` |
| `ForeignCorrect` | `Spec => ForeignNeverOverwritten` |
| `ServiceTypeCorrect` | `Spec => []TypeOK` of `ServerlessService` |
| `NeverTakenOverCorrect` | `Spec => NeverTakenOver` of `ServerlessService` |
| `SharedTypeCorrect` | `Spec => []TypeOK` of `SharedResources` |
| `ReleasedCorrect` | `Spec => []ReleasedLeavesNoServer` |
| `OthersServersCorrect` | `Spec => OthersServersKept` |
| `CopyKeptCorrect` | `Spec => []CopyKeptForLive` |
| `ConvergenceCorrect` | `Spec => []ConvergedWhenQuiescent` |
| `ReadyProbedCorrect` | `Unfailing` implies `Spec => []ReadyImpliesProbed` |
| `ProberTypeCorrect` | `Spec => []TypeOK` of `StatusProber` |
| `PendingCountCorrect` | `Spec => []PendingCountExact` |
| `CallbackCorrect` | `Spec => []CallbackOnce` |
| `FollowUpCorrect` | `Spec => []NotReadyIsFollowedUp` |
| `VerdictCorrect` | `Spec => []VerdictSound` |
| `ProberRefinesContract` | `Spec => ProberImplementsContract` |
| `AddressableCorrect` | `Spec => []AddressableAtRest` |
| `MeshOnlyAskedCorrect` | `Spec => []MeshOnlyIsAskedFor` |
| `MeshOnlyCleanCorrect` | `Spec => []MeshOnlyIsClean` |
| `OnlyBlockedCorrect` | `Spec => OnlyBlockedFail` |
| `EncryptedHostsCorrect` | `Spec => []EncryptedHostsServed` |
| `RoutingCorrect` | `Spec => []RoutedToItsRule` |
| `OnlyWhereVisibleCorrect` | `Spec => []ServedOnlyWhereVisible` |
| `ProbesCorrect` | `Spec => []ProbesReachTheIngress` |

The arguments:

* *Types.* Each building block (`Proceed`, `Finish`, `Write`, `Reconciled`) has a
  lemma of its own, then one case per action.
* *Finalizer.* `FinalizerHeld` is not inductive: a worker that found the finalizer
  on its copy relies on the cache. `FinalizerInv` adds that a cached copy with the
  finalizer and without deletion timestamp is of an Ingress that still has it,
  and that only a worker that saw the deletion is finalizing.
* *Probing* follows from `FinalizerInv`: a readiness check needs a live Ingress.
* *Observed generation.* `GenerationInv` adds that a status about to be written
  carries the generation of the copy that was reconciled. Worker, cache and API
  server are ordered by generation, so that a late write never goes back.
* *Ready.* `ReadyInv` follows a status that says Ready from the API server into
  the cache, the worker and back. Inside `ReconcileKind` it speaks of the
  generation being reconciled, outside of the one observed; `PreProcessReconcile`
  and `PostProcessReconcile` are where the two meet (`PreProcessReady`).
* *Foreign objects.* `ListerCurrent`: an object without undelivered events is in
  the lister as it is in the API server. So an ownership check on a stale copy
  is safe: the update it precedes is refused. The argument for `NeverTakenOver` is
  the same, with the owner in place of "ours or foreign".

* *Shared servers.* `ReleasedLeavesNoServer` is not inductive: a finalization that
  found nothing to remove relies on a lister. `ServersInv` adds that the lister
  never misses a server of an Ingress (`ListerInv`: they are only ever removed), and
  that the Gateways a finalization is past are clean of it (`CleanedOf`).
  `ServersStep` says what one step may add and remove; both theorems follow from it.
* *Copies.* `CopiesInv`: a live Ingress whose copy is out of date has a queued key, a
  reconciliation that has yet to read, a reference the tracker will call back for, or
  an event of a tracked Secret on its way. The window between `ReadOrigin` and
  `ReconcileCertSecret` is where it is needed: the certificate may be renewed while
  nobody tracks it, and then the callback for the new reference is what remains.

* *Convergence.* `ConvergedWhenQuiescent` is about the moment when nothing is queued,
  under way or undelivered. `ConvergenceInv` says what holds before that. While the
  key is queued, or an event that will queue it is on its way, nothing needs to be
  true. Otherwise the controller is *settled*: the worker's copy and configuration
  are the present ones, and each VirtualService is as desired, or has yet to be
  reached by the worker, or has an event of a version we control on its way, or the
  reconciliation is failing and will be queued again. The certificate copy is
  attended in the same way through the tracker, the status through the probe.
* *Ready rests on a probe.* False in general: see `unprobed`. `Unfailing` closes
  the roads that lead there: no failing call, no switch of the mode, and no
  spec with Gateways of its own, whose update may be refused with a conflict, which is
  a failing call too. What remains are edits, deletions, VirtualServices of others,
  resyncs and restarts. `Vouched` follows a status from the API server through cache
  and worker: `LoadBalancerReady` is True only for a generation that was probed.
* *Prober.* For a pod, `Counted`: its counter is positive and balances the probes, or
  exactly one decrement of the Ingress's counter is owed or done, whether success,
  cancellation or both brought it there. The Ingress's counter is the number of pods
  not settled (a cardinality that one `SettlePod` lowers by one). `Caused` says why a
  pod ended, which is what `VerdictSound` needs. `CallerInv` and `MapInv`
  separate the state an `IsReady` under way has made from those in the map.
* *Refinement.* `Probes` maps the prober to the contract. `StoreState` is the
  contract's `Start`, the `SettlePod` of the last pod of the state in the map its
  `Complete`, giving up a state its `Cancel`; all other steps leave `Probes` alone.
* *The pair of a ServerlessService.* `Attended`: with nobody queued, each object
  is as desired, or an event that `FilterController` lets through is on its way, or the
  worker has yet to come to it. `WakePending` is why tampering cannot be missed: an
  object of which the lister shows a version we control wakes the service when it
  changes hands.
* *Mesh-only mode.* `UpToDate`: unless a live Ingress is queued, the reconciliation
  under way has read the present configuration and spec, or the last one left the
  status, VirtualServices, Gateways and tracked copies they ask for. A copy that
  another Ingress writes later breaks this only for Ingresses that track its name,
  and the tracker queues those. `WellOwned` (the name of a Gateway says whose it is) and
  `AllLabelled` (the filtered informer sees every copy) are what makes cleanup complete.
  What remains is data: that an Ingress without gateway names gets VirtualServices for
  the mesh alone (`MeshVirtualServices`), and that a list of gateways is empty exactly if
  the ConfigMap says so (`ReportedStatus`), through `Subsequence`, the loops that
  append to a slice, and `FlattenSeq`. These are recursive functions; induction
  over them is by least counterexample on a *set* of numbers (`InductionBySet`), which needs
  no operator parameter, and `RecursionExists` shows that the recursion has a solution.
* *What makes a reconciliation fail.* `OnlyBlockedFail` follows step by step, each with
  its errors: none of them is about something an earlier reconciliation wrote, because
  a Gateway or copy that it finds is its own or is shared on purpose.
* *Ingresses with gateways.* The four properties speak of an Ingress at rest, so none
  is inductive. `GatewayInv` adds to `Inv` of the mesh-only proofs that every live
  Ingress that is not queued is `Settled`: for some set `wild` of its certificates (those that
  were wildcards when it read them) the reconciliation has come as far as its step
  says (`Progress`), and at rest everything is there (`Served`): copies with the
  present content, the Gateways of its certificates and of plain HTTP, and exactly the
  VirtualServices made from spec and names. The set has to be a witness of the
  invariant: a certificate may become a wildcard, or stop being one, while the
  reconciliation is between the two places that look at it. `CopyThere` has the
  references that the tracker knows beside the copy itself, so that a certificate that is
  renewed, or a copy that another Ingress deletes, queues the Ingress; a copy or wildcard
  Gateway that another one writes is the same as ours (`WriteSharedKept`,
  `KeptSettled`). One lemma per action (`...Rest`) shows that it takes its own Ingress one
  step further and leaves all others settled.
* *From objects to requests.* What remains is about pure functions.
  `SpecRouting` gives the layout of the routes that `makeVirtualServiceSpec` appends
  (a block of probe routes and a block of routes for each rule, by `FlattenLayout`);
  `RouteIsFirst` and `AnsweredByRule` find the first match; `DistinctPrefixes` shows
  that deduplication keeps a prefix of every host, through the least host of a
  finite set in the order of the strings (`FirstHost`), so that a host still
  matches its own rule, and by `RulesApart` no other.
* *Probes.* `TargetIs` takes a target apart into host, entry and server. If the
  Ingress has no HTTP server of its own, the configured Gateway is among its names and
  a probe route comes first at it (`ProbesFirst`). If it has one, its own Gateway
  for that Service is served (`HTTPServerThere`) and has the host on port 80.

`StepKinds` and `KindStepMoves` are the two lemmas that keep the proofs about one
Ingress short: every step either is one of the few that touch the Ingress, its cached
copy or the worker, or leaves all three alone.

Only model-checked:

* everything that needs fairness (`EventuallyReady`, `DeletionCompletes`, `QueueDrains`,
  `ProbingEnds`, `EventuallyAddressable`, `FinalizationEnds`, `CopyRestored`, ...), which the
  proof system does not handle. Every invariant and every action property that a
  passing run checks is also a theorem.

Induction over data is out of the provers' reach where it takes an operator as a
parameter. The functions of the model are written so that it is not needed: loops that
filter a slice are `Subsequence`, the deduplication of prefixes is stated by what it
keeps (the fold of the code keeps a prefix unless that of an earlier host, kept or
not, is a prefix of it: one that was dropped has a shorter one before it), and the rest is
`InductionBySet`.

## 5. What is left out

* Leader election; an Ingress that is created again under its name; the
  selector of the route label from before version 0.12; observers.
* In `IngressReconciler`: several certificates and gateways per Ingress, wildcard
  certificates and the default Gateways, which are in `IngressNetworking` and
  `SharedResources`. Conditions are their status, without reasons.
* In `IngressNetworking`: weights, headers, rewrites and timeouts of routes, copied one
  by one; hashes and truncation of names; certificates beyond their DNS names. Its
  steps do not fail halfway and its listers are current.
* The lease of a tracked reference, which every periodic resync renews before it
  ends.
* In `StatusProber`: the order and delays of its work queue, timeouts (a timed-out
  probe is one that failed), the number of workers.
* Broken watches for Ingresses and their VirtualServices (they are in
  `ServerlessService` and, for pods, in `StatusProber`); foreground deletion.
* Listed in `PROJECT.json` as not modelled: entry points, generated clients, the
  webhook, test support.

## 6. What could follow

1. Broken watches in `IngressReconciler`, as in `ServerlessService`.
2. Steps of `IngressNetworking` that fail halfway and listers that trail, which
   `IngressReconciler` and `SharedResources` have for less data; `Progress` is the part
   of the invariant that would change.

-------------------------- MODULE SharedResources --------------------------
(***************************************************************************)
(* What several Ingresses share, with stale listers, one API call at a     *)
(* time: the servers of the default Gateways, which FinalizeKind cleans,   *)
(* and the copies of one certificate, which are named after the Ingress,   *)
(* found by the labels of their origin, and deleted with any Ingress that  *)
(* uses it.                                                                *)
(*                                                                         *)
(* Simplifications.                                                        *)
(*  - Gateways are enabled, every Ingress names the same certificate, and  *)
(*    all gateways run in one namespace: IngressNetworking is about the    *)
(*    rest.                                                                *)
(*  - The event of an Ingress is delivered at once.  A worker that read it *)
(*    before carries on, which is what a stale Ingress lister comes to.    *)
(*  - A server is its port name; SortServers makes the order a function of *)
(*    the set.                                                             *)
(***************************************************************************)
EXTENDS Naturals, Sequences

CONSTANTS
  Ingresses,     \* [ns, name] of each Ingress
  Gateways,      \* the default Gateways that exist: [kind |-> "gateway", name]
  Defaults,      \* the configured ones, external before local, in order
  Populations,   \* the sets of Ingresses the system may start with
  Budgets        \* how often each event of the environment may happen

Events == {"delete", "renew", "operator", "fault", "restart"}

ASSUME SharedAssumption ==
  /\ Ingresses \subseteq [ns: STRING, name: STRING] /\ \A i \in Ingresses : i.ns # ""
  /\ Gateways \subseteq [kind: {"gateway"}, name: STRING]
  /\ Defaults \in Seq([kind: {"gateway"}, name: STRING]) /\ Defaults # <<>>
  /\ Populations \subseteq (SUBSET Ingresses) \ {{}}
  /\ Budgets \subseteq [Events -> Nat]

(* Secrets: the certificate, and a copy for each name of an Ingress. *)
Origin == [kind |-> "origin", name |-> ""]
targetSecret(i) == [kind |-> "copy", name |-> i.name]
Copies == {targetSecret(i) : i \in Ingresses}
Secrets == {Origin} \cup Copies
Absent == 0

(* Port names of servers: ns/name:n of an Ingress, or what belongs to none. *)
Operator == [ns |-> "", name |-> "http"]
Placeholder == [ns |-> "", name |-> "place-holder"]
Servers == Ingresses \cup {Operator, Placeholder}

VARIABLES
  life,       \* "live", "deleting" or "gone"
  servers,    \* servers[g] in the API server
  gwLister,   \* the same in the informer's cache
  secrets,    \* the version of the certificate that each Secret holds, or Absent
  scLister,   \* the same in the informer's cache
  lag,        \* objects with events not delivered yet
  tracked,    \* tracked[i]: the Secrets whose events enqueue it
  queued,     \* the keys in the work queue
  work,       \* work[i]: the reconciliation of it that is under way
  budget

vars == <<life, servers, gwLister, secrets, scLister, lag, tracked, queued, work, budget>>

ApiUnchanged == UNCHANGED <<servers, secrets, lag>>
ListersUnchanged == UNCHANGED <<gwLister, scLister>>

-----------------------------------------------------------------------------
(***************************************************************************)
(* Reconciliations.  next counts the Gateways, read is the certificate that *)
(* GetSecrets returned, todo the copies yet to be deleted.                  *)
(***************************************************************************)
Work == [pc: {"idle", "secrets", "copy", "servers", "list", "delete"}, next: Nat, read: Nat,
         todo: SUBSET Copies, err: BOOLEAN]

At(pc) == [pc |-> pc, next |-> 1, read |-> Absent, todo |-> {}, err |-> FALSE]
Idle == At("idle")

Proceed(i, to) == work' = [work EXCEPT ![i] = to]

(* Slip: the key is forgotten on an error. *)
RetryForgotten(i) == Proceed(i, Idle) /\ UNCHANGED queued

Retry(i) == Proceed(i, Idle) /\ queued' = queued \cup {i}

Spend(e) == budget[e] > 0 /\ budget' = [budget EXCEPT ![e] = @ - 1]

StartReconcile(i) ==
  /\ i \in queued
  /\ work[i] = Idle
  /\ queued' = queued \ {i}
  /\ Proceed(i, IF life[i] = "live" THEN At("secrets") ELSE IF life[i] = "deleting" THEN At("servers") ELSE Idle)
  /\ ApiUnchanged /\ ListersUnchanged /\ UNCHANGED <<life, tracked, budget>>

(* GetSecrets reads the certificate from the lister, before it is tracked. *)
ReadOrigin(i) ==
  /\ work[i].pc = "secrets"
  /\ IF scLister[Origin] = Absent
     THEN Retry(i)
     ELSE Proceed(i, [At("copy") EXCEPT !.read = scLister[Origin]]) /\ UNCHANGED queued
  /\ ApiUnchanged /\ ListersUnchanged /\ UNCHANGED <<life, tracked, budget>>

(* Slip: only the origin is tracked, not the copy. *)
TrackedOriginOnly(i) == {Origin}

TrackedBy(i) == {Origin, targetSecret(i)}

(* Slip: a reference that is new to the tracker does not call back. *)
TrackedSilently(i) == {}

(* TrackReference calls back for a reference it did not have. *)
CalledBack(i) == {j \in {i} : ~(TrackedBy(i) \subseteq tracked[i])}

WriteSecret(s, v) == secrets' = [secrets EXCEPT ![s] = v] /\ lag' = lag \cup {s} /\ UNCHANGED servers

(* Create needs the name to be free, Update the lister's copy to be the latest. *)
AcceptsWrite(s) == IF scLister[s] = Absent THEN secrets[s] = Absent ELSE s \notin lag

(* reconcileCertSecrets for the one copy. *)
ReconcileCertSecret(i) ==
  LET s == targetSecret(i)
      v == work[i].read
  IN /\ work[i].pc = "copy"
     /\ tracked' = [tracked EXCEPT ![i] = @ \cup TrackedBy(i)]
     /\ Proceed(i, Idle)
     /\ \/ /\ scLister[s] = v
           /\ queued' = queued \cup CalledBack(i) /\ ApiUnchanged /\ UNCHANGED budget
        \/ /\ scLister[s] # v /\ AcceptsWrite(s)
           /\ queued' = queued \cup CalledBack(i) /\ WriteSecret(s, v) /\ UNCHANGED budget
        \/ /\ scLister[s] # v
           /\ IF AcceptsWrite(s) THEN Spend("fault") ELSE UNCHANGED budget
           /\ queued' = queued \cup {i} /\ ApiUnchanged
     /\ ListersUnchanged /\ UNCHANGED life

-----------------------------------------------------------------------------
(***************************************************************************)
(* FinalizeKind: the servers of each configured default Gateway in turn,    *)
(* then the copies.                                                         *)
(***************************************************************************)

(* Slip: the namespace is not looked at. *)
belongsToIngressByName(s, i) == s.name = i.name

belongsToIngress(s, i) == s = i

GetServers(present, i) == {s \in present : belongsToIngress(s, i)}

(* Nothing is wanted.  Placeholders go, and one comes back into an empty Gateway. *)
UpdateGateway(present, existing) ==
  LET kept == present \ (existing \cup {Placeholder})
  IN IF kept = {} THEN {Placeholder} ELSE kept

NextGateway(i) == IF work[i].next = Len(Defaults) THEN At("list") ELSE [work[i] EXCEPT !.next = @ + 1]

(* Slip: a conflict is taken for a Gateway that is cleaned. *)
UpdateRefusedIgnored(i) == Proceed(i, NextGateway(i)) /\ UNCHANGED queued

UpdateRefused(i) == Retry(i)

(* reconcileIngressServers and reconcileGateway with no desired server.  A    *)
(* Gateway that does not exist is not an error.                               *)
ReconcileIngressServers(i) ==
  LET g == Defaults[work[i].next]
      existing == IF g \in Gateways THEN GetServers(gwLister[g], i) ELSE {}
  IN /\ work[i].pc = "servers"
     /\ \/ /\ existing = {}
           /\ Proceed(i, NextGateway(i))
           /\ ApiUnchanged /\ UNCHANGED <<queued, budget>>
        \/ /\ existing # {} /\ g \notin lag
           /\ servers' = [servers EXCEPT ![g] = UpdateGateway(gwLister[g], existing)]
           /\ lag' = lag \cup {g}
           /\ Proceed(i, NextGateway(i))
           /\ UNCHANGED <<secrets, queued, budget>>
        \/ /\ existing # {}
           /\ IF g \in lag THEN UNCHANGED budget ELSE Spend("fault")
           /\ UpdateRefused(i)
           /\ ApiUnchanged
     /\ ListersUnchanged /\ UNCHANGED <<life, tracked>>

(* Slip: the selector matches the origin itself, too. *)
SecretsShown == {s \in Secrets : scLister[s] # Absent}

(* The labels of a copy say where it comes from, not whom it is for. *)
CopiesShown == {s \in Copies : scLister[s] # Absent}

(* cleanupCertificateSecrets: all copies that the lister shows of the origin. *)
ListCopies(i) ==
  /\ work[i].pc = "list"
  /\ Proceed(i, [At("delete") EXCEPT !.todo = CopiesShown])
  /\ ApiUnchanged /\ ListersUnchanged /\ UNCHANGED <<life, tracked, queued, budget>>

(* One delete: NotFound is an error like others, and the rest is still done. *)
DeleteCopy(i, s) ==
  /\ work[i].pc = "delete" /\ s \in work[i].todo
  /\ \/ /\ secrets[s] # Absent
        /\ WriteSecret(s, Absent)
        /\ Proceed(i, [work[i] EXCEPT !.todo = @ \ {s}])
        /\ UNCHANGED budget
     \/ /\ IF secrets[s] = Absent THEN UNCHANGED budget ELSE Spend("fault")
        /\ Proceed(i, [work[i] EXCEPT !.todo = @ \ {s}, !.err = TRUE])
        /\ ApiUnchanged
  /\ ListersUnchanged /\ UNCHANGED <<life, tracked, queued>>

(* The errors are retried; otherwise the finalizer goes, and with it the Ingress. *)
EndFinalize(i) ==
  /\ work[i].pc = "delete" /\ work[i].todo = {}
  /\ IF work[i].err
     THEN Retry(i) /\ UNCHANGED <<life, tracked>>
     ELSE /\ life' = [life EXCEPT ![i] = "gone"]
          /\ tracked' = [tracked EXCEPT ![i] = {}]
          /\ Proceed(i, Idle)
          /\ UNCHANGED queued
  /\ ApiUnchanged /\ ListersUnchanged /\ UNCHANGED budget

WorkerStep(i) ==
  \/ StartReconcile(i) \/ ReadOrigin(i) \/ ReconcileCertSecret(i)
  \/ ReconcileIngressServers(i) \/ ListCopies(i) \/ EndFinalize(i)
  \/ \E s \in Copies : DeleteCopy(i, s)

-----------------------------------------------------------------------------
(***************************************************************************)
(* Informers.  Secrets enqueue who tracks them, default Gateways nobody.   *)
(***************************************************************************)
SyncSecret(s) ==
  /\ s \in lag
  /\ lag' = lag \ {s}
  /\ scLister' = [scLister EXCEPT ![s] = secrets[s]]
  /\ queued' = queued \cup {i \in Ingresses : s \in tracked[i]}
  /\ UNCHANGED <<life, servers, gwLister, secrets, tracked, work, budget>>

SyncGateway(g) ==
  /\ g \in lag
  /\ lag' = lag \ {g}
  /\ gwLister' = [gwLister EXCEPT ![g] = servers[g]]
  /\ UNCHANGED <<life, servers, secrets, scLister, tracked, queued, work, budget>>

-----------------------------------------------------------------------------
(***************************************************************************)
(* The environment.                                                        *)
(***************************************************************************)
DeleteIngress(i) ==
  /\ life[i] = "live"
  /\ Spend("delete")
  /\ life' = [life EXCEPT ![i] = "deleting"]
  /\ queued' = queued \cup {i}
  /\ ApiUnchanged /\ ListersUnchanged /\ UNCHANGED <<tracked, work>>

(* The certificate is issued, or renewed. *)
RenewCertificate ==
  /\ Spend("renew")
  /\ WriteSecret(Origin, secrets[Origin] + 1)
  /\ ListersUnchanged /\ UNCHANGED <<life, tracked, queued, work>>

(* The operator of the default Gateway gives it a server. *)
AddServer(g) ==
  /\ Operator \notin servers[g]
  /\ Spend("operator")
  /\ servers' = [servers EXCEPT ![g] = @ \cup {Operator}]
  /\ lag' = lag \cup {g}
  /\ ListersUnchanged /\ UNCHANGED <<life, secrets, tracked, queued, work>>

(* The process dies and starts again: caches are listed, every Ingress is *)
(* enqueued, the tracker is empty.                                        *)
Restart ==
  /\ Spend("restart")
  /\ gwLister' = servers /\ scLister' = secrets /\ lag' = {}
  /\ tracked' = [i \in Ingresses |-> {}]
  /\ queued' = {i \in Ingresses : life[i] # "gone"}
  /\ work' = [i \in Ingresses |-> Idle]
  /\ UNCHANGED <<life, servers, secrets>>

Environment ==
  \/ \E i \in Ingresses : DeleteIngress(i)
  \/ RenewCertificate \/ Restart
  \/ \E g \in Gateways : AddServer(g)

(* The controller starts; the default Gateways still hold servers that an    *)
(* earlier release put there, and the certificate may yet have to be issued. *)
Init ==
  /\ \E present \in Populations :
       /\ life = [i \in Ingresses |-> IF i \in present THEN "live" ELSE "gone"]
       /\ servers = [g \in Gateways |-> present]
       /\ queued = present
  /\ gwLister = servers
  /\ budget \in Budgets
  /\ \E v \in {1} \cup {x \in {Absent} : budget["renew"] > 0} :
       secrets = [s \in Secrets |-> IF s = Origin THEN v ELSE Absent]
  /\ scLister = secrets
  /\ lag = {}
  /\ tracked = [i \in Ingresses |-> {}]
  /\ work = [i \in Ingresses |-> Idle]

Next ==
  \/ \E i \in Ingresses : WorkerStep(i)
  \/ \E s \in Secrets : SyncSecret(s)
  \/ \E g \in Gateways : SyncGateway(g)
  \/ Environment

Spec == Init /\ [][Next]_vars

(* Workers run and informers deliver; nothing is assumed of the environment. *)
Fairness ==
  /\ \A i \in Ingresses : WF_vars(WorkerStep(i))
  /\ \A s \in Secrets : WF_vars(SyncSecret(s))
  /\ \A g \in Gateways : WF_vars(SyncGateway(g))

FairSpec == Spec /\ Fairness

-----------------------------------------------------------------------------
(***************************************************************************)
(* Properties.                                                             *)
(***************************************************************************)

(* Every variable keeps its type. *)
TypeOK ==
  /\ life \in [Ingresses -> {"live", "deleting", "gone"}]
  /\ servers \in [Gateways -> SUBSET Servers] /\ gwLister \in [Gateways -> SUBSET Servers]
  /\ secrets \in [Secrets -> Nat] /\ scLister \in [Secrets -> Nat]
  /\ lag \subseteq Gateways \cup Secrets
  /\ tracked \in [Ingresses -> SUBSET Secrets]
  /\ queued \subseteq Ingresses
  /\ work \in [Ingresses -> Work]
  /\ budget \in [Events -> Nat]

(* A finalization takes only servers of the deleted Ingress out of a shared   *)
(* Gateway: none that the operator or another Ingress of the same name has    *)
(* there, although it writes the whole list from a lister that is stale and   *)
(* that other finalizations write, too.                                       *)
OthersServersKept ==
  [][\A g \in Gateways : \A s \in (servers[g] \ servers'[g]) \ {Placeholder} :
       s \in Ingresses /\ life[s] = "deleting"]_vars

(* An Ingress is released only when its servers are gone from every default   *)
(* Gateway, and no write of another finalization brings them back; Istio      *)
(* refuses a Gateway without servers.                                         *)
ReleasedLeavesNoServer ==
  \A g \in Gateways :
    /\ servers[g] # {}
    /\ \A n \in DOMAIN Defaults : Defaults[n] = g => \A s \in servers[g] : s \in Ingresses => life[s] # "gone"

(* When the controller is at rest, the copy of every live Ingress holds the    *)
(* current certificate: finalizations of others delete it, same-named          *)
(* Ingresses share it, the certificate is renewed while it is being read, and  *)
(* the tracker is all that brings it back.                                     *)
CopyKeptForLive ==
  lag = {} /\ queued = {} /\ (\A i \in Ingresses : work[i] = Idle) =>
    \A i \in Ingresses : life[i] = "live" => secrets[targetSecret(i)] = secrets[Origin]

(* A deleted Ingress is released, although finalizations conflict with each    *)
(* other, and find copies deleted that their lister shows.                     *)
FinalizationEnds == \A i \in Ingresses : life[i] = "deleting" ~> life[i] = "gone"

(* A live Ingress gets the copy back, or its certificate stays missing.        *)
CopyRestored ==
  \A i \in Ingresses :
    life[i] = "live" /\ secrets[Origin] # Absent ~>
      life[i] # "live" \/ secrets[targetSecret(i)] = secrets[Origin]

=============================================================================

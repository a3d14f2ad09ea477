----------------------- MODULE SharedResources_proofs -----------------------
(***************************************************************************)
(* Proofs about SharedResources, for any set of Ingresses and Gateways, any *)
(* list of configured ones and any budget of events: type correctness, and *)
(* what finalizations do to the servers of shared Gateways.                *)
(***************************************************************************)
EXTENDS SharedResources, TLAPS

(* Spending an event keeps the budget a function to Nat. *)
LEMMA SpendType ==
  ASSUME budget \in [Events -> Nat], NEW e \in Events, Spend(e)
  PROVE  budget' \in [Events -> Nat]
<1>1. budget[e] \in Nat /\ budget[e] > 0
  BY DEF Spend
<1>2. budget[e] - 1 \in Nat
  BY <1>1
<1> QED
  BY <1>2 DEF Spend

(* The states between calls that a worker is put into are of the type. *)
LEMMA AtType ==
  ASSUME NEW pc \in {"idle", "secrets", "copy", "servers", "list", "delete"}
  PROVE  At(pc) \in Work /\ At(pc).pc = pc
  BY DEF At, Work, Absent

(* A write of a Secret keeps the types. *)
LEMMA WriteSecretType ==
  ASSUME TypeOK, NEW s \in Secrets, NEW v \in Nat, WriteSecret(s, v)
  PROVE  secrets' \in [Secrets -> Nat] /\ lag' \subseteq Gateways \cup Secrets /\ UNCHANGED servers
  BY DEF TypeOK, WriteSecret

(* A Gateway is not a Secret, and no Ingress has the name of another server. *)
LEMMA Kinds ==
  /\ Gateways \cap Secrets = {}
  /\ Operator \notin Ingresses /\ Placeholder \notin Ingresses
<1>1. \A g \in Gateways : g.kind = "gateway"
  BY SharedAssumption
<1>2. \A s \in Secrets : s.kind # "gateway"
  <2>1. Origin.kind # "gateway" /\ \A i \in Ingresses : targetSecret(i).kind # "gateway"
    BY DEF Origin, targetSecret
  <2> QED
    BY <2>1 DEF Secrets, Copies
<1>3. \A i \in Ingresses : i.ns # ""
  BY SharedAssumption
<1>4. Operator.ns = "" /\ Placeholder.ns = ""
  BY DEF Operator, Placeholder
<1> QED
  BY <1>1, <1>2, <1>3, <1>4

(* A worker moves on within the type. *)
LEMMA ProceedType ==
  ASSUME work \in [Ingresses -> Work], NEW i \in Ingresses, NEW to \in Work, Proceed(i, to)
  PROVE  work' \in [Ingresses -> Work]
  BY DEF Proceed

(* Every step keeps the types. *)
LEMMA TypeInductive ==
  ASSUME TypeOK, [Next]_vars
  PROVE  TypeOK'
<1> USE DEF ApiUnchanged, ListersUnchanged
<1>i. Idle \in Work
  BY AtType DEF Idle
<1>s. Origin \in Secrets /\ Copies \subseteq Secrets /\ \A i \in Ingresses : targetSecret(i) \in Copies
  BY DEF Secrets, Copies
<1>w. \A i \in Ingresses : work[i] \in Work
  BY DEF TypeOK
<1>r. ASSUME NEW i \in Ingresses, Retry(i)
      PROVE  work' \in [Ingresses -> Work] /\ queued' \subseteq Ingresses
  BY <1>r, <1>i, ProceedType DEF Retry, TypeOK
<1>1. CASE UNCHANGED vars
  BY <1>1 DEF vars, TypeOK
<1>2. ASSUME NEW i \in Ingresses, StartReconcile(i) PROVE TypeOK'
  <2>1. work' \in [Ingresses -> Work]
    BY <1>2, <1>i, AtType, ProceedType DEF StartReconcile, TypeOK
  <2> QED
    BY <1>2, <2>1 DEF StartReconcile, TypeOK
<1>3. ASSUME NEW i \in Ingresses, ReadOrigin(i) PROVE TypeOK'
  <2>1. [At("copy") EXCEPT !.read = scLister[Origin]] \in Work
    BY <1>s DEF TypeOK, At, Work
  <2>2. work' \in [Ingresses -> Work] /\ queued' \subseteq Ingresses
    BY <1>3, <1>r, <2>1, ProceedType DEF ReadOrigin, TypeOK
  <2> QED
    BY <1>3, <2>2 DEF ReadOrigin, TypeOK
<1>4. ASSUME NEW i \in Ingresses, ReconcileCertSecret(i) PROVE TypeOK'
  <2> DEFINE s == targetSecret(i)
  <2>1. s \in Secrets /\ work[i].read \in Nat
    BY <1>s, <1>w DEF Work
  <2>2. work' \in [Ingresses -> Work]
    BY <1>4, <1>i, ProceedType DEF ReconcileCertSecret, TypeOK
  <2>3. tracked' \in [Ingresses -> SUBSET Secrets]
    BY <1>4, <1>s DEF ReconcileCertSecret, TrackedBy, TypeOK
  <2>4. queued' \subseteq Ingresses
    BY <1>4 DEF ReconcileCertSecret, CalledBack, TypeOK
  <2>5. secrets' \in [Secrets -> Nat] /\ lag' \subseteq Gateways \cup Secrets /\ UNCHANGED servers
    BY <1>4, <2>1, WriteSecretType DEF ReconcileCertSecret, TypeOK
  <2>6. budget' \in [Events -> Nat]
    BY <1>4, SpendType DEF ReconcileCertSecret, TypeOK, Events
  <2> QED
    BY <1>4, <2>2, <2>3, <2>4, <2>5, <2>6 DEF ReconcileCertSecret, TypeOK
<1>5. ASSUME NEW i \in Ingresses, ReconcileIngressServers(i) PROVE TypeOK'
  <2> DEFINE g == Defaults[work[i].next]
             existing == IF g \in Gateways THEN GetServers(gwLister[g], i) ELSE {}
  <2>0. At("list") \in Work /\ [work[i] EXCEPT !.next = @ + 1] \in Work
    BY <1>w, AtType DEF Work
  <2>1. NextGateway(i) \in Work
    BY <2>0 DEF NextGateway
  <2>2. work' \in [Ingresses -> Work] /\ queued' \subseteq Ingresses
    BY <1>5, <1>r, <2>1, ProceedType DEF ReconcileIngressServers, UpdateRefused, TypeOK
  <2>3. existing # {} => UpdateGateway(gwLister[g], existing) \subseteq Servers /\ g \in Gateways
    BY DEF UpdateGateway, GetServers, Servers, TypeOK
  <2>4. servers' \in [Gateways -> SUBSET Servers] /\ lag' \subseteq Gateways \cup Secrets /\ UNCHANGED secrets
    <3>1. CASE ApiUnchanged
      BY <3>1 DEF TypeOK
    <3>2. CASE /\ existing # {}
               /\ servers' = [servers EXCEPT ![g] = UpdateGateway(gwLister[g], existing)]
               /\ lag' = lag \cup {g} /\ UNCHANGED secrets
      BY <3>2, <2>3 DEF TypeOK
    <3> QED
      BY <1>5, <3>1, <3>2 DEF ReconcileIngressServers
  <2>5. budget' \in [Events -> Nat]
    BY <1>5, SpendType DEF ReconcileIngressServers, TypeOK, Events
  <2> QED
    BY <1>5, <2>2, <2>4, <2>5 DEF ReconcileIngressServers, TypeOK
<1>6. ASSUME NEW i \in Ingresses, ListCopies(i) PROVE TypeOK'
  <2>1. [At("delete") EXCEPT !.todo = CopiesShown] \in Work
    BY DEF At, Work, CopiesShown, Absent
  <2> QED
    BY <1>6, <2>1, ProceedType DEF ListCopies, TypeOK
<1>7. ASSUME NEW i \in Ingresses, NEW s \in Copies, DeleteCopy(i, s) PROVE TypeOK'
  <2>1. /\ [work[i] EXCEPT !.todo = @ \ {s}] \in Work
        /\ [work[i] EXCEPT !.todo = @ \ {s}, !.err = TRUE] \in Work
    BY <1>w DEF Work
  <2>2. work' \in [Ingresses -> Work]
    BY <1>7, <2>1, ProceedType DEF DeleteCopy, TypeOK
  <2>3. secrets' \in [Secrets -> Nat] /\ lag' \subseteq Gateways \cup Secrets /\ UNCHANGED servers
    BY <1>7, <1>s, WriteSecretType DEF DeleteCopy, Absent, TypeOK
  <2>4. budget' \in [Events -> Nat]
    BY <1>7, SpendType DEF DeleteCopy, TypeOK, Events
  <2> QED
    BY <1>7, <2>2, <2>3, <2>4 DEF DeleteCopy, TypeOK
<1>8. ASSUME NEW i \in Ingresses, EndFinalize(i) PROVE TypeOK'
  <2>1. work' \in [Ingresses -> Work] /\ queued' \subseteq Ingresses
    BY <1>8, <1>i, <1>r, ProceedType DEF EndFinalize, TypeOK
  <2> QED
    BY <1>8, <2>1 DEF EndFinalize, TypeOK
<1>9. ASSUME NEW s \in Secrets, SyncSecret(s) PROVE TypeOK'
  BY <1>9 DEF SyncSecret, TypeOK
<1>10. ASSUME NEW g \in Gateways, SyncGateway(g) PROVE TypeOK'
  BY <1>10 DEF SyncGateway, TypeOK
<1>11. ASSUME NEW i \in Ingresses, DeleteIngress(i) PROVE TypeOK'
  <2>1. budget' \in [Events -> Nat]
    BY <1>11, SpendType DEF DeleteIngress, TypeOK, Events
  <2> QED
    BY <1>11, <2>1 DEF DeleteIngress, TypeOK
<1>12. CASE RenewCertificate
  <2>1. budget' \in [Events -> Nat]
    BY <1>12, SpendType DEF RenewCertificate, TypeOK, Events
  <2>2. secrets[Origin] + 1 \in Nat
    BY <1>s DEF TypeOK
  <2>3. secrets' \in [Secrets -> Nat] /\ lag' \subseteq Gateways \cup Secrets /\ UNCHANGED servers
    BY <1>12, <1>s, <2>2, WriteSecretType DEF RenewCertificate
  <2> QED
    BY <1>12, <2>1, <2>3 DEF RenewCertificate, TypeOK
<1>13. ASSUME NEW g \in Gateways, AddServer(g) PROVE TypeOK'
  <2>1. budget' \in [Events -> Nat]
    BY <1>13, SpendType DEF AddServer, TypeOK, Events
  <2> QED
    BY <1>13, <2>1 DEF AddServer, Servers, TypeOK
<1>14. CASE Restart
  <2>1. budget' \in [Events -> Nat]
    BY <1>14, SpendType DEF Restart, TypeOK, Events
  <2> QED
    BY <1>14, <1>i, <2>1 DEF Restart, TypeOK
<1> QED
  BY <1>1, <1>2, <1>3, <1>4, <1>5, <1>6, <1>7, <1>8, <1>9, <1>10, <1>11, <1>12, <1>13, <1>14
     DEF Next, WorkerStep, Environment

(* The system starts in the types. *)
LEMMA InitType == Init => TypeOK
<1> SUFFICES ASSUME Init PROVE TypeOK
  OBVIOUS
<1>1. Idle \in Work
  BY AtType DEF Idle
<1>2. PICK present \in Populations :
        /\ life = [i \in Ingresses |-> IF i \in present THEN "live" ELSE "gone"]
        /\ servers = [g \in Gateways |-> present]
        /\ queued = present
  BY DEF Init
<1>3. present \subseteq Ingresses
  BY SharedAssumption
<1>4. secrets \in [Secrets -> Nat]
  BY DEF Init, Absent
<1> QED
  BY <1>1, <1>2, <1>3, <1>4, SharedAssumption DEF Init, TypeOK, Servers

(* The variables of the shared resources, of both listers and of every          *)
(* reconciliation keep their types.                                             *)
THEOREM SharedTypeCorrect == Spec => []TypeOK
<1>1. TypeOK /\ [Next]_vars => TypeOK'
  BY TypeInductive
<1> QED
  BY <1>1, InitType, PTL DEF Spec

-----------------------------------------------------------------------------
(***************************************************************************)
(* The servers of the default Gateways.                                    *)
(***************************************************************************)

(* A Gateway without undelivered events is in the lister as it is in the API  *)
(* server, and the lister never misses a server of an Ingress: these are only *)
(* ever removed.                                                              *)
ListerInv ==
  \A g \in Gateways :
    /\ g \notin lag => gwLister[g] = servers[g]
    /\ servers[g] \cap Ingresses \subseteq gwLister[g]

(* This Ingress is past the n-th configured Gateway. *)
Past(i, n) ==
  \/ work[i].pc = "servers" /\ n < work[i].next
  \/ work[i].pc \in {"list", "delete"}
  \/ life[i] = "gone"

(* Only a deleted Ingress is finalized, and the Gateways that it is past have *)
(* no server of it.                                                           *)
CleanedOf(i) ==
  /\ work[i].pc \in {"servers", "list", "delete"} => life[i] = "deleting"
  /\ work[i].pc = "servers" => work[i].next \in 1 .. Len(Defaults)
  /\ \A n \in 1 .. Len(Defaults) : Past(i, n) /\ Defaults[n] \in Gateways => i \notin servers[Defaults[n]]

CleanedInv == \A i \in Ingresses : CleanedOf(i)

NeverEmpty == \A g \in Gateways : servers[g] # {}

(* What a step may do to a Gateway: take out servers of an Ingress that is     *)
(* being finalized, take out or put in a placeholder, or add the operator's.   *)
MayRemove(s) == s = Placeholder \/ (s \in Ingresses /\ work[s].pc = "servers")
MayAdd(s) == s \in {Placeholder, Operator}

ServersStep ==
  \A g \in Gateways :
    /\ \A s \in servers[g] \ servers'[g] : MayRemove(s)
    /\ \A s \in servers'[g] \ servers[g] : MayAdd(s)
    /\ servers'[g] # {}

(* The one call that rewrites the list of servers: it succeeds only if the     *)
(* lister was current.                                                         *)
LEMMA RewriteServers ==
  ASSUME TypeOK, ListerInv, NeverEmpty, NEW i \in Ingresses, ReconcileIngressServers(i)
  PROVE  /\ ServersStep
         /\ ListerInv'
         /\ work'[i] \in {Idle, NextGateway(i)}
         /\ work'[i] = NextGateway(i) =>
              (Defaults[work[i].next] \in Gateways => i \notin servers'[Defaults[work[i].next]])
<1> DEFINE g == Defaults[work[i].next]
           existing == IF g \in Gateways THEN GetServers(gwLister[g], i) ELSE {}
<1>a. work'[i] \in {Idle, NextGateway(i)}
  BY DEF ReconcileIngressServers, UpdateRefused, Retry, Proceed, TypeOK
<1>n. Idle # NextGateway(i)
  BY DEF ReconcileIngressServers, NextGateway, Idle, At
<1>1. CASE existing = {} /\ ApiUnchanged
  <2>1. g \in Gateways => i \notin servers[g]
    BY <1>1 DEF ListerInv, GetServers, belongsToIngress
  <2> QED
    BY <1>1, <1>a, <2>1 DEF ReconcileIngressServers, ApiUnchanged, ListersUnchanged, ServersStep, ListerInv, NeverEmpty
<1>2. CASE /\ existing # {} /\ g \notin lag
           /\ servers' = [servers EXCEPT ![g] = UpdateGateway(gwLister[g], existing)]
           /\ lag' = lag \cup {g}
  <2>1. g \in Gateways /\ existing = {i} /\ gwLister[g] = servers[g]
    BY <1>2 DEF GetServers, belongsToIngress, ListerInv
  <2>2. /\ servers'[g] = UpdateGateway(servers[g], {i})
        /\ \A h \in Gateways \ {g} : servers'[h] = servers[h]
    BY <1>2, <2>1 DEF TypeOK
  <2>3. /\ servers'[g] # {}
        /\ i \notin servers'[g]
        /\ \A s \in servers[g] \ servers'[g] : s \in {i, Placeholder}
        /\ \A s \in servers'[g] \ servers[g] : s = Placeholder
    <3>1. PICK old, new : old = servers[g] /\ new = servers'[g]
      OBVIOUS
    <3>2. i # Placeholder
      BY Kinds
    <3>3. \/ old \ {i, Placeholder} = {} /\ new = {Placeholder}
          \/ old \ {i, Placeholder} # {} /\ new = old \ {i, Placeholder}
      BY <2>2, <3>1 DEF UpdateGateway
    <3>4. new # {} /\ i \notin new /\ (\A s \in old \ new : s \in {i, Placeholder}) /\ \A s \in new \ old : s = Placeholder
      BY <3>2, <3>3
    <3> QED
      BY <3>1, <3>4
  <2>4. ServersStep
    <3>1. MayRemove(i) /\ MayRemove(Placeholder) /\ MayAdd(Placeholder)
      BY DEF MayRemove, MayAdd, ReconcileIngressServers
    <3>2. ASSUME NEW h \in Gateways \ {g} PROVE servers'[h] = servers[h] /\ servers'[h] # {}
      BY <2>2 DEF NeverEmpty
    <3> HIDE DEF g, existing
    <3> QED
      BY <2>3, <3>1, <3>2 DEF ServersStep
  <2>5. ListerInv'
    BY <1>2, <2>1, <2>2, <2>3, Kinds DEF ReconcileIngressServers, ListersUnchanged, ListerInv
  <2> QED
    BY <1>a, <2>3, <2>4, <2>5
<1>3. CASE existing # {} /\ ApiUnchanged /\ UpdateRefused(i)
  <2>1. work'[i] = Idle
    BY <1>3 DEF UpdateRefused, Retry, Proceed, TypeOK
  <2> QED
    BY <1>3, <1>n, <2>1 DEF ReconcileIngressServers, ApiUnchanged, ListersUnchanged, ServersStep, ListerInv, NeverEmpty
<1> QED
  BY <1>1, <1>2, <1>3 DEF ReconcileIngressServers

(* Every other step leaves servers and lister alone, up to what the operator,  *)
(* the informer and a restart do.                                              *)
LEMMA ServersStepLemma ==
  ASSUME TypeOK, ListerInv, NeverEmpty, [Next]_vars
  PROVE  ServersStep /\ ListerInv'
<1> USE DEF ApiUnchanged, ListersUnchanged
<1>a. ASSUME UNCHANGED <<servers, gwLister>>, lag \cap Gateways \subseteq lag'
      PROVE  ServersStep /\ ListerInv'
  BY <1>a DEF ServersStep, ListerInv, NeverEmpty
<1>b. ASSUME NEW s, NEW v, WriteSecret(s, v), UNCHANGED gwLister
      PROVE  ServersStep /\ ListerInv'
  BY <1>a, <1>b DEF WriteSecret
<1>1. CASE UNCHANGED vars
  BY <1>1, <1>a DEF vars
<1>2. ASSUME NEW i \in Ingresses, WorkerStep(i) PROVE ServersStep /\ ListerInv'
  <2>1. CASE ReconcileIngressServers(i)
    BY <2>1, RewriteServers
  <2>2. CASE StartReconcile(i) \/ ReadOrigin(i) \/ ListCopies(i) \/ EndFinalize(i)
    BY <2>2, <1>a DEF StartReconcile, ReadOrigin, ListCopies, EndFinalize
  <2>3. CASE ReconcileCertSecret(i)
    BY <2>3, <1>a, <1>b DEF ReconcileCertSecret
  <2>4. ASSUME NEW s \in Copies, DeleteCopy(i, s) PROVE ServersStep /\ ListerInv'
    BY <2>4, <1>a, <1>b DEF DeleteCopy
  <2> QED
    BY <1>2, <2>1, <2>2, <2>3, <2>4 DEF WorkerStep
<1>3. ASSUME NEW s \in Secrets, SyncSecret(s) PROVE ServersStep /\ ListerInv'
  BY <1>3, <1>a, Kinds DEF SyncSecret
<1>4. ASSUME NEW g \in Gateways, SyncGateway(g) PROVE ServersStep /\ ListerInv'
  BY <1>4 DEF SyncGateway, ServersStep, ListerInv, NeverEmpty, TypeOK
<1>5. ASSUME NEW g \in Gateways, AddServer(g) PROVE ServersStep /\ ListerInv'
  <2>1. /\ servers'[g] = servers[g] \cup {Operator}
        /\ \A h \in Gateways \ {g} : servers'[h] = servers[h]
        /\ lag' = lag \cup {g} /\ UNCHANGED gwLister
    BY <1>5 DEF AddServer, TypeOK
  <2>2. ServersStep
    BY <2>1 DEF ServersStep, MayAdd, NeverEmpty
  <2> QED
    BY <2>1, <2>2, Kinds DEF ListerInv
<1>6. CASE Restart
  BY <1>6 DEF Restart, ServersStep, ListerInv, NeverEmpty
<1>7. CASE RenewCertificate
  BY <1>7, <1>b DEF RenewCertificate
<1>8. ASSUME NEW i \in Ingresses, DeleteIngress(i) PROVE ServersStep /\ ListerInv'
  BY <1>8, <1>a DEF DeleteIngress
<1> QED
  BY <1>1, <1>2, <1>3, <1>4, <1>5, <1>6, <1>7, <1>8 DEF Next, Environment

(* The length of the list of configured Gateways. *)
LEMMA DefaultsLength ==
  ASSUME NEW S, NEW q \in Seq(S), q # <<>>
  PROVE  Len(q) \in Nat \ {0} /\ DOMAIN q = 1 .. Len(q)
  OBVIOUS

(* A Gateway that is clean of an Ingress stays so: what remains to be shown of *)
(* a step is the Gateways that it moves past.                                  *)
LEMMA CleanedStays ==
  ASSUME ServersStep, NEW i \in Ingresses, CleanedOf(i),
         (work[i].pc \in {"servers", "list", "delete"} => life[i] = "deleting")',
         (work[i].pc = "servers" => work[i].next \in 1 .. Len(Defaults))',
         \A n \in 1 .. Len(Defaults) :
           Past(i, n)' /\ Defaults[n] \in Gateways => Past(i, n) \/ i \notin servers'[Defaults[n]]
  PROVE  CleanedOf(i)'
<1>1. \A g \in Gateways : i \notin servers[g] => i \notin servers'[g]
  BY Kinds DEF ServersStep, MayAdd
<1> QED
  BY <1>1 DEF CleanedOf

(* A step that stops the reconciliation, or does not move it, moves past none. *)
LEMMA CleanedKept ==
  ASSUME ServersStep, NEW i \in Ingresses, CleanedOf(i),
         work'[i] \in {work[i], Idle},
         work'[i] = work[i] => life'[i] = life[i] \/ (life[i] = "live" /\ life'[i] = "deleting"),
         life'[i] = "gone" => life[i] = "gone"
  PROVE  CleanedOf(i)'
<1>1. Idle.pc = "idle"
  BY DEF Idle, At
<1>2. CASE work'[i] = Idle
  BY <1>1, <1>2, CleanedStays DEF Past
<1>3. CASE work'[i] = work[i]
  BY <1>3, CleanedStays DEF CleanedOf, Past
<1> QED
  BY <1>2, <1>3

(* The Ingress that the worker moves. *)
LEMMA CleanedMoved ==
  ASSUME TypeOK, ListerInv, NeverEmpty, ServersStep, NEW i \in Ingresses, CleanedOf(i), WorkerStep(i)
  PROVE  CleanedOf(i)'
<1>l. Len(Defaults) \in Nat \ {0}
  BY SharedAssumption, DefaultsLength
<1>i. Idle.pc = "idle" /\ \A pc \in {"secrets", "servers", "list", "delete"} : At(pc).pc = pc /\ At(pc).next = 1
  BY DEF Idle, At
<1>1. CASE StartReconcile(i)
  <2>1. life' = life /\ work'[i] \in {At("secrets"), At("servers"), Idle}
    BY <1>1 DEF StartReconcile, Proceed, TypeOK
  <2>2. work'[i] = At("servers") => life[i] = "deleting"
    BY <1>1, <1>i DEF StartReconcile, Proceed, TypeOK
  <2>3. work'[i].pc \in {"secrets", "servers", "idle"} /\ (work'[i].pc = "servers" => work'[i] = At("servers"))
    BY <1>i, <2>1
  <2>4. \A n \in 1 .. Len(Defaults) : Past(i, n)' => Past(i, n)
    BY <1>i, <1>l, <2>1, <2>3 DEF Past
  <2> QED
    BY <1>i, <1>l, <2>1, <2>2, <2>3, <2>4, CleanedStays
<1>2. CASE ReadOrigin(i)
  <2>1. life' = life /\ work'[i].pc \in {"copy", "idle"}
    BY <1>2, <1>i DEF ReadOrigin, Retry, Proceed, TypeOK, At
  <2> QED
    BY <2>1, CleanedStays DEF Past
<1>3. CASE ReconcileCertSecret(i)
  <2>1. life' = life /\ work'[i] = Idle
    BY <1>3 DEF ReconcileCertSecret, Proceed, TypeOK
  <2> QED
    BY <2>1, CleanedKept
<1>4. CASE ReconcileIngressServers(i)
  <2>1. /\ life' = life /\ life[i] = "deleting" /\ work[i].pc = "servers"
        /\ work[i].next \in 1 .. Len(Defaults) /\ work[i] \in Work
    BY <1>4 DEF ReconcileIngressServers, CleanedOf, TypeOK
  <2>2. CASE work'[i] = Idle
    BY <2>1, <2>2, CleanedKept
  <2>3. CASE work'[i] = NextGateway(i)
    <3>1. Defaults[work[i].next] \in Gateways => i \notin servers'[Defaults[work[i].next]]
      BY <1>4, <2>3, RewriteServers
    <3>2. CASE work[i].next = Len(Defaults)
      <4>1. work'[i].pc = "list"
        BY <2>3, <3>2, <1>i DEF NextGateway
      <4>2. \A n \in 1 .. Len(Defaults) : Past(i, n) \/ n = work[i].next
        BY <1>l, <2>1, <3>2 DEF Past
      <4> QED
        BY <2>1, <3>1, <4>1, <4>2, CleanedStays
    <3>3. CASE work[i].next # Len(Defaults)
      <4>1. work'[i].pc = "servers" /\ work'[i].next = work[i].next + 1
        <5>1. work'[i] = [work[i] EXCEPT !.next = @ + 1]
          BY <2>3, <3>3 DEF NextGateway
        <5> QED
          BY <2>1, <5>1 DEF Work
      <4>2. work'[i].next \in 1 .. Len(Defaults)
        BY <1>l, <2>1, <3>3, <4>1
      <4>3. \A n \in 1 .. Len(Defaults) : Past(i, n)' => Past(i, n) \/ n = work[i].next
        BY <1>l, <2>1, <4>1 DEF Past
      <4> QED
        BY <2>1, <3>1, <4>1, <4>2, <4>3, CleanedStays
    <3> QED
      BY <3>2, <3>3
  <2> QED
    BY <1>4, <2>2, <2>3, RewriteServers
<1>5. CASE ListCopies(i)
  <2>1. life' = life /\ work'[i].pc = "delete" /\ work[i].pc = "list"
    BY <1>5 DEF ListCopies, Proceed, TypeOK, At
  <2> QED
    BY <2>1, CleanedStays DEF CleanedOf, Past
<1>6. ASSUME NEW s \in Copies, DeleteCopy(i, s) PROVE CleanedOf(i)'
  <2>1. work[i] \in Work /\ work[i].pc = "delete"
    BY <1>6 DEF DeleteCopy, TypeOK
  <2>2. work'[i] \in {[work[i] EXCEPT !.todo = @ \ {s}], [work[i] EXCEPT !.todo = @ \ {s}, !.err = TRUE]}
    BY <1>6 DEF DeleteCopy, Proceed, TypeOK
  <2>3. life' = life /\ work'[i].pc = "delete"
    BY <1>6, <2>1, <2>2 DEF DeleteCopy, Work
  <2> QED
    BY <2>1, <2>3, CleanedStays DEF CleanedOf, Past
<1>7. CASE EndFinalize(i)
  <2>1. work'[i] = Idle /\ work[i].pc = "delete"
    BY <1>7 DEF EndFinalize, Retry, Proceed, TypeOK
  <2> QED
    BY <2>1, <1>i, CleanedStays DEF Past
<1> QED
  BY <1>1, <1>2, <1>3, <1>4, <1>5, <1>6, <1>7 DEF WorkerStep

(* Every step keeps the Gateways clean of what was finalized. *)
LEMMA CleanedInductive ==
  ASSUME TypeOK, ListerInv, NeverEmpty, CleanedInv, [Next]_vars
  PROVE  CleanedInv'
<1>s. ServersStep
  BY ServersStepLemma
<1>c. \A i \in Ingresses : CleanedOf(i)
  BY DEF CleanedInv
<1> SUFFICES ASSUME NEW i \in Ingresses PROVE CleanedOf(i)'
  BY DEF CleanedInv
<1>1. CASE WorkerStep(i)
  BY <1>1, <1>s, <1>c, CleanedMoved
<1>2. ASSUME NEW j \in Ingresses \ {i}, WorkerStep(j) PROVE CleanedOf(i)'
  <2>1. work'[i] = work[i] /\ life'[i] = life[i]
    BY <1>2 DEF WorkerStep, StartReconcile, ReadOrigin, ReconcileCertSecret, ReconcileIngressServers,
                ListCopies, DeleteCopy, EndFinalize, Retry, UpdateRefused, Proceed, TypeOK
  <2> QED
    BY <1>s, <1>c, <2>1, CleanedKept
<1>3. CASE UNCHANGED <<work, life>>
  BY <1>s, <1>c, <1>3, CleanedKept
<1>4. ASSUME NEW j \in Ingresses, DeleteIngress(j) PROVE CleanedOf(i)'
  <2>1. work' = work /\ (life'[i] = life[i] \/ (life[i] = "live" /\ life'[i] = "deleting"))
    BY <1>4 DEF DeleteIngress, TypeOK
  <2>2. life'[i] = "gone" => life[i] = "gone"
    BY <2>1
  <2> QED
    BY <1>s, <1>c, <2>1, <2>2, CleanedKept
<1>5. CASE Restart
  <2>1. work'[i] = Idle /\ life' = life
    BY <1>5 DEF Restart
  <2> QED
    BY <1>s, <1>c, <2>1, CleanedKept
<1> QED
  BY <1>1, <1>2, <1>3, <1>4, <1>5
     DEF Next, Environment, vars, SyncSecret, SyncGateway, RenewCertificate, AddServer

(* The inductive invariant of the shared servers. *)
ServersInv == TypeOK /\ ListerInv /\ NeverEmpty /\ CleanedInv

(* It holds at the start. *)
LEMMA InitServers == Init => ServersInv
<1> SUFFICES ASSUME Init PROVE ServersInv
  OBVIOUS
<1>1. TypeOK
  BY InitType
<1>2. PICK present \in Populations :
        /\ life = [i \in Ingresses |-> IF i \in present THEN "live" ELSE "gone"]
        /\ servers = [g \in Gateways |-> present]
  BY DEF Init
<1>3. present # {}
  BY SharedAssumption
<1>4. NeverEmpty /\ ListerInv
  BY <1>2, <1>3 DEF Init, NeverEmpty, ListerInv
<1>5. CleanedInv
  <2>1. \A i \in Ingresses : work[i].pc = "idle"
    BY DEF Init, Idle, At
  <2> QED
    BY <1>2, <2>1 DEF CleanedInv, CleanedOf, Past
<1> QED
  BY <1>1, <1>4, <1>5 DEF ServersInv

(* And is kept. *)
LEMMA ServersInductive == ServersInv /\ [Next]_vars => ServersInv' /\ ServersStep
<1> SUFFICES ASSUME ServersInv, [Next]_vars PROVE ServersInv' /\ ServersStep
  OBVIOUS
<1>1. TypeOK' /\ ListerInv' /\ CleanedInv' /\ ServersStep
  BY TypeInductive, ServersStepLemma, CleanedInductive DEF ServersInv
<1> QED
  BY <1>1 DEF ServersInv, ServersStep, NeverEmpty

(* An Ingress is released only when its servers are gone from every default     *)
(* Gateway, no later write brings them back, and no Gateway is ever empty.      *)
THEOREM ReleasedCorrect == Spec => []ReleasedLeavesNoServer
<1>1. ServersInv => ReleasedLeavesNoServer
  <2> SUFFICES ASSUME ServersInv, NEW g \in Gateways, NEW n \in DOMAIN Defaults, Defaults[n] = g,
                      NEW s \in servers[g], s \in Ingresses, life[s] = "gone"
               PROVE  FALSE
    BY DEF ReleasedLeavesNoServer, ServersInv, NeverEmpty
  <2>1. n \in 1 .. Len(Defaults)
    BY SharedAssumption, DefaultsLength
  <2> QED
    BY <2>1 DEF ServersInv, CleanedInv, CleanedOf, Past
<1> QED
  BY <1>1, InitServers, ServersInductive, PTL DEF Spec

(* A finalization takes only servers of the deleted Ingress out of a shared     *)
(* Gateway, although it writes the whole list from a lister that may be stale.  *)
THEOREM OthersServersCorrect == Spec => OthersServersKept
<1>1. ServersInv /\ [Next]_vars =>
        [\A g \in Gateways : \A s \in (servers[g] \ servers'[g]) \ {Placeholder} :
           s \in Ingresses /\ life[s] = "deleting"]_vars
  BY ServersInductive DEF ServersInv, ServersStep, MayRemove, CleanedInv, CleanedOf
<1> QED
  BY <1>1, InitServers, ServersInductive, PTL DEF Spec, OthersServersKept

-----------------------------------------------------------------------------
(***************************************************************************)
(* The copies of the certificate.                                          *)
(***************************************************************************)

(* A Secret without undelivered events is in the lister as in the API server. *)
SecretsInv == \A s \in Secrets : s \notin lag => scLister[s] = secrets[s]

(* A live Ingress whose copy is not the current certificate has somebody who  *)
(* will see that: its key is queued, a reconciliation is about to read, the   *)
(* tracker will call back, or an event of a tracked Secret is on its way.     *)
SettledOf(i) ==
  life[i] = "live" =>
    \/ i \in queued
    \/ work[i].pc = "secrets"
    \/ /\ work[i].pc = "copy"
       /\ ~(TrackedBy(i) \subseteq tracked[i]) \/ Origin \in lag \/ work[i].read = secrets[Origin]
    \/ /\ work[i].pc = "idle" /\ TrackedBy(i) \subseteq tracked[i]
       /\ Origin \in lag \/ targetSecret(i) \in lag \/ secrets[targetSecret(i)] = secrets[Origin]

CopiesInv == SecretsInv /\ \A i \in Ingresses : SettledOf(i)

(* A change of a Secret is on its way to the lister, and is delivered to those *)
(* who track it.                                                               *)
SecretsStep ==
  \A s \in Secrets :
    /\ secrets'[s] = secrets[s] \/ s \in lag'
    /\ s \in lag => s \in lag' \/ \A i \in Ingresses : s \in tracked[i] => i \in queued'

(* What a step of others leaves to an Ingress. *)
LEMMA SettledKept ==
  ASSUME NEW i \in Ingresses, SettledOf(i), SecretsStep,
         work'[i] = work[i], tracked'[i] = tracked[i],
         i \in queued => i \in queued', life'[i] = "live" => life[i] = "live"
  PROVE  SettledOf(i)'
<1>1. TrackedBy(i)' = TrackedBy(i) /\ targetSecret(i)' = targetSecret(i) /\ Origin' = Origin
  BY DEF TrackedBy, targetSecret, Origin
<1>2. Origin \in Secrets /\ targetSecret(i) \in Secrets /\ TrackedBy(i) = {Origin, targetSecret(i)}
  BY DEF Secrets, Copies, TrackedBy
<1> QED
  BY <1>1, <1>2 DEF SettledOf, SecretsStep

(* A write of a Secret is such a step. *)
LEMMA WriteSecretStep ==
  ASSUME TypeOK, SecretsInv, NEW s \in Secrets, NEW v, WriteSecret(s, v), UNCHANGED scLister
  PROVE  SecretsInv' /\ SecretsStep
  BY DEF WriteSecret, SecretsInv, SecretsStep, TypeOK

(* Every step keeps the Secret lister current up to its events, and every step *)
(* but a restart delivers them.                                                *)
LEMMA SecretsStepLemma ==
  ASSUME TypeOK, SecretsInv, [Next]_vars
  PROVE  SecretsInv' /\ (SecretsStep \/ Restart)
<1> USE DEF ApiUnchanged, ListersUnchanged
<1>a. ASSUME UNCHANGED <<secrets, scLister>>, lag' \cap Secrets = lag \cap Secrets
      PROVE  SecretsInv' /\ SecretsStep
  BY <1>a DEF SecretsInv, SecretsStep
<1>s. Origin \in Secrets /\ Copies \subseteq Secrets /\ \A j \in Ingresses : targetSecret(j) \in Secrets
  BY DEF Secrets, Copies
<1>1. CASE UNCHANGED vars
  BY <1>1, <1>a DEF vars
<1>2. ASSUME NEW j \in Ingresses, WorkerStep(j) PROVE SecretsInv' /\ SecretsStep
  <2>1. CASE ReconcileIngressServers(j)
    <3>1. Defaults[work[j].next] \in Secrets => Defaults[work[j].next] \notin Gateways
      BY Kinds
    <3>2. lag' \cap Secrets = lag \cap Secrets
      BY <2>1, <3>1 DEF ReconcileIngressServers
    <3> QED
      BY <2>1, <3>2, <1>a DEF ReconcileIngressServers
  <2>2. CASE StartReconcile(j) \/ ReadOrigin(j) \/ ListCopies(j) \/ EndFinalize(j)
    BY <2>2, <1>a DEF StartReconcile, ReadOrigin, ListCopies, EndFinalize
  <2>3. CASE ReconcileCertSecret(j)
    BY <2>3, <1>a, <1>s, WriteSecretStep DEF ReconcileCertSecret
  <2>4. ASSUME NEW s \in Copies, DeleteCopy(j, s) PROVE SecretsInv' /\ SecretsStep
    BY <2>4, <1>a, <1>s, WriteSecretStep DEF DeleteCopy
  <2> QED
    BY <1>2, <2>1, <2>2, <2>3, <2>4 DEF WorkerStep
<1>3. ASSUME NEW s \in Secrets, SyncSecret(s) PROVE SecretsInv' /\ SecretsStep
  BY <1>3 DEF SyncSecret, SecretsInv, SecretsStep, TypeOK
<1>4. ASSUME NEW g \in Gateways, SyncGateway(g) PROVE SecretsInv' /\ SecretsStep
  BY <1>4, <1>a, Kinds DEF SyncGateway
<1>5. ASSUME NEW g \in Gateways, AddServer(g) PROVE SecretsInv' /\ SecretsStep
  BY <1>5, <1>a, Kinds DEF AddServer
<1>6. CASE Restart
  BY <1>6 DEF Restart, SecretsInv
<1>7. CASE RenewCertificate
  BY <1>7, <1>s, WriteSecretStep DEF RenewCertificate
<1>8. ASSUME NEW j \in Ingresses, DeleteIngress(j) PROVE SecretsInv' /\ SecretsStep
  BY <1>8, <1>a DEF DeleteIngress
<1> QED
  BY <1>1, <1>2, <1>3, <1>4, <1>5, <1>6, <1>7, <1>8 DEF Next, Environment

(* The Ingress that the worker moves. *)
LEMMA SettledMoved ==
  ASSUME TypeOK, SecretsInv, NEW i \in Ingresses, CleanedOf(i), SettledOf(i), WorkerStep(i)
  PROVE  SettledOf(i)'
<1> SUFFICES ASSUME life'[i] = "live" PROVE SettledOf(i)'
  BY DEF SettledOf
<1> DEFINE s == targetSecret(i)
<1> USE DEF ApiUnchanged, ListersUnchanged
<1>s. Origin \in Secrets /\ s \in Secrets /\ Origin # s /\ TrackedBy(i) = {Origin, s}
  BY DEF Secrets, Copies, Origin, targetSecret, TrackedBy
<1>i. Idle.pc = "idle" /\ At("secrets").pc = "secrets"
  BY DEF Idle, At
<1>l. life[i] = "live" /\ work[i].pc \notin {"servers", "list", "delete"}
  BY DEF CleanedOf, WorkerStep, StartReconcile, ReadOrigin, ReconcileCertSecret, ReconcileIngressServers,
         ListCopies, DeleteCopy, EndFinalize, TypeOK
<1>1. CASE StartReconcile(i)
  BY <1>1, <1>i, <1>l DEF StartReconcile, Proceed, TypeOK, SettledOf
<1>2. CASE ReadOrigin(i)
  <2>1. CASE i \in queued'
    BY <2>1 DEF SettledOf
  <2>2. CASE work'[i] = [At("copy") EXCEPT !.read = scLister[Origin]]
    <3>1. work'[i].pc = "copy" /\ work'[i].read = scLister[Origin]
      BY <2>2 DEF At
    <3>2. Origin \in lag' \/ scLister[Origin] = secrets'[Origin]
      BY <1>2, <1>s DEF ReadOrigin, SecretsInv
    <3> QED
      BY <3>1, <3>2 DEF SettledOf
  <2> QED
    BY <1>2, <2>1, <2>2 DEF ReadOrigin, Retry, Proceed, TypeOK
<1>3. CASE ReconcileCertSecret(i)
  <2>1. CASE i \in queued'
    BY <2>1 DEF SettledOf
  <2>2. CASE i \notin queued'
    <3>1. /\ work'[i].pc = "idle" /\ work[i].pc = "copy" /\ i \notin queued
          /\ TrackedBy(i) \subseteq tracked[i] /\ TrackedBy(i) \subseteq tracked'[i]
      BY <1>3, <1>i, <2>2 DEF ReconcileCertSecret, CalledBack, Proceed, TypeOK
    <3>2. Origin \in lag \/ work[i].read = secrets[Origin]
      BY <1>l, <3>1 DEF SettledOf
    <3>3. CASE scLister[s] = work[i].read /\ UNCHANGED <<secrets, lag>>
      BY <1>s, <3>1, <3>2, <3>3 DEF SettledOf, SecretsInv
    <3>4. CASE WriteSecret(s, work[i].read)
      <4>1. s \in lag'
        BY <3>4 DEF WriteSecret
      <4> QED
        BY <3>1, <4>1 DEF SettledOf
    <3> QED
      BY <1>3, <2>2, <3>3, <3>4 DEF ReconcileCertSecret
  <2> QED
    BY <2>1, <2>2
<1> QED
  BY <1>1, <1>2, <1>3, <1>l DEF WorkerStep, ReconcileIngressServers, ListCopies, DeleteCopy, EndFinalize

(* Every step keeps the copies looked after. *)
LEMMA CopiesInductive ==
  ASSUME ServersInv, CopiesInv, [Next]_vars
  PROVE  CopiesInv'
<1>t. TypeOK /\ SecretsInv /\ \A j \in Ingresses : CleanedOf(j) /\ SettledOf(j)
  BY DEF ServersInv, CleanedInv, CopiesInv
<1>0. SecretsInv' /\ (SecretsStep \/ Restart)
  BY <1>t, SecretsStepLemma
<1> SUFFICES ASSUME NEW i \in Ingresses PROVE SettledOf(i)'
  BY <1>0 DEF CopiesInv
<1>1. CASE WorkerStep(i)
  BY <1>1, <1>t, SettledMoved
<1>2. CASE Restart
  BY <1>2 DEF Restart, SettledOf
<1>3. CASE ~WorkerStep(i) /\ ~Restart
  <2> DEFINE Kept == /\ work'[i] = work[i] /\ tracked'[i] = tracked[i]
                     /\ i \in queued => i \in queued'
                     /\ life'[i] = "live" => life[i] = "live"
  <2>1. Kept
    <3>1. CASE UNCHANGED vars
      BY <3>1 DEF vars
    <3>2. ASSUME NEW j \in Ingresses \ {i}, WorkerStep(j) PROVE Kept
      BY <1>t, <3>2 DEF WorkerStep, StartReconcile, ReadOrigin, ReconcileCertSecret, ReconcileIngressServers,
                        ListCopies, DeleteCopy, EndFinalize, Retry, UpdateRefused, Proceed, TypeOK
    <3>3. ASSUME NEW j \in Ingresses, DeleteIngress(j) PROVE Kept
      BY <1>t, <3>3 DEF DeleteIngress, TypeOK
    <3>4. CASE \/ \E x \in Secrets : SyncSecret(x)
               \/ \E g \in Gateways : SyncGateway(g) \/ AddServer(g)
               \/ RenewCertificate
      BY <3>4 DEF SyncSecret, SyncGateway, AddServer, RenewCertificate
    <3> QED
      BY <1>3, <3>1, <3>2, <3>3, <3>4 DEF Next, Environment
  <2> QED
    BY <1>0, <1>3, <1>t, <2>1, SettledKept
<1> QED
  BY <1>1, <1>2, <1>3

(* When the controller is at rest, the copy of every live Ingress holds the     *)
(* current certificate, whoever deleted, renewed or shared it before.           *)
THEOREM CopyKeptCorrect == Spec => []CopyKeptForLive
<1>1. Init => CopiesInv
  <2> SUFFICES ASSUME Init PROVE CopiesInv
    OBVIOUS
  <2>1. \A i \in Ingresses : life[i] = "live" => i \in queued
    BY DEF Init
  <2> QED
    BY <2>1 DEF Init, CopiesInv, SecretsInv, SettledOf
<1>2. ServersInv /\ CopiesInv /\ [Next]_vars => CopiesInv'
  BY CopiesInductive
<1>3. CopiesInv => CopyKeptForLive
  <2>1. Idle.pc = "idle"
    BY DEF Idle, At
  <2> QED
    BY <2>1 DEF CopiesInv, SettledOf, CopyKeptForLive
<1> QED
  BY <1>1, <1>2, <1>3, InitServers, ServersInductive, PTL DEF Spec

=============================================================================

----------------------- MODULE IngressNetworking_proofs -----------------------
(***************************************************************************)
(* Proofs about IngressNetworking: what the status says of the mesh, what  *)
(* mesh-only mode leaves behind, and what makes a reconciliation fail.     *)
(***************************************************************************)
EXTENDS IngressNetworking, WellFoundedInduction, TLAPS

-----------------------------------------------------------------------------
(***************************************************************************)
(* Loops over slices.  Induction is by the least counterexample: the       *)
(* library's induction rule takes a predicate, a set of numbers is enough. *)
(***************************************************************************)

(* The order of the naturals, as a relation, is well-founded. *)
LEMMA LessThanWellFounded == IsWellFoundedOn({p \in Nat \X Nat : p[1] < p[2]}, Nat)
BY NatLessThanWellFounded DEF OpToRel

(* A set of naturals with 0 and the successor of each of its members has them all. *)
LEMMA InductionBySet ==
  ASSUME NEW T \in SUBSET Nat, 0 \in T, \A n \in T : n + 1 \in T
  PROVE  T = Nat
<1> DEFINE R == {p \in Nat \X Nat : p[1] < p[2]}
           Missing == Nat \ T
<1>1. SUFFICES ASSUME Missing # {} PROVE FALSE
  OBVIOUS
<1>2. IsWellFoundedOn(R, Nat)
  BY LessThanWellFounded
<1> HIDE DEF R
<1>3. PICK x \in Missing : \A y \in Missing : <<y, x>> \notin R
  BY <1>1, <1>2, WFMin
<1>4. \A y \in Missing : ~(y < x)
  BY <1>3 DEF R
<1>5. x \in Nat /\ x # 0 /\ x - 1 \in Nat
  OBVIOUS
<1>6. x - 1 \in T
  BY <1>4, <1>5
<1>7. (x - 1) + 1 \in T
  BY <1>6
<1> QED BY <1>5, <1>7

(* The first n values of an iteration that starts with base. *)
Iterates(f, V, base, step, n) ==
  f \in [0 .. n -> V] /\ f[0] = base /\ \A m \in 1 .. n : f[m] = step[m][f[m - 1]]

(* Recursion: every step that is given as a function can be iterated. *)
LEMMA RecursionExists ==
  ASSUME NEW V, NEW base \in V, NEW step \in [Nat -> [V -> V]], NEW n \in Nat
  PROVE  \E f : Iterates(f, V, base, step, n)
<1> DEFINE Runs(f, k) == f \in [0 .. k -> V] /\ f[0] = base /\ \A m \in 1 .. k : f[m] = step[m][f[m - 1]]
           T == {k \in Nat : \E f : Runs(f, k)}
<1>1. 0 \in T
  <2>1. Runs([m \in 0 .. 0 |-> base], 0)
    OBVIOUS
  <2> QED BY <2>1
<1>2. ASSUME NEW k \in T PROVE k + 1 \in T
  <2>1. PICK f : Runs(f, k)
    BY <1>2
  <2> DEFINE g == [m \in 0 .. k + 1 |-> IF m <= k THEN f[m] ELSE step[k + 1][f[k]]]
  <2>2. g \in [0 .. k + 1 -> V]
    <3>1. f[k] \in V
      BY <2>1
    <3>2. step[k + 1][f[k]] \in V
      BY <3>1
    <3> QED BY <2>1, <3>2
  <2>3. g[0] = base
    BY <2>1
  <2>4. ASSUME NEW m \in 1 .. k + 1 PROVE g[m] = step[m][g[m - 1]]
    <3>1. g[m - 1] = f[m - 1]
      OBVIOUS
    <3>2. CASE m <= k
      BY <2>1, <3>1, <3>2
    <3>3. CASE m = k + 1
      BY <3>1, <3>3
    <3> QED BY <3>2, <3>3
  <2>5. Runs(g, k + 1)
    BY <2>2, <2>3, <2>4
  <2> HIDE DEF Runs, g
  <2> QED BY <2>5
<1>3. T = Nat
  <2> HIDE DEF T
  <2>1. T \in SUBSET Nat
    BY DEF T
  <2> QED BY <1>1, <1>2, <2>1, InductionBySet
<1> QED BY <1>3 DEF Iterates

(* What the loop of Subsequence has collected after n rounds. *)
Collects(ret, s, chosen) ==
  /\ Subsequence(s, chosen) = ret[Len(s)]
  /\ ret[0] = <<>>
  /\ \A n \in 1 .. Len(s) : ret[n] = IF n \in chosen THEN Append(ret[n - 1], s[n]) ELSE ret[n - 1]

(* There is such a loop. *)
LEMMA SubsequenceLoop ==
  ASSUME NEW S, NEW s \in Seq(S), NEW chosen
  PROVE  \E ret \in [0 .. Len(s) -> Seq(S)] : Collects(ret, s, chosen)
<1> DEFINE V == Seq(S)
           D == 0 .. Len(s)
           Eq(f) == f = [n \in D |-> IF n = 0 THEN <<>>
                                     ELSE IF n \in chosen THEN Append(f[n - 1], s[n]) ELSE f[n - 1]]
           step == [n \in Nat |-> [q \in V |->
                      IF n \in chosen /\ n \in 1 .. Len(s) THEN Append(q, s[n]) ELSE q]]
<1>1. step \in [Nat -> [V -> V]]
  <2>1. ASSUME NEW n \in Nat, NEW q \in V
        PROVE  (IF n \in chosen /\ n \in 1 .. Len(s) THEN Append(q, s[n]) ELSE q) \in V
    OBVIOUS
  <2> HIDE DEF V
  <2> QED BY <2>1
<1>2. PICK f \in [D -> V] : f[0] = <<>> /\ \A m \in 1 .. Len(s) : f[m] = step[m][f[m - 1]]
  <2>1. <<>> \in V /\ Len(s) \in Nat
    OBVIOUS
  <2> DEFINE base == <<>>
             N == Len(s)
  <2> HIDE DEF step, V, base, N
  <2>2. \E f \in [0 .. N -> V] : f[0] = base /\ \A m \in 1 .. N : f[m] = step[m][f[m - 1]]
    <3>1. base \in V /\ N \in Nat
      BY <2>1 DEF base, N
    <3>2. PICK f : Iterates(f, V, base, step, N)
      BY <1>1, <3>1, RecursionExists
    <3> QED BY <3>2 DEF Iterates
  <2> QED BY <2>2 DEF base, N
<1>3. ASSUME NEW m \in 1 .. Len(s)
      PROVE  f[m] = IF m \in chosen THEN Append(f[m - 1], s[m]) ELSE f[m - 1]
  <2>1. f[m - 1] \in V /\ m \in Nat
    <3> HIDE DEF V
    <3> QED BY <1>2
  <2>2. step[m][f[m - 1]] = IF m \in chosen /\ m \in 1 .. Len(s) THEN Append(f[m - 1], s[m]) ELSE f[m - 1]
    <3> HIDE DEF V
    <3> QED BY <2>1
  <2> HIDE DEF step, V
  <2> QED BY <1>2, <2>2
<1>4. Eq(f)
  <2>1. f = [n \in D |-> f[n]]
    OBVIOUS
  <2>2. ASSUME NEW n \in D
        PROVE  f[n] = IF n = 0 THEN <<>> ELSE IF n \in chosen THEN Append(f[n - 1], s[n]) ELSE f[n - 1]
    <3>1. CASE n = 0
      BY <1>2, <3>1
    <3>2. CASE n \in 1 .. Len(s)
      <4>1. n # 0
        BY <3>2
      <4> HIDE DEF V
      <4> QED BY <1>3, <3>2, <4>1
    <3> QED BY <3>1, <3>2
  <2> QED BY <2>1, <2>2, Zenon
<1>5. Eq(CHOOSE g : Eq(g))
  BY <1>4
<1>6. Subsequence(s, chosen) = (CHOOSE g : Eq(g))[Len(s)]
  BY DEF Subsequence
<1>7. PICK g : Eq(g) /\ Subsequence(s, chosen) = g[Len(s)]
  <2> HIDE DEF Eq
  <2> QED BY <1>5, <1>6
<1>8. ASSUME NEW n \in D
      PROVE  g[n] = IF n = 0 THEN <<>> ELSE IF n \in chosen THEN Append(g[n - 1], s[n]) ELSE g[n - 1]
  BY <1>7, Zenon
<1> HIDE DEF V, step, Eq
<1>9. \A n \in D : g[n] = f[n]
  <2> DEFINE T == {n \in Nat : n \in D => g[n] = f[n]}
  <2>1. 0 \in T
    BY <1>2, <1>8
  <2>2. ASSUME NEW n \in T PROVE n + 1 \in T
    <3>1. SUFFICES ASSUME n + 1 \in D PROVE g[n + 1] = f[n + 1]
      OBVIOUS
    <3>2. n \in D /\ n + 1 \in 1 .. Len(s) /\ n + 1 # 0 /\ (n + 1) - 1 = n
      BY <3>1
    <3>3. g[n] = f[n]
      BY <3>2
    <3>4. g[n + 1] = IF n + 1 \in chosen THEN Append(g[n], s[n + 1]) ELSE g[n]
      BY <1>8, <3>1, <3>2
    <3>5. f[n + 1] = IF n + 1 \in chosen THEN Append(f[n], s[n + 1]) ELSE f[n]
      BY <1>3, <3>2
    <3> QED BY <3>3, <3>4, <3>5
  <2>3. T = Nat
    <3>1. T \in SUBSET Nat
      OBVIOUS
    <3> HIDE DEF T
    <3> QED BY <2>1, <2>2, <3>1, InductionBySet
  <2> QED BY <2>3
<1>10. Subsequence(s, chosen) = f[Len(s)]
  BY <1>7, <1>9
<1>11. f \in [0 .. Len(s) -> Seq(S)]
  BY <1>2 DEF V
<1>12. Collects(f, s, chosen)
  BY <1>2, <1>3, <1>10 DEF Collects
<1> QED BY <1>11, <1>12

(* What is appended to makes a sequence that is not empty. *)
LEMMA AppendedIsNonempty ==
  ASSUME NEW W, NEW q \in Seq(W), NEW e \in W
  PROVE  Append(q, e) \in Seq(W) /\ Append(q, e) # <<>>
<1>1. Append(q, e) \in Seq(W)
  OBVIOUS
<1>2. Len(Append(q, e)) = Len(q) + 1 /\ Len(q) \in Nat
  OBVIOUS
<1>3. Len(Append(q, e)) # 0
  BY <1>2
<1>4. \A z : z = <<>> => Len(z) = 0
  OBVIOUS
<1> QED BY <1>1, <1>3, <1>4, Zenon

(* Subsequence makes a sequence of entries of s at the places chosen, and none *)
(* only if there is no such place.                                             *)
LEMMA SubsequenceOf ==
  ASSUME NEW S, NEW s \in Seq(S), NEW chosen \in SUBSET DOMAIN s
  PROVE  /\ Subsequence(s, chosen) \in Seq({s[n] : n \in chosen})
         /\ Subsequence(s, chosen) = <<>> <=> chosen = {}
<1> DEFINE D == 0 .. Len(s)
           V == Seq({s[n] : n \in chosen})
<1>0. PICK ret \in [0 .. Len(s) -> Seq(S)] : Collects(ret, s, chosen)
  BY SubsequenceLoop
<1>1. /\ Subsequence(s, chosen) = ret[Len(s)]
      /\ ret[0] = <<>>
      /\ \A n \in 1 .. Len(s) : ret[n] = IF n \in chosen THEN Append(ret[n - 1], s[n]) ELSE ret[n - 1]
  BY <1>0 DEF Collects
<1> DEFINE Good(n) == ret[n] \in V /\ (ret[n] = <<>> <=> chosen \cap 1 .. n = {})
           T == {n \in Nat : n \in D => Good(n)}
<1>2. 0 \in T
  BY <1>1
<1>3. ASSUME NEW n \in T PROVE n + 1 \in T
  <2>1. SUFFICES ASSUME n + 1 \in D PROVE Good(n + 1)
    OBVIOUS
  <2>2. n \in D /\ n + 1 \in 1 .. Len(s) /\ (n + 1) - 1 = n /\ n \in Nat
    BY <2>1
  <2>3. Good(n)
    BY <2>2
  <2>4. ret[n + 1] = IF n + 1 \in chosen THEN Append(ret[n], s[n + 1]) ELSE ret[n]
    BY <1>1, <2>2
  <2>5. chosen \cap 1 .. n + 1 = (chosen \cap 1 .. n) \cup (chosen \cap {n + 1})
    BY <2>2
  <2>6. CASE n + 1 \in chosen
    <3>1. s[n + 1] \in {s[m] : m \in chosen} /\ ret[n] \in Seq({s[m] : m \in chosen})
      BY <2>3, <2>6
    <3>2. Append(ret[n], s[n + 1]) \in V /\ Append(ret[n], s[n + 1]) # <<>>
      BY <3>1, AppendedIsNonempty
    <3> QED BY <2>4, <2>5, <2>6, <3>2
  <2>7. CASE n + 1 \notin chosen
    BY <2>3, <2>4, <2>5, <2>7
  <2> QED BY <2>6, <2>7
<1>4. T = Nat
  <2>1. T \in SUBSET Nat
    OBVIOUS
  <2> HIDE DEF T
  <2> QED BY <1>2, <1>3, <2>1, InductionBySet
<1>5. Len(s) \in D /\ Len(s) \in Nat /\ chosen \cap 1 .. Len(s) = chosen
  OBVIOUS
<1>6. Good(Len(s))
  <2> HIDE DEF Good
  <2> QED BY <1>4, <1>5
<1> QED BY <1>1, <1>5, <1>6

(* What the loop of FlattenSeq has put together after n rounds. *)
LEMMA FlattenLoop ==
  ASSUME NEW R, NEW seqs \in Seq(Seq(R)), Len(seqs) # 0
  PROVE  \E g : /\ FlattenSeq(seqs) = g[Len(seqs)]
               /\ \A n \in 1 .. Len(seqs) :
                    g[n] \in Seq(R) /\ g[n] = IF n = 1 THEN seqs[n] ELSE g[n - 1] \o seqs[n]
<1> DEFINE V == Seq(R)
           D == 1 .. Len(seqs)
           Eq(f) == f = [i \in D |-> IF i = 1 THEN seqs[i] ELSE f[i - 1] \o seqs[i]]
           step == [n \in Nat |-> [q \in V |-> IF n \in D THEN IF n = 1 THEN seqs[n] ELSE q \o seqs[n] ELSE q]]
<1>0. Len(seqs) \in Nat /\ <<>> \in V /\ Len(seqs) \in D /\ \A n \in D : seqs[n] \in V
  OBVIOUS
<1>1. step \in [Nat -> [V -> V]]
  <2>1. ASSUME NEW n \in Nat, NEW q \in V
        PROVE  (IF n \in D THEN IF n = 1 THEN seqs[n] ELSE q \o seqs[n] ELSE q) \in V
    BY <1>0
  <2> HIDE DEF V
  <2> QED BY <2>1
<1>2. PICK f \in [0 .. Len(seqs) -> V] : \A m \in D : f[m] = step[m][f[m - 1]]
  <2> DEFINE base == <<>>
             N == Len(seqs)
  <2>1. base \in V /\ N \in Nat
    BY <1>0
  <2> HIDE DEF step, V, base, N
  <2>2. PICK f : Iterates(f, V, base, step, N)
    BY <1>1, <2>1, RecursionExists
  <2>3. f \in [0 .. N -> V] /\ \A m \in 1 .. N : f[m] = step[m][f[m - 1]]
    BY <2>2 DEF Iterates
  <2> QED BY <2>3 DEF N
<1> DEFINE h == [i \in D |-> f[i]]
<1>3. ASSUME NEW n \in D PROVE h[n] = IF n = 1 THEN seqs[n] ELSE h[n - 1] \o seqs[n]
  <2>1. f[n - 1] \in V /\ n \in Nat
    <3> HIDE DEF V
    <3>1. n - 1 \in 0 .. Len(seqs) /\ n \in Nat
      OBVIOUS
    <3> QED BY <3>1
  <2>2. step[n][f[n - 1]] = IF n = 1 THEN seqs[n] ELSE f[n - 1] \o seqs[n]
    <3> HIDE DEF V
    <3> QED BY <2>1
  <2>3. f[n] = IF n = 1 THEN seqs[n] ELSE f[n - 1] \o seqs[n]
    <3> HIDE DEF step, V
    <3> QED BY <1>2, <2>2
  <2>4. h[n] = f[n] /\ (n # 1 => h[n - 1] = f[n - 1])
    OBVIOUS
  <2> HIDE DEF h, step, V
  <2> QED BY <2>3, <2>4
<1>4. Eq(h)
  <2>1. h = [i \in D |-> h[i]]
    OBVIOUS
  <2> HIDE DEF h, D
  <2> QED BY <1>3, <2>1, Zenon
<1>5. PICK g : Eq(g) /\ FlattenSeq(seqs) = g[Len(seqs)]
  <2>1. FlattenSeq(seqs) = (CHOOSE g : Eq(g))[Len(seqs)]
    BY DEF FlattenSeq
  <2> HIDE DEF Eq, h
  <2>2. Eq(CHOOSE g : Eq(g))
    BY <1>4
  <2> QED BY <2>1, <2>2
<1>6. ASSUME NEW n \in D PROVE g[n] = IF n = 1 THEN seqs[n] ELSE g[n - 1] \o seqs[n]
  BY <1>5, Zenon
<1> DEFINE T == {n \in Nat : n + 1 \in D => g[n + 1] \in V}
<1> HIDE DEF Eq, h, step
<1>7. 0 \in T
  <2>1. 1 \in D /\ 0 + 1 = 1
    BY <1>0
  <2>2. g[1] = seqs[1] /\ seqs[1] \in V
    BY <1>0, <1>6, <2>1
  <2> QED BY <2>1, <2>2
<1>8. ASSUME NEW n \in T PROVE n + 1 \in T
  <2>1. SUFFICES ASSUME (n + 1) + 1 \in D PROVE g[(n + 1) + 1] \in V
    OBVIOUS
  <2>2. n + 1 \in D /\ ((n + 1) + 1) - 1 = n + 1 /\ (n + 1) + 1 # 1
    BY <2>1
  <2>3. g[(n + 1) + 1] = g[n + 1] \o seqs[(n + 1) + 1]
    BY <1>6, <2>1, <2>2
  <2>4. g[n + 1] \in V /\ seqs[(n + 1) + 1] \in V
    BY <1>0, <2>1, <2>2
  <2> QED BY <2>3, <2>4
<1>9. T = Nat
  <2>1. T \in SUBSET Nat
    OBVIOUS
  <2> HIDE DEF T
  <2> QED BY <1>7, <1>8, <2>1, InductionBySet
<1>10. ASSUME NEW n \in D PROVE g[n] \in V
  <2>1. n - 1 \in Nat /\ (n - 1) + 1 = n
    OBVIOUS
  <2> QED BY <1>9, <2>1
<1> QED BY <1>5, <1>6, <1>10

(* What is in a concatenation is in one of its parts. *)
LEMMA FlattenSeqOf ==
  ASSUME NEW R, NEW seqs \in Seq(Seq(R))
  PROVE  FlattenSeq(seqs) \in Seq(R)
<1>1. CASE Len(seqs) = 0
  <2>1. seqs = <<>>
    BY <1>1
  <2> QED BY <1>1, <2>1 DEF FlattenSeq
<1>2. CASE Len(seqs) # 0
  <2>1. Len(seqs) \in 1 .. Len(seqs)
    BY <1>2
  <2> QED BY <1>2, <2>1, FlattenLoop
<1> QED BY <1>1, <1>2

-----------------------------------------------------------------------------
(***************************************************************************)
(* What the objects and the configuration are made of.                     *)
(***************************************************************************)

(* The VirtualServices that are made without gateways are bound to the mesh only. *)
LEMMA MeshVirtualServices ==
  ASSUME NEW ing, ing.rules \in Seq(IngressRules), NEW x \in MakeVirtualServices(ing, NoNames)
  PROVE  x.gateways \subseteq {Mesh}
<1> DEFINE gws == [v \in Visibilities |-> {Mesh}]
<1>1. PICK hosts : x = makeVirtualServiceSpec(ing, gws, hosts)
  BY DEF MakeVirtualServices, MakeMeshVirtualService, NoNames
<1> DEFINE Leading(n) == getDistinctHostPrefixes(hosts \cap ing.rules[n].hosts)
           Bindings(n) == {makeMatch(h, {Mesh}) : h \in Leading(n)}
           Made(n, p, b) == [rule |-> n, path |-> p, probe |-> b, matches |-> Bindings(n)]
           R == {Made(n, p, b) : n \in DOMAIN ing.rules, p \in STRING, b \in BOOLEAN}
           seqs == [n \in DOMAIN ing.rules |-> RoutesOfRule(ing, n, gws, hosts)]
<1>2. ASSUME NEW n \in DOMAIN ing.rules PROVE RoutesOfRule(ing, n, gws, hosts) \in Seq(R)
  <2> DEFINE rule == ing.rules[n]
             Routes(probe) == [p \in DOMAIN rule.paths |->
               makeVirtualServiceRoute(hosts \cap rule.hosts, GatewaysOfRule(rule, gws), n, rule.paths[p], probe)]
  <2>1. rule \in IngressRules
    OBVIOUS
  <2>2. rule.paths \in Seq(STRING) /\ GatewaysOfRule(rule, gws) = {Mesh}
    BY <2>1 DEF IngressRules, GatewaysOfRule
  <2>3. ASSUME NEW probe \in BOOLEAN PROVE Routes(probe) \in Seq(R)
    <3> DEFINE entry(p) ==
          makeVirtualServiceRoute(hosts \cap rule.hosts, GatewaysOfRule(rule, gws), n, rule.paths[p], probe)
    <3>1. ASSUME NEW p \in DOMAIN rule.paths PROVE entry(p) \in R
      <4>1. rule.paths[p] \in STRING
        BY <2>2
      <4>2. entry(p) = Made(n, rule.paths[p], probe)
        BY <2>2 DEF makeVirtualServiceRoute
      <4> HIDE DEF Made, rule, gws
      <4> QED BY <4>1, <4>2
    <3>2. DOMAIN rule.paths = 1 .. Len(rule.paths) /\ Len(rule.paths) \in Nat
      BY <2>2
    <3>3. Routes(probe) = [p \in DOMAIN rule.paths |-> entry(p)]
      OBVIOUS
    <3> HIDE DEF R, entry, rule, Routes
    <3>4. [p \in 1 .. Len(rule.paths) |-> entry(p)] \in Seq(R)
      BY <3>1, <3>2
    <3> QED BY <3>2, <3>3, <3>4
  <2>4. RoutesOfRule(ing, n, gws, hosts)
          = IF hosts \cap rule.hosts = {} THEN <<>> ELSE Routes(TRUE) \o Routes(FALSE)
    BY DEF RoutesOfRule
  <2> DEFINE before == Routes(TRUE)
             after == Routes(FALSE)
  <2>5. before \in Seq(R) /\ after \in Seq(R)
    <3> HIDE DEF Routes, R
    <3> QED BY <2>3
  <2>6. before \o after \in Seq(R) /\ <<>> \in Seq(R)
    <3> HIDE DEF before, after, R
    <3> QED BY <2>5
  <2> HIDE DEF Routes, R, rule, gws
  <2> QED BY <2>4, <2>6
<1>3. seqs \in Seq(Seq(R))
  <2> HIDE DEF R, gws
  <2> QED BY <1>2
<1> DEFINE http == FlattenSeq(seqs)
<1>4. http \in Seq(R)
  <2> HIDE DEF R, seqs
  <2> QED BY <1>3, FlattenSeqOf
<1>5. x.gateways = UNION UNION {{m.gateways : m \in r.matches} : r \in ToSet(http)}
  BY <1>1 DEF makeVirtualServiceSpec
<1>6. ASSUME NEW r \in ToSet(http), NEW m \in r.matches PROVE m.gateways = {Mesh}
  <2>1. r \in R
    <3> HIDE DEF R, http
    <3> QED BY <1>4 DEF ToSet
  <2>2. PICK n \in DOMAIN ing.rules, p \in STRING, b \in BOOLEAN :
          r = Made(n, p, b)
    <3> HIDE DEF Made
    <3> QED BY <2>1
  <2>3. r.matches = Bindings(n)
    <3> HIDE DEF Bindings
    <3> QED BY <2>2
  <2>4. m \in Bindings(n)
    BY <2>3
  <2> QED BY <2>4 DEF makeMatch
<1> HIDE DEF http
<1> QED BY <1>5, <1>6

(* A sequence, of whatever entries. *)
IsSequence(s) == \E S : s \in Seq(S)

(* The default gateways: one for each visibility, and without a selector. *)
LEMMA DefaultsShape ==
  ASSUME NEW v \in Visibilities
  PROVE  IsSequence(defaultsOf[v]) /\ Len(defaultsOf[v]) = 1 /\ defaultsOf[v][1].selector.nil
<1>1. ASSUME NEW name, NEW url
      PROVE  Gateway(SystemNamespace, name, url, NoSelector).selector.nil
  BY DEF Gateway, NoSelector
<1> DEFINE external == Gateway(SystemNamespace, "knative-ingress-gateway", URL("istio-ingressgateway", IstioNamespace), NoSelector)
           local == Gateway(SystemNamespace, "knative-local-gateway", URL("knative-local-gateway", IstioNamespace), NoSelector)
<1>2. external.selector.nil /\ local.selector.nil
  BY <1>1, Zenon
<1>3. defaultsOf[v] = IF v = "ExternalIP" THEN <<external>> ELSE <<local>>
  BY DEF defaultsOf, Istio, defaultIngressGateways, defaultLocalGateways
<1> HIDE DEF external, local
<1>4. ASSUME NEW g PROVE <<g>> \in Seq({g}) /\ Len(<<g>>) = 1 /\ <<g>>[1] = g
  OBVIOUS
<1> QED BY <1>2, <1>3, <1>4 DEF IsSequence

(* Some gateway of a list has no selector: it is a default one. *)
LEMMA DefaultGatewaysFound ==
  ASSUME NEW gws, IsSequence(gws), NEW n \in DOMAIN gws, gws[n].selector.nil
  PROVE  defaultGateways(gws) # <<>>
<1> DEFINE chosen == {m \in DOMAIN gws : gws[m].selector.nil}
<1>1. n \in chosen /\ chosen \in SUBSET DOMAIN gws
  OBVIOUS
<1> HIDE DEF chosen
<1>2. PICK S : gws \in Seq(S)
  BY DEF IsSequence
<1>3. Subsequence(gws, chosen) # <<>>
  BY <1>1, <1>2, SubsequenceOf
<1> QED BY <1>3 DEF defaultGateways, chosen

(* The gateways of the old format have no selector. *)
LEMMA OldFormatShape ==
  ASSUME NEW entries \in Seq(OldEntries)
  PROVE  /\ IsSequence(parseOldFormatGateways(entries))
         /\ \A n \in DOMAIN parseOldFormatGateways(entries) : parseOldFormatGateways(entries)[n].selector.nil
<1> DEFINE chosen == {n \in DOMAIN entries : entries[n].rest # <<>>}
           named == Subsequence(entries, chosen)
           found == {entries[n] : n \in chosen}
           made == {parseOldFormatGateway(e) : e \in found}
<1>1. named \in Seq(found)
  <2>1. chosen \in SUBSET DOMAIN entries
    OBVIOUS
  <2> HIDE DEF chosen
  <2> QED BY <2>1, SubsequenceOf
<1>2. ASSUME NEW e PROVE parseOldFormatGateway(e).selector.nil
  BY DEF parseOldFormatGateway, Gateway, NoSelector
<1>3. parseOldFormatGateways(entries) = [n \in DOMAIN named |-> parseOldFormatGateway(named[n])]
  BY DEF parseOldFormatGateways
<1> HIDE DEF named, found
<1>4. ASSUME NEW n \in DOMAIN named PROVE parseOldFormatGateway(named[n]) \in made
  BY <1>1
<1>5. DOMAIN named = 1 .. Len(named) /\ Len(named) \in Nat
  BY <1>1
<1> HIDE DEF made
<1>6. [n \in 1 .. Len(named) |-> parseOldFormatGateway(named[n])] \in Seq(made)
  BY <1>4, <1>5
<1> QED BY <1>2, <1>3, <1>5, <1>6 DEF IsSequence

(* What an accepted ConfigMap parses to: a visibility has no gateways only if  *)
(* its list was written and is empty, else one of them is a default one; every *)
(* gateway has a URL.                                                          *)
LEMMA ParsedShape ==
  ASSUME NEW cm \in ConfigMapData, Accepted(cm), NEW v \in Visibilities
  PROVE  /\ IsSequence(Parsed(cm)[v])
         /\ Parsed(cm)[v] = <<>> <=> cm.new[v] = List(<<>>)
         /\ Parsed(cm)[v] # <<>> => defaultGateways(Parsed(cm)[v]) # <<>>
         /\ \A n \in DOMAIN Parsed(cm)[v] : Parsed(cm)[v][n].url # <<>>
<1>1. \A n \in DOMAIN Parsed(cm)[v] : Parsed(cm)[v][n].url # <<>>
  BY DEF Accepted, Validate, ValidGateway
<1>2. cm.new[v] \in Texts /\ cm.old[v] \in Seq(OldEntries)
  BY DEF ConfigMapData
<1>3. IsSequence(defaultsOf[v]) /\ defaultsOf[v] # <<>> /\ defaultGateways(defaultsOf[v]) # <<>>
  <2> DEFINE ds == defaultsOf[v]
  <2>1. IsSequence(ds) /\ Len(ds) = 1
    BY DefaultsShape
  <2>2. ds[1].selector.nil
    BY DefaultsShape
  <2> HIDE DEF ds
  <2>3. 1 \in DOMAIN ds /\ ds # <<>>
    BY <2>1 DEF IsSequence
  <2>4. defaultGateways(ds) # <<>>
    BY <2>1, <2>2, <2>3, DefaultGatewaysFound
  <2> QED BY <2>1, <2>3, <2>4 DEF ds
<1>4. cm.new[v].kind = "absent" => cm.new[v] # List(<<>>)
  BY DEF List
<1>5. CASE isNewFormatDefined(cm)
  <2>1. Parsed(cm)[v] = parseNewFormatGateways(cm, v)
    BY <1>5 DEF Parsed, parseNewFormat
  <2>2. cm.new[v].kind # "garbage"
    BY <1>5 DEF Accepted, newFormatAccepted
  <2>3. CASE cm.new[v].kind \in {"absent", "blank"}
    <3>1. Parsed(cm)[v] = defaultsOf[v]
      BY <2>1, <2>3 DEF parseNewFormatGateways
    <3>2. cm.new[v] # List(<<>>)
      BY <2>3 DEF List
    <3> QED BY <1>1, <1>3, <3>1, <3>2
  <2>4. CASE cm.new[v].kind = "list"
    <3>1. Parsed(cm)[v] = cm.new[v].gateways
      BY <2>1, <2>4 DEF parseNewFormatGateways
    <3>2. IsSequence(Parsed(cm)[v])
      BY <1>2, <3>1 DEF Texts, IsSequence
    <3>3. Parsed(cm)[v] = <<>> <=> cm.new[v] = List(<<>>)
      BY <1>2, <2>4, <3>1 DEF Texts, List
    <3>4. Parsed(cm)[v] # <<>> => defaultGateways(Parsed(cm)[v]) # <<>>
      <4>1. Parsed(cm)[v] = parseNewFormat(cm)[v]
        BY <1>5 DEF Parsed
      <4>2. Parsed(cm)[v] = <<>> \/ Len(defaultGateways(Parsed(cm)[v])) = 1
        BY <1>5, <4>1 DEF Accepted, newFormatAccepted
      <4>3. Len(<<>>) # 1
        OBVIOUS
      <4> QED BY <4>2, <4>3
    <3> QED BY <1>1, <3>2, <3>3, <3>4
  <2> QED BY <1>2, <2>2, <2>3, <2>4 DEF Texts
<1>6. CASE ~isNewFormatDefined(cm) /\ isOldFormatDefined(cm)
  <2> DEFINE old == parseOldFormatGateways(cm.old[v])
  <2>1. Parsed(cm)[v] = IF old = <<>> THEN defaultsOf[v] ELSE old
    BY <1>6 DEF Parsed, parseOldFormat, defaultValues
  <2>2. IsSequence(old) /\ \A n \in DOMAIN old : old[n].selector.nil
    BY <1>2, OldFormatShape
  <2> HIDE DEF old
  <2>3. old # <<>> => defaultGateways(old) # <<>>
    <3>1. old # <<>> => 1 \in DOMAIN old
      BY <2>2 DEF IsSequence
    <3> QED BY <2>2, <3>1, DefaultGatewaysFound
  <2>4. cm.new[v] # List(<<>>)
    BY <1>4, <1>6 DEF isNewFormatDefined
  <2> QED BY <1>1, <1>3, <2>1, <2>2, <2>3, <2>4
<1>7. CASE ~isNewFormatDefined(cm) /\ ~isOldFormatDefined(cm)
  <2>1. Parsed(cm)[v] = defaultsOf[v]
    BY <1>7 DEF Parsed
  <2>2. cm.new[v] # List(<<>>)
    BY <1>4, <1>7 DEF isNewFormatDefined
  <2> QED BY <1>1, <1>3, <2>1, <2>2
<1> QED BY <1>5, <1>6, <1>7

(* The gateways that are selected are of the configuration, and none only if *)
(* there is none.                                                            *)
LEMMA SelectedGateways ==
  ASSUME NEW cm \in ConfigMapData, Accepted(cm), NEW v \in Visibilities, NEW labels
  PROVE  /\ GatewaysFromContext(Parsed(cm), labels)[v] \in Seq({Parsed(cm)[v][n] : n \in DOMAIN Parsed(cm)[v]})
         /\ GatewaysFromContext(Parsed(cm), labels)[v] = <<>> <=> Parsed(cm)[v] = <<>>
<1> DEFINE gws == Parsed(cm)[v]
           matching == {n \in DOMAIN gws : ~gws[n].selector.nil /\ gws[n].selector.labels \subseteq labels}
           default == {n \in DOMAIN gws : gws[n].selector.nil}
           chosen == Subsequence(gws, matching)
           others == Subsequence(gws, default)
           selected == GatewaysFromContext(Parsed(cm), labels)[v]
<1>1. /\ IsSequence(gws)
      /\ gws # <<>> => others # <<>>
  BY ParsedShape DEF defaultGateways
<1>2. selected = IF chosen = <<>> THEN others ELSE chosen
  BY DEF GatewaysFromContext, filterGateway, defaultGateways
<1> DEFINE entries == {gws[n] : n \in DOMAIN gws}
<1>3. selected \in Seq(entries)
  <2>1. matching \in SUBSET DOMAIN gws /\ default \in SUBSET DOMAIN gws
    OBVIOUS
  <2>2. chosen \in Seq({gws[n] : n \in matching}) /\ others \in Seq({gws[n] : n \in default})
    <3> HIDE DEF matching, default, gws
    <3> QED BY <1>1, <2>1, SubsequenceOf DEF IsSequence
  <2>3. {gws[n] : n \in matching} \subseteq entries /\ {gws[n] : n \in default} \subseteq entries
    <3> HIDE DEF gws
    <3> QED BY <2>1
  <2> HIDE DEF chosen, others, selected, matching, default, gws, entries
  <2>4. chosen \in Seq(entries) /\ others \in Seq(entries)
    BY <2>2, <2>3
  <2> QED BY <1>2, <2>4
<1>4. selected = <<>> <=> gws = <<>>
  <2>1. gws = <<>> => matching = {} /\ default = {}
    <3> HIDE DEF gws
    <3> QED OBVIOUS
  <2>2. gws = <<>> => chosen = <<>> /\ others = <<>>
    <3>1. {} \in SUBSET DOMAIN gws
      OBVIOUS
    <3> HIDE DEF matching, default, gws
    <3>2. Subsequence(gws, {}) = <<>>
      BY <1>1, <3>1, SubsequenceOf DEF IsSequence
    <3> QED BY <2>1, <3>2
  <2> HIDE DEF chosen, others, selected, gws
  <2> QED BY <1>1, <1>2, <2>2
<1> QED BY <1>3, <1>4

(* The status of a visibility names the mesh exactly if its list is empty. *)
LEMMA ReportedStatus ==
  ASSUME NEW cm \in ConfigMapData, Accepted(cm), NEW v \in Visibilities, NEW labels
  PROVE  getLBStatus(GatewaysFromContext(Parsed(cm), labels)[v]) = <<>> <=> cm.new[v] = List(<<>>)
<1> DEFINE gws == Parsed(cm)[v]
           selected == GatewaysFromContext(Parsed(cm), labels)[v]
           entries == {gws[n] : n \in DOMAIN gws}
<1>1. (gws = <<>> <=> cm.new[v] = List(<<>>)) /\ \A n \in DOMAIN gws : gws[n].url # <<>>
  BY ParsedShape
<1>2. selected \in Seq(entries) /\ (selected = <<>> <=> gws = <<>>)
  BY SelectedGateways
<1>3. \A e \in entries : e.url # <<>>
  <2> HIDE DEF gws
  <2> QED BY <1>1
<1> HIDE DEF selected, entries, gws
<1>4. selected # <<>> => selected[1] \in entries
  BY <1>2
<1>5. getLBStatus(selected) = <<>> <=> selected = <<>>
  BY <1>3, <1>4 DEF getLBStatus
<1> QED BY <1>1, <1>2, <1>5 DEF selected

-----------------------------------------------------------------------------
(***************************************************************************)
(* The inductive invariant.                                                *)
(***************************************************************************)

(* A function on the Ingresses. *)
PerIngress(f) == f = [i \in Ingresses |-> f[i]]

Functions ==
  /\ PerIngress(life) /\ PerIngress(vs) /\ PerIngress(lb) /\ PerIngress(tracked) /\ PerIngress(work)
  /\ PerIngress(spec) /\ \A i \in Ingresses : spec[i] \in SpecsOf[i]
  /\ config \in ConfigMaps /\ Accepted(config)

IsGateway(g) == g = [key |-> g.key, owner |-> g.owner, service |-> g.service, servers |-> g.servers]

(* A Gateway made for this Ingress. *)
MadeFor(i, g) ==
  /\ IsGateway(g) /\ g.owner = i
  /\ g.key.ns = i.ns /\ g.key.name.kind = "ingress" /\ g.key.name.of = i.name

(* The name of a Gateway says whose it is: it keeps its owner when it is updated. *)
WellOwned(gws) ==
  \A g \in gws : g.key.name.kind = "ingress" => g.owner = [ns |-> g.key.ns, name |-> g.key.name.of]

(* The label that the informer may filter by is on every copy. *)
AllLabelled(cs) == \A c \in cs : c.labelled = TRUE

InGatewayPhase(w) == w.pc \in {"external", "local", "gateways", "virtualServices"}

(* A reconciliation: the object it read is the Ingress, as it was then; the way *)
(* it takes is the one for its configuration, and the Gateways that it has yet  *)
(* to write are its own.                                                        *)
Underway(i, w) ==
  /\ w = [pc |-> w.pc, istio |-> w.istio, ing |-> w.ing, names |-> w.names, own |-> w.own]
  /\ w.ing.ns = i.ns /\ w.ing.name = i.name
  /\ w.own = [v \in Visibilities |-> w.own[v]]
  /\ \A v \in Visibilities : \A g \in w.own[v] : MadeFor(i, g)
  /\ \/ InGatewayPhase(w) /\ GatewaysEnabled(w.istio)
     \/ w.pc = "mesh" /\ ~GatewaysEnabled(w.istio)
     \/ w.pc = "finalize" /\ life[i] # "live"

WorkInv == \A i \in Ingresses : work[i] = Idle \/ Underway(i, work[i])

(* What the status says, and what is left, after a reconciliation. *)
Reported(i) == lb[i] = [v \in Visibilities |-> getLBStatus(GatewaysFromContext(istio, spec[i].labels)[v])]

Clean(i) ==
  /\ (\A x \in vs[i] : x.gateways \subseteq {Mesh}) /\ ControlledBy(i) = {}
  /\ \A c \in copies :
       UsesTLS(Object(i)) /\ c.origin \in {t.secret : t \in ToSet(spec[i].tls)} => NameOf(c) \notin tracked[i]

(* Nothing that happened is lost: unless a live Ingress is in the queue, the   *)
(* reconciliation under way has read the present configuration and object, and *)
(* the last one, if none is, left what they ask for.                           *)
UpToDate(i) ==
  life[i] = "live" /\ i \notin queued =>
    IF work[i] = Idle
    THEN Reported(i) /\ (~GatewaysEnabled(istio) => Clean(i))
    ELSE work[i].istio = istio /\ work[i].ing = Object(i)

Inv ==
  /\ Functions
  /\ WellOwned(gateways)
  /\ AllLabelled(copies)
  /\ WorkInv
  /\ \A i \in Ingresses : UpToDate(i)

-----------------------------------------------------------------------------
(***************************************************************************)
(* Steps of one worker, and what they leave alone.                         *)
(***************************************************************************)

(* What a step for this Ingress may do to the others: it keeps them in the     *)
(* queue, writes no Gateways of theirs, and enqueues those that track a copy   *)
(* it writes.                                                                  *)
StepOf(i) ==
  /\ UNCHANGED <<config, spec>>
  /\ \A j \in Ingresses \ {i} :
       /\ life'[j] = life[j] /\ vs'[j] = vs[j] /\ lb'[j] = lb[j]
       /\ tracked'[j] = tracked[j] /\ work'[j] = work[j]
       /\ life[j] = "live" /\ j \in queued => j \in queued'
       /\ life[j] = "live" /\ j \notin queued' => \A c \in copies' : c \in copies \/ NameOf(c) \notin tracked[j]
  /\ \A g \in gateways' : g \in gateways \/ g.key.name.kind # "ingress" \/ g.owner = i

(* Such a step leaves the others up to date. *)
LEMMA OthersUpToDate ==
  ASSUME NEW i \in Ingresses, NEW j \in Ingresses \ {i}, StepOf(i), UpToDate(j)
  PROVE  UpToDate(j)'
<1>1. SUFFICES ASSUME life'[j] = "live", j \notin queued'
               PROVE  IF work'[j] = Idle
                      THEN Reported(j)' /\ (~GatewaysEnabled(istio') => Clean(j)')
                      ELSE work'[j].istio = istio' /\ work'[j].ing = Object(j)'
  BY DEF UpToDate
<1>2. life[j] = "live" /\ j \notin queued /\ work'[j] = work[j] /\ istio' = istio /\ Object(j)' = Object(j)
  BY <1>1 DEF StepOf, istio, Object
<1>3. IF work[j] = Idle
      THEN Reported(j) /\ (~GatewaysEnabled(istio) => Clean(j))
      ELSE work[j].istio = istio /\ work[j].ing = Object(j)
  BY <1>2 DEF UpToDate
<1>4. Reported(j) => Reported(j)'
  BY <1>2 DEF Reported, StepOf
<1>5. Clean(j) => Clean(j)'
  <2>1. ControlledBy(j) = {} => ControlledBy(j)' = {}
    <3>1. ASSUME NEW g \in ControlledBy(j)' PROVE g \in ControlledBy(j)
      <4>1. g \in gateways' /\ g.owner = j /\ g.key.name.kind = "ingress"
        BY <3>1 DEF ControlledBy
      <4>2. g \in gateways
        BY <4>1 DEF StepOf
      <4> QED BY <4>1, <4>2 DEF ControlledBy
    <3> QED BY <3>1
  <2>2. \A c \in copies' : c \in copies \/ NameOf(c) \notin tracked'[j]
    BY <1>1, <1>2 DEF StepOf
  <2>3. vs'[j] = vs[j] /\ tracked'[j] = tracked[j] /\ spec'[j] = spec[j]
    BY DEF StepOf
  <2> QED BY <1>2, <2>1, <2>2, <2>3 DEF Clean
<1> QED BY <1>2, <1>3, <1>4, <1>5

(* What is left to show of a step for one Ingress. *)
LEMMA StepPreservesInv ==
  ASSUME Inv, NEW i \in Ingresses, StepOf(i), Functions', WellOwned(gateways'), AllLabelled(copies'),
         work'[i] = Idle \/ Underway(i, work[i])', UpToDate(i)'
  PROVE  Inv'
<1>1. \A j \in Ingresses : UpToDate(j)'
  BY OthersUpToDate DEF Inv
<1>2. WorkInv'
  <2>1. ASSUME NEW j \in Ingresses, j # i PROVE work'[j] = Idle \/ Underway(j, work[j])'
    <3>1. work'[j] = work[j] /\ life'[j] = life[j]
      BY <2>1 DEF StepOf
    <3>2. work[j] = Idle \/ Underway(j, work[j])
      BY DEF Inv, WorkInv
    <3> QED BY <3>1, <3>2 DEF Underway
  <2> QED BY <2>1 DEF WorkInv
<1> QED BY <1>1, <1>2 DEF Inv

(* An Ingress is its namespace and name. *)
LEMMA IngressIsRef == ASSUME NEW i \in Ingresses PROVE i = [ns |-> i.ns, name |-> i.name]
BY NetworkingAssumption DEF Refs

(* Writing Gateways that are shared, or made for this Ingress. *)
LEMMA UpsertOwned ==
  ASSUME NEW i \in Ingresses, NEW gws, WellOwned(gws), NEW desired,
         \A d \in desired : IsGateway(d) /\ (d.key.name.kind = "ingress" => MadeFor(i, d))
  PROVE  /\ WellOwned(Upsert(gws, desired))
         /\ \A g \in Upsert(gws, desired) : g \in gws \/ g.key.name.kind # "ingress" \/ g.owner = i
<1>1. ASSUME NEW g \in Upsert(gws, desired), g \notin gws, g.key.name.kind = "ingress"
      PROVE  g.owner = i /\ g.key.ns = i.ns /\ g.key.name.of = i.name
  <2>1. PICK d \in desired :
          LET old == {x \in gws : x.key = d.key}
          IN g = [d EXCEPT !.owner = IF old = {} THEN @ ELSE (CHOOSE x \in old : TRUE).owner]
    BY <1>1 DEF Upsert
  <2> DEFINE old == {x \in gws : x.key = d.key}
             owner == IF old = {} THEN d.owner ELSE (CHOOSE x \in old : TRUE).owner
  <2>2. g = [d EXCEPT !.owner = owner]
    BY <2>1
  <2>3. IsGateway(d)
    OBVIOUS
  <2> HIDE DEF owner
  <2>4. g.owner = owner /\ g.key = d.key
    BY <2>2, <2>3 DEF IsGateway
  <2>5. MadeFor(i, d)
    BY <1>1, <2>4
  <2>6. owner = i
    <3>1. CASE old = {}
      BY <2>5, <3>1 DEF owner, MadeFor
    <3>2. CASE old # {}
      <4>1. PICK x \in old : owner = x.owner
        BY <3>2 DEF owner
      <4>2. x.owner = [ns |-> d.key.ns, name |-> d.key.name.of]
        BY <2>5 DEF WellOwned, MadeFor
      <4> QED BY <2>5, <4>1, <4>2, IngressIsRef DEF MadeFor
    <3> QED BY <3>1, <3>2
  <2> QED BY <2>4, <2>5, <2>6 DEF MadeFor
<1>2. WellOwned(Upsert(gws, desired))
  BY <1>1, IngressIsRef DEF WellOwned
<1> QED BY <1>1, <1>2

(* Copies carry the label. *)
LEMMA CopiesLabelled ==
  ASSUME NEW refs, NEW contents, NEW services, NEW names
  PROVE  AllLabelled(MakeCopies(refs, contents, services, names))
BY DEF AllLabelled, MakeCopies, makeSecret

(* So are those of MakeSecrets and MakeWildcardSecrets. *)
LEMMA SecretsLabelled ==
  ASSUME NEW refs, NEW wild, NEW contents, NEW services, NEW ing
  PROVE  /\ AllLabelled(MakeSecrets(refs, contents, services, ing))
         /\ AllLabelled(MakeSecrets(refs, contents, services, ing) \cup MakeWildcardSecrets(wild, contents, services))
<1>1. AllLabelled(MakeSecrets(refs, contents, services, ing))
  BY CopiesLabelled DEF MakeSecrets
<1>2. AllLabelled(MakeWildcardSecrets(wild, contents, services))
  BY CopiesLabelled DEF MakeWildcardSecrets
<1> QED BY <1>1, <1>2 DEF AllLabelled

(* The Gateways made for an Ingress are its own, those of a wildcard certificate *)
(* are not.                                                                      *)
LEMMA IngressGatewayMadeFor ==
  ASSUME NEW i \in Ingresses, NEW ing, ing.ns = i.ns, ing.name = i.name, NEW v, NEW servers, NEW s
  PROVE  MadeFor(i, makeIngressGateway(ing, v, servers, s))
BY IngressIsRef DEF MadeFor, IsGateway, makeIngressGateway, GatewayName

(* So are all Gateways that MakeIngressTLSGateways returns. *)
LEMMA IngressGatewaysMadeFor ==
  ASSUME NEW i \in Ingresses, NEW ing, ing.ns = i.ns, ing.name = i.name, NEW v, NEW tls, NEW services
  PROVE  \A g \in MakeIngressTLSGateways(ing, v, tls, services) : MadeFor(i, g)
BY IngressGatewayMadeFor DEF MakeIngressTLSGateways

(* AddHTTPServer keeps that, whether it makes a Gateway or extends one. *)
LEMMA HTTPServerMadeFor ==
  ASSUME NEW i \in Ingresses, NEW ing, ing.ns = i.ns, ing.name = i.name, NEW services,
         NEW gws, \A g \in gws : MadeFor(i, g)
  PROVE  \A g \in AddHTTPServer(ing, gws, services) : MadeFor(i, g)
<1>1. CASE ~shouldReconcileHTTPServer(ing)
  BY <1>1, Zenon DEF AddHTTPServer
<1>2. CASE shouldReconcileHTTPServer(ing) /\ gws = {}
  <2>1. AddHTTPServer(ing, gws, services) = MakeExternalIngressGateways(ing, MakeHTTPServer(ing), services)
    BY <1>2, Zenon DEF AddHTTPServer
  <2> QED BY <2>1, IngressGatewayMadeFor DEF MakeExternalIngressGateways
<1>3. CASE shouldReconcileHTTPServer(ing) /\ gws # {}
  <2>1. AddHTTPServer(ing, gws, services) = {[g EXCEPT !.servers = @ \cup MakeHTTPServer(ing)] : g \in gws}
    BY <1>3, Zenon DEF AddHTTPServer
  <2>2. ASSUME NEW g \in gws PROVE MadeFor(i, [g EXCEPT !.servers = @ \cup MakeHTTPServer(ing)])
    <3> DEFINE h == [g EXCEPT !.servers = @ \cup MakeHTTPServer(ing)]
    <3>1. MadeFor(i, g)
      OBVIOUS
    <3>2. h = [key |-> g.key, owner |-> g.owner, service |-> g.service,
               servers |-> g.servers \cup MakeHTTPServer(ing)]
      <4>1. PICK k, o, s, ss : g = [key |-> k, owner |-> o, service |-> s, servers |-> ss]
        BY <3>1 DEF MadeFor, IsGateway
      <4> QED BY <4>1
    <3> HIDE DEF h
    <3> QED BY <3>1, <3>2 DEF MadeFor, IsGateway, h
  <2> QED BY <2>1, <2>2
<1> QED BY <1>1, <1>2, <1>3

(* The Gateways of wildcard certificates are named for nobody. *)
LEMMA WildcardGatewaysShared ==
  ASSUME NEW refs, NEW contents, NEW services
  PROVE  \A g \in MakeWildcardTLSGateways(refs, contents, services) : IsGateway(g) /\ g.key.name.kind = "wildcard"
BY DEF MakeWildcardTLSGateways, makeWildcardTLSGateway, WildcardGatewayName, IsGateway

-----------------------------------------------------------------------------
(***************************************************************************)
(* The pieces that the steps of reconcileIngress are made of.              *)
(***************************************************************************)

(* A reconciliation goes on: only its phase and what it has collected change. *)
LEMMA ProceedStep ==
  ASSUME Inv, NEW i \in Ingresses, Underway(i, work[i]), NEW pc, NEW names, NEW own, Proceed(i, pc, names, own)
  PROVE  /\ PerIngress(work')
         /\ \A j \in Ingresses \ {i} : work'[j] = work[j]
         /\ work'[i] = [pc |-> pc, istio |-> work[i].istio, ing |-> work[i].ing, names |-> names, own |-> own]
<1>1. PICK p, c, o, n, w : work[i] = [pc |-> p, istio |-> c, ing |-> o, names |-> n, own |-> w]
  BY DEF Underway
<1>2. PerIngress(work)
  BY DEF Inv, Functions
<1> DEFINE r1 == [pc |-> pc, istio |-> c, ing |-> o, names |-> n, own |-> w]
           r2 == [pc |-> pc, istio |-> c, ing |-> o, names |-> names, own |-> w]
           r == [pc |-> pc, istio |-> c, ing |-> o, names |-> names, own |-> own]
           w1 == [work EXCEPT ![i] = r1]
           w2 == [work EXCEPT ![i] = r2]
<1>3. [work[i] EXCEPT !.pc = pc] = r1 /\ [r1 EXCEPT !.names = names] = r2 /\ [r2 EXCEPT !.own = own] = r
  BY <1>1
<1>4. work' = [work EXCEPT ![i] = r]
  <2> HIDE DEF r1, r2, r
  <2>1. [work EXCEPT ![i].pc = pc] = w1
    BY <1>2, <1>3 DEF PerIngress
  <2>2. w1[i] = r1 /\ w2[i] = r2
    BY <1>2 DEF PerIngress
  <2>3. [w1 EXCEPT ![i].names = names] = w2
    BY <1>2, <1>3, <2>2 DEF PerIngress
  <2>4. [w2 EXCEPT ![i].own = own] = [work EXCEPT ![i] = r]
    BY <1>2, <1>3, <2>2 DEF PerIngress
  <2>5. work' = [[[work EXCEPT ![i].pc = pc] EXCEPT ![i].names = names] EXCEPT ![i].own = own]
    BY DEF Proceed
  <2> HIDE DEF w1, w2
  <2> QED BY <2>1, <2>3, <2>4, <2>5
<1>5. r = [pc |-> pc, istio |-> work[i].istio, ing |-> work[i].ing, names |-> names, own |-> own]
  BY <1>1
<1> HIDE DEF r
<1> QED BY <1>2, <1>4, <1>5 DEF PerIngress

(* It ends. *)
LEMMA StopStep ==
  ASSUME Inv, NEW i \in Ingresses, Stop(i)
  PROVE  PerIngress(work') /\ work'[i] = Idle /\ \A j \in Ingresses \ {i} : work'[j] = work[j]
BY DEF Inv, Functions, PerIngress, Stop

(* One that goes on is as up to date as it was, if it stays out of the queue. *)
LEMMA GoesOn ==
  ASSUME Inv, NEW i \in Ingresses, work[i] # Idle, InGatewayPhase(work[i]),
         NEW pc \in {"local", "gateways", "virtualServices"}, NEW names, NEW own,
         own = [v \in Visibilities |-> own[v]], \A v \in Visibilities : \A g \in own[v] : MadeFor(i, g),
         Proceed(i, pc, names, own), UNCHANGED <<config, spec, life>>,
         life[i] = "live" /\ i \in queued => i \in queued'
  PROVE  Underway(i, work[i])' /\ UpToDate(i)'
<1>1. Underway(i, work[i])
  BY DEF Inv, WorkInv
<1>2. work'[i] = [pc |-> pc, istio |-> work[i].istio, ing |-> work[i].ing, names |-> names, own |-> own]
  BY <1>1, ProceedStep
<1>3. GatewaysEnabled(work[i].istio)
  BY <1>1 DEF Underway, InGatewayPhase
<1>4. /\ work'[i].pc = pc /\ work'[i].istio = work[i].istio /\ work'[i].ing = work[i].ing
      /\ work'[i].names = names /\ work'[i].own = own /\ work'[i] # Idle
  BY <1>2 DEF Idle
<1>5. Underway(i, work[i])'
  <2>1. work'[i].ing.ns = i.ns /\ work'[i].ing.name = i.name
    BY <1>1, <1>4 DEF Underway
  <2>2. InGatewayPhase(work'[i]) /\ GatewaysEnabled(work'[i].istio)
    BY <1>3, <1>4 DEF InGatewayPhase
  <2>3. work'[i].own = [v \in Visibilities |-> work'[i].own[v]]
    BY <1>4, Zenon
  <2>4. \A v \in Visibilities : \A g \in work'[i].own[v] : MadeFor(i, g)
    BY <1>4
  <2>5. work'[i] = [pc |-> work'[i].pc, istio |-> work'[i].istio, ing |-> work'[i].ing,
                    names |-> work'[i].names, own |-> work'[i].own]
    BY <1>2, <1>4, Zenon
  <2> QED BY <2>1, <2>2, <2>3, <2>4, <2>5, Zenon DEF Underway
<1>6. UpToDate(i)'
  <2>1. SUFFICES ASSUME life'[i] = "live", i \notin queued'
                 PROVE  work'[i].istio = istio' /\ work'[i].ing = Object(i)'
    BY <1>4 DEF UpToDate
  <2>2. istio' = istio /\ Object(i)' = Object(i)
    BY DEF istio, Object
  <2>3. work[i].istio = istio /\ work[i].ing = Object(i)
    BY <2>1 DEF Inv, UpToDate
  <2> QED BY <1>4, <2>2, <2>3
<1> QED BY <1>5, <1>6

(* An error before anything is written: the Ingress is retried. *)
LEMMA GiveUpStep ==
  ASSUME Inv, NEW i \in Ingresses, GiveUp(i), UNCHANGED <<config, spec, life>>
  PROVE  Inv'
<1>1. PerIngress(work') /\ work'[i] = Idle /\ \A j \in Ingresses \ {i} : work'[j] = work[j]
  BY StopStep DEF GiveUp
<1>2. UNCHANGED <<copies, gateways, vs, lb, tracked>> /\ queued' = queued \cup {i}
  BY DEF GiveUp, ResourcesUnchanged
<1>3. StepOf(i)
  BY <1>1, <1>2 DEF StepOf
<1>4. Functions'
  BY <1>1, <1>2 DEF Inv, Functions, PerIngress
<1>5. UpToDate(i)'
  BY <1>2 DEF UpToDate
<1> QED BY <1>1, <1>2, <1>3, <1>4, <1>5, StepPreservesInv DEF Inv

(* A part that is not needed. *)
LEMMA SkipStep ==
  ASSUME Inv, NEW i \in Ingresses, work[i] # Idle, InGatewayPhase(work[i]),
         NEW pc \in {"local", "gateways", "virtualServices"}, NEW names, NEW own,
         own = [v \in Visibilities |-> own[v]], \A v \in Visibilities : \A g \in own[v] : MadeFor(i, g),
         Skip(i, pc, names, own), UNCHANGED <<config, spec, life>>
  PROVE  Inv'
<1>1. UNCHANGED <<copies, gateways, vs, lb, tracked, queued>> /\ Proceed(i, pc, names, own)
  BY DEF Skip, ResourcesUnchanged
<1>2. Underway(i, work[i])
  BY DEF Inv, WorkInv
<1>3. PerIngress(work') /\ \A j \in Ingresses \ {i} : work'[j] = work[j]
  BY <1>1, <1>2, ProceedStep
<1>4. Underway(i, work[i])' /\ UpToDate(i)'
  BY <1>1, GoesOn
<1>5. StepOf(i)
  BY <1>1, <1>3 DEF StepOf
<1>6. Functions'
  BY <1>1, <1>3 DEF Inv, Functions, PerIngress
<1> QED BY <1>1, <1>4, <1>5, <1>6, StepPreservesInv DEF Inv

(* Copies and Gateways are written: whoever tracks a copy that changes is enqueued. *)
LEMMA WriteSharedStep ==
  ASSUME Inv, NEW i \in Ingresses, NEW cs, AllLabelled(cs), NEW gs, NEW retried, retried \subseteq {i},
         \A g \in gs : IsGateway(g) /\ g.key.name.kind = "wildcard",
         WriteShared(i, cs, gs, retried), UNCHANGED <<config, spec, life>>,
         PerIngress(work'), \A j \in Ingresses \ {i} : work'[j] = work[j]
  PROVE  /\ StepOf(i) /\ Functions' /\ WellOwned(gateways') /\ AllLabelled(copies')
         /\ queued \subseteq queued' /\ retried \subseteq queued'
<1> DEFINE changed == {NameOf(c) : c \in CopiesWith(cs) \ copies}
                        \cup GetQualifiedGatewayNames(Upsert(gateways, gs) \ gateways)
<1>1. /\ copies' = CopiesWith(cs) /\ gateways' = Upsert(gateways, gs)
      /\ tracked' = [tracked EXCEPT ![i] = @ \cup TrackedWith(cs, gs)]
      /\ queued' = queued \cup {j \in Live : tracked'[j] \cap changed # {}} \cup retried
                    \cup {j \in {i} : tracked'[i] # tracked[i]}
      /\ UNCHANGED <<vs, lb>>
  BY DEF WriteShared
<1>2. PerIngress(tracked') /\ \A j \in Ingresses \ {i} : tracked'[j] = tracked[j]
  BY <1>1 DEF Inv, Functions, PerIngress
<1>3. WellOwned(gateways') /\ \A g \in gateways' : g \in gateways \/ g.key.name.kind # "ingress" \/ g.owner = i
  <2>1. \A g \in gs : IsGateway(g) /\ (g.key.name.kind = "ingress" => MadeFor(i, g))
    OBVIOUS
  <2>2. WellOwned(gateways)
    BY DEF Inv
  <2> QED BY <1>1, <2>1, <2>2, UpsertOwned
<1>4. AllLabelled(copies')
  BY <1>1 DEF Inv, AllLabelled, CopiesWith
<1>5. queued \subseteq queued' /\ retried \subseteq queued'
  BY <1>1
<1>6. ASSUME NEW j \in Ingresses \ {i}, life[j] = "live", j \notin queued', NEW c \in copies', c \notin copies
      PROVE  NameOf(c) \notin tracked[j]
  <2>1. NameOf(c) \in changed
    BY <1>1, <1>6
  <2>2. j \in Live
    BY <1>6 DEF Live
  <2> HIDE DEF changed
  <2>3. tracked'[j] \cap changed = {}
    BY <1>1, <1>6, <2>2
  <2> QED BY <1>2, <2>1, <2>3
<1>7. StepOf(i)
  BY <1>1, <1>2, <1>3, <1>5, <1>6 DEF StepOf
<1>8. Functions'
  BY <1>1, <1>2 DEF Inv, Functions, PerIngress
<1> QED BY <1>3, <1>4, <1>5, <1>7, <1>8

(* The TLS part of one visibility. *)
LEMMA TLSStep ==
  ASSUME Inv, NEW i \in Ingresses, work[i] # Idle, InGatewayPhase(work[i]),
         NEW refs, NEW cs, AllLabelled(cs), NEW gs, \A g \in gs : IsGateway(g) /\ g.key.name.kind = "wildcard",
         NEW pc \in {"local", "gateways", "virtualServices"}, NEW names, NEW own,
         own = [v \in Visibilities |-> own[v]], \A v \in Visibilities : \A g \in own[v] : MadeFor(i, g),
         ReconcileTLS(i, refs, cs, gs, pc, names, own), UNCHANGED <<config, spec, life>>
  PROVE  Inv'
<1>1. CASE GiveUp(i)
  BY <1>1, GiveUpStep
<1>2. CASE WriteShared(i, cs, gs, {}) /\ Proceed(i, pc, names, own)
  <2>1. Underway(i, work[i])
    BY DEF Inv, WorkInv
  <2>2. PerIngress(work') /\ \A j \in Ingresses \ {i} : work'[j] = work[j]
    BY <1>2, <2>1, ProceedStep
  <2>3. StepOf(i) /\ Functions' /\ WellOwned(gateways') /\ AllLabelled(copies') /\ queued \subseteq queued'
    <3>1. {} \subseteq {i}
      OBVIOUS
    <3> QED BY <1>2, <2>2, <3>1, WriteSharedStep
  <2>4. Underway(i, work[i])' /\ UpToDate(i)'
    BY <1>2, <2>3, GoesOn
  <2> QED BY <2>3, <2>4, StepPreservesInv
<1>3. CASE WriteShared(i, cs, {}, {i}) /\ Stop(i)
  <2>1. PerIngress(work') /\ work'[i] = Idle /\ \A j \in Ingresses \ {i} : work'[j] = work[j]
    BY <1>3, StopStep
  <2>2. StepOf(i) /\ Functions' /\ WellOwned(gateways') /\ AllLabelled(copies') /\ {i} \subseteq queued'
    <3>1. {i} \subseteq {i} /\ \A g \in {} : IsGateway(g) /\ g.key.name.kind = "wildcard"
      OBVIOUS
    <3> QED BY <1>3, <2>1, <3>1, WriteSharedStep
  <2>3. UpToDate(i)'
    BY <2>2 DEF UpToDate
  <2> QED BY <2>1, <2>2, <2>3, StepPreservesInv
<1> QED BY <1>1, <1>2, <1>3 DEF ReconcileTLS

-----------------------------------------------------------------------------
(***************************************************************************)
(* Each action preserves the invariant.                                    *)
(***************************************************************************)

(* Before anything is collected. *)
LEMMA NoNamesEmpty ==
  /\ NoNames = [v \in Visibilities |-> NoNames[v]]
  /\ \A v \in Visibilities : NoNames[v] = {}
BY DEF NoNames

(* StartReconcile takes the key from the queue: the work that begins stands in for it. *)
LEMMA StartReconcileInv ==
  ASSUME Inv, NEW i \in Ingresses, StartReconcile(i)
  PROVE  Inv'
<1> DEFINE w == Work(FirstStep(i), i)
<1>1. /\ queued' = queued \ {i} /\ work' = [work EXCEPT ![i] = w]
      /\ UNCHANGED <<copies, gateways, vs, lb, tracked, config, spec, life>>
  BY DEF StartReconcile, ResourcesUnchanged, InputsUnchanged
<1>2. w = [pc |-> FirstStep(i), istio |-> istio, ing |-> Object(i), names |-> NoNames, own |-> NoNames]
  BY DEF Work
<1> HIDE DEF w
<1>3. PerIngress(work') /\ work'[i] = w /\ \A j \in Ingresses \ {i} : work'[j] = work[j]
  BY <1>1 DEF Inv, Functions, PerIngress
<1>4. StepOf(i)
  BY <1>1, <1>3 DEF StepOf
<1>5. Functions'
  BY <1>1, <1>3 DEF Inv, Functions, PerIngress
<1>6. /\ w.pc = FirstStep(i) /\ w.istio = istio /\ w.ing = Object(i) /\ w.names = NoNames /\ w.own = NoNames
      /\ w # Idle
  BY <1>2 DEF Idle
<1>7. Underway(i, work[i])'
  <2>1. w.ing.ns = i.ns /\ w.ing.name = i.name
    BY <1>6 DEF Object
  <2>2. \/ InGatewayPhase(w) /\ GatewaysEnabled(w.istio)
        \/ w.pc = "mesh" /\ ~GatewaysEnabled(w.istio)
        \/ w.pc = "finalize" /\ life[i] # "live"
    BY <1>6 DEF FirstStep, InGatewayPhase
  <2>3. w.own = [v \in Visibilities |-> w.own[v]]
    BY <1>6, NoNamesEmpty, Zenon
  <2>4. \A v \in Visibilities : \A g \in w.own[v] : MadeFor(i, g)
    BY <1>6, NoNamesEmpty
  <2>5. w = [pc |-> w.pc, istio |-> w.istio, ing |-> w.ing, names |-> w.names, own |-> w.own]
    BY <1>2, <1>6, Zenon
  <2>6. life' = life /\ work'[i] = w
    BY <1>1, <1>3
  <2> QED BY <2>1, <2>2, <2>3, <2>4, <2>5, <2>6, Zenon DEF Underway
<1>8. UpToDate(i)'
  <2>1. istio' = istio /\ Object(i)' = Object(i)
    BY <1>1 DEF istio, Object
  <2> QED BY <1>3, <1>6, <2>1 DEF UpToDate
<1> QED BY <1>1, <1>4, <1>5, <1>7, <1>8, StepPreservesInv DEF Inv

(* The external part of TLS writes labelled copies and Gateways made for the Ingress. *)
LEMMA ReconcileExternalTLSInv ==
  ASSUME Inv, NEW i \in Ingresses, ReconcileExternalTLS(i)
  PROVE  Inv'
<1>1. work[i].pc = "external" /\ UNCHANGED <<config, spec, life>>
  BY DEF ReconcileExternalTLS, Busy, InputsUnchanged
<1>2. work[i] # Idle /\ InGatewayPhase(work[i])
  BY <1>1 DEF Idle, InGatewayPhase
<1>3. work[i].ing.ns = i.ns /\ work[i].ing.name = i.name
  BY <1>2 DEF Inv, WorkInv, Underway
<1> DEFINE services == ServicesOf(work[i])
           Own(tls) == [NoNames EXCEPT !["ExternalIP"] =
                          MakeIngressTLSGateways(work[i].ing, "ExternalIP", tls, services)]
<1>4. \/ \E names : Skip(i, "local", names, NoNames)
      \/ GiveUp(i)
      \/ \E refs, wild, names, tls :
           ReconcileTLS(i, refs,
             MakeSecrets(refs \ wild, secrets, services, work[i].ing) \cup MakeWildcardSecrets(wild, secrets, services),
             MakeWildcardTLSGateways(wild, secrets, services), "local", names, Own(tls))
  BY Zenon DEF ReconcileExternalTLS
<1>5. CASE \E names : Skip(i, "local", names, NoNames)
  BY <1>1, <1>2, <1>5, NoNamesEmpty, SkipStep
<1>6. CASE GiveUp(i)
  BY <1>1, <1>6, GiveUpStep
<1>7. ASSUME NEW refs, NEW wild, NEW names, NEW tls,
             ReconcileTLS(i, refs,
               MakeSecrets(refs \ wild, secrets, services, work[i].ing) \cup MakeWildcardSecrets(wild, secrets, services),
               MakeWildcardTLSGateways(wild, secrets, services), "local", names, Own(tls))
      PROVE  Inv'
  <2> DEFINE cs == MakeSecrets(refs \ wild, secrets, services, work[i].ing) \cup MakeWildcardSecrets(wild, secrets, services)
             gs == MakeWildcardTLSGateways(wild, secrets, services)
             own == Own(tls)
  <2>1. AllLabelled(cs)
    BY SecretsLabelled
  <2>2. \A g \in gs : IsGateway(g) /\ g.key.name.kind = "wildcard"
    BY WildcardGatewaysShared
  <2>3. own = [v \in Visibilities |-> own[v]]
    BY DEF NoNames
  <2>4. \A v \in Visibilities : \A g \in own[v] : MadeFor(i, g)
    BY <1>3, IngressGatewaysMadeFor DEF NoNames
  <2> HIDE DEF cs, gs, own
  <2>5. ReconcileTLS(i, refs, cs, gs, "local", names, own)
    BY <1>7 DEF cs, gs, own
  <2> QED BY <1>1, <1>2, <2>1, <2>2, <2>3, <2>4, <2>5, TLSStep
<1> QED BY <1>4, <1>5, <1>6, <1>7, Zenon

(* The cluster-local part does the same with what the external part handed on. *)
LEMMA ReconcileClusterLocalTLSInv ==
  ASSUME Inv, NEW i \in Ingresses, ReconcileClusterLocalTLS(i)
  PROVE  Inv'
<1>1. work[i].pc = "local" /\ UNCHANGED <<config, spec, life>>
  BY DEF ReconcileClusterLocalTLS, Busy, InputsUnchanged
<1>2. work[i] # Idle /\ InGatewayPhase(work[i])
  BY <1>1 DEF Idle, InGatewayPhase
<1>3. Underway(i, work[i])
  BY <1>2 DEF Inv, WorkInv
<1> DEFINE services == ServicesOf(work[i])
           Own(tls) == [work[i].own EXCEPT !["ClusterLocal"] =
                          MakeIngressTLSGateways(work[i].ing, "ClusterLocal", tls, services)]
<1>4. \/ Skip(i, "gateways", work[i].names, work[i].own)
      \/ \E refs, tls : ReconcileTLS(i, refs, MakeSecrets(refs, secrets, services, work[i].ing), {}, "gateways",
                                     work[i].names, Own(tls))
  BY Zenon DEF ReconcileClusterLocalTLS
<1>5. CASE Skip(i, "gateways", work[i].names, work[i].own)
  <2>1. /\ work[i].own = [v \in Visibilities |-> work[i].own[v]]
        /\ \A v \in Visibilities : \A g \in work[i].own[v] : MadeFor(i, g)
    BY <1>3, Zenon DEF Underway
  <2> QED BY <1>1, <1>2, <1>5, <2>1, SkipStep
<1>6. ASSUME NEW refs, NEW tls,
             ReconcileTLS(i, refs, MakeSecrets(refs, secrets, services, work[i].ing), {}, "gateways",
                          work[i].names, Own(tls))
      PROVE  Inv'
  <2> DEFINE cs == MakeSecrets(refs, secrets, services, work[i].ing)
             own == Own(tls)
             made == MakeIngressTLSGateways(work[i].ing, "ClusterLocal", tls, services)
  <2>1. AllLabelled(cs)
    BY SecretsLabelled
  <2>2. \A g \in {} : IsGateway(g) /\ g.key.name.kind = "wildcard"
    OBVIOUS
  <2>3. \A g \in made : MadeFor(i, g)
    BY <1>3, IngressGatewaysMadeFor DEF Underway
  <2>4. own = [v \in Visibilities |-> IF v = "ClusterLocal" THEN made ELSE work[i].own[v]]
    <3>1. PICK f : f = work[i].own /\ f = [v \in Visibilities |-> f[v]]
      BY <1>3, Zenon DEF Underway
    <3> HIDE DEF made
    <3>2. [f EXCEPT !["ClusterLocal"] = made] = [v \in Visibilities |-> IF v = "ClusterLocal" THEN made ELSE f[v]]
      BY <3>1
    <3> QED BY <3>1, <3>2, Zenon DEF made
  <2> HIDE DEF cs, own, made
  <2>5. own = [v \in Visibilities |-> own[v]]
    BY <2>4
  <2>6. \A v \in Visibilities : \A g \in own[v] : MadeFor(i, g)
    BY <1>3, <2>3, <2>4 DEF Underway
  <2>7. ReconcileTLS(i, refs, cs, {}, "gateways", work[i].names, own)
    BY <1>6 DEF cs, own
  <2> QED BY <1>1, <1>2, <2>1, <2>2, <2>5, <2>6, <2>7, TLSStep
<1> QED BY <1>4, <1>5, <1>6, Zenon

(* ReconcileIngressGateways writes the Gateways it made and hands on their names. *)
LEMMA ReconcileIngressGatewaysInv ==
  ASSUME Inv, NEW i \in Ingresses, ReconcileIngressGateways(i)
  PROVE  Inv'
<1> DEFINE external == AddHTTPServer(work[i].ing, work[i].own["ExternalIP"], ServicesOf(work[i]))
           local == work[i].own["ClusterLocal"]
<1>1. work[i].pc = "gateways" /\ UNCHANGED <<config, spec, life>>
  BY DEF ReconcileIngressGateways, Busy, InputsUnchanged
<1>2. work[i] # Idle /\ InGatewayPhase(work[i])
  BY <1>1 DEF Idle, InGatewayPhase
<1>3. Underway(i, work[i])
  BY <1>2 DEF Inv, WorkInv
<1>4. \/ GiveUp(i)
      \/ /\ gateways' = Upsert(Upsert(gateways, external), local)
         /\ \E names : Proceed(i, "virtualServices", names, NoNames)
         /\ UNCHANGED <<copies, vs, lb, queued, tracked>>
  BY Zenon DEF ReconcileIngressGateways
<1>5. CASE GiveUp(i)
  BY <1>1, <1>5, GiveUpStep
<1>6. CASE /\ gateways' = Upsert(Upsert(gateways, external), local)
           /\ \E names : Proceed(i, "virtualServices", names, NoNames)
           /\ UNCHANGED <<copies, vs, lb, queued, tracked>>
  <2>1. PICK names : Proceed(i, "virtualServices", names, NoNames)
    BY <1>6
  <2>2. PerIngress(work') /\ \A j \in Ingresses \ {i} : work'[j] = work[j]
    BY <1>3, <2>1, ProceedStep
  <2>3. Underway(i, work[i])' /\ UpToDate(i)'
    BY <1>1, <1>2, <1>6, <2>1, NoNamesEmpty, GoesOn
  <2>4. "ExternalIP" \in Visibilities /\ "ClusterLocal" \in Visibilities
    BY DEF Visibilities
  <2>5. \A g \in external : MadeFor(i, g)
    BY <1>3, <2>4, HTTPServerMadeFor DEF Underway
  <2>6. \A g \in local : MadeFor(i, g)
    BY <1>3, <2>4 DEF Underway
  <2> HIDE DEF external, local
  <2> DEFINE first == Upsert(gateways, external)
  <2>7. WellOwned(first) /\ \A g \in first : g \in gateways \/ g.key.name.kind # "ingress" \/ g.owner = i
    BY <2>5, UpsertOwned DEF Inv, MadeFor
  <2> HIDE DEF first
  <2>8. WellOwned(Upsert(first, local)) /\ \A g \in Upsert(first, local) : g \in first \/ g.key.name.kind # "ingress" \/ g.owner = i
    BY <2>6, <2>7, UpsertOwned DEF MadeFor
  <2>9. gateways' = Upsert(first, local)
    BY <1>6 DEF first
  <2>10. StepOf(i)
    BY <1>1, <1>6, <2>2, <2>7, <2>8, <2>9 DEF StepOf
  <2>11. Functions'
    BY <1>1, <1>6, <2>2 DEF Inv, Functions, PerIngress
  <2>12. WellOwned(gateways') /\ AllLabelled(copies')
    BY <1>6, <2>8, <2>9 DEF Inv
  <2> QED BY <2>3, <2>10, <2>11, <2>12, StepPreservesInv
<1> QED BY <1>4, <1>5, <1>6, Zenon

(* With the VirtualServices and the status written the Ingress is up to date. *)
LEMMA ReconcileVirtualServicesInv ==
  ASSUME Inv, NEW i \in Ingresses, ReconcileVirtualServices(i)
  PROVE  Inv'
<1> DEFINE made == MakeVirtualServices(work[i].ing, work[i].names)
           status == [v \in Visibilities |-> getLBStatus(Selected(work[i])[v])]
<1>1. /\ work[i].pc = "virtualServices" /\ vs' = [vs EXCEPT ![i] = made] /\ Stop(i)
      /\ \/ lb' = [lb EXCEPT ![i] = status] /\ queued \subseteq queued'
         \/ queued' = queued \cup {i} /\ UNCHANGED lb
      /\ UNCHANGED <<copies, gateways, tracked, config, spec, life>>
  BY DEF ReconcileVirtualServices, Busy, InputsUnchanged
<1>2. work[i] # Idle /\ InGatewayPhase(work[i]) /\ Underway(i, work[i])
  BY <1>1 DEF Idle, InGatewayPhase, Inv, WorkInv
<1>3. PerIngress(work') /\ work'[i] = Idle /\ \A j \in Ingresses \ {i} : work'[j] = work[j]
  BY <1>1, StopStep
<1> HIDE DEF made, status
<1>4. PerIngress(vs') /\ PerIngress(lb') /\ \A j \in Ingresses \ {i} : vs'[j] = vs[j] /\ lb'[j] = lb[j]
  BY <1>1 DEF Inv, Functions, PerIngress
<1>5. StepOf(i)
  BY <1>1, <1>3, <1>4 DEF StepOf
<1>6. Functions'
  BY <1>1, <1>3, <1>4 DEF Inv, Functions, PerIngress
<1>7. UpToDate(i)'
  <2>1. SUFFICES ASSUME life'[i] = "live", i \notin queued'
                 PROVE  Reported(i)' /\ (~GatewaysEnabled(istio') => Clean(i)')
    BY <1>3 DEF UpToDate
  <2>2. i \notin queued /\ life[i] = "live" /\ lb' = [lb EXCEPT ![i] = status]
    BY <1>1, <2>1
  <2>3. work[i].istio = istio /\ work[i].ing = Object(i)
    BY <1>2, <2>2 DEF Inv, UpToDate
  <2>4. istio' = istio /\ spec' = spec
    BY <1>1 DEF istio
  <2>5. lb'[i] = status
    BY <2>2 DEF Inv, Functions, PerIngress
  <2>6. Object(i).labels = spec[i].labels
    BY DEF Object
  <2>7. status = [v \in Visibilities |-> getLBStatus(GatewaysFromContext(istio, spec[i].labels)[v])]
    BY <2>3, <2>6 DEF status, Selected
  <2>8. GatewaysEnabled(istio)
    BY <1>2, <2>3 DEF Underway, InGatewayPhase
  <2> QED BY <2>4, <2>5, <2>7, <2>8 DEF Reported
<1> QED BY <1>1, <1>3, <1>5, <1>6, <1>7, StepPreservesInv DEF Inv

(* Mesh-only mode leaves the Ingress clean, and takes nothing that others must keep. *)
LEMMA ReconcileMeshOnlyIngressInv ==
  ASSUME Inv, NEW i \in Ingresses, ReconcileMeshOnlyIngress(i)
  PROVE  Inv'
<1> DEFINE made == MakeVirtualServices(work[i].ing, NoNames)
           status == [v \in Visibilities |-> MeshOnly]
           gone == CopiesOf(work[i].ing)
<1>1. /\ work[i].pc = "mesh" /\ vs' = [vs EXCEPT ![i] = made] /\ gateways' = gateways \ ControlledBy(i)
      /\ copies' = copies \ gone /\ lb' = [lb EXCEPT ![i] = status] /\ Stop(i)
      /\ \A j \in queued : j \in Live => j \in queued'
      /\ UNCHANGED <<tracked, config, spec, life, filtered>>
  BY DEF ReconcileMeshOnlyIngress, Busy, InputsUnchanged, DeleteCopies
<1>2. work[i] # Idle /\ Underway(i, work[i]) /\ ~GatewaysEnabled(work[i].istio)
  BY <1>1 DEF Idle, Inv, WorkInv, Underway, InGatewayPhase
<1>3. PerIngress(work') /\ work'[i] = Idle /\ \A j \in Ingresses \ {i} : work'[j] = work[j]
  BY <1>1, StopStep
<1> HIDE DEF made, status, gone
<1>4. PerIngress(vs') /\ PerIngress(lb') /\ \A j \in Ingresses \ {i} : vs'[j] = vs[j] /\ lb'[j] = lb[j]
  BY <1>1 DEF Inv, Functions, PerIngress
<1>5. vs'[i] = made /\ lb'[i] = status
  BY <1>1 DEF Inv, Functions, PerIngress
<1>6. StepOf(i)
  BY <1>1, <1>3, <1>4 DEF StepOf, Live
<1>7. Functions'
  BY <1>1, <1>3, <1>4 DEF Inv, Functions, PerIngress
<1>8. WellOwned(gateways') /\ AllLabelled(copies')
  BY <1>1 DEF Inv, WellOwned, AllLabelled
<1>9. UpToDate(i)'
  <2>1. SUFFICES ASSUME life'[i] = "live", i \notin queued'
                 PROVE  Reported(i)' /\ Clean(i)'
    BY <1>3 DEF UpToDate
  <2>2. i \notin queued /\ life[i] = "live"
    BY <1>1, <2>1 DEF Live
  <2>3. work[i].istio = istio /\ work[i].ing = Object(i)
    BY <1>2, <2>2 DEF Inv, UpToDate
  <2>4. istio' = istio /\ spec' = spec /\ Object(i)' = Object(i)
    BY <1>1 DEF istio, Object
  <2>5. Reported(i)'
    <3>1. ASSUME NEW v \in Visibilities
          PROVE  getLBStatus(GatewaysFromContext(istio, spec[i].labels)[v]) = MeshOnly
      <4>1. config \in ConfigMapData /\ Accepted(config)
        BY NetworkingAssumption DEF Inv, Functions
      <4>2. Parsed(config)[v] = <<>>
        BY <1>2, <2>3 DEF GatewaysEnabled, istio
      <4>3. config.new[v] = List(<<>>)
        BY <4>1, <4>2, ParsedShape
      <4> QED BY <4>1, <4>3, ReportedStatus DEF istio, MeshOnly
    <3>2. status = [v \in Visibilities |-> getLBStatus(GatewaysFromContext(istio, spec[i].labels)[v])]
      BY <3>1 DEF status
    <3> QED BY <1>5, <2>4, <3>2 DEF Reported
  <2>6. \A x \in vs'[i] : x.gateways \subseteq {Mesh}
    <3>1. Object(i).rules \in Seq(IngressRules)
      <4>1. spec[i] \in IngressSpecs
        BY NetworkingAssumption DEF Inv, Functions
      <4> QED BY <4>1 DEF Object, IngressSpecs
    <3> QED BY <1>5, <2>3, <3>1, MeshVirtualServices DEF made
  <2>7. ControlledBy(i)' = {}
    BY <1>1 DEF ControlledBy
  <2>8. ASSUME NEW c \in copies', UsesTLS(Object(i)), c.origin \in {t.secret : t \in ToSet(spec[i].tls)}
        PROVE  FALSE
    <3>1. c \in copies /\ c \notin gone
      BY <1>1
    <3>2. InInformer(c.labelled)
      BY <3>1 DEF Inv, AllLabelled, InInformer
    <3>3. Object(i).tls = spec[i].tls
      BY DEF Object
    <3> QED BY <2>3, <2>8, <3>1, <3>2, <3>3 DEF gone, CopiesOf
  <2>9. Clean(i)'
    BY <2>4, <2>6, <2>7, <2>8 DEF Clean
  <2> QED BY <2>5, <2>9
<1> QED BY <1>3, <1>6, <1>7, <1>8, <1>9, StepPreservesInv

(* A finalization leaves an Ingress that is gone, or queued again. *)
LEMMA FinalizeKindInv ==
  ASSUME Inv, NEW i \in Ingresses, FinalizeKind(i)
  PROVE  Inv'
<1>1. UNCHANGED <<config, spec>>
  BY DEF FinalizeKind
<1>2. \/ GiveUp(i) /\ UNCHANGED life
      \/ \E gone : /\ DeleteCopies(gone, {}) /\ life' = [life EXCEPT ![i] = "gone"]
                   /\ gateways' = gateways \ ControlledBy(i) /\ vs' = [vs EXCEPT ![i] = {}]
                   /\ Stop(i) /\ UNCHANGED <<lb, tracked>>
  BY Zenon DEF FinalizeKind
<1>3. CASE GiveUp(i) /\ UNCHANGED life
  BY <1>1, <1>3, GiveUpStep
<1>4. ASSUME NEW gone,
             /\ DeleteCopies(gone, {}) /\ life' = [life EXCEPT ![i] = "gone"]
             /\ gateways' = gateways \ ControlledBy(i) /\ vs' = [vs EXCEPT ![i] = {}]
             /\ Stop(i) /\ UNCHANGED <<lb, tracked>>
      PROVE  Inv'
  <2>1. PerIngress(work') /\ work'[i] = Idle /\ \A j \in Ingresses \ {i} : work'[j] = work[j]
    BY <1>4, StopStep
  <2>2. copies' = copies \ gone /\ \A j \in queued : j \in Live => j \in queued'
    BY <1>4 DEF DeleteCopies
  <2>3. PerIngress(vs') /\ PerIngress(life') /\ \A j \in Ingresses \ {i} : vs'[j] = vs[j] /\ life'[j] = life[j]
    BY <1>4 DEF Inv, Functions, PerIngress
  <2>4. life'[i] = "gone"
    BY <1>4 DEF Inv, Functions, PerIngress
  <2>5. StepOf(i)
    BY <1>1, <1>4, <2>1, <2>2, <2>3 DEF StepOf, Live
  <2>6. Functions'
    BY <1>1, <1>4, <2>1, <2>3 DEF Inv, Functions, PerIngress
  <2>7. WellOwned(gateways') /\ AllLabelled(copies')
    BY <1>4, <2>2 DEF Inv, WellOwned, AllLabelled
  <2>8. UpToDate(i)'
    BY <2>4 DEF UpToDate
  <2> QED BY <2>1, <2>5, <2>6, <2>7, <2>8, StepPreservesInv
<1> QED BY <1>2, <1>3, <1>4, Zenon

(* Whoever is concerned by a change of the environment is enqueued. *)
LEMMA EnvironmentInv ==
  ASSUME Inv, Environment
  PROVE  Inv'
<1>1. ASSUME NEW cm \in ConfigMaps, SetConfigMap(cm) PROVE Inv'
  <2>1. UNCHANGED <<copies, gateways, vs, lb, tracked, work, spec, life>>
    BY <1>1 DEF SetConfigMap, ControllerUnchanged, ResourcesUnchanged
  <2>2. CASE Accepted(cm)
    <3>1. config' = cm /\ queued' = queued \cup Live
      BY <1>1, <2>2 DEF SetConfigMap
    <3>2. \A i \in Ingresses : life'[i] = "live" => i \in queued'
      BY <2>1, <3>1 DEF Live
    <3>3. \A i \in Ingresses : UpToDate(i)'
      BY <3>2 DEF UpToDate
    <3>4. Functions'
      BY <2>1, <2>2, <3>1 DEF Inv, Functions, PerIngress
    <3>5. WorkInv'
      BY <2>1 DEF Inv, WorkInv, Underway
    <3> QED BY <2>1, <3>3, <3>4, <3>5 DEF Inv
  <2>3. CASE ~Accepted(cm)
    <3>1. config' = config /\ queued' = queued
      BY <1>1, <2>3 DEF SetConfigMap
    <3>2. istio' = istio /\ \A i \in Ingresses : Object(i)' = Object(i)
      BY <2>1, <3>1 DEF istio, Object
    <3>3. ASSUME NEW i \in Ingresses PROVE UpToDate(i)'
      <4>1. UpToDate(i)
        BY DEF Inv
      <4>2. Reported(i) => Reported(i)'
        BY <2>1, <3>2 DEF Reported
      <4>3. Clean(i) => Clean(i)'
        BY <2>1, <3>2 DEF Clean, ControlledBy
      <4> QED BY <2>1, <3>1, <3>2, <4>1, <4>2, <4>3 DEF UpToDate
    <3>4. Functions'
      BY <2>1, <3>1 DEF Inv, Functions, PerIngress
    <3>5. WorkInv'
      BY <2>1 DEF Inv, WorkInv, Underway
    <3> QED BY <2>1, <3>3, <3>4, <3>5 DEF Inv
  <2> QED BY <2>2, <2>3
<1>2. ASSUME NEW i \in Ingresses, NEW s \in SpecsOf[i], UpdateSpec(i, s) PROVE Inv'
  <2>1. /\ UNCHANGED <<copies, gateways, vs, lb, tracked, work, config, life>>
        /\ spec' = [spec EXCEPT ![i] = s] /\ queued' = queued \cup {i}
    BY <1>2 DEF UpdateSpec, ControllerUnchanged, ResourcesUnchanged
  <2>2. PerIngress(spec') /\ spec'[i] = s /\ \A j \in Ingresses \ {i} : spec'[j] = spec[j]
    BY <2>1 DEF Inv, Functions, PerIngress
  <2>3. istio' = istio
    BY <2>1 DEF istio
  <2>4. ASSUME NEW j \in Ingresses PROVE UpToDate(j)'
    <3>1. CASE j = i
      BY <2>1, <3>1 DEF UpToDate
    <3>2. CASE j # i
      <4>1. UpToDate(j)
        BY DEF Inv
      <4>2. spec'[j] = spec[j]
        BY <2>2, <3>2
      <4>3. Object(j)' = Object(j)
        BY <4>2 DEF Object
      <4>4. Reported(j) => Reported(j)'
        BY <2>1, <2>3, <4>2 DEF Reported
      <4>5. Clean(j) => Clean(j)'
        BY <2>1, <4>2, <4>3 DEF Clean, ControlledBy
      <4> QED BY <2>1, <2>3, <4>1, <4>3, <4>4, <4>5 DEF UpToDate
    <3> QED BY <3>1, <3>2
  <2>5. Functions'
    BY <2>1, <2>2 DEF Inv, Functions, PerIngress
  <2>6. WorkInv'
    BY <2>1 DEF Inv, WorkInv, Underway
  <2> QED BY <2>1, <2>4, <2>5, <2>6 DEF Inv
<1>3. ASSUME NEW i \in Ingresses, DeleteIngress(i) PROVE Inv'
  <2>1. /\ UNCHANGED <<copies, gateways, vs, lb, tracked, work, config, spec>>
        /\ life' = [life EXCEPT ![i] = "deleting"] /\ queued' = queued \cup {i}
    BY <1>3 DEF DeleteIngress, ControllerUnchanged, ResourcesUnchanged
  <2>2. PerIngress(life') /\ life'[i] = "deleting" /\ \A j \in Ingresses \ {i} : life'[j] = life[j]
    BY <2>1 DEF Inv, Functions, PerIngress
  <2>3. istio' = istio /\ \A j \in Ingresses : Object(j)' = Object(j)
    BY <2>1 DEF istio, Object
  <2>4. ASSUME NEW j \in Ingresses PROVE UpToDate(j)'
    <3>1. CASE j = i
      BY <2>1, <3>1 DEF UpToDate
    <3>2. CASE j # i
      <4>1. UpToDate(j)
        BY DEF Inv
      <4>2. life'[j] = life[j]
        BY <2>2, <3>2
      <4>3. Reported(j) => Reported(j)'
        BY <2>1, <2>3 DEF Reported
      <4>4. Clean(j) => Clean(j)'
        BY <2>1, <2>3 DEF Clean, ControlledBy
      <4> QED BY <2>1, <2>3, <4>1, <4>2, <4>3, <4>4 DEF UpToDate
    <3> QED BY <3>1, <3>2
  <2>5. Functions'
    BY <2>1, <2>2 DEF Inv, Functions, PerIngress
  <2>6. WorkInv'
    <3>1. ASSUME NEW j \in Ingresses PROVE work'[j] = Idle \/ Underway(j, work[j])'
      <4>1. life[j] # "live" => life'[j] # "live"
        BY <2>2
      <4>2. work[j] = Idle \/ Underway(j, work[j])
        BY DEF Inv, WorkInv
      <4> QED BY <2>1, <4>1, <4>2 DEF Underway
    <3> QED BY <3>1 DEF WorkInv
  <2> QED BY <2>1, <2>4, <2>5, <2>6 DEF Inv
<1>4. ASSUME NEW ref \in Origins, NEW c \in Contents[ref], IssueCertificate(ref, c) PROVE Inv'
  <2>1. /\ UNCHANGED <<copies, gateways, vs, lb, tracked, work, config, spec, life>>
        /\ queued \subseteq queued'
    BY <1>4 DEF IssueCertificate, ControllerUnchanged, ResourcesUnchanged
  <2>2. istio' = istio /\ \A j \in Ingresses : Object(j)' = Object(j)
    BY <2>1 DEF istio, Object
  <2>3. ASSUME NEW j \in Ingresses PROVE UpToDate(j)'
    <3>1. UpToDate(j)
      BY DEF Inv
    <3>2. Reported(j) => Reported(j)'
      BY <2>1, <2>2 DEF Reported
    <3>3. Clean(j) => Clean(j)'
      BY <2>1, <2>2 DEF Clean, ControlledBy
    <3> QED BY <2>1, <2>2, <3>1, <3>2, <3>3 DEF UpToDate
  <2>4. Functions'
    BY <2>1 DEF Inv, Functions, PerIngress
  <2>5. WorkInv'
    BY <2>1 DEF Inv, WorkInv, Underway
  <2> QED BY <2>1, <2>3, <2>4, <2>5 DEF Inv
<1> QED BY <1>1, <1>2, <1>3, <1>4 DEF Environment

-----------------------------------------------------------------------------
(***************************************************************************)
(* The theorems.                                                           *)
(***************************************************************************)

(* Initially everything that lives is queued. *)
LEMMA InitInv == Init => Inv
<1> SUFFICES ASSUME Init PROVE Inv
  OBVIOUS
<1>1. PICK s \in Scenarios :
        /\ config = s.config /\ life = [i \in Ingresses |-> IF i \in s.ingresses THEN "live" ELSE "never"]
        /\ queued = s.ingresses
  BY DEF Init
<1>2. config \in ConfigMaps /\ Accepted(config)
  BY <1>1, ScenariosAssumption
<1>3. /\ copies = {} /\ gateways = {} /\ vs = [i \in Ingresses |-> {}] /\ lb = [i \in Ingresses |-> Unreported]
      /\ tracked = [i \in Ingresses |-> {}] /\ work = [i \in Ingresses |-> Idle]
      /\ spec \in [Ingresses -> UNION {SpecsOf[i] : i \in Ingresses}]
      /\ \A i \in Ingresses : spec[i] \in SpecsOf[i]
  BY DEF Init
<1>4. Functions
  <2>1. PerIngress(spec)
    BY <1>3 DEF PerIngress
  <2>2. PerIngress(life) /\ PerIngress(vs) /\ PerIngress(tracked)
    BY <1>1, <1>3 DEF PerIngress
  <2>3. PerIngress(work) /\ PerIngress(lb)
    BY <1>3 DEF PerIngress
  <2> QED BY <1>2, <1>3, <2>1, <2>2, <2>3 DEF Functions
<1>5. \A i \in Ingresses : life[i] = "live" => i \in queued
  BY <1>1
<1>6. \A i \in Ingresses : UpToDate(i)
  BY <1>5 DEF UpToDate
<1>7. WorkInv
  BY <1>3 DEF WorkInv
<1> QED BY <1>3, <1>4, <1>6, <1>7 DEF Inv, WellOwned, AllLabelled

(* Every step keeps Inv: those of the environment, of a worker, and of nobody. *)
LEMMA NextInv == Inv /\ [Next]_vars => Inv'
<1> SUFFICES ASSUME Inv, [Next]_vars PROVE Inv'
  OBVIOUS
<1>1. CASE Environment
  BY <1>1, EnvironmentInv
<1>2. ASSUME NEW i \in Ingresses, WorkerStep(i) PROVE Inv'
  BY <1>2, StartReconcileInv, ReconcileExternalTLSInv, ReconcileClusterLocalTLSInv, ReconcileIngressGatewaysInv,
     ReconcileVirtualServicesInv, ReconcileMeshOnlyIngressInv, FinalizeKindInv DEF WorkerStep
<1>3. CASE UNCHANGED vars
  <2>1. UNCHANGED <<copies, gateways, vs, lb, tracked, work, config, spec, life, queued>>
    BY <1>3 DEF vars
  <2>2. istio' = istio /\ \A j \in Ingresses : Object(j)' = Object(j)
    BY <2>1 DEF istio, Object
  <2>3. ASSUME NEW j \in Ingresses PROVE UpToDate(j)'
    <3>1. UpToDate(j)
      BY DEF Inv
    <3>2. Reported(j) => Reported(j)'
      BY <2>1, <2>2 DEF Reported
    <3>3. Clean(j) => Clean(j)'
      BY <2>1, <2>2 DEF Clean, ControlledBy
    <3> QED BY <2>1, <2>2, <3>1, <3>2, <3>3 DEF UpToDate
  <2>4. Functions'
    BY <2>1 DEF Inv, Functions, PerIngress
  <2>5. WorkInv'
    BY <2>1 DEF Inv, WorkInv, Underway
  <2> QED BY <2>1, <2>3, <2>4, <2>5 DEF Inv
<1> QED BY <1>1, <1>2, <1>3 DEF Next

(* Inv is an invariant of the specification. *)
LEMMA SpecInv == Spec => []Inv
BY InitInv, NextInv, PTL DEF Spec

(* At rest, work is Idle. *)
LEMMA RestIsIdle == ASSUME Inv, NEW i \in Ingresses, AtRest(i) PROVE work[i] = Idle
BY DEF Inv, WorkInv, AtRest, Busy, Underway, InGatewayPhase

(* The status of an Ingress at rest names the mesh for a visibility exactly if *)
(* the administrator wrote an explicitly empty list for it, for every history  *)
(* of configurations, edits and retries (getLBStatus, NewIstioFromConfigMap).  *)
THEOREM MeshOnlyAskedCorrect == Spec => []MeshOnlyIsAskedFor
<1>1. Inv => MeshOnlyIsAskedFor
  <2> SUFFICES ASSUME Inv, NEW i \in Ingresses, AtRest(i), NEW v \in Visibilities
               PROVE  lb[i][v] = MeshOnly <=> config.new[v] = List(<<>>)
    BY DEF MeshOnlyIsAskedFor
  <2>1. Reported(i)
    BY RestIsIdle DEF Inv, UpToDate, AtRest
  <2>2. config \in ConfigMapData /\ Accepted(config)
    BY NetworkingAssumption DEF Inv, Functions
  <2>3. lb[i][v] = getLBStatus(GatewaysFromContext(Parsed(config), spec[i].labels)[v])
    BY <2>1 DEF Reported, istio
  <2> QED BY <2>2, <2>3, ReportedStatus DEF MeshOnly
<1> QED BY <1>1, SpecInv, PTL

(* In mesh-only mode an Ingress at rest has nothing left that was made for     *)
(* gateways (reconcileMeshOnlyIngress, cleanupIngressGateways,                 *)
(* cleanupTLSSecrets), although late reconciliations of others write copies    *)
(* that it shares with them.                                                   *)
THEOREM MeshOnlyCleanCorrect == Spec => []MeshOnlyIsClean
<1>1. Inv => MeshOnlyIsClean
  <2> SUFFICES ASSUME Inv, ~GatewaysEnabled(istio), NEW i \in Ingresses, AtRest(i)
               PROVE  /\ (\A x \in vs[i] : x.gateways \subseteq {Mesh}) /\ ControlledBy(i) = {}
                      /\ \A c \in copies :
                           UsesTLS(Object(i)) /\ c.origin \in {t.secret : t \in ToSet(spec[i].tls)}
                             => NameOf(c) \notin tracked[i]
    BY DEF MeshOnlyIsClean
  <2>1. Clean(i)
    BY RestIsIdle DEF Inv, UpToDate, AtRest
  <2> QED BY <2>1 DEF Clean
<1> QED BY <1>1, SpecInv, PTL

(* A step that goes on is no failure. *)
LEMMA ProceedIsNoFailure ==
  ASSUME Inv, NEW i \in Ingresses, work[i] # Idle, NEW pc, pc # "idle", NEW names, NEW own, Proceed(i, pc, names, own)
  PROVE  work'[i] # Idle
<1>1. Underway(i, work[i])
  BY DEF Inv, WorkInv
<1>2. work'[i] = [pc |-> pc, istio |-> work[i].istio, ing |-> work[i].ing, names |-> names, own |-> own]
  BY <1>1, ProceedStep
<1> QED BY <1>2 DEF Idle

(* What makes the TLS part fail: every copy is shown by the informer, so that *)
(* none stands in the way.                                                    *)
LEMMA TLSFailure ==
  ASSUME Inv, NEW i \in Ingresses, work[i] # Idle, NEW refs, NEW cs, NEW gs, NEW pc, pc # "idle", NEW names, NEW own,
         ReconcileTLS(i, refs, cs, gs, pc, names, own), work'[i] = Idle
  PROVE  ~ServicesExist(work[i]) \/ \E ref \in refs : ~Visible(ref)
<1>1. CopiesWritable(cs)
  BY DEF CopiesWritable, Inv, AllLabelled, InInformer
<1>2. ~Proceed(i, pc, names, own)
  BY ProceedIsNoFailure
<1>3. ServicesExist(work[i]) => ServicesKnown(work[i])
  BY DEF ServicesExist
<1> QED BY <1>1, <1>2, <1>3 DEF ReconcileTLS

(* A reconciliation fails only for a certificate that is missing, filtered or  *)
(* unreadable, or a gateway without a Service: nothing that earlier ones wrote *)
(* makes reconcileCertSecrets or FinalizeKind return an error.                 *)
THEOREM OnlyBlockedCorrect == Spec => OnlyBlockedFail
<1> DEFINE Fails(i) == /\ work[i].pc \in {"external", "local", "gateways", "finalize"}
                       /\ work'[i] = Idle /\ life'[i] # "gone"
<1>1. ASSUME Inv, [Next]_vars, NEW i \in Ingresses, Fails(i) PROVE Blocked(work[i])
  <2> DEFINE w == work[i]
  <2>1. w # Idle /\ Underway(i, w)
    BY <1>1 DEF Idle, Inv, WorkInv
  <2>2. PICK j \in Ingresses : WorkerStep(j)
    <3>1. CASE Environment
      <4>1. UNCHANGED work
        BY <3>1 DEF Environment, SetConfigMap, DeleteIngress, UpdateSpec, IssueCertificate, ControllerUnchanged
      <4> QED BY <1>1, <2>1, <4>1
    <3>2. CASE UNCHANGED vars
      BY <1>1, <2>1, <3>2 DEF vars
    <3> QED BY <1>1, <3>1, <3>2 DEF Next
  <2>3. j = i
    <3>1. SUFFICES ASSUME j # i PROVE work'[i] = work[i]
      BY <1>1, <2>1
    <3>2. PerIngress(work)
      BY <1>1 DEF Inv, Functions
    <3>3. ASSUME NEW x, work' = [work EXCEPT ![j] = x] PROVE work'[i] = work[i]
      BY <3>1, <3>2, <3>3 DEF PerIngress
    <3>4. CASE StartReconcile(j) \/ Stop(j)
      BY <3>3, <3>4 DEF StartReconcile, Stop
    <3>5. ASSUME NEW pc, NEW names, NEW own, Proceed(j, pc, names, own) PROVE work'[i] = work[i]
      BY <3>1, <3>2, <3>5 DEF Proceed, PerIngress
    <3>6. \/ StartReconcile(j) \/ Stop(j)
          \/ \E pc, names, own : Proceed(j, pc, names, own)
      BY <2>2, Zenon DEF WorkerStep, ReconcileExternalTLS, ReconcileClusterLocalTLS, ReconcileTLS,
         ReconcileIngressGateways, ReconcileVirtualServices, ReconcileMeshOnlyIngress, FinalizeKind, GiveUp, Skip
    <3> QED BY <3>4, <3>5, <3>6
  <2>4. CASE StartReconcile(i)
    BY <2>1, <2>4 DEF StartReconcile, Busy, Inv, WorkInv, Underway, InGatewayPhase
  <2>5. CASE ReconcileExternalTLS(i)
    <3> DEFINE refs == GetSecrets(w.ing, "ExternalIP")
    <3>1. PICK names, cs, gs, own :
            \/ Skip(i, "local", names, NoNames)
            \/ shouldReconcileExternalDomainTLS(w.ing) /\ \E ref \in refs : ~CertificateReadable(secrets[ref])
            \/ shouldReconcileExternalDomainTLS(w.ing) /\ ReconcileTLS(i, refs, cs, gs, "local", names, own)
      BY <2>5, Zenon DEF ReconcileExternalTLS
    <3>2. CASE Skip(i, "local", names, NoNames)
      BY <1>1, <2>1, <3>2, ProceedIsNoFailure DEF Skip
    <3>3. CASE \E ref \in refs : ~CertificateReadable(secrets[ref])
      BY <3>3 DEF Blocked
    <3>4. CASE shouldReconcileExternalDomainTLS(w.ing) /\ ReconcileTLS(i, refs, cs, gs, "local", names, own)
      <4>1. ~ServicesExist(w) \/ \E ref \in refs : ~Visible(ref)
        BY <1>1, <2>1, <3>4, TLSFailure
      <4> QED BY <3>4, <4>1 DEF Blocked, UsesTLS
    <3> QED BY <3>1, <3>2, <3>3, <3>4
  <2>6. CASE ReconcileClusterLocalTLS(i)
    <3> DEFINE refs == GetSecrets(w.ing, "ClusterLocal")
    <3>1. PICK names, cs, own :
            \/ \E old : Skip(i, "gateways", names, old)
            \/ /\ localTLS /\ shouldReconcileClusterLocalDomainTLS(w.ing)
               /\ ReconcileTLS(i, refs, cs, {}, "gateways", names, own)
      BY <2>6, Zenon DEF ReconcileClusterLocalTLS
    <3>2. CASE \E old : Skip(i, "gateways", names, old)
      BY <1>1, <2>1, <3>2, ProceedIsNoFailure DEF Skip
    <3>3. CASE /\ localTLS /\ shouldReconcileClusterLocalDomainTLS(w.ing)
               /\ ReconcileTLS(i, refs, cs, {}, "gateways", names, own)
      <4>1. ~ServicesExist(w) \/ \E ref \in refs : ~Visible(ref)
        BY <1>1, <2>1, <3>3, TLSFailure
      <4> QED BY <3>3, <4>1 DEF Blocked, UsesTLS
    <3> QED BY <3>1, <3>2, <3>3
  <2>7. CASE ReconcileIngressGateways(i)
    <3>1. \/ shouldReconcileHTTPServer(w.ing) /\ ~ServicesExist(w)
          \/ \E names : Proceed(i, "virtualServices", names, NoNames)
      BY <2>7, Zenon DEF ReconcileIngressGateways
    <3>2. CASE \E names : Proceed(i, "virtualServices", names, NoNames)
      BY <1>1, <2>1, <3>2, ProceedIsNoFailure
    <3> QED BY <3>1, <3>2 DEF Blocked
  <2>8. CASE ReconcileVirtualServices(i) \/ ReconcileMeshOnlyIngress(i)
    BY <1>1, <2>8 DEF ReconcileVirtualServices, ReconcileMeshOnlyIngress, Busy
  <2>9. CASE FinalizeKind(i)
    <3>1. \/ UsesTLS(w.ing) /\ ~ServicesKnown(w)
          \/ life' = [life EXCEPT ![i] = "gone"]
      BY <2>9, Zenon DEF FinalizeKind
    <3>2. CASE UsesTLS(w.ing) /\ ~ServicesKnown(w)
      BY <3>2 DEF Blocked, ServicesExist
    <3>3. CASE life' = [life EXCEPT ![i] = "gone"]
      BY <1>1, <3>3 DEF Inv, Functions, PerIngress
    <3> QED BY <3>1, <3>2, <3>3
  <2> QED BY <2>2, <2>3, <2>4, <2>5, <2>6, <2>7, <2>8, <2>9 DEF WorkerStep
<1>2. ASSUME Inv, [Next]_vars
      PROVE  [\A i \in Ingresses : Fails(i) => Blocked(work[i])]_vars
  BY <1>1, <1>2, Zenon
<1> QED BY <1>2, SpecInv, PTL DEF Spec, OnlyBlockedFail

=============================================================================

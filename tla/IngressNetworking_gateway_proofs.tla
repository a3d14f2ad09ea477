------------------- MODULE IngressNetworking_gateway_proofs -------------------
(***************************************************************************)
(* Proofs about IngressNetworking: what an Ingress at rest has in the      *)
(* cluster is what its current spec, configuration and certificates ask    *)
(* for, so that requests are routed to their rule, only where the rule is  *)
(* visible, and with the right certificate.                                *)
(***************************************************************************)
EXTENDS IngressNetworking_proofs, FiniteSetTheorems

-----------------------------------------------------------------------------
(***************************************************************************)
(* Host names and their prefixes.                                          *)
(***************************************************************************)

(* A prefix agrees with the whole as far as it goes. *)
LEMMA PrefixAgrees ==
  ASSUME NEW s \in Seq(Nat), NEW t \in Seq(Nat)
  PROVE  IsPrefix(s, t) <=> Len(s) <= Len(t) /\ \A n \in 1 .. Len(s) : s[n] = t[n]
<1>1. SubSeq(s, 1, Len(s)) = s
  OBVIOUS
<1>2. ASSUME Len(s) <= Len(t) PROVE SubSeq(t, 1, Len(s)) = s <=> \A n \in 1 .. Len(s) : s[n] = t[n]
  <2> DEFINE u == SubSeq(t, 1, Len(s))
  <2>1. u \in Seq(Nat) /\ Len(u) = Len(s) /\ \A n \in 1 .. Len(s) : u[n] = t[n]
    BY <1>2
  <2> HIDE DEF u
  <2>2. (\A n \in 1 .. Len(s) : s[n] = t[n]) => u = s
    <3>1. u = [n \in 1 .. Len(u) |-> u[n]] /\ s = [n \in 1 .. Len(s) |-> s[n]]
      BY <2>1
    <3> QED BY <2>1, <3>1
  <2>3. u = s => \A n \in 1 .. Len(s) : s[n] = t[n]
    BY <2>1
  <2> QED BY <2>2, <2>3 DEF u
<1> QED BY <1>1, <1>2 DEF IsPrefix

(* Prefixes of prefixes are prefixes. *)
LEMMA PrefixTransitive ==
  ASSUME NEW s \in Seq(Nat), NEW t \in Seq(Nat), NEW u \in Seq(Nat), IsPrefix(s, t), IsPrefix(t, u)
  PROVE  IsPrefix(s, u)
BY PrefixAgrees

(* Two prefixes of the same name: one is a prefix of the other. *)
LEMMA PrefixesComparable ==
  ASSUME NEW s \in Seq(Nat), NEW t \in Seq(Nat), NEW u \in Seq(Nat), IsPrefix(s, u), IsPrefix(t, u)
  PROVE  IsPrefix(s, t) \/ IsPrefix(t, s)
<1>1. \A n \in 1 .. Len(s) : s[n] = u[n]
  BY PrefixAgrees
<1>2. \A n \in 1 .. Len(t) : t[n] = u[n]
  BY PrefixAgrees
<1>3. CASE Len(s) <= Len(t)
  <2>1. \A n \in 1 .. Len(s) : s[n] = t[n]
    BY <1>1, <1>2, <1>3
  <2> QED BY <1>3, <2>1, PrefixAgrees
<1>4. CASE Len(t) <= Len(s)
  <2>1. \A n \in 1 .. Len(t) : t[n] = s[n]
    BY <1>1, <1>2, <1>4
  <2> QED BY <1>4, <2>1, PrefixAgrees
<1> QED BY <1>3, <1>4

(* A name is a prefix of itself. *)
LEMMA PrefixReflexive == ASSUME NEW s \in Seq(Nat) PROVE IsPrefix(s, s)
BY PrefixAgrees

(* Reversing keeps the length. *)
LEMMA ReverseLength == ASSUME NEW s \in Seq(Nat) PROVE Reverse(s) \in Seq(Nat) /\ Len(Reverse(s)) = Len(s)
<1>1. \A n \in 1 .. Len(s) : s[(Len(s) - n) + 1] \in Nat
  OBVIOUS
<1> QED BY <1>1 DEF Reverse

(* Cutting the end off leaves a prefix, and the more is cut the shorter it is. *)
LEMMA CutIsPrefix ==
  ASSUME NEW s \in Seq(Nat), NEW m \in Nat, NEW n \in Nat, m <= n, n <= Len(s)
  PROVE  /\ SubSeq(s, 1, m) \in Seq(Nat)
         /\ IsPrefix(SubSeq(s, 1, m), s) /\ IsPrefix(SubSeq(s, 1, m), SubSeq(s, 1, n))
<1>1. ASSUME NEW k \in Nat, k <= Len(s)
      PROVE  SubSeq(s, 1, k) \in Seq(Nat) /\ Len(SubSeq(s, 1, k)) = k /\ \A j \in 1 .. k : SubSeq(s, 1, k)[j] = s[j]
  BY <1>1
<1> DEFINE u == SubSeq(s, 1, m)
           w == SubSeq(s, 1, n)
<1>2. u \in Seq(Nat) /\ Len(u) = m /\ \A j \in 1 .. m : u[j] = s[j]
  BY <1>1
<1>3. w \in Seq(Nat) /\ Len(w) = n /\ \A j \in 1 .. n : w[j] = s[j]
  BY <1>1
<1> HIDE DEF u, w
<1>4. m <= Len(s) /\ \A j \in 1 .. m : j \in 1 .. n
  OBVIOUS
<1>5. IsPrefix(u, s)
  BY <1>2, <1>4, PrefixAgrees
<1>6. \A j \in 1 .. m : u[j] = w[j]
  BY <1>2, <1>3, <1>4
<1>7. IsPrefix(u, w)
  BY <1>2, <1>3, <1>6, PrefixAgrees
<1> QED BY <1>2, <1>5, <1>7 DEF u, w

(* What TrimSuffix returns is a prefix. *)
LEMMA TrimIsPrefix ==
  ASSUME NEW h \in Seq(Nat), NEW suffix \in Seq(Nat)
  PROVE  /\ TrimSuffix(h, suffix) \in Seq(Nat) /\ IsPrefix(TrimSuffix(h, suffix), h)
         /\ IsSuffix(suffix, h) => Len(suffix) <= Len(h)
<1>1. CASE IsSuffix(suffix, h)
  <2>1. Len(suffix) <= Len(h)
    BY <1>1, ReverseLength DEF IsSuffix, IsPrefix
  <2>2. Len(h) - Len(suffix) \in Nat /\ Len(h) - Len(suffix) <= Len(h)
    BY <2>1
  <2>3. SubSeq(h, 1, Len(h) - Len(suffix)) \in Seq(Nat) /\ IsPrefix(SubSeq(h, 1, Len(h) - Len(suffix)), h)
    BY <2>2, CutIsPrefix
  <2> QED BY <1>1, <2>1, <2>3 DEF TrimSuffix
<1>2. CASE ~IsSuffix(suffix, h)
  BY <1>2, PrefixReflexive DEF TrimSuffix
<1> QED BY <1>1, <1>2

(* The suffixes, and how long they are. *)
LEMMA SuffixLengths ==
  /\ DomainSuffix \in Seq(Nat) /\ Len(DomainSuffix) = 2
  /\ LocalSuffix \in Seq(Nat) /\ Len(LocalSuffix) = 4
BY DEF DomainSuffix, LocalSuffix, SvcSuffix, Dot

(* hostPrefix returns a prefix of the host. *)
LEMMA HostPrefixOf ==
  ASSUME NEW h \in Seq(Nat)
  PROVE  hostPrefix(h) \in Seq(Nat) /\ IsPrefix(hostPrefix(h), h)
BY TrimIsPrefix, SuffixLengths DEF hostPrefix

(* All names that a host is expanded to are prefixes of it. *)
LEMMA ExpandedIsPrefix ==
  ASSUME NEW h \in Seq(Nat), NEW name \in ExpandedHosts({h})
  PROVE  name \in Seq(Nat) /\ IsPrefix(name, h)
<1>1. name \in {h, TrimSuffix(h, DomainSuffix), TrimSuffix(h, LocalSuffix)}
  BY DEF ExpandedHosts
<1> QED BY <1>1, TrimIsPrefix, SuffixLengths, PrefixReflexive

(* Every one of them starts with the host's prefix, if a host in the cluster's *)
(* domain is the name of a service.                                            *)
LEMMA PrefixOfExpanded ==
  ASSUME NEW h \in Seq(Nat), IsSuffix(DomainSuffix, h) => IsSuffix(LocalSuffix, h),
         NEW name \in ExpandedHosts({h})
  PROVE  IsPrefix(hostPrefix(h), name)
<1>1. name \in {h, TrimSuffix(h, DomainSuffix), TrimSuffix(h, LocalSuffix)}
  BY DEF ExpandedHosts
<1>2. CASE name = TrimSuffix(h, LocalSuffix)
  BY <1>2, HostPrefixOf, PrefixReflexive DEF hostPrefix
<1>3. CASE name = h
  BY <1>3, HostPrefixOf
<1>4. CASE name = TrimSuffix(h, DomainSuffix) /\ name # h
  <2>1. IsSuffix(DomainSuffix, h) /\ IsSuffix(LocalSuffix, h)
    BY <1>4 DEF TrimSuffix
  <2>2. name = SubSeq(h, 1, Len(h) - 2) /\ hostPrefix(h) = SubSeq(h, 1, Len(h) - 4)
    BY <1>4, <2>1, SuffixLengths DEF TrimSuffix, hostPrefix
  <2>3. Len(h) >= 4
    BY <2>1, SuffixLengths, TrimIsPrefix
  <2>4. Len(h) - 4 \in Nat /\ Len(h) - 2 \in Nat /\ Len(h) - 4 <= Len(h) - 2 /\ Len(h) - 2 <= Len(h)
    BY <2>3
  <2> QED BY <2>2, <2>4, CutIsPrefix
<1> QED BY <1>1, <1>2, <1>3, <1>4

-----------------------------------------------------------------------------
(***************************************************************************)
(* The prefixes that getDistinctHostPrefixes keeps.                        *)
(***************************************************************************)

(* The order of the hosts is strict. *)
LEMMA StringLessIrreflexive == ASSUME NEW s \in Seq(Nat) PROVE ~StringLess(s, s)
BY DEF StringLess, IsStrictPrefix

(* It is transitive, whether names differ in a token or in their length. *)
LEMMA StringLessTransitive ==
  ASSUME NEW s \in Seq(Nat), NEW t \in Seq(Nat), NEW u \in Seq(Nat), StringLess(s, t), StringLess(t, u)
  PROVE  StringLess(s, u)
<1> DEFINE Below(a, b, n) == n \in DOMAIN a \cap DOMAIN b /\ a[n] < b[n] /\ \A m \in 1 .. n - 1 : a[m] = b[m]
<1>1. ASSUME NEW a \in Seq(Nat), NEW b \in Seq(Nat)
      PROVE  StringLess(a, b) <=> (IsPrefix(a, b) /\ a # b) \/ \E n : Below(a, b, n)
  BY DEF StringLess, IsStrictPrefix
<1>2. \A n : n \in DOMAIN s <=> n \in Nat /\ 1 <= n /\ n <= Len(s)
  OBVIOUS
<1>3. \A n : n \in DOMAIN t <=> n \in Nat /\ 1 <= n /\ n <= Len(t)
  OBVIOUS
<1>4. \A n : n \in DOMAIN u <=> n \in Nat /\ 1 <= n /\ n <= Len(u)
  OBVIOUS
<1>5. CASE IsPrefix(s, t) /\ s # t /\ IsPrefix(t, u) /\ t # u
  <2>1. IsPrefix(s, u)
    BY <1>5, PrefixTransitive
  <2>2. s # u
    <3>1. SUFFICES ASSUME s = u PROVE s = t
      BY <1>5
    <3>2. Len(s) = Len(t) /\ \A n \in 1 .. Len(s) : s[n] = t[n]
      BY <1>5, <3>1, PrefixAgrees
    <3>3. s = [n \in 1 .. Len(s) |-> s[n]] /\ t = [n \in 1 .. Len(t) |-> t[n]]
      OBVIOUS
    <3> QED BY <3>2, <3>3
  <2> QED BY <1>1, <2>1, <2>2
<1>6. ASSUME IsPrefix(s, t), NEW n, Below(t, u, n) PROVE StringLess(s, u)
  <2>1. Len(s) <= Len(t) /\ \A m \in 1 .. Len(s) : s[m] = t[m]
    BY <1>6, PrefixAgrees
  <2>2. n \in Nat /\ n >= 1 /\ n <= Len(t) /\ n <= Len(u)
    BY <1>3, <1>4, <1>6
  <2>3. CASE n <= Len(s)
    <3>1. n \in DOMAIN s \cap DOMAIN u /\ s[n] = t[n]
      <4> HIDE DEF Below
      <4>1. n \in DOMAIN s /\ n \in 1 .. Len(s)
        BY <1>2, <2>2, <2>3
      <4>2. n \in DOMAIN u
        BY <1>4, <2>2
      <4> QED BY <2>1, <4>1, <4>2
    <3>2. \A m \in 1 .. n - 1 : s[m] = u[m]
      BY <1>6, <2>1, <2>2, <2>3
    <3>3. Below(s, u, n)
      BY <1>6, <3>1, <3>2
    <3> HIDE DEF Below
    <3> QED BY <1>1, <3>3
  <2>4. CASE Len(s) < n
    <3>1. \A m \in 1 .. Len(s) : s[m] = u[m]
      BY <1>6, <2>1, <2>2, <2>4
    <3>2. IsPrefix(s, u)
      BY <2>2, <2>4, <3>1, PrefixAgrees
    <3>3. s # u
      BY <2>2, <2>4
    <3> QED BY <1>1, <3>2, <3>3
  <2> QED BY <2>2, <2>3, <2>4
<1>7. ASSUME IsPrefix(t, u), NEW n, Below(s, t, n) PROVE StringLess(s, u)
  <2>1. Len(t) <= Len(u) /\ \A m \in 1 .. Len(t) : t[m] = u[m]
    BY <1>7, PrefixAgrees
  <2>2. n \in Nat /\ n >= 1 /\ n <= Len(s) /\ n <= Len(t)
    BY <1>2, <1>3, <1>7
  <2>3. n \in DOMAIN s \cap DOMAIN u /\ t[n] = u[n]
    <3> HIDE DEF Below
    <3>1. n \in DOMAIN s /\ n \in 1 .. Len(t)
      BY <1>2, <2>2
    <3>2. n \in DOMAIN u
      BY <1>4, <2>1, <2>2
    <3> QED BY <2>1, <3>1, <3>2
  <2>4. \A m \in 1 .. n - 1 : s[m] = u[m]
    BY <1>7, <2>1, <2>2
  <2>5. Below(s, u, n)
    BY <1>7, <2>3, <2>4
  <2> HIDE DEF Below
  <2> QED BY <1>1, <2>5
<1>8. ASSUME NEW m, Below(s, t, m), NEW n, Below(t, u, n) PROVE StringLess(s, u)
  <2>1. m \in Nat /\ m >= 1 /\ m <= Len(s) /\ m <= Len(t) /\ n \in Nat /\ n >= 1 /\ n <= Len(t) /\ n <= Len(u)
    BY <1>2, <1>3, <1>4, <1>8
  <2>2. CASE m <= n
    <3>1. m \in DOMAIN s \cap DOMAIN u
      BY <1>2, <1>4, <2>1, <2>2
    <3>2. s[m] < u[m]
      <4>1. s[m] < t[m] /\ (m < n => t[m] = u[m]) /\ (m = n => t[m] < u[m])
        <5>1. s[m] < t[m] /\ t[n] < u[n] /\ \A k \in 1 .. n - 1 : t[k] = u[k]
          BY <1>8
        <5>2. m < n => m \in 1 .. n - 1
          BY <2>1
        <5> HIDE DEF Below
        <5> QED BY <5>1, <5>2
      <4>2. s[m] \in Nat /\ t[m] \in Nat /\ u[m] \in Nat
        <5>1. ASSUME NEW q \in Seq(Nat), NEW k \in DOMAIN q PROVE q[k] \in Nat
          OBVIOUS
        <5>2. m \in DOMAIN s /\ m \in DOMAIN t
          BY <1>2, <1>3, <2>1
        <5> HIDE DEF Below
        <5> QED BY <3>1, <5>1, <5>2
      <4>3. m < n \/ m = n
        BY <2>1, <2>2
      <4>4. ASSUME NEW x \in Nat, NEW y \in Nat, NEW z \in Nat, x < y, y = z \/ y < z PROVE x < z
        BY <4>4
      <4> QED BY <4>1, <4>2, <4>3, <4>4
    <3>3. \A k \in 1 .. m - 1 : s[k] = u[k]
      BY <1>8, <2>1, <2>2
    <3>4. Below(s, u, m)
      BY <3>1, <3>2, <3>3
    <3> HIDE DEF Below
    <3> QED BY <1>1, <3>4
  <2>3. CASE n < m
    <3>1. n \in DOMAIN s \cap DOMAIN u
      BY <1>2, <1>4, <2>1, <2>3
    <3>2. s[n] < u[n]
      <4>1. t[n] < u[n] /\ \A k \in 1 .. m - 1 : s[k] = t[k]
        BY <1>8
      <4>2. n \in 1 .. m - 1
        BY <2>1, <2>3
      <4> HIDE DEF Below
      <4> QED BY <4>1, <4>2
    <3>3. \A k \in 1 .. n - 1 : s[k] = u[k]
      BY <1>8, <2>1, <2>3
    <3>4. Below(s, u, n)
      BY <3>1, <3>2, <3>3
    <3> HIDE DEF Below
    <3> QED BY <1>1, <3>4
  <2> QED BY <2>1, <2>2, <2>3
<1> HIDE DEF Below
<1>9. (IsPrefix(s, t) /\ s # t) \/ \E n : Below(s, t, n)
  BY <1>1
<1>10. (IsPrefix(t, u) /\ t # u) \/ \E n : Below(t, u, n)
  BY <1>1
<1> QED BY <1>5, <1>6, <1>7, <1>8, <1>9, <1>10

(* A set of naturals that is not empty has a least member. *)
LEMMA LeastOf ==
  ASSUME NEW I \in SUBSET Nat, I # {}
  PROVE  Min(I) \in I /\ \A n \in I : Min(I) <= n
<1> DEFINE R == {p \in Nat \X Nat : p[1] < p[2]}
<1>1. IsWellFoundedOn(R, Nat)
  BY LessThanWellFounded
<1> HIDE DEF R
<1>2. PICK x \in I : \A y \in I : <<y, x>> \notin R
  BY <1>1, WFMin
<1>3. \A y \in I : x <= y
  <2>1. \A y \in I : y \in Nat /\ x \in Nat
    OBVIOUS
  <2>2. \A y \in I : ~(y < x)
    BY <1>2, <2>1 DEF R
  <2> QED BY <2>1, <2>2
<1>4. \E z \in I : \A y \in I : z <= y
  BY <1>3
<1>5. Min(I) = CHOOSE z \in I : \A y \in I : z <= y
  BY DEF Min
<1> QED BY <1>4, <1>5

(* Among finitely many hosts there is one with no other before it. *)
LEMMA FirstHost ==
  ASSUME NEW P \in SUBSET Seq(Nat), IsFiniteSet(P), P # {}
  PROVE  \E g \in P : \A e \in P : ~StringLess(e, g)
<1> DEFINE Before(g) == {e \in P : StringLess(e, g)}
           I == {Cardinality(Before(g)) : g \in P}
<1>1. ASSUME NEW g \in P PROVE IsFiniteSet(Before(g)) /\ Cardinality(Before(g)) \in Nat
  <2>1. Before(g) \in SUBSET P
    OBVIOUS
  <2> HIDE DEF Before
  <2>2. IsFiniteSet(Before(g))
    BY <2>1, FS_Subset
  <2> QED BY <2>2, FS_CardinalityType
<1>2. I \in SUBSET Nat /\ I # {}
  <2> HIDE DEF Before
  <2> QED BY <1>1
<1>3. PICK g \in P : \A e \in P : Cardinality(Before(g)) <= Cardinality(Before(e))
  <2>1. Min(I) \in I /\ \A n \in I : Min(I) <= n
    <3> HIDE DEF I
    <3> QED BY <1>2, LeastOf
  <2> HIDE DEF Before
  <2>2. PICK g \in P : Min(I) = Cardinality(Before(g))
    BY <2>1
  <2> QED BY <2>1, <2>2
<1>4. ASSUME NEW e \in P, StringLess(e, g) PROVE FALSE
  <2>1. \A x \in Before(e) : x \in Before(g)
    <3> SUFFICES ASSUME NEW x \in P, StringLess(x, e) PROVE StringLess(x, g)
      OBVIOUS
    <3> QED BY <1>4, StringLessTransitive
  <2>2. e \in Before(g) /\ e \notin Before(e)
    BY <1>4, StringLessIrreflexive
  <2> HIDE DEF Before
  <2>3. Before(e) \in SUBSET Before(g) /\ Before(g) # Before(e)
    BY <2>1, <2>2
  <2>4. Cardinality(Before(e)) <= Cardinality(Before(g)) /\ Cardinality(Before(g)) # Cardinality(Before(e))
    BY <1>1, <2>3, FS_Subset
  <2> QED BY <1>1, <1>3, <2>4
<1> QED BY <1>4

(* getDistinctHostPrefixes returns prefixes of the hosts, and one for each of *)
(* them: dropping the longer ones loses no host.                              *)
LEMMA DistinctPrefixes ==
  ASSUME NEW hosts \in SUBSET Seq(Nat), IsFiniteSet(hosts)
  PROVE  /\ \A e \in getDistinctHostPrefixes(hosts) : \E h \in hosts : e = hostPrefix(h)
         /\ \A h \in hosts : \E e \in getDistinctHostPrefixes(hosts) : IsPrefix(e, hostPrefix(h))
<1> DEFINE Covered(h) == \E e \in hosts : StringLess(e, h) /\ IsPrefix(hostPrefix(e), hostPrefix(h))
<1>1. getDistinctHostPrefixes(hosts) = {hostPrefix(h) : h \in {x \in hosts : ~Covered(x)}}
  BY DEF getDistinctHostPrefixes
<1>2. ASSUME NEW h \in hosts PROVE \E g \in hosts : ~Covered(g) /\ IsPrefix(hostPrefix(g), hostPrefix(h))
  <2> DEFINE P == {g \in hosts : IsPrefix(hostPrefix(g), hostPrefix(h))}
  <2>1. h \in P
    BY HostPrefixOf, PrefixReflexive
  <2>2. P \in SUBSET hosts /\ P \in SUBSET Seq(Nat)
    OBVIOUS
  <2>3. PICK g \in P : \A e \in P : ~StringLess(e, g)
    <3> HIDE DEF P
    <3>1. IsFiniteSet(P)
      BY <2>2, FS_Subset
    <3> QED BY <2>1, <2>2, <3>1, FirstHost
  <2>4. ASSUME NEW e \in hosts, StringLess(e, g), IsPrefix(hostPrefix(e), hostPrefix(g)) PROVE FALSE
    <3>1. /\ hostPrefix(e) \in Seq(Nat) /\ hostPrefix(g) \in Seq(Nat) /\ hostPrefix(h) \in Seq(Nat)
          /\ IsPrefix(hostPrefix(g), hostPrefix(h))
      BY HostPrefixOf
    <3>2. IsPrefix(hostPrefix(e), hostPrefix(h))
      BY <2>4, <3>1, PrefixTransitive
    <3> QED BY <2>3, <2>4, <3>2
  <2> QED BY <2>4
<1> HIDE DEF Covered
<1> QED BY <1>1, <1>2

-----------------------------------------------------------------------------
(***************************************************************************)
(* Concatenations and first matches.                                       *)
(***************************************************************************)

(* Where the parts of a concatenation are: each one entry after the other, and *)
(* nothing else.                                                               *)
IsLayout(start, seqs, whole) ==
  /\ \A n \in DOMAIN seqs : start[n] \in Nat
  /\ \A n \in DOMAIN seqs : \A j \in DOMAIN seqs[n] :
       start[n] + j \in DOMAIN whole /\ whole[start[n] + j] = seqs[n][j]
  /\ \A k \in DOMAIN whole : \E n \in DOMAIN seqs : \E j \in DOMAIN seqs[n] : k = start[n] + j

(* Where the entries of two sequences are in their concatenation. *)
LEMMA Concatenated ==
  ASSUME NEW R, NEW p \in Seq(R), NEW q \in Seq(R)
  PROVE  /\ p \o q \in Seq(R) /\ Len(p) \in Nat /\ Len(q) \in Nat
         /\ Len(p \o q) = Len(p) + Len(q)
         /\ \A k \in 1 .. Len(p) : k \in 1 .. Len(p \o q) /\ (p \o q)[k] = p[k]
         /\ \A j \in 1 .. Len(q) : Len(p) + j \in 1 .. Len(p \o q) /\ (p \o q)[Len(p) + j] = q[j]
         /\ \A k \in 1 .. Len(p \o q) : k \in 1 .. Len(p) \/ (k - Len(p) \in 1 .. Len(q) /\ k = Len(p) + (k - Len(p)))
OBVIOUS

(* FlattenSeq lays the parts out like that. *)
LEMMA FlattenLayout ==
  ASSUME NEW R, NEW seqs \in Seq(Seq(R))
  PROVE  FlattenSeq(seqs) \in Seq(R) /\ \E start : IsLayout(start, seqs, FlattenSeq(seqs))
<1>1. FlattenSeq(seqs) \in Seq(R)
  BY FlattenSeqOf
<1>2. CASE Len(seqs) = 0
  <2>1. DOMAIN seqs = {} /\ FlattenSeq(seqs) = seqs
    BY <1>2 DEF FlattenSeq
  <2>2. IsLayout(seqs, seqs, FlattenSeq(seqs))
    BY <2>1 DEF IsLayout
  <2> QED BY <1>1, <2>2
<1>3. CASE Len(seqs) # 0
  <2>1. PICK g : /\ FlattenSeq(seqs) = g[Len(seqs)]
                 /\ \A n \in 1 .. Len(seqs) :
                      g[n] \in Seq(R) /\ g[n] = IF n = 1 THEN seqs[n] ELSE g[n - 1] \o seqs[n]
    BY <1>3, FlattenLoop
  <2> DEFINE D == 1 .. Len(seqs)
             start == [n \in D |-> IF n = 1 THEN 0 ELSE Len(g[n - 1])]
             Placed(n) == \A m \in 1 .. n : \A j \in 1 .. Len(seqs[m]) :
                            start[m] + j \in 1 .. Len(g[n]) /\ g[n][start[m] + j] = seqs[m][j]
             Filled(n) == \A k \in 1 .. Len(g[n]) : \E m \in 1 .. n : \E j \in 1 .. Len(seqs[m]) : k = start[m] + j
             T == {n \in Nat : n + 1 \in D => Placed(n + 1) /\ Filled(n + 1)}
  <2>2. \A n \in D : n \in Nat /\ seqs[n] \in Seq(R) /\ g[n] \in Seq(R) /\ Len(seqs[n]) \in Nat /\ Len(g[n]) \in Nat
    BY <2>1
  <2>3. \A n \in D : start[n] \in Nat
    BY <2>2
  <2>4. 1 \in D /\ start[1] = 0 /\ g[1] = seqs[1]
    BY <1>3, <2>1
  <2> HIDE DEF start
  <2>5. 0 \in T
    <3>1. Placed(1) /\ Filled(1)
      BY <2>2, <2>4
    <3> HIDE DEF Placed, Filled
    <3> QED BY <3>1
  <2>6. ASSUME NEW n \in T PROVE n + 1 \in T
    <3>1. SUFFICES ASSUME (n + 1) + 1 \in D PROVE Placed((n + 1) + 1) /\ Filled((n + 1) + 1)
      <4> HIDE DEF Placed, Filled, D
      <4> QED OBVIOUS
    <3> DEFINE a == n + 1
               b == (n + 1) + 1
    <3>2. n \in Nat /\ a \in D /\ b \in D /\ b - 1 = a /\ b # 1 /\ a \in Nat
      BY <3>1
    <3>3. Placed(a) /\ Filled(a)
      BY <3>2
    <3>4. g[b] = g[a] \o seqs[b] /\ start[b] = Len(g[a])
      BY <2>1, <3>2 DEF start
    <3>5. \A m : m \in 1 .. b <=> m \in 1 .. a \/ m = b
      BY <3>2
    <3> HIDE DEF a, b
    <3>6. /\ \A k \in 1 .. Len(g[a]) : k \in 1 .. Len(g[b]) /\ g[b][k] = g[a][k]
          /\ \A j \in 1 .. Len(seqs[b]) : start[b] + j \in 1 .. Len(g[b]) /\ g[b][start[b] + j] = seqs[b][j]
          /\ \A k \in 1 .. Len(g[b]) : k \in 1 .. Len(g[a]) \/ (k - start[b] \in 1 .. Len(seqs[b]) /\ k = start[b] + (k - start[b]))
      <4> DEFINE p == g[a]
                 q == seqs[b]
      <4>1. p \in Seq(R) /\ q \in Seq(R) /\ g[b] = p \o q /\ start[b] = Len(p)
        BY <2>2, <3>2, <3>4
      <4> HIDE DEF p, q
      <4>2. /\ \A k \in 1 .. Len(p) : k \in 1 .. Len(p \o q) /\ (p \o q)[k] = p[k]
            /\ \A j \in 1 .. Len(q) : Len(p) + j \in 1 .. Len(p \o q) /\ (p \o q)[Len(p) + j] = q[j]
            /\ \A k \in 1 .. Len(p \o q) : k \in 1 .. Len(p) \/ (k - Len(p) \in 1 .. Len(q) /\ k = Len(p) + (k - Len(p)))
        BY <4>1, Concatenated
      <4>3. /\ \A k \in 1 .. Len(p) : k \in 1 .. Len(g[b]) /\ g[b][k] = p[k]
            /\ \A j \in 1 .. Len(q) : start[b] + j \in 1 .. Len(g[b]) /\ g[b][start[b] + j] = q[j]
            /\ \A k \in 1 .. Len(g[b]) : k \in 1 .. Len(p) \/ (k - start[b] \in 1 .. Len(q) /\ k = start[b] + (k - start[b]))
        BY <4>1, <4>2, Zenon
      <4> QED BY <4>3, Zenon DEF p, q
    <3>9. Placed(b)
      <4>1. ASSUME NEW m \in 1 .. a, NEW j \in 1 .. Len(seqs[m])
            PROVE  start[m] + j \in 1 .. Len(g[b]) /\ g[b][start[m] + j] = seqs[m][j]
        <5>1. start[m] + j \in 1 .. Len(g[a]) /\ g[a][start[m] + j] = seqs[m][j]
          BY <3>3
        <5> QED BY <3>6, <5>1
      <4>2. ASSUME NEW j \in 1 .. Len(seqs[b])
            PROVE  start[b] + j \in 1 .. Len(g[b]) /\ g[b][start[b] + j] = seqs[b][j]
        BY <3>6
      <4> QED BY <3>5, <4>1, <4>2
    <3>10. Filled(b)
      <4> SUFFICES ASSUME NEW k \in 1 .. Len(g[b])
                   PROVE  \E m \in 1 .. b : \E j \in 1 .. Len(seqs[m]) : k = start[m] + j
        OBVIOUS
      <4>1. CASE k \in 1 .. Len(g[a])
        <5>1. PICK m \in 1 .. a : \E j \in 1 .. Len(seqs[m]) : k = start[m] + j
          BY <3>3, <4>1
        <5>2. m \in 1 .. b
          BY <3>5
        <5> QED BY <5>1, <5>2
      <4>2. CASE k - start[b] \in 1 .. Len(seqs[b]) /\ k = start[b] + (k - start[b])
        <5>1. b \in 1 .. b
          BY <3>5
        <5> QED BY <4>2, <5>1
      <4> QED BY <3>6, <4>1, <4>2
    <3> QED BY <3>9, <3>10 DEF b
  <2>7. T = Nat
    <3>1. T \in SUBSET Nat
      OBVIOUS
    <3> HIDE DEF T
    <3> QED BY <2>5, <2>6, <3>1, InductionBySet
  <2> DEFINE N == Len(seqs)
  <2>8. Placed(N) /\ Filled(N)
    <3>1. N - 1 \in Nat /\ (N - 1) + 1 = N /\ N \in D
      BY <1>3
    <3>2. N - 1 \in T
      BY <2>7, <3>1
    <3> HIDE DEF Placed, Filled, N
    <3> QED BY <3>1, <3>2
  <2>9. DOMAIN seqs = D /\ DOMAIN g[N] = 1 .. Len(g[N])
    BY <1>3, <2>2
  <2>10. \A n \in D : DOMAIN seqs[n] = 1 .. Len(seqs[n])
    BY <2>2
  <2> HIDE DEF N, D
  <2>11. ASSUME NEW n \in D, NEW j \in DOMAIN seqs[n]
         PROVE  start[n] + j \in DOMAIN g[N] /\ g[N][start[n] + j] = seqs[n][j]
    <3>1. n \in 1 .. N /\ j \in 1 .. Len(seqs[n])
      BY <2>10 DEF D, N
    <3> QED BY <2>8, <2>9, <3>1
  <2>12. ASSUME NEW k \in DOMAIN g[N]
         PROVE  \E n \in D : \E j \in DOMAIN seqs[n] : k = start[n] + j
    <3>1. PICK n \in 1 .. N : \E j \in 1 .. Len(seqs[n]) : k = start[n] + j
      BY <2>8, <2>9
    <3>2. n \in D /\ DOMAIN seqs[n] = 1 .. Len(seqs[n])
      BY <2>10 DEF D, N
    <3> QED BY <3>1, <3>2
  <2>13. IsLayout(start, seqs, g[N])
    BY <2>3, <2>9, <2>11, <2>12 DEF IsLayout
  <2> QED BY <1>1, <2>1, <2>13 DEF N
<1> QED BY <1>2, <1>3

-----------------------------------------------------------------------------
(***************************************************************************)
(* The routes of a VirtualService.                                         *)
(***************************************************************************)
ServedHosts(ing, hosts, n) == hosts \cap ing.rules[n].hosts

RouteFor(ing, gws, hosts, n, p, probe) ==
  makeVirtualServiceRoute(ServedHosts(ing, hosts, n), GatewaysOfRule(ing.rules[n], gws), n,
                          ing.rules[n].paths[p], probe)

PathCount(ing, n) == Len(ing.rules[n].paths)

(* Each rule with hosts has the probe routes of its paths and, after these, the *)
(* routes of its paths, in their order; there are no other routes.              *)
IsRouting(start, ing, gws, hosts, http) ==
  /\ \A n \in DOMAIN ing.rules : start[n] \in Nat
  /\ \A n \in DOMAIN ing.rules : ServedHosts(ing, hosts, n) # {} =>
       \A p \in 1 .. PathCount(ing, n) :
         /\ start[n] + p \in DOMAIN http
         /\ http[start[n] + p] = RouteFor(ing, gws, hosts, n, p, TRUE)
         /\ start[n] + (PathCount(ing, n) + p) \in DOMAIN http
         /\ http[start[n] + (PathCount(ing, n) + p)] = RouteFor(ing, gws, hosts, n, p, FALSE)
  /\ \A k \in DOMAIN http :
       \E n \in DOMAIN ing.rules : \E p \in 1 .. PathCount(ing, n) :
         ServedHosts(ing, hosts, n) # {} /\ k \in {start[n] + p, start[n] + (PathCount(ing, n) + p)}

(* The routes of one rule. *)
IsRulePart(ing, gws, hosts, n, part) ==
  /\ PathCount(ing, n) \in Nat /\ IsSequence(part)
  /\ ServedHosts(ing, hosts, n) = {} => part = <<>>
  /\ ServedHosts(ing, hosts, n) # {} =>
       /\ Len(part) = PathCount(ing, n) + PathCount(ing, n)
       /\ \A p \in 1 .. PathCount(ing, n) :
            /\ part[p] = RouteFor(ing, gws, hosts, n, p, TRUE)
            /\ part[PathCount(ing, n) + p] = RouteFor(ing, gws, hosts, n, p, FALSE)

RoutesFor(ing, gws, hosts) ==
  {RouteFor(ing, gws, hosts, n, p, b) : n \in DOMAIN ing.rules, p \in Nat, b \in BOOLEAN}

(* RoutesOfRule makes them. *)
LEMMA RoutesOfRuleParts ==
  ASSUME NEW ing, ing.rules \in Seq(IngressRules), NEW gws, NEW hosts, NEW n \in DOMAIN ing.rules
  PROVE  /\ IsRulePart(ing, gws, hosts, n, RoutesOfRule(ing, n, gws, hosts))
         /\ RoutesOfRule(ing, n, gws, hosts) \in Seq(RoutesFor(ing, gws, hosts))
<1> DEFINE rule == ing.rules[n]
           L == PathCount(ing, n)
           R == RoutesFor(ing, gws, hosts)
           Routes(probe) == [p \in DOMAIN rule.paths |->
             makeVirtualServiceRoute(hosts \cap rule.hosts, GatewaysOfRule(rule, gws), n, rule.paths[p], probe)]
           For(p, b) == RouteFor(ing, gws, hosts, n, p, b)
<1>1. rule \in IngressRules
  OBVIOUS
<1>2. DOMAIN rule.paths = 1 .. L /\ L \in Nat
  BY <1>1 DEF IngressRules, PathCount
<1>3. ASSUME NEW b \in BOOLEAN
      PROVE  Routes(b) \in Seq(R) /\ Len(Routes(b)) = L /\ \A p \in 1 .. L : Routes(b)[p] = For(p, b)
  <2>1. Routes(b) = [p \in 1 .. L |-> For(p, b)]
    BY <1>2 DEF RouteFor, ServedHosts
  <2>2. \A p \in 1 .. L : For(p, b) \in R
    <3> HIDE DEF L
    <3>1. \A p \in 1 .. L : p \in Nat
      BY <1>2
    <3> QED BY <3>1 DEF RoutesFor
  <2> HIDE DEF R, For, L, Routes
  <2>3. [p \in 1 .. L |-> For(p, b)] \in Seq(R) /\ Len([p \in 1 .. L |-> For(p, b)]) = L
    BY <1>2, <2>2
  <2> QED BY <2>1, <2>3
<1>4. RoutesOfRule(ing, n, gws, hosts)
        = IF ServedHosts(ing, hosts, n) = {} THEN <<>> ELSE Routes(TRUE) \o Routes(FALSE)
  BY DEF RoutesOfRule, ServedHosts
<1> DEFINE before == Routes(TRUE)
           after == Routes(FALSE)
<1>5. /\ before \in Seq(R) /\ Len(before) = L /\ \A p \in 1 .. L : before[p] = For(p, TRUE)
      /\ after \in Seq(R) /\ Len(after) = L /\ \A p \in 1 .. L : after[p] = For(p, FALSE)
  <2> HIDE DEF R, For, L, Routes
  <2> QED BY <1>3
<1> HIDE DEF before, after, R, For
<1>6. /\ before \o after \in Seq(R) /\ Len(before \o after) = L + L
      /\ \A p \in 1 .. L : (before \o after)[p] = For(p, TRUE) /\ (before \o after)[L + p] = For(p, FALSE)
  <2>1. /\ before \o after \in Seq(R)
        /\ Len(before \o after) = Len(before) + Len(after)
        /\ \A k \in 1 .. Len(before) : (before \o after)[k] = before[k]
        /\ \A j \in 1 .. Len(after) : (before \o after)[Len(before) + j] = after[j]
    <3>1. before \in Seq(R) /\ after \in Seq(R)
      BY <1>5
    <3> HIDE DEF L, Routes, rule
    <3> QED BY <3>1, Concatenated
  <2> HIDE DEF L
  <2> QED BY <1>5, <2>1
<1>7. <<>> \in Seq(R)
  OBVIOUS
<1>8. RoutesOfRule(ing, n, gws, hosts) = IF ServedHosts(ing, hosts, n) = {} THEN <<>> ELSE before \o after
  BY <1>4 DEF before, after
<1> HIDE DEF Routes, rule, L
<1>9. RoutesOfRule(ing, n, gws, hosts) \in Seq(R)
  BY <1>6, <1>7, <1>8
<1>10. IsSequence(RoutesOfRule(ing, n, gws, hosts))
  BY <1>9 DEF IsSequence
<1> QED BY <1>2, <1>6, <1>8, <1>9, <1>10 DEF L, R, For, IsRulePart

(* The routes of the whole VirtualService. *)
LEMMA SpecRouting ==
  ASSUME NEW ing, ing.rules \in Seq(IngressRules), NEW gws, NEW hosts
  PROVE  /\ IsSequence(makeVirtualServiceSpec(ing, gws, hosts).http)
         /\ makeVirtualServiceSpec(ing, gws, hosts).hosts = hosts
         /\ \E start : IsRouting(start, ing, gws, hosts, makeVirtualServiceSpec(ing, gws, hosts).http)
<1> DEFINE seqs == [n \in DOMAIN ing.rules |-> RoutesOfRule(ing, n, gws, hosts)]
           http == FlattenSeq(seqs)
           R == RoutesFor(ing, gws, hosts)
<1>1. makeVirtualServiceSpec(ing, gws, hosts).http = http /\ makeVirtualServiceSpec(ing, gws, hosts).hosts = hosts
  BY DEF makeVirtualServiceSpec
<1>2. ASSUME NEW n \in DOMAIN ing.rules
      PROVE  RoutesOfRule(ing, n, gws, hosts) \in Seq(R) /\ IsRulePart(ing, gws, hosts, n, RoutesOfRule(ing, n, gws, hosts))
  BY RoutesOfRuleParts
<1>3. seqs \in Seq(Seq(R)) /\ DOMAIN seqs = DOMAIN ing.rules /\ \A n \in DOMAIN ing.rules : IsRulePart(ing, gws, hosts, n, seqs[n]) /\ seqs[n] \in Seq(R)
  <2> HIDE DEF R
  <2> QED BY <1>2
<1> HIDE DEF seqs, R
<1>4. PICK start : http \in Seq(R) /\ IsLayout(start, seqs, http)
  BY <1>3, FlattenLayout
<1> HIDE DEF http
<1>5. ASSUME NEW n \in DOMAIN ing.rules, ServedHosts(ing, hosts, n) # {}, NEW p \in 1 .. PathCount(ing, n)
      PROVE  /\ start[n] + p \in DOMAIN http
             /\ http[start[n] + p] = RouteFor(ing, gws, hosts, n, p, TRUE)
             /\ start[n] + (PathCount(ing, n) + p) \in DOMAIN http
             /\ http[start[n] + (PathCount(ing, n) + p)] = RouteFor(ing, gws, hosts, n, p, FALSE)
  <2> DEFINE L == PathCount(ing, n)
  <2>1. /\ L \in Nat /\ Len(seqs[n]) = L + L /\ seqs[n] \in Seq(R)
        /\ seqs[n][p] = RouteFor(ing, gws, hosts, n, p, TRUE)
        /\ seqs[n][L + p] = RouteFor(ing, gws, hosts, n, p, FALSE)
    BY <1>3, <1>5 DEF IsRulePart
  <2> HIDE DEF L
  <2>2. p \in DOMAIN seqs[n] /\ L + p \in DOMAIN seqs[n]
    BY <2>1 DEF L
  <2>3. \A j \in DOMAIN seqs[n] : start[n] + j \in DOMAIN http /\ http[start[n] + j] = seqs[n][j]
    BY <1>3, <1>4 DEF IsLayout
  <2> QED BY <2>1, <2>2, <2>3 DEF L
<1>6. ASSUME NEW k \in DOMAIN http
      PROVE  \E n \in DOMAIN ing.rules : \E p \in 1 .. PathCount(ing, n) :
               ServedHosts(ing, hosts, n) # {} /\ k \in {start[n] + p, start[n] + (PathCount(ing, n) + p)}
  <2>0. PICK n \in DOMAIN ing.rules : \E j \in DOMAIN seqs[n] : k = start[n] + j
    BY <1>3, <1>4 DEF IsLayout
  <2>1. PICK j \in DOMAIN seqs[n] : k = start[n] + j
    BY <2>0
  <2> DEFINE L == PathCount(ing, n)
  <2>2. seqs[n] \in Seq(R) /\ L \in Nat
    BY <1>3 DEF IsRulePart
  <2>3. ServedHosts(ing, hosts, n) # {}
    <3>1. SUFFICES ASSUME ServedHosts(ing, hosts, n) = {} PROVE FALSE
      OBVIOUS
    <3>2. seqs[n] = <<>>
      BY <1>3, <3>1 DEF IsRulePart
    <3> QED BY <2>1, <3>2
  <2>4. Len(seqs[n]) = L + L
    BY <1>3, <2>3 DEF IsRulePart
  <2> HIDE DEF L
  <2>5. j \in 1 .. L + L
    BY <2>2, <2>4
  <2>6. CASE j \in 1 .. L
    BY <2>1, <2>3, <2>6 DEF L
  <2>7. CASE j - L \in 1 .. L /\ j = L + (j - L)
    BY <2>1, <2>3, <2>7 DEF L
  <2> QED BY <2>2, <2>5, <2>6, <2>7
<1>7. \A n \in DOMAIN ing.rules : start[n] \in Nat
  BY <1>3, <1>4 DEF IsLayout
<1>8. IsRouting(start, ing, gws, hosts, http)
  BY <1>5, <1>6, <1>7 DEF IsRouting
<1>9. IsSequence(http)
  BY <1>4 DEF IsSequence
<1> QED BY <1>1, <1>8, <1>9

(* Route finds the first route that matches, if there is one. *)
LEMMA RouteIsFirst ==
  ASSUME NEW x, IsSequence(x.http), NEW req
  PROVE  /\ Route(x, req) # 0 =>
              /\ req.gateway \in x.gateways /\ Route(x, req) \in DOMAIN x.http
              /\ Matches(x, x.http[Route(x, req)], req)
              /\ \A k \in DOMAIN x.http : Matches(x, x.http[k], req) => Route(x, req) <= k
         /\ \A k \in DOMAIN x.http :
              req.gateway \in x.gateways /\ req.host \in x.hosts /\ Matches(x, x.http[k], req) => Route(x, req) # 0
<1> DEFINE I == {k \in 1 .. Len(x.http) : Matches(x, x.http[k], req)}
<1>1. Route(x, req) = IF req.gateway \in x.gateways /\ req.host \in x.hosts THEN IF I # {} THEN Min(I) ELSE 0 ELSE 0
  BY DEF Route, SelectInSeq
<1>2. Len(x.http) \in Nat /\ DOMAIN x.http = 1 .. Len(x.http)
  BY DEF IsSequence
<1>3. I \in SUBSET Nat /\ 0 \notin I
  BY <1>2
<1>4. \A k : k \in I <=> k \in DOMAIN x.http /\ Matches(x, x.http[k], req)
  BY <1>2
<1> HIDE DEF I
<1>5. I # {} => Min(I) \in I /\ \A k \in I : Min(I) <= k
  BY <1>3, LeastOf
<1> QED BY <1>1, <1>3, <1>4, <1>5

(* An Ingress as the webhook lets it pass. *)
IsIngress(ing) ==
  /\ ing.rules \in Seq(IngressRules)
  /\ \A n \in DOMAIN ing.rules : IsFiniteSet(ing.rules[n].hosts) /\ ing.rules[n].paths # <<>>

(* Its rules have hosts, paths and a visibility. *)
LEMMA RuleShape ==
  ASSUME NEW ing, IsIngress(ing), NEW n \in DOMAIN ing.rules
  PROVE  /\ ing.rules[n].hosts \in SUBSET Seq(Nat) /\ IsFiniteSet(ing.rules[n].hosts)
         /\ ing.rules[n].visibility \in Visibilities
         /\ IsSequence(ing.rules[n].paths) /\ PathCount(ing, n) \in Nat /\ PathCount(ing, n) >= 1
<1>1. ing.rules[n] \in IngressRules /\ IsFiniteSet(ing.rules[n].hosts) /\ ing.rules[n].paths # <<>>
  BY DEF IsIngress
<1> DEFINE r == ing.rules[n]
<1> HIDE DEF r
<1>2. r \in IngressRules /\ r.paths # <<>>
  BY <1>1 DEF r
<1>3. r.hosts \in SUBSET Hosts /\ r.visibility \in Visibilities /\ r.paths \in Seq(STRING)
  BY <1>2 DEF IngressRules
<1>4. r.hosts \in SUBSET Seq(Nat)
  BY <1>3 DEF Hosts
<1>5. Len(r.paths) \in Nat /\ Len(r.paths) >= 1
  BY <1>2, <1>3
<1>6. IsSequence(r.paths)
  BY <1>3 DEF IsSequence
<1> QED BY <1>1, <1>3, <1>4, <1>5, <1>6 DEF r, PathCount

(* What a route says, and to which rule it leads. *)
LEMMA RouteFields ==
  ASSUME NEW ing, NEW gws, NEW hosts, NEW n, NEW p, NEW b
  PROVE  /\ RouteFor(ing, gws, hosts, n, p, b).rule = n
         /\ RouteFor(ing, gws, hosts, n, p, b).path = ing.rules[n].paths[p]
         /\ RouteFor(ing, gws, hosts, n, p, b).probe = b
         /\ RouteFor(ing, gws, hosts, n, p, b).matches
              = {makeMatch(h, gws[ing.rules[n].visibility]) : h \in getDistinctHostPrefixes(ServedHosts(ing, hosts, n))}
BY DEF RouteFor, makeVirtualServiceRoute, GatewaysOfRule

(* A VirtualService is bound to the gateways of its rules. *)
LEMMA SpecGateways ==
  ASSUME NEW ing, IsIngress(ing), NEW gws, NEW hosts
  PROVE  /\ \A key \in makeVirtualServiceSpec(ing, gws, hosts).gateways : \E v \in Visibilities : key \in gws[v]
         /\ \A n \in DOMAIN ing.rules : ServedHosts(ing, hosts, n) # {} =>
              gws[ing.rules[n].visibility] \subseteq makeVirtualServiceSpec(ing, gws, hosts).gateways
<1> DEFINE x == makeVirtualServiceSpec(ing, gws, hosts)
           http == x.http
<1>1. IsSequence(http) /\ \E start : IsRouting(start, ing, gws, hosts, http)
  BY SpecRouting DEF IsIngress
<1>2. x.gateways = UNION UNION {{m.gateways : m \in r.matches} : r \in ToSet(http)}
  BY DEF makeVirtualServiceSpec
<1> HIDE DEF x, http
<1>3. PICK start : IsRouting(start, ing, gws, hosts, http)
  BY <1>1
<1>4. \A key : key \in x.gateways <=> \E k \in DOMAIN http : \E m \in http[k].matches : key \in m.gateways
  BY <1>2 DEF ToSet
<1>5. ASSUME NEW key \in x.gateways PROVE \E v \in Visibilities : key \in gws[v]
  <2>1. PICK k \in DOMAIN http : \E m \in http[k].matches : key \in m.gateways
    BY <1>4, <1>5
  <2>2. PICK n \in DOMAIN ing.rules : \E p \in 1 .. PathCount(ing, n) :
          ServedHosts(ing, hosts, n) # {} /\ k \in {start[n] + p, start[n] + (PathCount(ing, n) + p)}
    BY <1>3 DEF IsRouting
  <2>3. PICK p \in 1 .. PathCount(ing, n) :
          ServedHosts(ing, hosts, n) # {} /\ k \in {start[n] + p, start[n] + (PathCount(ing, n) + p)}
    BY <2>2
  <2>4. PICK b \in BOOLEAN : http[k] = RouteFor(ing, gws, hosts, n, p, b)
    BY <1>3, <2>3 DEF IsRouting
  <2>5. key \in gws[ing.rules[n].visibility]
    BY <2>1, <2>4, RouteFields DEF makeMatch
  <2> QED BY <2>5, RuleShape
<1>6. ASSUME NEW n \in DOMAIN ing.rules, ServedHosts(ing, hosts, n) # {}, NEW key \in gws[ing.rules[n].visibility]
      PROVE  key \in x.gateways
  <2>1. 1 \in 1 .. PathCount(ing, n)
    BY RuleShape
  <2>2. PICK k \in DOMAIN http : \E b \in BOOLEAN : http[k] = RouteFor(ing, gws, hosts, n, 1, b)
    <3>1. PICK k \in DOMAIN http : http[k] = RouteFor(ing, gws, hosts, n, 1, TRUE)
      BY <1>3, <1>6, <2>1 DEF IsRouting
    <3> QED BY <3>1
  <2> DEFINE served == ServedHosts(ing, hosts, n)
  <2>3. served \in SUBSET ing.rules[n].hosts /\ served # {}
    BY <1>6 DEF ServedHosts
  <2> HIDE DEF served
  <2>4. served \in SUBSET Seq(Nat) /\ IsFiniteSet(served)
    BY <2>3, RuleShape, FS_Subset
  <2>5. PICK e : e \in getDistinctHostPrefixes(served)
    BY <2>3, <2>4, DistinctPrefixes
  <2> DEFINE m == makeMatch(e, gws[ing.rules[n].visibility])
  <2>6. http[k].matches = {makeMatch(h, gws[ing.rules[n].visibility]) : h \in getDistinctHostPrefixes(served)}
    BY <2>2, RouteFields DEF served
  <2>7. key \in m.gateways
    BY <1>6 DEF makeMatch
  <2>8. m \in http[k].matches
    BY <2>5, <2>6
  <2> HIDE DEF m
  <2> QED BY <1>4, <2>7, <2>8
<1> QED BY <1>5, <1>6 DEF x

(* A match names a rule by the prefix of one of its hosts. *)
LEMMA MatchNamesRule ==
  ASSUME NEW ing, IsIngress(ing), NEW gws, NEW hosts, NEW n \in DOMAIN ing.rules, NEW p, NEW b, NEW x, NEW req,
         Matches(x, RouteFor(ing, gws, hosts, n, p, b), req)
  PROVE  \E h \in ing.rules[n].hosts :
           /\ IsPrefix(hostPrefix(h), req.host)
           /\ gws[ing.rules[n].visibility] = {} \/ req.gateway \in gws[ing.rules[n].visibility]
<1> DEFINE served == ServedHosts(ing, hosts, n)
           g == gws[ing.rules[n].visibility]
<1>1. served \in SUBSET ing.rules[n].hosts
  BY DEF ServedHosts
<1> HIDE DEF served
<1>2. served \in SUBSET Seq(Nat) /\ IsFiniteSet(served)
  BY <1>1, RuleShape, FS_Subset
<1>3. PICK m \in RouteFor(ing, gws, hosts, n, p, b).matches :
        IsPrefix(m.prefix, req.host) /\ (m.gateways = {} \/ req.gateway \in m.gateways)
  BY DEF Matches
<1>4. PICK e \in getDistinctHostPrefixes(served) : m = makeMatch(e, g)
  BY <1>3, RouteFields DEF served
<1>5. m.prefix = e /\ m.gateways = g
  BY <1>4 DEF makeMatch
<1>6. PICK h \in served : e = hostPrefix(h)
  BY <1>2, DistinctPrefixes
<1> QED BY <1>1, <1>3, <1>5, <1>6

-----------------------------------------------------------------------------
(***************************************************************************)
(* Certificates and Gateways of an Ingress.                                *)
(***************************************************************************)

(* Every entry at a place that was chosen is in the subsequence. *)
LEMMA SubsequenceHas ==
  ASSUME NEW S, NEW s \in Seq(S), NEW chosen \in SUBSET DOMAIN s, NEW k \in chosen
  PROVE  s[k] \in ToSet(Subsequence(s, chosen))
<1>0. PICK ret \in [0 .. Len(s) -> Seq(S)] : Collects(ret, s, chosen)
  BY SubsequenceLoop
<1>1. /\ Subsequence(s, chosen) = ret[Len(s)]
      /\ ret[0] = <<>>
      /\ \A n \in 1 .. Len(s) : ret[n] = IF n \in chosen THEN Append(ret[n - 1], s[n]) ELSE ret[n - 1]
  BY <1>0 DEF Collects
<1> DEFINE Good(n) == \E m \in DOMAIN ret[n] : ret[n][m] = s[k]
           T == {n \in Nat : n \in k .. Len(s) => Good(n)}
<1>2. k \in 1 .. Len(s) /\ Len(s) \in Nat
  OBVIOUS
<1>3. 0 \in T
  BY <1>2
<1>4. ASSUME NEW n \in T PROVE n + 1 \in T
  <2>1. SUFFICES ASSUME n + 1 \in k .. Len(s) PROVE Good(n + 1)
    OBVIOUS
  <2>2. n \in 0 .. Len(s) /\ n + 1 \in 1 .. Len(s) /\ (n + 1) - 1 = n /\ n \in Nat
    BY <1>2, <2>1
  <2>3. ret[n] \in Seq(S) /\ s[n + 1] \in S
    BY <2>2
  <2>4. ret[n + 1] = IF n + 1 \in chosen THEN Append(ret[n], s[n + 1]) ELSE ret[n]
    BY <1>1, <2>2
  <2>5. PICK q : q = ret[n]
    OBVIOUS
  <2>6. CASE k = n + 1
    <3>1. ret[n + 1] = Append(q, s[k]) /\ q \in Seq(S)
      BY <2>3, <2>4, <2>5, <2>6
    <3>2. Len(q) + 1 \in DOMAIN Append(q, s[k]) /\ Append(q, s[k])[Len(q) + 1] = s[k]
      BY <3>1
    <3> QED BY <3>1, <3>2
  <2>7. CASE k # n + 1
    <3>1. n \in k .. Len(s)
      BY <1>2, <2>1, <2>2, <2>7
    <3>2. PICK m \in DOMAIN q : q[m] = s[k]
      BY <2>5, <3>1
    <3>3. q \in Seq(S)
      BY <2>3, <2>5
    <3>4. m \in DOMAIN Append(q, s[n + 1]) /\ Append(q, s[n + 1])[m] = s[k]
      BY <2>3, <3>2, <3>3
    <3> QED BY <2>4, <2>5, <3>2, <3>4
  <2> QED BY <2>6, <2>7
<1>5. T = Nat
  <2>1. T \in SUBSET Nat
    OBVIOUS
  <2> HIDE DEF T
  <2> QED BY <1>3, <1>4, <2>1, InductionBySet
<1>6. Len(s) \in T /\ Len(s) \in k .. Len(s)
  BY <1>2, <1>5
<1>7. Good(Len(s))
  <2> HIDE DEF Good
  <2> QED BY <1>6
<1> QED BY <1>1, <1>7 DEF ToSet

(* A TLS entry of the Ingress that covers a rule with hosts of that visibility. *)
CoversRule(ing, v, t) ==
  /\ \E n \in DOMAIN ing.tls : t = ing.tls[n]
  /\ \E m \in DOMAIN ing.rules :
       ing.rules[m].visibility = v /\ ing.rules[m].hosts # {} /\ ing.rules[m].hosts \subseteq t.hosts

(* GetIngressTLSForVisibility returns such entries only. *)
LEMMA TLSEntries ==
  ASSUME NEW ing, ing.rules \in Seq(IngressRules), IsSequence(ing.tls), NEW v
  PROVE  /\ IsSequence(GetIngressTLSForVisibility(ing, v))
         /\ \A t \in ToSet(GetIngressTLSForVisibility(ing, v)) : CoversRule(ing, v, t)
<1> DEFINE Hostless(r) == r.visibility = v /\ r.hosts = {}
           I == {k \in 1 .. Len(ing.rules) : Hostless(ing.rules[k])}
           stop == IF I # {} THEN Min(I) ELSE 0
           searched == IF stop = 0 THEN ing.rules ELSE SubSeq(ing.rules, 1, stop - 1)
           Chosen(r) == {n \in DOMAIN ing.tls : r.visibility = v /\ r.hosts \subseteq ing.tls[n].hosts}
           Covering(r) == Subsequence(ing.tls, Chosen(r))
           seqs == [n \in DOMAIN searched |-> Covering(searched[n])]
           R == {t \in {ing.tls[n] : n \in DOMAIN ing.tls} : CoversRule(ing, v, t)}
<1>1. GetIngressTLSForVisibility(ing, v) = FlattenSeq(seqs)
  BY DEF GetIngressTLSForVisibility, SelectInSeq
<1> DEFINE rules == ing.rules
<1>2. /\ searched \in Seq(IngressRules)
      /\ \A n \in DOMAIN searched : n \in DOMAIN rules /\ searched[n] = rules[n] /\ ~Hostless(rules[n])
  <2> HIDE DEF rules
  <2>1. rules \in Seq(IngressRules) /\ I = {k \in 1 .. Len(rules) : Hostless(rules[k])}
    BY DEF rules
  <2> HIDE DEF Hostless
  <2>2. I \in SUBSET Nat /\ 0 \notin I
    BY <2>1
  <2>3. I # {} => Min(I) \in I /\ \A n \in I : Min(I) <= n
    BY <2>2, LeastOf
  <2>4. CASE I = {}
    BY <2>1, <2>4 DEF rules
  <2>5. CASE I # {}
    <3>1. stop \in I /\ stop # 0 /\ \A n \in I : stop <= n
      BY <2>2, <2>3, <2>5
    <3>2. stop \in 1 .. Len(rules) /\ searched = SubSeq(rules, 1, stop - 1)
      BY <2>1, <3>1 DEF rules
    <3> HIDE DEF stop, I, searched
    <3>3. searched \in Seq(IngressRules) /\ Len(searched) = stop - 1 /\ \A n \in 1 .. stop - 1 : searched[n] = rules[n]
      BY <2>1, <3>2
    <3>4. \A n \in 1 .. stop - 1 : n \in 1 .. Len(rules) /\ n \notin I
      BY <2>1, <3>1, <3>2
    <3>5. \A n \in 1 .. stop - 1 : ~Hostless(rules[n])
      BY <2>1, <3>4
    <3> QED BY <2>1, <3>3, <3>4, <3>5
  <2> QED BY <2>4, <2>5
<1> HIDE DEF searched
<1>3. ASSUME NEW n \in DOMAIN searched PROVE Covering(searched[n]) \in Seq(R)
  <2> DEFINE chosen == Chosen(searched[n])
             found == {ing.tls[m] : m \in chosen}
  <2>1. PICK S : ing.tls \in Seq(S)
    BY DEF IsSequence
  <2>2. chosen \in SUBSET DOMAIN ing.tls
    OBVIOUS
  <2>3. Subsequence(ing.tls, chosen) \in Seq(found)
    <3> HIDE DEF chosen
    <3> QED BY <2>1, <2>2, SubsequenceOf
  <2>4. ASSUME NEW m \in chosen PROVE ing.tls[m] \in R
    <3>1. n \in DOMAIN ing.rules /\ searched[n] = ing.rules[n] /\ ~Hostless(ing.rules[n])
      BY <1>2
    <3>2. ing.rules[n].visibility = v /\ ing.rules[n].hosts \subseteq ing.tls[m].hosts /\ ing.rules[n].hosts # {}
      BY <3>1
    <3> QED BY <2>2, <3>1, <3>2 DEF CoversRule
  <2>5. found \subseteq R
    <3> HIDE DEF chosen, R
    <3> QED BY <2>4
  <2> HIDE DEF found, chosen, R
  <2>6. Subsequence(ing.tls, chosen) \in Seq(R)
    BY <2>3, <2>5
  <2> QED BY <2>6 DEF chosen
<1>4. DOMAIN searched = 1 .. Len(searched) /\ Len(searched) \in Nat
  BY <1>2
<1>5. seqs \in Seq(Seq(R))
  <2> HIDE DEF R, Covering
  <2> QED BY <1>3, <1>4
<1>6. FlattenSeq(seqs) \in Seq(R)
  <2> HIDE DEF seqs, R
  <2> QED BY <1>5, FlattenSeqOf
<1> DEFINE made == GetIngressTLSForVisibility(ing, v)
<1>7. made \in Seq(R)
  <2> HIDE DEF R, seqs
  <2> QED BY <1>1, <1>6
<1>8. \A t \in ToSet(made) : t \in R
  <2> HIDE DEF R, made
  <2> QED BY <1>7 DEF ToSet
<1> QED BY <1>7, <1>8 DEF IsSequence

(* No rule, no certificate. *)
LEMMA NoTLSWithoutRules ==
  ASSUME NEW ing, ing.rules \in Seq(IngressRules), IsSequence(ing.tls), NEW v, RulesOf(ing, v) = {}
  PROVE  GetIngressTLSForVisibility(ing, v) = <<>>
<1> DEFINE made == GetIngressTLSForVisibility(ing, v)
<1>1. IsSequence(made) /\ \A t \in ToSet(made) : CoversRule(ing, v, t)
  BY TLSEntries
<1>2. \A m \in DOMAIN ing.rules : ing.rules[m].visibility # v
  BY DEF RulesOf, ToSet
<1> HIDE DEF made
<1>3. ToSet(made) = {}
  BY <1>1, <1>2 DEF CoversRule
<1>4. made # <<>> => 1 \in DOMAIN made
  BY <1>1 DEF IsSequence
<1>5. made = <<>>
  BY <1>3, <1>4 DEF ToSet
<1> QED BY <1>5 DEF made

(* A host is covered by itself, and by the wildcard that it is. *)
LEMMA CoversItself ==
  ASSUME NEW l \in Hosts
  PROVE  Covers(l, l)
<1>1. l \in Seq(Nat) /\ Len(l) \in Nat /\ Len(l) >= 1
  BY DEF Hosts
<1> DEFINE t == Tail(l)
           a == Reverse(t)
           b == Reverse(l)
<1>2. t \in Seq(Nat) /\ Len(t) = Len(l) - 1 /\ \A n \in 1 .. Len(t) : t[n] = l[n + 1]
  BY <1>1
<1>3. a \in Seq(Nat) /\ b \in Seq(Nat) /\ Len(a) = Len(t) /\ Len(b) = Len(l)
  BY <1>1, <1>2, ReverseLength
<1>4. ASSUME NEW n \in 1 .. Len(t) PROVE a[n] = b[n]
  <2>1. (Len(t) - n) + 1 \in 1 .. Len(t) /\ ((Len(t) - n) + 1) + 1 = (Len(l) - n) + 1 /\ n \in 1 .. Len(l)
    BY <1>1, <1>2
  <2>2. a[n] = t[(Len(t) - n) + 1] /\ b[n] = l[(Len(l) - n) + 1]
    BY <2>1 DEF Reverse
  <2> HIDE DEF a, b, t
  <2> QED BY <1>2, <2>1, <2>2
<1> HIDE DEF a, b, t
<1>5. IsPrefix(a, b)
  <2>1. Len(a) <= Len(b) /\ \A n \in 1 .. Len(a) : a[n] = b[n]
    BY <1>1, <1>2, <1>3, <1>4
  <2> QED BY <1>3, <2>1, PrefixAgrees
<1>6. IsSuffix(Tail(l), l)
  BY <1>5 DEF IsSuffix, a, b, t
<1> QED BY <1>6 DEF Covers

-----------------------------------------------------------------------------
(***************************************************************************)
(* The inductive invariant: what is there for an Ingress that is not in    *)
(* the queue.                                                              *)
(***************************************************************************)

(* The Secrets are what they can be. *)
SecretsShaped ==
  /\ secrets = [ref \in Origins |-> secrets[ref]]
  /\ \A ref \in Origins : secrets[ref] \in {NoSecret} \cup Contents[ref]

(* The name of a Gateway tells on which ports it has servers. *)
Shaped(g) ==
  /\ IsGateway(g) /\ g.key.name.kind \in {"ingress", "wildcard"}
  /\ \A x \in g.servers : x.port \in Ports(g.key.name.visibility)

(* The Gateways of an Ingress have their visibility in their names. *)
OfVisibility(gws, v) == \A g \in gws : Shaped(g) /\ g.key.name.visibility = v

WorkShaped ==
  \A i \in Ingresses : work[i] # Idle =>
    \A v \in Visibilities : OfVisibility(work[i].own[v], v) /\ GetSecrets(work[i].ing, v) \subseteq Origins

ServicesNow(i) == ToSet(ServicesOf(Now(i)))

(* A copy of what the origin holds now is where the pods of s look for it, and *)
(* the Ingress hears of changes of either.                                     *)
CopyThere(i, ref, name, s) ==
  s.ns # ref.ns =>
    /\ makeSecret(ref, secrets[ref], name, s.ns) \in copies
    /\ [ns |-> s.ns, name |-> name] \in tracked[i] /\ OriginRef(ref) \in tracked[i]

WildcardKey(ref, s) == [ns |-> ref.ns, name |-> WildcardGatewayName(ref, s)]
WildcardServer(ref, content, s) ==
  TLSServer(ToSet(content.dns), 443, CredentialName(ref, targetWildcardSecretName(ref), s))

(* The Gateway of a wildcard certificate has the names of what the origin     *)
(* held; of what it holds now, if the Ingress hears of its changes.           *)
WildcardThere(i, ref, s) ==
  \E g \in gateways : \E c \in Contents[ref] :
    /\ g.key = WildcardKey(ref, s) /\ g.service = s /\ g.servers = {WildcardServer(ref, c, s)}
    /\ OriginRef(ref) \in tracked[i] => c = secrets[ref]

ExternalThere(i, wild) ==
  \A ref \in GetSecrets(Object(i), "ExternalIP"), s \in ServicesNow(i) :
    IF ref \in wild
    THEN CopyThere(i, ref, targetWildcardSecretName(ref), s) /\ WildcardThere(i, ref, s)
    ELSE CopyThere(i, ref, targetSecret(ref, Object(i)), s)

LocalThere(i) ==
  localTLS => \A ref \in GetSecrets(Object(i), "ClusterLocal"), s \in ServicesNow(i) :
                CopyThere(i, ref, targetSecret(ref, Object(i)), s)

(* The Gateways that the Ingress should have, and the names it should use. *)
PlainTLS(i, wild) ==
  LET tls == GetIngressTLSForVisibility(Object(i), "ExternalIP")
  IN Subsequence(tls, {n \in DOMAIN tls : tls[n].secret \notin wild})
ExternalGateways(i, wild) ==
  MakeIngressTLSGateways(Object(i), "ExternalIP", PlainTLS(i, wild), ServicesOf(Now(i)))
LocalGateways(i) ==
  IF localTLS
  THEN MakeIngressTLSGateways(Object(i), "ClusterLocal",
         GetIngressTLSForVisibility(Object(i), "ClusterLocal"), ServicesOf(Now(i)))
  ELSE {}
WithHTTP(i, wild) == AddHTTPServer(Object(i), ExternalGateways(i, wild), ServicesOf(Now(i)))

WildcardKeys(i, wild) == {WildcardKey(ref, s) : ref \in wild, s \in ServicesNow(i)}
LocalNames(i) == NamesOf(Selected(Now(i))["ClusterLocal"])
DefaultNames(i) == IF shouldReconcileHTTPServer(Object(i)) THEN {} ELSE NamesOf(External(Now(i)))

Both(external, local) == [v \in Visibilities |-> IF v = "ExternalIP" THEN external ELSE local]

CollectedNames(i, wild) == Both(WildcardKeys(i, wild), LocalNames(i))
FinalNames(i, wild) ==
  Both(WildcardKeys(i, wild) \cup DefaultNames(i) \cup GetQualifiedGatewayNames(WithHTTP(i, wild)),
       LocalNames(i) \cup GetQualifiedGatewayNames(LocalGateways(i)))

Served(i, wild) ==
  /\ ExternalThere(i, wild) /\ LocalThere(i) /\ WithHTTP(i, wild) \cup LocalGateways(i) \subseteq gateways
  /\ shouldReconcileHTTPServer(Object(i)) => ServicesExist(Now(i))

(* How far the reconciliation under way, or the last one, has come, if the     *)
(* certificates in wild were wildcards when it read them.                      *)
Progress(i, wild) ==
  /\ Busy(i, "local") => /\ ExternalThere(i, wild)
                         /\ work[i].names = CollectedNames(i, wild)
                         /\ work[i].own = Both(ExternalGateways(i, wild), {})
  /\ Busy(i, "gateways") => /\ ExternalThere(i, wild) /\ LocalThere(i)
                            /\ work[i].names = CollectedNames(i, wild)
                            /\ work[i].own = Both(ExternalGateways(i, wild), LocalGateways(i))
  /\ Busy(i, "virtualServices") => Served(i, wild) /\ work[i].names = FinalNames(i, wild)
  /\ Busy(i, "idle") /\ GatewaysEnabled(istio) =>
       Served(i, wild) /\ vs[i] = MakeVirtualServices(Object(i), FinalNames(i, wild))

Settled(i) ==
  life[i] = "live" /\ i \notin queued =>
    \E wild \in SUBSET GetSecrets(Object(i), "ExternalIP") : Progress(i, wild)

Rest ==
  /\ SecretsShaped
  /\ \A g \in gateways : Shaped(g)
  /\ WorkShaped
  /\ \A i \in Ingresses : Settled(i)

GatewayInv == Inv /\ Rest

-----------------------------------------------------------------------------
(***************************************************************************)
(* What the predicates depend on.                                          *)
(***************************************************************************)

(* The object that the worker reads is an Ingress, its certificates are origins. *)
LEMMA ObjectShape ==
  ASSUME Functions, NEW i \in Ingresses
  PROVE  /\ Object(i).ns = i.ns /\ Object(i).name = i.name
         /\ Object(i).rules = spec[i].rules /\ Object(i).tls = spec[i].tls /\ Object(i).labels = spec[i].labels
         /\ IsIngress(Object(i)) /\ IsSequence(Object(i).tls)
         /\ \A v : GetSecrets(Object(i), v) \subseteq Origins
<1>1. /\ Object(i).ns = i.ns /\ Object(i).name = i.name
      /\ Object(i).rules = spec[i].rules /\ Object(i).tls = spec[i].tls /\ Object(i).labels = spec[i].labels
  BY DEF Object
<1>2. spec[i] \in IngressSpecs /\ WellFormed(spec[i])
  BY NetworkingAssumption DEF Functions
<1>3. spec[i].rules \in Seq(IngressRules) /\ IsSequence(spec[i].tls)
  BY <1>2 DEF IngressSpecs, IsSequence
<1>4. IsIngress(Object(i)) /\ IsSequence(Object(i).tls)
  BY <1>1, <1>2, <1>3 DEF IsIngress, WellFormed
<1>5. ASSUME NEW v, NEW ref \in GetSecrets(Object(i), v) PROVE ref \in Origins
  <2>1. PICK t \in ToSet(GetIngressTLSForVisibility(Object(i), v)) : ref = t.secret
    BY <1>5 DEF GetSecrets
  <2>2. CoversRule(Object(i), v, t)
    BY <1>4, <2>1, TLSEntries DEF IsIngress
  <2>3. PICK n \in DOMAIN spec[i].tls : t = spec[i].tls[n]
    BY <1>1, <2>2 DEF CoversRule
  <2> QED BY <1>2, <2>1, <2>3 DEF WellFormed
<1> QED BY <1>1, <1>4, <1>5

(* A Secret that is shown is one that the origin can hold. *)
LEMMA VisibleHolds ==
  ASSUME SecretsShaped, NEW ref \in Origins, Visible(ref)
  PROVE  secrets[ref] \in Contents[ref]
BY DEF SecretsShaped, Visible

(* The inputs of the Ingress, and so what it should have, stay. *)
LEMMA SameInputs ==
  ASSUME NEW j \in Ingresses, config' = config, localTLS' = localTLS, spec'[j] = spec[j]
  PROVE  /\ istio' = istio /\ Object(j)' = Object(j) /\ Now(j)' = Now(j)
         /\ ServicesNow(j)' = ServicesNow(j) /\ LocalGateways(j)' = LocalGateways(j)
         /\ \A wild : /\ ExternalGateways(j, wild)' = ExternalGateways(j, wild)
                      /\ WithHTTP(j, wild)' = WithHTTP(j, wild)
                      /\ CollectedNames(j, wild)' = CollectedNames(j, wild)
                      /\ FinalNames(j, wild)' = FinalNames(j, wild)
<1>1. istio' = istio /\ Object(j)' = Object(j)
  BY DEF istio, Object
<1>2. Now(j)' = Now(j)
  BY <1>1 DEF Now
<1>3. ServicesNow(j)' = ServicesNow(j) /\ LocalGateways(j)' = LocalGateways(j)
  BY <1>1, <1>2 DEF ServicesNow, LocalGateways
<1>4. ASSUME NEW wild PROVE PlainTLS(j, wild)' = PlainTLS(j, wild)
  BY <1>1 DEF PlainTLS
<1>5. ASSUME NEW wild PROVE ExternalGateways(j, wild)' = ExternalGateways(j, wild)
  BY <1>1, <1>2, <1>4 DEF ExternalGateways
<1>6. ASSUME NEW wild PROVE WithHTTP(j, wild)' = WithHTTP(j, wild)
  BY <1>1, <1>2, <1>5 DEF WithHTTP
<1>7. LocalNames(j)' = LocalNames(j) /\ DefaultNames(j)' = DefaultNames(j)
  BY <1>1, <1>2 DEF LocalNames, DefaultNames
<1>8. ASSUME NEW wild PROVE WildcardKeys(j, wild)' = WildcardKeys(j, wild)
  BY <1>3 DEF WildcardKeys
<1>9. ASSUME NEW wild PROVE CollectedNames(j, wild)' = CollectedNames(j, wild)
  BY <1>7, <1>8 DEF CollectedNames
<1>10. ASSUME NEW wild PROVE FinalNames(j, wild)' = FinalNames(j, wild)
  BY <1>3, <1>6, <1>7, <1>8 DEF FinalNames
<1> QED BY <1>1, <1>2, <1>3, <1>5, <1>6, <1>9, <1>10

(* What is there for the Ingress stays there. *)
CopiesKept(j) ==
  \A ref \in Origins : \A name, s : name.of = ref /\ CopyThere(j, ref, name, s) => CopyThere(j, ref, name, s)'
WildcardsKept(j) ==
  \A ref \in Origins : \A s : WildcardThere(j, ref, s) => WildcardThere(j, ref, s)'
OwnKept(j) == \A g \in gateways : MadeFor(j, g) => g \in gateways'

(* The names of copies say of which certificate. *)
LEMMA CopyNames ==
  ASSUME NEW ref, NEW ing
  PROVE  targetSecret(ref, ing).of = ref /\ targetWildcardSecretName(ref).of = ref
BY DEF targetSecret, targetWildcardSecretName

(* With the inputs of the Ingress its certificates stay served. *)
LEMMA CertificatesKept ==
  ASSUME Functions, NEW j \in Ingresses, config' = config, localTLS' = localTLS, spec'[j] = spec[j], CopiesKept(j)
  PROVE  /\ LocalThere(j) => LocalThere(j)'
         /\ WildcardsKept(j) => \A wild : ExternalThere(j, wild) => ExternalThere(j, wild)'
<1>1. Object(j)' = Object(j) /\ ServicesNow(j)' = ServicesNow(j)
  BY SameInputs
<1>2. \A v : GetSecrets(Object(j), v) \subseteq Origins
  BY ObjectShape
<1>3. ASSUME NEW v, NEW ref \in GetSecrets(Object(j), v), NEW s
      PROVE  /\ CopyThere(j, ref, targetSecret(ref, Object(j)), s) => CopyThere(j, ref, targetSecret(ref, Object(j)), s)'
             /\ CopyThere(j, ref, targetWildcardSecretName(ref), s) => CopyThere(j, ref, targetWildcardSecretName(ref), s)'
             /\ WildcardsKept(j) /\ WildcardThere(j, ref, s) => WildcardThere(j, ref, s)'
  <2>1. ref \in Origins
    BY <1>2, <1>3
  <2>2. PICK a : a = targetSecret(ref, Object(j)) /\ a = targetSecret(ref, Object(j)')
    BY <1>1
  <2>3. PICK b : b = targetWildcardSecretName(ref)
    OBVIOUS
  <2>4. a.of = ref /\ b.of = ref
    BY <2>2, <2>3, CopyNames
  <2>5. /\ CopyThere(j, ref, a, s) => CopyThere(j, ref, a, s)'
        /\ CopyThere(j, ref, b, s) => CopyThere(j, ref, b, s)'
    BY <2>1, <2>4 DEF CopiesKept
  <2>6. CopyThere(j, ref, targetSecret(ref, Object(j)), s) => CopyThere(j, ref, targetSecret(ref, Object(j)), s)'
    BY <2>2, <2>5 DEF CopyThere
  <2>7. CopyThere(j, ref, targetWildcardSecretName(ref), s) => CopyThere(j, ref, targetWildcardSecretName(ref), s)'
    BY <2>3, <2>5 DEF CopyThere
  <2>8. WildcardsKept(j) /\ WildcardThere(j, ref, s) => WildcardThere(j, ref, s)'
    BY <2>1 DEF WildcardsKept
  <2> QED BY <2>6, <2>7, <2>8
<1>4. LocalThere(j) => LocalThere(j)'
  <2>1. GetSecrets(Object(j), "ClusterLocal")' = GetSecrets(Object(j), "ClusterLocal")
    BY <1>1
  <2> QED BY <1>1, <1>3, <2>1 DEF LocalThere
<1>5. ASSUME WildcardsKept(j), NEW wild, ExternalThere(j, wild) PROVE ExternalThere(j, wild)'
  <2>1. GetSecrets(Object(j), "ExternalIP")' = GetSecrets(Object(j), "ExternalIP")
    BY <1>1
  <2> QED BY <1>1, <1>3, <1>5, <2>1 DEF ExternalThere
<1> QED BY <1>4, <1>5

(* The Gateways that an Ingress should have are made for it. *)
LEMMA OwnGateways ==
  ASSUME NEW i \in Ingresses, NEW wild
  PROVE  /\ \A g \in WithHTTP(i, wild) : MadeFor(i, g)
         /\ \A g \in LocalGateways(i) : MadeFor(i, g)
<1>1. Object(i).ns = i.ns /\ Object(i).name = i.name
  BY DEF Object
<1>2. \A g \in ExternalGateways(i, wild) : MadeFor(i, g)
  BY <1>1, IngressGatewaysMadeFor DEF ExternalGateways
<1>3. \A g \in WithHTTP(i, wild) : MadeFor(i, g)
  BY <1>1, <1>2, HTTPServerMadeFor DEF WithHTTP
<1>4. \A g \in LocalGateways(i) : MadeFor(i, g)
  BY <1>1, IngressGatewaysMadeFor DEF LocalGateways
<1> QED BY <1>3, <1>4

(* An Ingress is served as before. *)
LEMMA ServedKept ==
  ASSUME Functions, NEW j \in Ingresses, config' = config, localTLS' = localTLS, spec'[j] = spec[j],
         CopiesKept(j), WildcardsKept(j), OwnKept(j), NEW wild, Served(j, wild)
  PROVE  Served(j, wild)'
<1>1. ExternalThere(j, wild)' /\ LocalThere(j)'
  BY CertificatesKept DEF Served
<1>2. WithHTTP(j, wild)' = WithHTTP(j, wild) /\ LocalGateways(j)' = LocalGateways(j)
  BY SameInputs
<1>3. WithHTTP(j, wild) \cup LocalGateways(j) \subseteq gateways'
  BY OwnGateways DEF Served, OwnKept
<1>4. Now(j)' = Now(j) /\ Object(j)' = Object(j)
  BY SameInputs DEF Now
<1>5. shouldReconcileHTTPServer(Object(j)') => ServicesExist(Now(j)')
  BY <1>4 DEF Served
<1> QED BY <1>1, <1>2, <1>3, <1>5 DEF Served

(* So is its reconciliation as far as it was. *)
LEMMA KeptSettled ==
  ASSUME Functions, NEW j \in Ingresses, Settled(j),
         config' = config, localTLS' = localTLS, spec'[j] = spec[j],
         life'[j] = life[j], vs'[j] = vs[j], work'[j] = work[j],
         life[j] = "live" /\ j \in queued => j \in queued',
         life[j] = "live" /\ j \notin queued' => CopiesKept(j) /\ WildcardsKept(j) /\ OwnKept(j)
  PROVE  Settled(j)'
<1>1. SUFFICES ASSUME life'[j] = "live", j \notin queued'
               PROVE  \E wild \in SUBSET GetSecrets(Object(j)', "ExternalIP") : Progress(j, wild)'
  BY DEF Settled
<1>2. CopiesKept(j) /\ WildcardsKept(j) /\ OwnKept(j)
  BY <1>1
<1>3. PICK wild \in SUBSET GetSecrets(Object(j), "ExternalIP") : Progress(j, wild)
  BY <1>1 DEF Settled
<1>4. /\ istio' = istio /\ Object(j)' = Object(j)
      /\ ExternalGateways(j, wild)' = ExternalGateways(j, wild)
      /\ LocalGateways(j)' = LocalGateways(j)
      /\ CollectedNames(j, wild)' = CollectedNames(j, wild)
      /\ FinalNames(j, wild)' = FinalNames(j, wild)
  BY SameInputs
<1>5. ExternalThere(j, wild) => ExternalThere(j, wild)'
  BY <1>2, CertificatesKept
<1>6. LocalThere(j) => LocalThere(j)'
  BY <1>2, CertificatesKept
<1>7. Served(j, wild) => Served(j, wild)'
  BY <1>2, ServedKept
<1>8. Progress(j, wild)'
  <2>1. \A pc : Busy(j, pc)' <=> Busy(j, pc)
    BY DEF Busy
  <2> QED BY <1>3, <1>4, <1>5, <1>6, <1>7, <2>1 DEF Progress
<1> QED BY <1>4, <1>8

-----------------------------------------------------------------------------
(***************************************************************************)
(* What each kind of write leaves alone.                                   *)
(***************************************************************************)

(* A step that writes no copies and Gateways, or only deletes copies nobody   *)
(* who is not enqueued tracks.                                                *)
LEMMA CopiesKeptByDelete ==
  ASSUME NEW j \in Ingresses, UNCHANGED <<secrets, tracked>>,
         \A c \in copies : c \in copies' \/ NameOf(c) \notin tracked[j]
  PROVE  CopiesKept(j)
<1> SUFFICES ASSUME NEW ref \in Origins, NEW name, NEW s, name.of = ref, CopyThere(j, ref, name, s)
             PROVE  CopyThere(j, ref, name, s)'
  BY DEF CopiesKept
<1>1. SUFFICES ASSUME s.ns # ref.ns
               PROVE  /\ makeSecret(ref, secrets[ref], name, s.ns) \in copies'
                      /\ [ns |-> s.ns, name |-> name] \in tracked[j] /\ OriginRef(ref) \in tracked[j]
  BY DEF CopyThere
<1>2. /\ makeSecret(ref, secrets[ref], name, s.ns) \in copies
      /\ [ns |-> s.ns, name |-> name] \in tracked[j] /\ OriginRef(ref) \in tracked[j]
  BY <1>1 DEF CopyThere
<1>3. NameOf(makeSecret(ref, secrets[ref], name, s.ns)) = [ns |-> s.ns, name |-> name]
  BY DEF NameOf, makeSecret
<1> QED BY <1>2, <1>3

(* A step that leaves the Gateways of wildcard certificates there. *)
LEMMA WildcardsKeptIfThere ==
  ASSUME NEW j \in Ingresses, UNCHANGED <<secrets, tracked>>,
         \A g \in gateways : g.key.name.kind = "wildcard" => g \in gateways'
  PROVE  WildcardsKept(j)
<1>1. ASSUME NEW ref \in Origins, NEW s, WildcardThere(j, ref, s) PROVE WildcardThere(j, ref, s)'
  <2>1. PICK g \in gateways, c \in Contents[ref] :
          /\ g.key = WildcardKey(ref, s) /\ g.service = s /\ g.servers = {WildcardServer(ref, c, s)}
          /\ OriginRef(ref) \in tracked[j] => c = secrets[ref]
    BY <1>1 DEF WildcardThere
  <2>2. g.key.name.kind = "wildcard"
    BY <2>1 DEF WildcardKey, WildcardGatewayName
  <2>3. g \in gateways'
    BY <2>2
  <2> QED BY <2>1, <2>3 DEF WildcardThere
<1> QED BY <1>1 DEF WildcardsKept

(* Gateways that are not the Ingress's own stay when it deletes its own. *)
LEMMA GatewaysKeptByDelete ==
  ASSUME NEW i \in Ingresses, NEW j \in Ingresses, UNCHANGED <<secrets, tracked>>,
         gateways' = gateways \ ControlledBy(i)
  PROVE  WildcardsKept(j) /\ (i # j => OwnKept(j))
<1>1. ASSUME i # j PROVE OwnKept(j)
  BY <1>1 DEF OwnKept, MadeFor, ControlledBy
<1>2. WildcardsKept(j)
  BY WildcardsKeptIfThere DEF ControlledBy
<1> QED BY <1>1, <1>2

(* A step that changes nothing here keeps everything. *)
LEMMA KeptByNothing ==
  ASSUME NEW j \in Ingresses, UNCHANGED <<secrets, tracked, copies, gateways>>
  PROVE  CopiesKept(j) /\ WildcardsKept(j) /\ OwnKept(j)
<1>1. CopiesKept(j)
  BY CopiesKeptByDelete
<1>2. WildcardsKept(j)
  BY DEF WildcardsKept, WildcardThere
<1> QED BY <1>1, <1>2 DEF OwnKept

(* The same Gateway, whoever owns it. *)
Like(g, d) == IsGateway(g) /\ g.key = d.key /\ g.service = d.service /\ g.servers = d.servers

(* What Upsert writes is there afterwards, and nothing else has changed. *)
LEMMA UpsertWrites ==
  ASSUME NEW gws, NEW desired, \A d \in desired : IsGateway(d)
  PROVE  /\ \A d \in desired : \E g \in Upsert(gws, desired) : Like(g, d)
         /\ \A g \in gws : g.key \notin GetQualifiedGatewayNames(desired) => g \in Upsert(gws, desired)
         /\ \A g \in Upsert(gws, desired) :
              \/ g \in gws /\ g.key \notin GetQualifiedGatewayNames(desired)
              \/ \E d \in desired : Like(g, d)
<1> DEFINE OwnerOf(d) == LET old == {g \in gws : g.key = d.key}
                         IN  IF old = {} THEN d.owner ELSE (CHOOSE g \in old : TRUE).owner
           Written(d) == [d EXCEPT !.owner = OwnerOf(d)]
<1>1. Upsert(gws, desired) = {g \in gws : g.key \notin GetQualifiedGatewayNames(desired)} \cup {Written(d) : d \in desired}
  BY DEF Upsert
<1> HIDE DEF OwnerOf
<1>2. ASSUME NEW d \in desired PROVE Like(Written(d), d)
  <2>1. PICK o : o = OwnerOf(d)
    OBVIOUS
  <2>2. d = [key |-> d.key, owner |-> d.owner, service |-> d.service, servers |-> d.servers]
    BY DEF IsGateway
  <2>3. PICK k, u, s, ss : d = [key |-> k, owner |-> u, service |-> s, servers |-> ss]
    BY <2>2
  <2>4. Written(d) = [key |-> k, owner |-> o, service |-> s, servers |-> ss]
    BY <2>1, <2>3
  <2> HIDE DEF Written
  <2> QED BY <2>3, <2>4 DEF Like, IsGateway
<1> HIDE DEF Written
<1> QED BY <1>1, <1>2

(* Copies of what the origins hold now. *)
Current(cs) ==
  \A c \in cs : \E ref \in Origins : \E name, ns : name.of = ref /\ c = makeSecret(ref, secrets[ref], name, ns)

(* Gateways of wildcard certificates, of what these hold now. *)
CurrentWildcards(gs) ==
  \A g \in gs : \E ref \in Origins : \E s :
    g = makeWildcardTLSGateway(ref, secrets[ref], s) /\ secrets[ref] \in Contents[ref]

(* An origin is its namespace and name. *)
LEMMA OriginIsRef == ASSUME NEW r \in Origins PROVE r = [ns |-> r.ns, name |-> r.name]
BY NetworkingAssumption DEF Refs

(* A Gateway of a wildcard certificate. *)
LEMMA WildcardGatewayIs ==
  ASSUME NEW ref, NEW c, NEW s
  PROVE  /\ IsGateway(makeWildcardTLSGateway(ref, c, s))
         /\ makeWildcardTLSGateway(ref, c, s).key = WildcardKey(ref, s)
         /\ makeWildcardTLSGateway(ref, c, s).service = s
         /\ makeWildcardTLSGateway(ref, c, s).servers = {WildcardServer(ref, c, s)}
BY DEF makeWildcardTLSGateway, IsGateway, WildcardKey, WildcardServer

(* Its name tells the certificate and the service. *)
LEMMA WildcardKeyTells ==
  ASSUME NEW r \in Origins, NEW q \in Origins, NEW s, NEW t, WildcardKey(r, s) = WildcardKey(q, t)
  PROVE  r = q /\ s = t
<1>1. r.ns = q.ns /\ WildcardGatewayName(r, s) = WildcardGatewayName(q, t)
  BY DEF WildcardKey
<1>2. r.name = q.name /\ s = t
  BY <1>1 DEF WildcardGatewayName
<1> QED BY <1>1, <1>2, OriginIsRef

(* WriteShared changes nothing for those that it does not enqueue. *)
LEMMA WriteSharedKept ==
  ASSUME NEW i \in Ingresses, NEW cs, Current(cs), NEW gs, CurrentWildcards(gs), NEW retried, PerIngress(tracked),
         WriteShared(i, cs, gs, retried), UNCHANGED <<secrets, life>>,
         NEW j \in Ingresses, life[j] = "live", j \notin queued'
  PROVE  CopiesKept(j) /\ WildcardsKept(j) /\ OwnKept(j)
<1> DEFINE changed == {NameOf(c) : c \in CopiesWith(cs) \ copies}
                        \cup GetQualifiedGatewayNames(Upsert(gateways, gs) \ gateways)
<1>1. /\ copies' = CopiesWith(cs) /\ gateways' = Upsert(gateways, gs)
      /\ tracked' = [tracked EXCEPT ![i] = @ \cup TrackedWith(cs, gs)]
      /\ queued' = queued \cup {k \in Live : tracked'[k] \cap changed # {}} \cup retried
                    \cup {k \in {i} : tracked'[i] # tracked[i]}
  BY DEF WriteShared
<1> HIDE DEF changed
<1>2. tracked'[j] = tracked[j]
  <2>1. CASE j = i
    BY <1>1, <2>1
  <2>2. CASE j # i
    BY <1>1, <2>2 DEF PerIngress
  <2> QED BY <2>1, <2>2
<1>3. tracked[j] \cap changed = {}
  <2>1. j \in Live
    BY DEF Live
  <2> QED BY <1>1, <1>2, <2>1
<1>4. ASSUME NEW ref \in Origins, NEW name, NEW s, name.of = ref, CopyThere(j, ref, name, s)
      PROVE  CopyThere(j, ref, name, s)'
  <2> DEFINE c == makeSecret(ref, secrets[ref], name, s.ns)
  <2>1. SUFFICES ASSUME s.ns # ref.ns
                 PROVE  c \in copies' /\ [ns |-> s.ns, name |-> name] \in tracked[j] /\ OriginRef(ref) \in tracked[j]
    BY <1>2 DEF CopyThere
  <2>2. c \in copies /\ [ns |-> s.ns, name |-> name] \in tracked[j] /\ OriginRef(ref) \in tracked[j]
    BY <1>4, <2>1 DEF CopyThere
  <2>3. ASSUME NEW d \in cs, NameOf(d) = NameOf(c) PROVE c = d
    <3>1. PICK q \in Origins : \E nm, ns : nm.of = q /\ d = makeSecret(q, secrets[q], nm, ns)
      BY DEF Current
    <3>2. PICK nm, ns : nm.of = q /\ d = makeSecret(q, secrets[q], nm, ns)
      BY <3>1
    <3>3. nm = name /\ ns = s.ns
      BY <2>3, <3>2 DEF NameOf, makeSecret
    <3> QED BY <1>4, <3>2, <3>3
  <2>4. c \in CopiesWith(cs)
    <3> HIDE DEF c
    <3> QED BY <2>2, <2>3 DEF CopiesWith
  <2> QED BY <1>1, <2>2, <2>4
<1>5. \A g \in gs : IsGateway(g) /\ g.key.name.kind = "wildcard"
  <2>1. ASSUME NEW g \in gs PROVE IsGateway(g) /\ g.key.name.kind = "wildcard"
    <3>1. PICK ref \in Origins : \E s : g = makeWildcardTLSGateway(ref, secrets[ref], s)
      BY DEF CurrentWildcards
    <3>2. PICK s : g = makeWildcardTLSGateway(ref, secrets[ref], s)
      BY <3>1
    <3>3. WildcardKey(ref, s).name.kind = "wildcard"
      BY DEF WildcardKey, WildcardGatewayName
    <3> QED BY <3>2, <3>3, WildcardGatewayIs
  <2> QED BY <2>1
<1>6. OwnKept(j)
  <2>1. ASSUME NEW g \in gateways, MadeFor(j, g) PROVE g \in gateways'
    <3>1. g.key \notin GetQualifiedGatewayNames(gs)
      BY <1>5, <2>1 DEF GetQualifiedGatewayNames, MadeFor
    <3> QED BY <1>1, <1>5, <3>1, UpsertWrites
  <2> QED BY <2>1 DEF OwnKept
<1>7. ASSUME NEW ref \in Origins, NEW s, WildcardThere(j, ref, s) PROVE WildcardThere(j, ref, s)'
  <2>1. PICK g \in gateways, c \in Contents[ref] :
          /\ g.key = WildcardKey(ref, s) /\ g.service = s /\ g.servers = {WildcardServer(ref, c, s)}
          /\ OriginRef(ref) \in tracked[j] => c = secrets[ref]
    BY <1>7 DEF WildcardThere
  <2>2. CASE g.key \notin GetQualifiedGatewayNames(gs)
    <3>1. g \in gateways'
      BY <1>1, <1>5, <2>2, UpsertWrites
    <3> QED BY <1>2, <2>1, <3>1 DEF WildcardThere
  <2>3. CASE g.key \in GetQualifiedGatewayNames(gs)
    <3>1. PICK d \in gs : d.key = g.key
      BY <2>3 DEF GetQualifiedGatewayNames
    <3>2. PICK q \in Origins : \E t :
            d = makeWildcardTLSGateway(q, secrets[q], t) /\ secrets[q] \in Contents[q]
      BY DEF CurrentWildcards
    <3>3. PICK t : d = makeWildcardTLSGateway(q, secrets[q], t) /\ secrets[q] \in Contents[q]
      BY <3>2
    <3>4. d.key = WildcardKey(q, t)
      BY <3>3, WildcardGatewayIs
    <3>5. q = ref /\ t = s
      <4>1. WildcardKey(q, t) = WildcardKey(ref, s)
        BY <2>1, <3>1, <3>4
      <4> QED BY <4>1, WildcardKeyTells
    <3>6. PICK h \in gateways' : Like(h, d)
      BY <1>1, <1>5, UpsertWrites
    <3>7. d.service = s /\ d.servers = {WildcardServer(ref, secrets[ref], s)}
      BY <3>3, <3>5, WildcardGatewayIs
    <3>8. /\ h.key = WildcardKey(ref, s) /\ h.service = s /\ h.servers = {WildcardServer(ref, secrets[ref], s)}
          /\ secrets[ref] \in Contents[ref]
      BY <3>3, <3>4, <3>5, <3>6, <3>7 DEF Like
    <3> QED BY <1>2, <3>8 DEF WildcardThere
  <2> QED BY <2>2, <2>3
<1> QED BY <1>4, <1>6, <1>7 DEF CopiesKept, WildcardsKept

(* Nor do the Gateways that an Ingress writes for itself touch those of others. *)
LEMMA UpsertOwnKept ==
  ASSUME NEW i \in Ingresses, NEW gws, NEW desired, \A d \in desired : MadeFor(i, d)
  PROVE  /\ \A j \in Ingresses \ {i} : \A g \in gws : MadeFor(j, g) => g \in Upsert(gws, desired)
         /\ \A g \in gws : g.key.name.kind = "wildcard" => g \in Upsert(gws, desired)
         /\ WellOwned(gws) => desired \subseteq Upsert(gws, desired)
<1>1. \A d \in desired : IsGateway(d)
  BY DEF MadeFor
<1>2. ASSUME NEW j \in Ingresses \ {i}, NEW g \in gws, MadeFor(j, g) PROVE g \in Upsert(gws, desired)
  <2>1. ASSUME NEW d \in desired, d.key = g.key PROVE FALSE
    <3>1. i.ns = j.ns /\ i.name = j.name
      BY <1>2, <2>1 DEF MadeFor
    <3> QED BY <3>1, IngressIsRef
  <2>2. g.key \notin GetQualifiedGatewayNames(desired)
    BY <2>1 DEF GetQualifiedGatewayNames
  <2> QED BY <1>1, <2>2, UpsertWrites
<1>3. ASSUME NEW g \in gws, g.key.name.kind = "wildcard" PROVE g \in Upsert(gws, desired)
  <2>1. g.key \notin GetQualifiedGatewayNames(desired)
    BY <1>3 DEF GetQualifiedGatewayNames, MadeFor
  <2> QED BY <1>1, <2>1, UpsertWrites
<1>4. ASSUME WellOwned(gws), NEW d \in desired PROVE d \in Upsert(gws, desired)
  <2>1. PICK g \in Upsert(gws, desired) : Like(g, d)
    BY <1>1, UpsertWrites
  <2>2. WellOwned(Upsert(gws, desired))
    BY <1>1, <1>4, UpsertOwned
  <2>3. MadeFor(i, d) /\ IsGateway(g) /\ g.key = d.key /\ g.service = d.service /\ g.servers = d.servers
    BY <2>1 DEF Like
  <2>4. g.owner = [ns |-> g.key.ns, name |-> g.key.name.of]
    BY <2>2, <2>3 DEF WellOwned, MadeFor
  <2>5. g.owner = d.owner
    BY <2>3, <2>4, IngressIsRef DEF MadeFor
  <2>6. g = d
    BY <2>3, <2>5 DEF IsGateway, MadeFor
  <2> QED BY <2>6
<1> QED BY <1>2, <1>3, <1>4

(* The Gateways with the certificates of the Ingress are of their visibility. *)
LEMMA TLSGatewaysShaped ==
  ASSUME NEW ing, NEW v \in Visibilities, NEW tls, NEW services
  PROVE  OfVisibility(MakeIngressTLSGateways(ing, v, tls, services), v)
<1>1. ASSUME NEW s PROVE LET g == makeIngressGateway(ing, v, MakeTLSServers(ing, v, tls, s), s)
                         IN  Shaped(g) /\ g.key.name.visibility = v
  <2> DEFINE g == makeIngressGateway(ing, v, MakeTLSServers(ing, v, tls, s), s)
  <2>1. \A x \in MakeTLSServers(ing, v, tls, s) : x.port \in Ports(v)
    BY DEF MakeTLSServers, TLSServer, Ports
  <2>2. IsGateway(g) /\ g.key.name.kind = "ingress" /\ g.key.name.visibility = v /\ g.servers = MakeTLSServers(ing, v, tls, s)
    BY DEF makeIngressGateway, IsGateway, GatewayName
  <2> HIDE DEF g
  <2> QED BY <2>1, <2>2 DEF Shaped, g
<1> QED BY <1>1 DEF MakeIngressTLSGateways, OfVisibility

(* Adding servers changes nothing else of a Gateway. *)
LEMMA WithServers ==
  ASSUME NEW g, IsGateway(g), NEW more
  PROVE  [g EXCEPT !.servers = @ \cup more]
           = [key |-> g.key, owner |-> g.owner, service |-> g.service, servers |-> g.servers \cup more]
<1>1. PICK k, o, s, ss : g = [key |-> k, owner |-> o, service |-> s, servers |-> ss]
  BY DEF IsGateway
<1> QED BY <1>1

(* So are those with the HTTP server. *)
LEMMA HTTPGatewaysShaped ==
  ASSUME NEW ing, NEW gws, OfVisibility(gws, "ExternalIP"), NEW services
  PROVE  OfVisibility(AddHTTPServer(ing, gws, services), "ExternalIP")
<1>1. \A x \in MakeHTTPServer(ing) : x.port \in Ports("ExternalIP")
  BY DEF MakeHTTPServer, Ports
<1>2. CASE ~shouldReconcileHTTPServer(ing)
  BY <1>2, Zenon DEF AddHTTPServer
<1>3. CASE shouldReconcileHTTPServer(ing) /\ gws = {}
  <2>1. AddHTTPServer(ing, gws, services) = MakeExternalIngressGateways(ing, MakeHTTPServer(ing), services)
    BY <1>3, Zenon DEF AddHTTPServer
  <2>2. ASSUME NEW s PROVE LET g == makeIngressGateway(ing, "ExternalIP", MakeHTTPServer(ing), s)
                           IN  Shaped(g) /\ g.key.name.visibility = "ExternalIP"
    <3> DEFINE g == makeIngressGateway(ing, "ExternalIP", MakeHTTPServer(ing), s)
    <3>1. IsGateway(g) /\ g.key.name.kind = "ingress" /\ g.key.name.visibility = "ExternalIP" /\ g.servers = MakeHTTPServer(ing)
      BY DEF makeIngressGateway, IsGateway, GatewayName
    <3> HIDE DEF g
    <3> QED BY <1>1, <3>1 DEF Shaped, g
  <2> QED BY <2>1, <2>2 DEF MakeExternalIngressGateways, OfVisibility
<1>4. CASE shouldReconcileHTTPServer(ing) /\ gws # {}
  <2>1. AddHTTPServer(ing, gws, services) = {[g EXCEPT !.servers = @ \cup MakeHTTPServer(ing)] : g \in gws}
    BY <1>4, Zenon DEF AddHTTPServer
  <2>2. ASSUME NEW g \in gws PROVE LET h == [g EXCEPT !.servers = @ \cup MakeHTTPServer(ing)]
                                   IN  Shaped(h) /\ h.key.name.visibility = "ExternalIP"
    <3> DEFINE h == [g EXCEPT !.servers = @ \cup MakeHTTPServer(ing)]
    <3>1. Shaped(g) /\ g.key.name.visibility = "ExternalIP"
      BY DEF OfVisibility
    <3>2. h = [key |-> g.key, owner |-> g.owner, service |-> g.service,
               servers |-> g.servers \cup MakeHTTPServer(ing)]
      BY <3>1, WithServers DEF Shaped
    <3> HIDE DEF h
    <3>3. IsGateway(h) /\ h.key = g.key /\ h.servers = g.servers \cup MakeHTTPServer(ing)
      BY <3>2 DEF IsGateway
    <3> QED BY <1>1, <3>1, <3>3 DEF Shaped, h
  <2> QED BY <2>1, <2>2 DEF OfVisibility
<1> QED BY <1>2, <1>3, <1>4

(* The Gateways of wildcard certificates have one on a port for external hosts. *)
LEMMA WildcardShaped ==
  ASSUME NEW ref, NEW c, NEW s
  PROVE  Shaped(makeWildcardTLSGateway(ref, c, s))
<1> DEFINE g == makeWildcardTLSGateway(ref, c, s)
<1>1. IsGateway(g) /\ g.key = WildcardKey(ref, s) /\ g.servers = {WildcardServer(ref, c, s)}
  BY WildcardGatewayIs
<1>2. WildcardKey(ref, s).name.kind = "wildcard" /\ WildcardKey(ref, s).name.visibility = "ExternalIP"
  BY DEF WildcardKey, WildcardGatewayName
<1>3. WildcardServer(ref, c, s).port \in Ports("ExternalIP")
  BY DEF WildcardServer, TLSServer, Ports, HTTPSPort
<1> HIDE DEF g
<1> QED BY <1>1, <1>2, <1>3 DEF Shaped, g

(* Writing such Gateways leaves such Gateways. *)
LEMMA UpsertShaped ==
  ASSUME NEW gws, \A g \in gws : Shaped(g), NEW desired, \A d \in desired : Shaped(d)
  PROVE  \A g \in Upsert(gws, desired) : Shaped(g)
<1>1. \A d \in desired : IsGateway(d)
  BY DEF Shaped
<1>2. ASSUME NEW g \in Upsert(gws, desired) PROVE Shaped(g)
  <2>1. g \in gws \/ \E d \in desired : Like(g, d)
    BY <1>1, UpsertWrites
  <2> QED BY <2>1 DEF Shaped, Like
<1> QED BY <1>2

(* What a reconciliation uses is what the Ingress has now, if it is up to date. *)
LEMMA WorkIsNow ==
  ASSUME NEW i \in Ingresses, work[i].istio = istio, work[i].ing = Object(i)
  PROVE  /\ Selected(work[i]) = Selected(Now(i)) /\ External(work[i]) = External(Now(i))
         /\ ServicesOf(work[i]) = ServicesOf(Now(i)) /\ ToSet(ServicesOf(work[i])) = ServicesNow(i)
<1>1. Now(i).istio = istio /\ Now(i).ing = Object(i)
  BY DEF Now
<1>2. Selected(work[i]) = Selected(Now(i))
  BY <1>1 DEF Selected
<1>3. External(work[i]) = External(Now(i))
  BY <1>2 DEF External
<1>4. ServicesOf(work[i]) = ServicesOf(Now(i))
  BY <1>3 DEF ServicesOf
<1> QED BY <1>2, <1>3, <1>4 DEF ServicesNow

-----------------------------------------------------------------------------
(***************************************************************************)
(* The pieces that the steps of reconcileIngress are made of.              *)
(***************************************************************************)

InputsSame == UNCHANGED <<config, spec, localTLS, secrets>>

(* What a step for one Ingress leaves to the others. *)
OthersKept(i) ==
  \A j \in Ingresses \ {i} :
    /\ life'[j] = life[j] /\ vs'[j] = vs[j] /\ work'[j] = work[j]
    /\ life[j] = "live" /\ j \in queued => j \in queued'
    /\ life[j] = "live" /\ j \notin queued' => CopiesKept(j) /\ WildcardsKept(j) /\ OwnKept(j)

(* What is left to show of such a step. *)
LEMMA StepPreservesRest ==
  ASSUME GatewayInv, NEW i \in Ingresses, InputsSame, OthersKept(i), \A g \in gateways' : Shaped(g),
         work'[i] = Idle \/ \A v \in Visibilities :
           OfVisibility(work'[i].own[v], v) /\ GetSecrets(work'[i].ing, v) \subseteq Origins,
         life'[i] = "live" /\ i \notin queued' => Settled(i)'
  PROVE  Rest'
<1>1. Functions
  BY DEF GatewayInv, Inv
<1>2. ASSUME NEW j \in Ingresses PROVE Settled(j)'
  <2>1. CASE j = i
    BY <2>1 DEF Settled
  <2>2. CASE j # i
    <3>1. Settled(j)
      BY DEF GatewayInv, Rest
    <3>2. /\ life'[j] = life[j] /\ vs'[j] = vs[j] /\ work'[j] = work[j]
          /\ life[j] = "live" /\ j \in queued => j \in queued'
          /\ life[j] = "live" /\ j \notin queued' => CopiesKept(j) /\ WildcardsKept(j) /\ OwnKept(j)
      BY <2>2 DEF OthersKept
    <3> QED BY <1>1, <3>1, <3>2, KeptSettled DEF InputsSame
  <2> QED BY <2>1, <2>2
<1>3. WorkShaped'
  <2>1. ASSUME NEW j \in Ingresses, work'[j] # Idle, NEW v \in Visibilities
        PROVE  OfVisibility(work'[j].own[v], v) /\ GetSecrets(work'[j].ing, v) \subseteq Origins
    <3>1. CASE j = i
      BY <2>1, <3>1
    <3>2. CASE j # i
      BY <2>1, <3>2 DEF OthersKept, GatewayInv, Rest, WorkShaped
    <3> QED BY <3>1, <3>2
  <2> QED BY <2>1 DEF WorkShaped, Idle
<1>4. SecretsShaped'
  BY DEF GatewayInv, Rest, SecretsShaped, InputsSame
<1> QED BY <1>2, <1>3, <1>4 DEF Rest

(* An Ingress that is in the queue afterwards has nothing to keep. *)
LEMMA GiveUpRest ==
  ASSUME GatewayInv, NEW i \in Ingresses, GiveUp(i), InputsSame, UNCHANGED life
  PROVE  Rest'
<1>1. PerIngress(work') /\ work'[i] = Idle /\ \A j \in Ingresses \ {i} : work'[j] = work[j]
  BY StopStep DEF GiveUp, GatewayInv
<1>2. UNCHANGED <<copies, gateways, vs, tracked>> /\ queued' = queued \cup {i}
  BY DEF GiveUp, ResourcesUnchanged
<1>3. \A j \in Ingresses : CopiesKept(j) /\ WildcardsKept(j) /\ OwnKept(j)
  BY <1>2, KeptByNothing DEF InputsSame
<1>4. OthersKept(i)
  BY <1>1, <1>2, <1>3 DEF OthersKept
<1>5. \A g \in gateways' : Shaped(g)
  BY <1>2 DEF GatewayInv, Rest
<1> QED BY <1>1, <1>2, <1>4, <1>5, StepPreservesRest

(* A part that is not needed. *)
LEMMA SkipRest ==
  ASSUME GatewayInv, NEW i \in Ingresses, work[i] # Idle, NEW pc, NEW names, NEW own, Skip(i, pc, names, own),
         \A v \in Visibilities : OfVisibility(own[v], v), InputsSame, UNCHANGED life,
         life[i] = "live" /\ i \notin queued => Settled(i)'
  PROVE  Rest'
<1>1. UNCHANGED <<copies, gateways, vs, tracked, queued>> /\ Proceed(i, pc, names, own)
  BY DEF Skip, ResourcesUnchanged
<1>2. Underway(i, work[i]) /\ Inv
  BY DEF GatewayInv, Inv, WorkInv
<1>3. /\ \A j \in Ingresses \ {i} : work'[j] = work[j]
      /\ work'[i] = [pc |-> pc, istio |-> work[i].istio, ing |-> work[i].ing, names |-> names, own |-> own]
  BY <1>1, <1>2, ProceedStep
<1>4. \A j \in Ingresses : CopiesKept(j) /\ WildcardsKept(j) /\ OwnKept(j)
  BY <1>1, KeptByNothing DEF InputsSame
<1>5. OthersKept(i)
  BY <1>1, <1>3, <1>4 DEF OthersKept
<1>6. \A g \in gateways' : Shaped(g)
  BY <1>1 DEF GatewayInv, Rest
<1>7. \A v \in Visibilities : OfVisibility(work'[i].own[v], v) /\ GetSecrets(work'[i].ing, v) \subseteq Origins
  BY <1>3 DEF GatewayInv, Rest, WorkShaped
<1> QED BY <1>1, <1>5, <1>6, <1>7, StepPreservesRest

(* The TLS part of one visibility: what is written is of the certificates as   *)
(* they are, and whoever may miss what it replaces is enqueued.                *)
LEMMA TLSRest ==
  ASSUME GatewayInv, NEW i \in Ingresses, work[i] # Idle, NEW refs, NEW cs, Current(cs), NEW gs,
         (\A ref \in refs : Visible(ref)) => CurrentWildcards(gs), NEW pc, NEW names, NEW own,
         ReconcileTLS(i, refs, cs, gs, pc, names, own), \A v \in Visibilities : OfVisibility(own[v], v),
         InputsSame, UNCHANGED life,
         /\ life[i] = "live" /\ i \notin queued' /\ (\A ref \in refs : Visible(ref))
         /\ WriteShared(i, cs, gs, {}) /\ Proceed(i, pc, names, own)
         => Settled(i)'
  PROVE  Rest'
<1> DEFINE Writes(gws, retried) == WriteShared(i, cs, gws, retried) /\ CurrentWildcards(gws)
<1>1. PerIngress(tracked) /\ Underway(i, work[i]) /\ Inv /\ \A g \in gateways : Shaped(g)
  BY DEF GatewayInv, Inv, Functions, WorkInv, Rest
<1>2. ASSUME NEW gws, NEW retried, Writes(gws, retried), \A j \in Ingresses \ {i} : work'[j] = work[j]
      PROVE  OthersKept(i) /\ (\A g \in gateways' : Shaped(g)) /\ queued \subseteq queued' /\ retried \subseteq queued'
  <2>1. \A j \in Ingresses : life[j] = "live" /\ j \notin queued' => CopiesKept(j) /\ WildcardsKept(j) /\ OwnKept(j)
    BY <1>1, <1>2, WriteSharedKept DEF InputsSame
  <2>2. UNCHANGED vs /\ queued \subseteq queued' /\ retried \subseteq queued' /\ gateways' = Upsert(gateways, gws)
    BY <1>2 DEF WriteShared
  <2>3. OthersKept(i)
    BY <1>2, <2>1, <2>2 DEF OthersKept
  <2>4. \A g \in gws : Shaped(g)
    BY <1>2, WildcardShaped DEF CurrentWildcards
  <2> QED BY <1>1, <2>2, <2>3, <2>4, UpsertShaped
<1> HIDE DEF Writes
<1>3. CASE GiveUp(i)
  BY <1>3, GiveUpRest
<1>4. CASE /\ \A ref \in refs : Visible(ref)
           /\ WriteShared(i, cs, gs, {}) /\ Proceed(i, pc, names, own)
  <2>1. /\ \A j \in Ingresses \ {i} : work'[j] = work[j]
        /\ work'[i] = [pc |-> pc, istio |-> work[i].istio, ing |-> work[i].ing, names |-> names, own |-> own]
    BY <1>1, <1>4, ProceedStep
  <2>2. Writes(gs, {})
    BY <1>4 DEF Writes
  <2>3. OthersKept(i) /\ \A g \in gateways' : Shaped(g)
    BY <1>2, <2>1, <2>2
  <2>4. \A v \in Visibilities : OfVisibility(work'[i].own[v], v) /\ GetSecrets(work'[i].ing, v) \subseteq Origins
    BY <2>1 DEF GatewayInv, Rest, WorkShaped
  <2>5. life'[i] = "live" /\ i \notin queued' => Settled(i)'
    BY <1>4
  <2> QED BY <2>3, <2>4, <2>5, StepPreservesRest
<1>5. CASE WriteShared(i, cs, {}, {i}) /\ Stop(i)
  <2>1. work'[i] = Idle /\ \A j \in Ingresses \ {i} : work'[j] = work[j]
    BY <1>1, <1>5, StopStep
  <2>2. Writes({}, {i})
    BY <1>5 DEF Writes, CurrentWildcards
  <2>3. OthersKept(i) /\ (\A g \in gateways' : Shaped(g)) /\ {i} \subseteq queued'
    BY <1>2, <2>1, <2>2
  <2> QED BY <2>1, <2>3, StepPreservesRest
<1> QED BY <1>3, <1>4, <1>5 DEF ReconcileTLS

(* A copy that was written is there, and tracked. *)
LEMMA CopyWritten ==
  ASSUME NEW i \in Ingresses, PerIngress(tracked), NEW cs, NEW gs, NEW retried, WriteShared(i, cs, gs, retried),
         UNCHANGED secrets, NEW ref, NEW name, NEW s,
         s.ns # ref.ns => makeSecret(ref, secrets[ref], name, s.ns) \in cs
  PROVE  CopyThere(i, ref, name, s)'
<1> DEFINE c == makeSecret(ref, secrets[ref], name, s.ns)
<1>1. copies' = CopiesWith(cs) /\ tracked'[i] = tracked[i] \cup TrackedWith(cs, gs)
  BY DEF WriteShared, PerIngress
<1>2. NameOf(c) = [ns |-> s.ns, name |-> name] /\ c.origin = ref
  BY DEF NameOf, makeSecret
<1> HIDE DEF c
<1>3. c \in cs => c \in copies' /\ NameOf(c) \in tracked'[i] /\ OriginRef(c.origin) \in tracked'[i]
  BY <1>1 DEF CopiesWith, TrackedWith
<1>4. SUFFICES ASSUME s.ns # ref.ns
               PROVE  c \in copies' /\ [ns |-> s.ns, name |-> name] \in tracked'[i] /\ OriginRef(ref) \in tracked'[i]
  BY DEF CopyThere, c, OriginRef
<1>5. c \in cs
  BY <1>4 DEF c
<1> QED BY <1>2, <1>3, <1>5

(* So is the Gateway of a wildcard certificate. *)
LEMMA WildcardWritten ==
  ASSUME NEW i \in Ingresses, NEW cs, NEW gs, CurrentWildcards(gs), NEW retried, WriteShared(i, cs, gs, retried),
         UNCHANGED secrets, NEW ref, NEW s, makeWildcardTLSGateway(ref, secrets[ref], s) \in gs,
         secrets[ref] \in Contents[ref]
  PROVE  WildcardThere(i, ref, s)'
<1> DEFINE d == makeWildcardTLSGateway(ref, secrets[ref], s)
<1>1. \A g \in gs : IsGateway(g)
  BY WildcardGatewayIs DEF CurrentWildcards
<1>2. gateways' = Upsert(gateways, gs)
  BY DEF WriteShared
<1>3. d.key = WildcardKey(ref, s) /\ d.service = s /\ d.servers = {WildcardServer(ref, secrets[ref], s)}
  BY WildcardGatewayIs
<1> HIDE DEF d
<1>4. PICK g \in gateways' : Like(g, d)
  BY <1>1, <1>2, UpsertWrites DEF d
<1>5. g.key = WildcardKey(ref, s) /\ g.service = s /\ g.servers = {WildcardServer(ref, secrets[ref], s)}
  BY <1>3, <1>4 DEF Like
<1> QED BY <1>4, <1>5 DEF WildcardThere

(* The copies of wildcard certificates, which Ingresses share. *)
LEMMA WildcardCopiesMade ==
  ASSUME NEW refs, NEW contents, NEW services
  PROVE  \A c \in MakeWildcardSecrets(refs, contents, services) :
           \E ref \in refs : \E name, ns : name.of = ref /\ c = makeSecret(ref, contents[ref], name, ns)
<1> DEFINE b == [ref \in refs |-> targetWildcardSecretName(ref)]
<1>1. MakeWildcardSecrets(refs, contents, services) = MakeCopies(refs, contents, services, b)
  BY DEF MakeWildcardSecrets
<1>2. \A ref \in refs : b[ref].of = ref
  BY DEF targetWildcardSecretName
<1> HIDE DEF b
<1> QED BY <1>1, <1>2 DEF MakeCopies

(* The copies that are made for an Ingress. *)
LEMMA CopiesMade ==
  ASSUME NEW refs, NEW contents, NEW services, NEW ing
  PROVE  /\ \A ref \in refs, s \in ToSet(services) : s.ns # ref.ns =>
              makeSecret(ref, contents[ref], targetSecret(ref, ing), s.ns) \in MakeSecrets(refs, contents, services, ing)
         /\ \A ref \in refs, s \in ToSet(services) : s.ns # ref.ns =>
              makeSecret(ref, contents[ref], targetWildcardSecretName(ref), s.ns) \in MakeWildcardSecrets(refs, contents, services)
         /\ \A c \in MakeSecrets(refs, contents, services, ing) :
              \E ref \in refs : \E name, ns : name.of = ref /\ c = makeSecret(ref, contents[ref], name, ns)
<1>1. ASSUME NEW names
      PROVE  /\ \A ref \in refs, s \in ToSet(services) : s.ns # ref.ns =>
                  makeSecret(ref, contents[ref], names[ref], s.ns) \in MakeCopies(refs, contents, services, names)
             /\ \A c \in MakeCopies(refs, contents, services, names) :
                  \E ref \in refs : \E ns : c = makeSecret(ref, contents[ref], names[ref], ns)
  BY DEF MakeCopies
<1> DEFINE a == [ref \in refs |-> targetSecret(ref, ing)]
           b == [ref \in refs |-> targetWildcardSecretName(ref)]
<1>2. /\ MakeSecrets(refs, contents, services, ing) = MakeCopies(refs, contents, services, a)
      /\ MakeWildcardSecrets(refs, contents, services) = MakeCopies(refs, contents, services, b)
  BY DEF MakeSecrets, MakeWildcardSecrets
<1>3. \A ref \in refs : /\ a[ref] = targetSecret(ref, ing) /\ b[ref] = targetWildcardSecretName(ref)
                        /\ a[ref].of = ref /\ b[ref].of = ref
  BY CopyNames
<1> HIDE DEF a, b
<1>4. \A ref \in refs, s \in ToSet(services) : s.ns # ref.ns =>
        makeSecret(ref, contents[ref], targetSecret(ref, ing), s.ns) \in MakeSecrets(refs, contents, services, ing)
  BY <1>1, <1>2, <1>3
<1>5. \A ref \in refs, s \in ToSet(services) : s.ns # ref.ns =>
        makeSecret(ref, contents[ref], targetWildcardSecretName(ref), s.ns) \in MakeWildcardSecrets(refs, contents, services)
  BY <1>1, <1>2, <1>3
<1>6. ASSUME NEW c \in MakeSecrets(refs, contents, services, ing)
      PROVE  \E ref \in refs : \E name, ns : name.of = ref /\ c = makeSecret(ref, contents[ref], name, ns)
  BY <1>1, <1>2, <1>3
<1> QED BY <1>4, <1>5, <1>6

(* Without a certificate there are no Gateways for one. *)
LEMMA NoTLSNoGateways ==
  ASSUME NEW i \in Ingresses
  PROVE  /\ GetIngressTLSForVisibility(Object(i), "ExternalIP") = <<>> =>
              GetSecrets(Object(i), "ExternalIP") = {} /\ ExternalGateways(i, {}) = {}
         /\ GetIngressTLSForVisibility(Object(i), "ClusterLocal") = <<>> =>
              GetSecrets(Object(i), "ClusterLocal") = {} /\ LocalGateways(i) = {}
<1>1. ASSUME NEW v, GetIngressTLSForVisibility(Object(i), v) = <<>> PROVE GetSecrets(Object(i), v) = {}
  <2>1. ToSet(GetIngressTLSForVisibility(Object(i), v)) = {}
    BY <1>1 DEF ToSet
  <2> QED BY <2>1 DEF GetSecrets
<1>2. ASSUME GetIngressTLSForVisibility(Object(i), "ExternalIP") = <<>> PROVE ExternalGateways(i, {}) = {}
  <2> DEFINE tls == GetIngressTLSForVisibility(Object(i), "ExternalIP")
             chosen == {n \in DOMAIN tls : tls[n].secret \notin {}}
  <2>1. PlainTLS(i, {}) = Subsequence(tls, chosen)
    BY DEF PlainTLS
  <2>2. tls \in Seq({}) /\ chosen = {} /\ {} \in SUBSET DOMAIN tls
    <3>1. tls = <<>>
      BY <1>2
    <3> HIDE DEF tls
    <3>2. DOMAIN tls = {} /\ tls \in Seq({})
      BY <3>1
    <3> QED BY <3>2
  <2> HIDE DEF tls, chosen
  <2>3. PlainTLS(i, {}) = <<>>
    BY <2>1, <2>2, SubsequenceOf
  <2> QED BY <2>3 DEF ExternalGateways, MakeIngressTLSGateways
<1>3. ASSUME GetIngressTLSForVisibility(Object(i), "ClusterLocal") = <<>> PROVE LocalGateways(i) = {}
  BY <1>3 DEF LocalGateways, MakeIngressTLSGateways
<1> QED BY <1>1, <1>2, <1>3

(* A pair of sets is one for each visibility. *)
LEMMA BothOf ==
  ASSUME NEW e, NEW l
  PROVE  /\ Both(e, l)["ExternalIP"] = e /\ Both(e, l)["ClusterLocal"] = l
         /\ NoNames = Both({}, {})
         /\ \A x : [Both(e, l) EXCEPT !["ExternalIP"] = x] = Both(x, l)
         /\ \A x : [Both(e, l) EXCEPT !["ClusterLocal"] = x] = Both(e, x)
BY DEF Both, NoNames, Visibilities

-----------------------------------------------------------------------------
(***************************************************************************)
(* Each action preserves the invariant.                                    *)
(***************************************************************************)

(* A worker begins. *)
LEMMA StartReconcileRest ==
  ASSUME GatewayInv, NEW i \in Ingresses, StartReconcile(i)
  PROVE  Rest'
<1> DEFINE w == Work(FirstStep(i), i)
<1>1. /\ queued' = queued \ {i} /\ work' = [work EXCEPT ![i] = w] /\ InputsSame
      /\ UNCHANGED <<copies, gateways, vs, tracked, life>>
  BY DEF StartReconcile, ResourcesUnchanged, InputsUnchanged, InputsSame
<1>2. w.pc = FirstStep(i) /\ w.own = NoNames /\ w.ing = Object(i)
  BY DEF Work
<1>3. Functions
  BY DEF GatewayInv, Inv
<1> HIDE DEF w
<1>4. work'[i] = w /\ \A j \in Ingresses \ {i} : work'[j] = work[j]
  BY <1>1, <1>3 DEF Functions, PerIngress
<1>5. \A j \in Ingresses : CopiesKept(j) /\ WildcardsKept(j) /\ OwnKept(j)
  BY <1>1, KeptByNothing DEF InputsSame
<1>6. OthersKept(i)
  BY <1>1, <1>4, <1>5 DEF OthersKept
<1>7. \A g \in gateways' : Shaped(g)
  BY <1>1 DEF GatewayInv, Rest
<1>8. \A v \in Visibilities : OfVisibility(work'[i].own[v], v) /\ GetSecrets(work'[i].ing, v) \subseteq Origins
  BY <1>2, <1>3, <1>4, ObjectShape, NoNamesEmpty DEF OfVisibility
<1>9. ASSUME life'[i] = "live" PROVE Settled(i)'
  <2>1. work'[i].pc \in {"external", "mesh"}
    BY <1>1, <1>2, <1>4, <1>9 DEF FirstStep
  <2>2. Progress(i, {})'
    BY <2>1 DEF Progress, Busy
  <2> QED BY <2>2 DEF Settled
<1> QED BY <1>1, <1>6, <1>7, <1>8, <1>9, StepPreservesRest

(* A reconciliation that has done the external part of TLS. *)
LEMMA ExternalDone ==
  ASSUME GatewayInv, NEW i \in Ingresses, work[i] # Idle, InputsSame, NEW wild, NEW names, NEW own,
         Proceed(i, "local", names, own),
         ExternalThere(i, wild)', names = CollectedNames(i, wild), own = Both(ExternalGateways(i, wild), {}),
         wild \in SUBSET GetSecrets(Object(i), "ExternalIP")
  PROVE  Settled(i)'
<1>1. Inv /\ Underway(i, work[i])
  BY DEF GatewayInv, Inv, WorkInv
<1>2. work'[i] = [pc |-> "local", istio |-> work[i].istio, ing |-> work[i].ing, names |-> names, own |-> own]
  BY <1>1, ProceedStep
<1>3. /\ Object(i)' = Object(i) /\ ExternalGateways(i, wild)' = ExternalGateways(i, wild)
      /\ CollectedNames(i, wild)' = CollectedNames(i, wild)
  BY SameInputs DEF InputsSame
<1>4. work'[i].pc = "local" /\ work'[i].names = names /\ work'[i].own = own
  BY <1>2
<1>5. Progress(i, wild)'
  BY <1>3, <1>4 DEF Progress, Busy
<1> QED BY <1>3, <1>5 DEF Settled

(* What the worker read is what there is now, unless the Ingress is queued again. *)
LEMMA WorkUpToDate ==
  ASSUME Inv, NEW i \in Ingresses, work[i] # Idle, life[i] = "live", i \notin queued
  PROVE  /\ work[i].istio = istio /\ work[i].ing = Object(i)
         /\ Selected(work[i]) = Selected(Now(i)) /\ External(work[i]) = External(Now(i))
         /\ ServicesOf(work[i]) = ServicesOf(Now(i)) /\ ToSet(ServicesOf(work[i])) = ServicesNow(i)
<1>1. work[i].istio = istio /\ work[i].ing = Object(i)
  BY DEF Inv, UpToDate
<1> QED BY <1>1, WorkIsNow

(* It writes the copies and Gateways of the certificates, and collects the    *)
(* names and Gateways for them.                                               *)
LEMMA ExternalTLSRest ==
  ASSUME GatewayInv, NEW i \in Ingresses, work[i] # Idle, InputsSame, UNCHANGED life,
         NEW ing, ing = work[i].ing, NEW services, services = ServicesOf(work[i]),
         NEW refs, refs = GetSecrets(ing, "ExternalIP"), NEW wild \in SUBSET refs,
         NEW cs, cs = MakeSecrets(refs \ wild, secrets, services, ing) \cup MakeWildcardSecrets(wild, secrets, services),
         NEW gs, gs = MakeWildcardTLSGateways(wild, secrets, services),
         NEW names, names = Both(GetQualifiedGatewayNames(gs), NamesOf(Selected(work[i])["ClusterLocal"])),
         NEW tls, tls = GetIngressTLSForVisibility(ing, "ExternalIP"),
         NEW plain, plain = Subsequence(tls, {n \in DOMAIN tls : tls[n].secret \notin wild}),
         NEW own, own = Both(MakeIngressTLSGateways(ing, "ExternalIP", plain, services), {}),
         ReconcileTLS(i, refs, cs, gs, "local", names, own)
  PROVE  Rest'
<1>1. Inv /\ Functions /\ SecretsShaped /\ refs \subseteq Origins
  BY DEF GatewayInv, Inv, Rest, WorkShaped, Visibilities
<1>2. Current(cs)
  <2>1. refs \ wild \subseteq Origins /\ wild \subseteq Origins
    BY <1>1
  <2>2. \A c \in MakeSecrets(refs \ wild, secrets, services, ing) :
          \E ref \in refs \ wild : \E name, ns : name.of = ref /\ c = makeSecret(ref, secrets[ref], name, ns)
    BY CopiesMade
  <2>3. \A c \in MakeWildcardSecrets(wild, secrets, services) :
          \E ref \in wild : \E name, ns : name.of = ref /\ c = makeSecret(ref, secrets[ref], name, ns)
    BY WildcardCopiesMade
  <2>4. ASSUME NEW c \in cs
        PROVE  \E ref \in Origins : \E name, ns : name.of = ref /\ c = makeSecret(ref, secrets[ref], name, ns)
    <3>1. CASE c \in MakeSecrets(refs \ wild, secrets, services, ing)
      <4>1. PICK ref \in refs \ wild : \E name, ns : name.of = ref /\ c = makeSecret(ref, secrets[ref], name, ns)
        BY <2>2, <3>1
      <4> QED BY <2>1, <4>1
    <3>2. CASE c \in MakeWildcardSecrets(wild, secrets, services)
      <4>1. PICK ref \in wild : \E name, ns : name.of = ref /\ c = makeSecret(ref, secrets[ref], name, ns)
        BY <2>3, <3>2
      <4> QED BY <2>1, <4>1
    <3> QED BY <3>1, <3>2
  <2> QED BY <2>4 DEF Current
<1>3. ASSUME \A ref \in refs : Visible(ref) PROVE CurrentWildcards(gs) /\ \A ref \in refs : secrets[ref] \in Contents[ref]
  <2>1. \A ref \in refs : ref \in Origins /\ secrets[ref] \in Contents[ref]
    BY <1>1, <1>3, VisibleHolds
  <2> QED BY <2>1 DEF CurrentWildcards, MakeWildcardTLSGateways
<1>4. \A v \in Visibilities : OfVisibility(own[v], v)
  <2> DEFINE made == MakeIngressTLSGateways(ing, "ExternalIP", plain, services)
  <2>1. OfVisibility(made, "ExternalIP") /\ OfVisibility({}, "ClusterLocal")
    BY TLSGatewaysShaped DEF Visibilities, OfVisibility
  <2> HIDE DEF made
  <2>2. own["ExternalIP"] = made /\ own["ClusterLocal"] = {}
    <3>1. own = Both(made, {})
      BY DEF made
    <3> QED BY <3>1 DEF Both, Visibilities
  <2> QED BY <2>1, <2>2 DEF Visibilities
<1>5. ASSUME life[i] = "live", i \notin queued', \A ref \in refs : Visible(ref),
             WriteShared(i, cs, gs, {}), Proceed(i, "local", names, own)
      PROVE  Settled(i)'
  <2>1. i \notin queued
    BY <1>5 DEF WriteShared
  <2>2. /\ ing = Object(i) /\ Selected(work[i]) = Selected(Now(i))
        /\ services = ServicesOf(Now(i)) /\ ToSet(services) = ServicesNow(i)
    BY <1>1, <1>5, <2>1, WorkUpToDate
  <2>3. Object(i)' = Object(i) /\ ServicesNow(i)' = ServicesNow(i) /\ UNCHANGED secrets
    BY SameInputs DEF InputsSame
  <2>4. ASSUME NEW ref \in refs, NEW s \in ToSet(services)
        PROVE  IF ref \in wild
               THEN CopyThere(i, ref, targetWildcardSecretName(ref), s)' /\ WildcardThere(i, ref, s)'
               ELSE CopyThere(i, ref, targetSecret(ref, ing), s)'
    <3>1. CurrentWildcards(gs) /\ secrets[ref] \in Contents[ref] /\ PerIngress(tracked)
      BY <1>1, <1>3, <1>5 DEF Functions
    <3>2. CASE ref \in wild
      <4>1. s.ns # ref.ns => makeSecret(ref, secrets[ref], targetWildcardSecretName(ref), s.ns) \in cs
        BY <3>2, CopiesMade
      <4>2. makeWildcardTLSGateway(ref, secrets[ref], s) \in gs
        BY <3>2 DEF MakeWildcardTLSGateways
      <4>3. CopyThere(i, ref, targetWildcardSecretName(ref), s)'
        BY <1>5, <2>3, <3>1, <4>1, CopyWritten
      <4>4. WildcardThere(i, ref, s)'
        BY <1>5, <2>3, <3>1, <4>2, WildcardWritten
      <4> QED BY <3>2, <4>3, <4>4
    <3>3. CASE ref \notin wild
      <4>1. s.ns # ref.ns => makeSecret(ref, secrets[ref], targetSecret(ref, ing), s.ns) \in cs
        BY <3>3, CopiesMade
      <4>2. CopyThere(i, ref, targetSecret(ref, ing), s)'
        BY <1>5, <2>3, <3>1, <4>1, CopyWritten
      <4> QED BY <3>3, <4>2
    <3> QED BY <3>2, <3>3
  <2>5. ExternalThere(i, wild)'
    <3>1. GetSecrets(Object(i), "ExternalIP")' = refs /\ ServicesNow(i)' = ToSet(services) /\ Object(i)' = ing
      BY <2>2, <2>3
    <3> QED BY <2>4, <3>1 DEF ExternalThere, CopyThere
  <2>6. names = CollectedNames(i, wild)
    <3>1. gs = {makeWildcardTLSGateway(ref, secrets[ref], s) : ref \in wild, s \in ServicesNow(i)}
      BY <2>2 DEF MakeWildcardTLSGateways
    <3>2. GetQualifiedGatewayNames(gs) = WildcardKeys(i, wild)
      BY <3>1, WildcardGatewayIs DEF GetQualifiedGatewayNames, WildcardKeys
    <3> QED BY <2>2, <3>2 DEF CollectedNames, LocalNames
  <2>7. own = Both(ExternalGateways(i, wild), {})
    BY <2>2 DEF ExternalGateways, PlainTLS
  <2> QED BY <1>5, <2>2, <2>5, <2>6, <2>7, ExternalDone
<1> QED BY <1>2, <1>3, <1>4, <1>5, TLSRest

(* The external part of TLS, if there is one. *)
LEMMA ReconcileExternalTLSRest ==
  ASSUME GatewayInv, NEW i \in Ingresses, ReconcileExternalTLS(i)
  PROVE  Rest'
<1> DEFINE ing == work[i].ing
           tls == GetIngressTLSForVisibility(ing, "ExternalIP")
           refs == GetSecrets(ing, "ExternalIP")
           wild == {ref \in refs : isWildcardSecret(secrets[ref])}
           plain == Subsequence(tls, {n \in DOMAIN tls : tls[n].secret \notin wild})
           services == ServicesOf(work[i])
           cs == MakeSecrets(refs \ wild, secrets, services, ing) \cup MakeWildcardSecrets(wild, secrets, services)
           gs == MakeWildcardTLSGateways(wild, secrets, services)
           default == NamesOf(Selected(work[i])["ClusterLocal"])
           local == [NoNames EXCEPT !["ClusterLocal"] = default]
           names == [local EXCEPT !["ExternalIP"] = GetQualifiedGatewayNames(gs)]
           made == MakeIngressTLSGateways(ing, "ExternalIP", plain, services)
           own == [NoNames EXCEPT !["ExternalIP"] = made]
<1>1. work[i].pc = "external" /\ InputsSame /\ UNCHANGED life
  BY DEF ReconcileExternalTLS, Busy, InputsUnchanged, InputsSame
<1>2. work[i] # Idle /\ Inv /\ Functions
  BY <1>1 DEF Idle, GatewayInv, Inv
<1>3. \/ ~shouldReconcileExternalDomainTLS(ing) /\ Skip(i, "local", local, NoNames)
      \/ GiveUp(i)
      \/ ReconcileTLS(i, refs, cs, gs, "local", names, own)
  BY Zenon DEF ReconcileExternalTLS
<1>4. local = Both({}, default) /\ own = Both(made, {}) /\ names = Both(GetQualifiedGatewayNames(gs), default)
  <2>1. PICK a, b, c : a = default /\ b = made /\ c = GetQualifiedGatewayNames(gs)
    OBVIOUS
  <2>2. [NoNames EXCEPT !["ClusterLocal"] = a] = Both({}, a) /\ [NoNames EXCEPT !["ExternalIP"] = b] = Both(b, {})
    BY BothOf
  <2>3. [Both({}, a) EXCEPT !["ExternalIP"] = c] = Both(c, a)
    BY BothOf
  <2> HIDE DEF default, made, gs
  <2> QED BY <2>1, <2>2, <2>3
<1>5. CASE ~shouldReconcileExternalDomainTLS(ing) /\ Skip(i, "local", local, NoNames)
  <2>1. \A v \in Visibilities : OfVisibility(NoNames[v], v)
    BY NoNamesEmpty DEF OfVisibility
  <2>2. ASSUME life[i] = "live", i \notin queued PROVE Settled(i)'
    <3>1. Proceed(i, "local", local, NoNames)
      BY <1>5 DEF Skip
    <3>2. ing = Object(i) /\ Selected(work[i]) = Selected(Now(i))
      BY <1>2, <2>2, WorkUpToDate
    <3>3. GetIngressTLSForVisibility(Object(i), "ExternalIP") = <<>>
      <4>1. CASE isIngressPublic(ing)
        BY <1>5, <3>2, <4>1 DEF shouldReconcileExternalDomainTLS
      <4>2. CASE ~isIngressPublic(ing)
        <5>1. RulesOf(Object(i), "ExternalIP") = {}
          BY <3>2, <4>2 DEF isIngressPublic, getPublicIngressRules
        <5> QED BY <1>2, <5>1, ObjectShape, NoTLSWithoutRules DEF IsIngress
      <4> QED BY <4>1, <4>2
    <3>4. GetSecrets(Object(i), "ExternalIP") = {} /\ ExternalGateways(i, {}) = {}
      BY <3>3, NoTLSNoGateways
    <3>5. Object(i)' = Object(i)
      BY <1>1, SameInputs DEF InputsSame
    <3>6. ExternalThere(i, {})'
      BY <3>4, <3>5 DEF ExternalThere
    <3>7. WildcardKeys(i, {}) = {}
      BY DEF WildcardKeys
    <3>8. local = CollectedNames(i, {})
      BY <1>4, <3>2, <3>7 DEF CollectedNames, LocalNames
    <3>9. NoNames = Both(ExternalGateways(i, {}), {})
      BY <3>4, BothOf
    <3> HIDE DEF local
    <3> QED BY <1>1, <1>2, <3>1, <3>6, <3>8, <3>9, ExternalDone
  <2> HIDE DEF local
  <2> QED BY <1>1, <1>2, <1>5, <2>1, <2>2, SkipRest
<1>6. CASE GiveUp(i)
  BY <1>1, <1>6, GiveUpRest
<1>7. CASE ReconcileTLS(i, refs, cs, gs, "local", names, own)
  <2>1. wild \in SUBSET refs
    OBVIOUS
  <2> HIDE DEF wild, names, own
  <2> QED BY <1>1, <1>2, <1>4, <1>7, <2>1, ExternalTLSRest
<1> QED BY <1>3, <1>5, <1>6, <1>7

(* What a reconciliation has done so far, if the Ingress is not queued again. *)
LEMMA SoFar ==
  ASSUME GatewayInv, NEW i \in Ingresses, life[i] = "live", i \notin queued
  PROVE  \E wild \in SUBSET GetSecrets(Object(i), "ExternalIP") : Progress(i, wild)
BY DEF GatewayInv, Rest, Settled

(* A reconciliation that has done both parts of TLS. *)
LEMMA LocalDone ==
  ASSUME GatewayInv, NEW i \in Ingresses, work[i] # Idle, InputsSame, NEW wild, NEW names, NEW own,
         Proceed(i, "gateways", names, own),
         ExternalThere(i, wild)', LocalThere(i)', names = CollectedNames(i, wild),
         own = Both(ExternalGateways(i, wild), LocalGateways(i)),
         wild \in SUBSET GetSecrets(Object(i), "ExternalIP")
  PROVE  Settled(i)'
<1>1. Inv /\ Underway(i, work[i])
  BY DEF GatewayInv, Inv, WorkInv
<1>2. work'[i] = [pc |-> "gateways", istio |-> work[i].istio, ing |-> work[i].ing, names |-> names, own |-> own]
  BY <1>1, ProceedStep
<1>3. /\ Object(i)' = Object(i) /\ ExternalGateways(i, wild)' = ExternalGateways(i, wild)
      /\ LocalGateways(i)' = LocalGateways(i) /\ CollectedNames(i, wild)' = CollectedNames(i, wild)
  BY SameInputs DEF InputsSame
<1>4. work'[i].pc = "gateways" /\ work'[i].names = names /\ work'[i].own = own
  BY <1>2
<1>5. Progress(i, wild)'
  BY <1>3, <1>4 DEF Progress, Busy
<1> QED BY <1>3, <1>5 DEF Settled

(* It writes the copies of the certificates of cluster-local hosts, and leaves *)
(* the external ones as they are.                                              *)
LEMMA LocalTLSRest ==
  ASSUME GatewayInv, NEW i \in Ingresses, work[i].pc = "local", localTLS, InputsSame, UNCHANGED life,
         NEW ing, ing = work[i].ing, NEW services, services = ServicesOf(work[i]),
         NEW refs, refs = GetSecrets(ing, "ClusterLocal"),
         NEW cs, cs = MakeSecrets(refs, secrets, services, ing),
         NEW names, names = work[i].names,
         NEW tls, tls = GetIngressTLSForVisibility(ing, "ClusterLocal"),
         NEW own, own = [work[i].own EXCEPT !["ClusterLocal"] = MakeIngressTLSGateways(ing, "ClusterLocal", tls, services)],
         ReconcileTLS(i, refs, cs, {}, "gateways", names, own)
  PROVE  Rest'
<1> DEFINE made == MakeIngressTLSGateways(ing, "ClusterLocal", tls, services)
<1>1. Inv /\ Functions /\ SecretsShaped /\ refs \subseteq Origins /\ work[i] # Idle
  BY DEF GatewayInv, Inv, Rest, WorkShaped, Visibilities, Idle
<1>2. Current(cs)
  <2>1. \A c \in cs : \E ref \in refs : \E name, ns : name.of = ref /\ c = makeSecret(ref, secrets[ref], name, ns)
    BY CopiesMade
  <2> QED BY <1>1, <2>1 DEF Current
<1>3. CurrentWildcards({})
  BY DEF CurrentWildcards
<1>4. \A v \in Visibilities : OfVisibility(own[v], v)
  <2>1. OfVisibility(made, "ClusterLocal")
    BY TLSGatewaysShaped DEF Visibilities
  <2> HIDE DEF made
  <2>2. PICK f : f = work[i].own /\ f = [v \in Visibilities |-> f[v]]
    BY <1>1, Zenon DEF Inv, WorkInv, Underway
  <2>3. own = [f EXCEPT !["ClusterLocal"] = made]
    BY <2>2 DEF made
  <2>4. own["ExternalIP"] = f["ExternalIP"] /\ own["ClusterLocal"] = made
    BY <2>2, <2>3 DEF Visibilities
  <2>5. OfVisibility(f["ExternalIP"], "ExternalIP")
    BY <1>1, <2>2 DEF GatewayInv, Rest, WorkShaped, Visibilities
  <2> QED BY <2>1, <2>4, <2>5 DEF Visibilities
<1>5. ASSUME life[i] = "live", i \notin queued', \A ref \in refs : Visible(ref),
             WriteShared(i, cs, {}, {}), Proceed(i, "gateways", names, own)
      PROVE  Settled(i)'
  <2>1. i \notin queued
    BY <1>5 DEF WriteShared
  <2>2. ing = Object(i) /\ services = ServicesOf(Now(i)) /\ ToSet(services) = ServicesNow(i)
    BY <1>1, <1>5, <2>1, WorkUpToDate
  <2>3. Object(i)' = Object(i) /\ ServicesNow(i)' = ServicesNow(i) /\ UNCHANGED secrets /\ localTLS' = localTLS
    BY SameInputs DEF InputsSame
  <2>4. PICK wild \in SUBSET GetSecrets(Object(i), "ExternalIP") : Progress(i, wild)
    BY <1>5, <2>1, SoFar
  <2>5. /\ ExternalThere(i, wild) /\ names = CollectedNames(i, wild)
        /\ work[i].own = Both(ExternalGateways(i, wild), {})
    BY <2>4 DEF Progress, Busy
  <2>6. ExternalThere(i, wild)'
    <3>1. CopiesKept(i) /\ WildcardsKept(i)
      BY <1>1, <1>2, <1>3, <1>5, <2>3, WriteSharedKept DEF Functions
    <3> QED BY <1>1, <2>5, <3>1, CertificatesKept DEF InputsSame
  <2>7. LocalThere(i)'
    <3>1. ASSUME NEW ref \in refs, NEW s \in ToSet(services) PROVE CopyThere(i, ref, targetSecret(ref, ing), s)'
      <4>1. s.ns # ref.ns => makeSecret(ref, secrets[ref], targetSecret(ref, ing), s.ns) \in cs
        BY CopiesMade
      <4> QED BY <1>1, <1>5, <2>3, <4>1, CopyWritten DEF Functions
    <3>2. GetSecrets(Object(i), "ClusterLocal")' = refs /\ ServicesNow(i)' = ToSet(services) /\ Object(i)' = ing
      BY <2>2, <2>3
    <3> QED BY <3>1, <3>2 DEF LocalThere, CopyThere
  <2>8. own = Both(ExternalGateways(i, wild), LocalGateways(i))
    <3>1. made = LocalGateways(i)
      BY <2>2 DEF LocalGateways
    <3>2. PICK e : e = ExternalGateways(i, wild)
      OBVIOUS
    <3>3. [Both(e, {}) EXCEPT !["ClusterLocal"] = LocalGateways(i)] = Both(e, LocalGateways(i))
      BY BothOf
    <3> QED BY <2>5, <3>1, <3>2, <3>3
  <2> QED BY <1>1, <1>5, <2>4, <2>5, <2>6, <2>7, <2>8, LocalDone
<1>6. (\A ref \in refs : Visible(ref)) => CurrentWildcards({})
  BY <1>3
<1> QED BY <1>1, <1>2, <1>4, <1>5, <1>6, TLSRest

(* The cluster-local part of TLS, if there is one. *)
LEMMA ReconcileClusterLocalTLSRest ==
  ASSUME GatewayInv, NEW i \in Ingresses, ReconcileClusterLocalTLS(i)
  PROVE  Rest'
<1> DEFINE ing == work[i].ing
           tls == GetIngressTLSForVisibility(ing, "ClusterLocal")
           refs == GetSecrets(ing, "ClusterLocal")
           services == ServicesOf(work[i])
           cs == MakeSecrets(refs, secrets, services, ing)
           names == work[i].names
           own == [work[i].own EXCEPT !["ClusterLocal"] = MakeIngressTLSGateways(ing, "ClusterLocal", tls, services)]
<1>1. work[i].pc = "local" /\ InputsSame /\ UNCHANGED life
  BY DEF ReconcileClusterLocalTLS, Busy, InputsUnchanged, InputsSame
<1>2. work[i] # Idle /\ Inv /\ Functions
  BY <1>1 DEF Idle, GatewayInv, Inv
<1>3. \/ (~localTLS \/ tls = <<>>) /\ Skip(i, "gateways", names, work[i].own)
      \/ localTLS /\ ReconcileTLS(i, refs, cs, {}, "gateways", names, own)
  BY Zenon DEF ReconcileClusterLocalTLS, shouldReconcileClusterLocalDomainTLS
<1>4. CASE (~localTLS \/ tls = <<>>) /\ Skip(i, "gateways", names, work[i].own)
  <2>1. \A v \in Visibilities : OfVisibility(work[i].own[v], v)
    BY <1>2 DEF GatewayInv, Rest, WorkShaped
  <2>2. ASSUME life[i] = "live", i \notin queued PROVE Settled(i)'
    <3>1. Proceed(i, "gateways", names, work[i].own) /\ UNCHANGED <<tracked, copies, gateways>>
      BY <1>4 DEF Skip, ResourcesUnchanged
    <3>2. ing = Object(i)
      BY <1>2, <2>2, WorkUpToDate
    <3>3. PICK wild \in SUBSET GetSecrets(Object(i), "ExternalIP") : Progress(i, wild)
      BY <2>2, SoFar
    <3>4. /\ ExternalThere(i, wild) /\ names = CollectedNames(i, wild)
          /\ work[i].own = Both(ExternalGateways(i, wild), {})
      BY <1>1, <3>3 DEF Progress, Busy
    <3>5. ExternalThere(i, wild)'
      <4>1. CopiesKept(i) /\ WildcardsKept(i)
        BY <1>1, <3>1, KeptByNothing DEF InputsSame
      <4> QED BY <1>1, <1>2, <3>4, <4>1, CertificatesKept DEF InputsSame
    <3>6. Object(i)' = Object(i) /\ localTLS' = localTLS
      BY <1>1, SameInputs DEF InputsSame
    <3>7. localTLS => GetSecrets(Object(i), "ClusterLocal") = {}
      BY <1>4, <3>2, NoTLSNoGateways
    <3>8. LocalThere(i)'
      BY <3>6, <3>7 DEF LocalThere
    <3>9. LocalGateways(i) = {}
      BY <1>4, <3>2, NoTLSNoGateways DEF LocalGateways
    <3> QED BY <1>1, <1>2, <3>1, <3>3, <3>4, <3>5, <3>8, <3>9, LocalDone
  <2> QED BY <1>1, <1>2, <1>4, <2>1, <2>2, SkipRest
<1>5. CASE localTLS /\ ReconcileTLS(i, refs, cs, {}, "gateways", names, own)
  BY <1>1, <1>5, LocalTLSRest
<1> QED BY <1>3, <1>4, <1>5

(* The Gateways of the Ingress, external ones first: the second write leaves   *)
(* what the first wrote, since their visibility is in their names.             *)
LEMMA BothWritten ==
  ASSUME NEW i \in Ingresses, NEW gws, WellOwned(gws), NEW external, NEW local,
         \A g \in external : MadeFor(i, g), \A g \in local : MadeFor(i, g),
         OfVisibility(external, "ExternalIP"), OfVisibility(local, "ClusterLocal")
  PROVE  LET written == Upsert(Upsert(gws, external), local)
         IN  /\ external \cup local \subseteq written
             /\ \A j \in Ingresses \ {i} : \A g \in gws : MadeFor(j, g) => g \in written
             /\ \A g \in gws : g.key.name.kind = "wildcard" => g \in written
             /\ (\A g \in gws : Shaped(g)) => \A g \in written : Shaped(g)
<1> DEFINE first == Upsert(gws, external)
           written == Upsert(first, local)
<1>1. /\ external \subseteq first
      /\ \A j \in Ingresses \ {i} : \A g \in gws : MadeFor(j, g) => g \in first
      /\ \A g \in gws : g.key.name.kind = "wildcard" => g \in first
  BY UpsertOwnKept
<1>2. WellOwned(first)
  BY UpsertOwned DEF MadeFor
<1>3. (\A g \in gws : Shaped(g)) => \A g \in first : Shaped(g)
  BY UpsertShaped DEF OfVisibility
<1> HIDE DEF first
<1>4. /\ local \subseteq written
      /\ \A j \in Ingresses \ {i} : \A g \in first : MadeFor(j, g) => g \in written
      /\ \A g \in first : g.key.name.kind = "wildcard" => g \in written
  BY <1>2, UpsertOwnKept
<1>5. (\A g \in first : Shaped(g)) => \A g \in written : Shaped(g)
  BY UpsertShaped DEF OfVisibility
<1>6. ASSUME NEW g \in external PROVE g \in written
  <2>1. \A d \in local : IsGateway(d) /\ d.key.name.visibility = "ClusterLocal"
    BY DEF OfVisibility, MadeFor
  <2>2. g.key.name.visibility = "ExternalIP"
    BY DEF OfVisibility
  <2>3. g.key \notin GetQualifiedGatewayNames(local)
    BY <2>1, <2>2 DEF GetQualifiedGatewayNames
  <2> QED BY <1>1, <2>1, <2>3, UpsertWrites
<1> HIDE DEF written
<1>7. /\ external \cup local \subseteq written
      /\ \A j \in Ingresses \ {i} : \A g \in gws : MadeFor(j, g) => g \in written
      /\ \A g \in gws : g.key.name.kind = "wildcard" => g \in written
      /\ (\A g \in gws : Shaped(g)) => \A g \in written : Shaped(g)
  BY <1>1, <1>3, <1>4, <1>5, <1>6
<1> QED BY <1>7 DEF written, first

(* The names it had, with those of the Gateways. *)
AllNames(names, defaults, external, local) ==
  [names EXCEPT !["ExternalIP"] = @ \cup defaults \cup GetQualifiedGatewayNames(external),
                !["ClusterLocal"] = @ \cup GetQualifiedGatewayNames(local)]

(* The Gateways are written, and all names are collected. *)
LEMMA GatewaysRest ==
  ASSUME GatewayInv, NEW i \in Ingresses, work[i].pc = "gateways", InputsSame, UNCHANGED <<life, copies, vs, queued, tracked>>,
         NEW external, external = AddHTTPServer(work[i].ing, work[i].own["ExternalIP"], ServicesOf(work[i])),
         NEW local, local = work[i].own["ClusterLocal"],
         NEW defaults, defaults = IF shouldReconcileHTTPServer(work[i].ing) THEN {} ELSE NamesOf(External(work[i])),
         NEW names, names = AllNames(work[i].names, defaults, external, local),
         gateways' = Upsert(Upsert(gateways, external), local),
         Proceed(i, "virtualServices", names, NoNames),
         shouldReconcileHTTPServer(work[i].ing) => ServicesExist(work[i])
  PROVE  Rest'
<1>1. Inv /\ Functions /\ work[i] # Idle /\ Underway(i, work[i]) /\ WellOwned(gateways) /\ \A g \in gateways : Shaped(g)
  BY DEF GatewayInv, Inv, WorkInv, Idle, Rest
<1>2. "ExternalIP" \in Visibilities /\ "ClusterLocal" \in Visibilities
  BY DEF Visibilities
<1>3. (\A g \in external : MadeFor(i, g)) /\ \A g \in local : MadeFor(i, g)
  BY <1>1, <1>2, HTTPServerMadeFor DEF Underway
<1>4. OfVisibility(external, "ExternalIP") /\ OfVisibility(local, "ClusterLocal")
  BY <1>1, <1>2, HTTPGatewaysShaped DEF GatewayInv, Rest, WorkShaped
<1>5. /\ external \cup local \subseteq gateways'
      /\ \A j \in Ingresses \ {i} : \A g \in gateways : MadeFor(j, g) => g \in gateways'
      /\ \A g \in gateways : g.key.name.kind = "wildcard" => g \in gateways'
      /\ \A g \in gateways' : Shaped(g)
  BY <1>1, <1>3, <1>4, BothWritten
<1>6. /\ \A j \in Ingresses \ {i} : work'[j] = work[j]
      /\ work'[i] = [pc |-> "virtualServices", istio |-> work[i].istio, ing |-> work[i].ing,
                     names |-> names, own |-> NoNames]
  BY <1>1, ProceedStep
<1>7. \A j \in Ingresses : CopiesKept(j) /\ WildcardsKept(j)
  BY <1>5, CopiesKeptByDelete, WildcardsKeptIfThere DEF InputsSame
<1>8. OthersKept(i)
  BY <1>5, <1>6, <1>7 DEF OthersKept, OwnKept
<1>9. \A v \in Visibilities : OfVisibility(work'[i].own[v], v) /\ GetSecrets(work'[i].ing, v) \subseteq Origins
  BY <1>1, <1>6, NoNamesEmpty DEF GatewayInv, Rest, WorkShaped, OfVisibility
<1>10. ASSUME life[i] = "live", i \notin queued PROVE Settled(i)'
  <2>1. PICK wild \in SUBSET GetSecrets(Object(i), "ExternalIP") : Progress(i, wild)
    BY <1>10, SoFar
  <2>2. /\ ExternalThere(i, wild) /\ LocalThere(i) /\ work[i].names = CollectedNames(i, wild)
        /\ work[i].own = Both(ExternalGateways(i, wild), LocalGateways(i))
    BY <2>1 DEF Progress, Busy
  <2>3. work[i].ing = Object(i) /\ External(work[i]) = External(Now(i)) /\ ServicesOf(work[i]) = ServicesOf(Now(i))
    BY <1>1, <1>10, WorkUpToDate
  <2>4. /\ work[i].own["ExternalIP"] = ExternalGateways(i, wild) /\ local = LocalGateways(i)
    <3>1. PICK e, l : e = ExternalGateways(i, wild) /\ l = LocalGateways(i)
      OBVIOUS
    <3> QED BY <2>2, <3>1, BothOf
  <2>5. external = WithHTTP(i, wild) /\ defaults = DefaultNames(i)
    BY <2>3, <2>4 DEF WithHTTP, DefaultNames
  <2>6. ExternalThere(i, wild)' /\ LocalThere(i)'
    BY <1>1, <1>7, <2>2, CertificatesKept DEF InputsSame
  <2>7. names = FinalNames(i, wild)
    <3>1. PICK a, b, d, e, l : /\ a = WildcardKeys(i, wild) /\ b = LocalNames(i) /\ d = defaults
                               /\ e = GetQualifiedGatewayNames(external) /\ l = GetQualifiedGatewayNames(local)
      OBVIOUS
    <3>2. work[i].names = Both(a, b)
      BY <2>2, <3>1 DEF CollectedNames
    <3>3. PICK f : f = work[i].names
      OBVIOUS
    <3>4. names = [f EXCEPT !["ExternalIP"] = @ \cup d \cup e, !["ClusterLocal"] = @ \cup l]
      BY <3>1, <3>3 DEF AllNames
    <3>5. f = [v \in Visibilities |-> IF v = "ExternalIP" THEN a ELSE b]
      BY <3>2, <3>3 DEF Both
    <3>6. names = [v \in Visibilities |-> IF v = "ExternalIP" THEN a \cup d \cup e ELSE b \cup l]
      BY <3>4, <3>5 DEF Visibilities
    <3> QED BY <2>4, <2>5, <3>1, <3>6 DEF FinalNames, Both
  <2>8. /\ Object(i)' = Object(i) /\ WithHTTP(i, wild)' = WithHTTP(i, wild)
        /\ LocalGateways(i)' = LocalGateways(i) /\ FinalNames(i, wild)' = FinalNames(i, wild)
    BY SameInputs DEF InputsSame
  <2>9. Served(i, wild)'
    <3>1. ServicesExist(work[i]) => ServicesExist(Now(i))
      BY <2>3 DEF ServicesExist, ServicesKnown
    <3>2. Now(i)' = Now(i)
      BY <2>8, SameInputs DEF Now, InputsSame
    <3>3. shouldReconcileHTTPServer(Object(i)') => ServicesExist(Now(i)')
      BY <2>3, <2>8, <3>1, <3>2
    <3> QED BY <1>5, <2>4, <2>5, <2>6, <2>8, <3>3 DEF Served
  <2>10. work'[i].pc = "virtualServices" /\ work'[i].names = names
    BY <1>6
  <2>11. Progress(i, wild)'
    BY <2>7, <2>8, <2>9, <2>10 DEF Progress, Busy
  <2> QED BY <2>1, <2>8, <2>11 DEF Settled
<1> QED BY <1>5, <1>8, <1>9, <1>10, StepPreservesRest

(* So does ReconcileIngressGateways. *)
LEMMA ReconcileIngressGatewaysRest ==
  ASSUME GatewayInv, NEW i \in Ingresses, ReconcileIngressGateways(i)
  PROVE  Rest'
<1> DEFINE external == AddHTTPServer(work[i].ing, work[i].own["ExternalIP"], ServicesOf(work[i]))
           local == work[i].own["ClusterLocal"]
           defaults == IF shouldReconcileHTTPServer(work[i].ing) THEN {} ELSE NamesOf(External(work[i]))
           names == AllNames(work[i].names, defaults, external, local)
<1>1. work[i].pc = "gateways" /\ InputsSame /\ UNCHANGED life
  BY DEF ReconcileIngressGateways, Busy, InputsUnchanged, InputsSame
<1>2. \/ GiveUp(i)
      \/ /\ gateways' = Upsert(Upsert(gateways, external), local)
         /\ Proceed(i, "virtualServices", names, NoNames)
         /\ UNCHANGED <<copies, vs, lb, queued, tracked>>
         /\ shouldReconcileHTTPServer(work[i].ing) => ServicesExist(work[i])
  BY Zenon DEF ReconcileIngressGateways, AllNames
<1>3. CASE GiveUp(i)
  BY <1>1, <1>3, GiveUpRest
<1>4. CASE /\ gateways' = Upsert(Upsert(gateways, external), local)
           /\ Proceed(i, "virtualServices", names, NoNames)
           /\ UNCHANGED <<copies, vs, lb, queued, tracked>>
           /\ shouldReconcileHTTPServer(work[i].ing) => ServicesExist(work[i])
  <2> HIDE DEF names
  <2>1. UNCHANGED <<life, copies, vs, queued, tracked>>
    BY <1>1, <1>4
  <2> QED BY <1>1, <1>4, <2>1, GatewaysRest DEF names
<1> QED BY <1>2, <1>3, <1>4

(* The VirtualServices are those of the names that were collected. *)
LEMMA ReconcileVirtualServicesRest ==
  ASSUME GatewayInv, NEW i \in Ingresses, ReconcileVirtualServices(i)
  PROVE  Rest'
<1> DEFINE made == MakeVirtualServices(work[i].ing, work[i].names)
<1>1. /\ work[i].pc = "virtualServices" /\ vs' = [vs EXCEPT ![i] = made] /\ Stop(i) /\ queued \subseteq queued'
      /\ InputsSame /\ UNCHANGED <<copies, gateways, tracked, life>>
  BY DEF ReconcileVirtualServices, Busy, InputsUnchanged, InputsSame
<1>2. work[i] # Idle /\ Inv /\ Functions
  BY <1>1 DEF Idle, GatewayInv, Inv
<1>3. work'[i] = Idle /\ \A j \in Ingresses \ {i} : work'[j] = work[j]
  BY <1>1, <1>2, StopStep
<1> HIDE DEF made
<1>4. vs'[i] = made /\ \A j \in Ingresses \ {i} : vs'[j] = vs[j]
  BY <1>1, <1>2 DEF Functions, PerIngress
<1>5. \A j \in Ingresses : CopiesKept(j) /\ WildcardsKept(j) /\ OwnKept(j)
  BY <1>1, KeptByNothing DEF InputsSame
<1>6. OthersKept(i)
  BY <1>1, <1>3, <1>4, <1>5 DEF OthersKept
<1>7. \A g \in gateways' : Shaped(g)
  BY <1>1 DEF GatewayInv, Rest
<1>8. ASSUME life'[i] = "live", i \notin queued' PROVE Settled(i)'
  <2>1. life[i] = "live" /\ i \notin queued
    BY <1>1, <1>8
  <2>2. PICK wild \in SUBSET GetSecrets(Object(i), "ExternalIP") : Progress(i, wild)
    BY <2>1, SoFar
  <2>3. Served(i, wild) /\ work[i].names = FinalNames(i, wild)
    BY <1>1, <2>2 DEF Progress, Busy
  <2>4. work[i].ing = Object(i)
    BY <1>2, <2>1, WorkUpToDate
  <2>5. Served(i, wild)'
    BY <1>1, <1>2, <1>5, <2>3, ServedKept DEF InputsSame
  <2>6. Object(i)' = Object(i) /\ FinalNames(i, wild)' = FinalNames(i, wild)
    BY <1>1, SameInputs DEF InputsSame
  <2>7. vs'[i] = MakeVirtualServices(Object(i)', FinalNames(i, wild)')
    BY <1>4, <2>3, <2>4, <2>6 DEF made
  <2>8. Progress(i, wild)'
    BY <1>3, <2>5, <2>7 DEF Progress, Busy, Idle
  <2> QED BY <2>2, <2>6, <2>8 DEF Settled
<1> QED BY <1>1, <1>3, <1>6, <1>7, <1>8, StepPreservesRest

(* Who tracks a copy that is deleted, is alive and is not enqueued? *)
LEMMA DeleteKept ==
  ASSUME NEW i \in Ingresses, NEW gone, NEW woken, DeleteCopies(gone, woken), gateways' = gateways \ ControlledBy(i),
         UNCHANGED <<secrets, tracked>>, NEW j \in Ingresses \ {i}, life[j] = "live"
  PROVE  /\ j \in queued => j \in queued'
         /\ j \notin queued' => CopiesKept(j) /\ WildcardsKept(j) /\ OwnKept(j)
<1>1. /\ copies' = copies \ gone /\ j \in Live
      /\ queued' = (queued \cup Trackers({NameOf(c) : c \in gone}) \cup woken) \cap Live
  BY DEF DeleteCopies, Live
<1>2. ASSUME j \notin queued', NEW c \in copies PROVE c \in copies' \/ NameOf(c) \notin tracked[j]
  <2>1. j \notin Trackers({NameOf(d) : d \in gone})
    BY <1>1, <1>2
  <2> QED BY <1>1, <2>1 DEF Trackers
<1>3. j \notin queued' => CopiesKept(j)
  BY <1>2, CopiesKeptByDelete
<1>4. WildcardsKept(j) /\ OwnKept(j)
  BY GatewaysKeptByDelete
<1> QED BY <1>1, <1>3, <1>4

(* Mesh-only mode takes nothing that others must keep. *)
LEMMA ReconcileMeshOnlyIngressRest ==
  ASSUME GatewayInv, NEW i \in Ingresses, ReconcileMeshOnlyIngress(i)
  PROVE  Rest'
<1>1. PICK made, gone, woken :
        /\ vs' = [vs EXCEPT ![i] = made] /\ DeleteCopies(gone, woken)
  BY DEF ReconcileMeshOnlyIngress
<1>2. /\ work[i].pc = "mesh" /\ gateways' = gateways \ ControlledBy(i) /\ Stop(i)
      /\ InputsSame /\ UNCHANGED <<tracked, life>>
  BY DEF ReconcileMeshOnlyIngress, Busy, InputsUnchanged, InputsSame
<1>3. work[i] # Idle /\ Inv /\ Functions
  BY <1>2 DEF Idle, GatewayInv, Inv
<1>4. work'[i] = Idle /\ \A j \in Ingresses \ {i} : work'[j] = work[j]
  BY <1>2, <1>3, StopStep
<1>5. \A j \in Ingresses \ {i} : vs'[j] = vs[j]
  BY <1>1, <1>3 DEF Functions, PerIngress
<1>6. OthersKept(i)
  BY <1>1, <1>2, <1>4, <1>5, DeleteKept DEF OthersKept, InputsSame
<1>7. \A g \in gateways' : Shaped(g)
  BY <1>2 DEF GatewayInv, Rest
<1>8. ASSUME life'[i] = "live", i \notin queued' PROVE Settled(i)'
  <2>1. life[i] = "live" /\ i \notin queued
    BY <1>1, <1>2, <1>8 DEF DeleteCopies, Live
  <2>2. work[i].istio = istio
    BY <1>3, <2>1, WorkUpToDate
  <2>3. ~GatewaysEnabled(istio)
    BY <1>2, <1>3, <2>2 DEF Inv, WorkInv, Underway, InGatewayPhase
  <2>4. istio' = istio
    BY <1>2 DEF InputsSame, istio
  <2>5. Progress(i, {})'
    BY <1>4, <2>3, <2>4 DEF Progress, Busy, Idle
  <2> QED BY <2>5 DEF Settled
<1> QED BY <1>2, <1>4, <1>6, <1>7, <1>8, StepPreservesRest

(* Nor does a finalization. *)
LEMMA FinalizeKindRest ==
  ASSUME GatewayInv, NEW i \in Ingresses, FinalizeKind(i)
  PROVE  Rest'
<1>1. InputsSame
  BY DEF FinalizeKind, InputsSame
<1>2. \/ GiveUp(i) /\ UNCHANGED life
      \/ \E gone : /\ DeleteCopies(gone, {}) /\ life' = [life EXCEPT ![i] = "gone"]
                   /\ gateways' = gateways \ ControlledBy(i) /\ vs' = [vs EXCEPT ![i] = {}]
                   /\ Stop(i) /\ UNCHANGED <<lb, tracked>>
  BY Zenon DEF FinalizeKind
<1>3. CASE GiveUp(i) /\ UNCHANGED life
  BY <1>1, <1>3, GiveUpRest
<1>4. ASSUME NEW gone,
             /\ DeleteCopies(gone, {}) /\ life' = [life EXCEPT ![i] = "gone"]
             /\ gateways' = gateways \ ControlledBy(i) /\ vs' = [vs EXCEPT ![i] = {}]
             /\ Stop(i) /\ UNCHANGED <<lb, tracked>>
      PROVE  Rest'
  <2>1. Inv /\ Functions
    BY DEF GatewayInv, Inv
  <2>2. work'[i] = Idle /\ \A j \in Ingresses \ {i} : work'[j] = work[j]
    BY <1>4, <2>1, StopStep
  <2>3. \A j \in Ingresses \ {i} : vs'[j] = vs[j] /\ life'[j] = life[j]
    BY <1>4, <2>1 DEF Functions, PerIngress
  <2>4. life'[i] = "gone"
    BY <1>4, <2>1 DEF Functions, PerIngress
  <2>5. OthersKept(i)
    BY <1>1, <1>4, <2>2, <2>3, DeleteKept DEF OthersKept, InputsSame
  <2>6. \A g \in gateways' : Shaped(g)
    BY <1>4 DEF GatewayInv, Rest
  <2> QED BY <1>1, <2>2, <2>4, <2>5, <2>6, StepPreservesRest
<1> QED BY <1>2, <1>3, <1>4, Zenon

(* A change of the environment: it concerns only those that it enqueues. *)
LEMMA EnvironmentPreservesRest ==
  ASSUME GatewayInv, UNCHANGED <<copies, gateways, vs, tracked, work, localTLS>>, SecretsShaped',
         \A j \in Ingresses : life'[j] = "live" /\ j \notin queued' =>
           /\ j \notin queued /\ life[j] = "live" /\ config' = config /\ spec'[j] = spec[j]
           /\ \A ref \in Origins : secrets'[ref] = secrets[ref] \/ OriginRef(ref) \notin tracked[j]
  PROVE  Rest'
<1>1. Functions
  BY DEF GatewayInv, Inv
<1>2. ASSUME NEW j \in Ingresses PROVE Settled(j)'
  <2>1. SUFFICES ASSUME life'[j] = "live", j \notin queued' PROVE Settled(j)'
    BY DEF Settled
  <2>2. /\ j \notin queued /\ life[j] = "live" /\ config' = config /\ spec'[j] = spec[j]
        /\ \A ref \in Origins : secrets'[ref] = secrets[ref] \/ OriginRef(ref) \notin tracked[j]
    BY <2>1
  <2>3. CopiesKept(j)
    <3>1. ASSUME NEW ref \in Origins, NEW name, NEW s, CopyThere(j, ref, name, s) PROVE CopyThere(j, ref, name, s)'
      BY <2>2, <3>1 DEF CopyThere, OriginRef
    <3> QED BY <3>1 DEF CopiesKept
  <2>4. WildcardsKept(j)
    <3>1. ASSUME NEW ref \in Origins, NEW s, WildcardThere(j, ref, s) PROVE WildcardThere(j, ref, s)'
      BY <2>2, <3>1 DEF WildcardThere, OriginRef
    <3> QED BY <3>1 DEF WildcardsKept
  <2>5. OwnKept(j)
    BY DEF OwnKept
  <2>6. Settled(j)
    BY DEF GatewayInv, Rest
  <2>7. /\ localTLS' = localTLS /\ life'[j] = life[j] /\ vs'[j] = vs[j] /\ work'[j] = work[j]
        /\ life[j] = "live" /\ j \in queued => j \in queued'
    BY <2>1, <2>2
  <2> QED BY <1>1, <2>2, <2>3, <2>4, <2>5, <2>6, <2>7, KeptSettled
<1>3. (\A g \in gateways' : Shaped(g)) /\ WorkShaped'
  BY DEF GatewayInv, Rest, WorkShaped
<1> QED BY <1>2, <1>3 DEF Rest

(* Whoever is concerned by a change is enqueued: by the store, the informer of *)
(* Ingresses, or the tracker.                                                  *)
LEMMA EnvironmentRest ==
  ASSUME GatewayInv, Environment
  PROVE  Rest'
<1>1. SecretsShaped /\ Functions
  BY DEF GatewayInv, Inv, Rest
<1>2. ASSUME NEW cm \in ConfigMaps, SetConfigMap(cm) PROVE Rest'
  <2>1. UNCHANGED <<copies, gateways, vs, tracked, work, localTLS, spec, life, secrets>>
    BY <1>2 DEF SetConfigMap, ControllerUnchanged, ResourcesUnchanged
  <2>2. SecretsShaped'
    BY <1>1, <2>1 DEF SecretsShaped
  <2>3. \/ queued' = queued \cup Live
        \/ config' = config /\ queued' = queued
    BY <1>2 DEF SetConfigMap
  <2>4. ASSUME NEW j \in Ingresses, life'[j] = "live", j \notin queued'
        PROVE  j \notin queued /\ life[j] = "live" /\ config' = config
    BY <2>1, <2>3, <2>4 DEF Live
  <2> QED BY <2>1, <2>2, <2>4, EnvironmentPreservesRest
<1>3. ASSUME NEW i \in Ingresses, NEW s \in SpecsOf[i], UpdateSpec(i, s) PROVE Rest'
  <2>1. /\ UNCHANGED <<copies, gateways, vs, tracked, work, localTLS, config, life, secrets>>
        /\ spec' = [spec EXCEPT ![i] = s] /\ queued' = queued \cup {i}
    BY <1>3 DEF UpdateSpec, ControllerUnchanged, ResourcesUnchanged
  <2>2. SecretsShaped'
    BY <1>1, <2>1 DEF SecretsShaped
  <2>3. \A j \in Ingresses \ {i} : spec'[j] = spec[j]
    BY <1>1, <2>1 DEF Functions, PerIngress
  <2> QED BY <2>1, <2>2, <2>3, EnvironmentPreservesRest
<1>4. ASSUME NEW i \in Ingresses, DeleteIngress(i) PROVE Rest'
  <2>1. /\ UNCHANGED <<copies, gateways, vs, tracked, work, localTLS, config, spec, secrets>>
        /\ life' = [life EXCEPT ![i] = "deleting"] /\ queued' = queued \cup {i}
    BY <1>4 DEF DeleteIngress, ControllerUnchanged, ResourcesUnchanged
  <2>2. SecretsShaped'
    BY <1>1, <2>1 DEF SecretsShaped
  <2>3. \A j \in Ingresses \ {i} : life'[j] = life[j]
    BY <1>1, <2>1 DEF Functions, PerIngress
  <2> QED BY <2>1, <2>2, <2>3, EnvironmentPreservesRest
<1>5. ASSUME NEW ref \in Origins, NEW c \in Contents[ref], IssueCertificate(ref, c) PROVE Rest'
  <2>1. /\ UNCHANGED <<copies, gateways, vs, tracked, work, localTLS, config, spec, life>>
        /\ secrets' = [secrets EXCEPT ![ref] = c]
        /\ queued' = queued \cup {i \in Live : OriginRef(ref) \in tracked[i]}
    BY <1>5 DEF IssueCertificate, ControllerUnchanged, ResourcesUnchanged
  <2>2. secrets' = [q \in Origins |-> IF q = ref THEN c ELSE secrets[q]]
    BY <1>1, <2>1 DEF SecretsShaped
  <2>3. SecretsShaped'
    BY <1>1, <2>2 DEF SecretsShaped
  <2>4. ASSUME NEW j \in Ingresses, life'[j] = "live", j \notin queued'
        PROVE  /\ j \notin queued /\ life[j] = "live"
               /\ \A q \in Origins : secrets'[q] = secrets[q] \/ OriginRef(q) \notin tracked[j]
    BY <2>1, <2>2, <2>4 DEF Live
  <2> QED BY <2>1, <2>3, <2>4, EnvironmentPreservesRest
<1> QED BY <1>2, <1>3, <1>4, <1>5 DEF Environment

(* Initially everything that lives is queued, and there are no Gateways. *)
LEMMA InitRest == Init => Rest
<1> SUFFICES ASSUME Init PROVE Rest
  OBVIOUS
<1>1. PICK s \in Scenarios :
        /\ life = [i \in Ingresses |-> IF i \in s.ingresses THEN "live" ELSE "never"]
        /\ queued = s.ingresses /\ secrets = s.secrets
  BY DEF Init
<1>2. gateways = {} /\ work = [i \in Ingresses |-> Idle]
  BY DEF Init
<1>3. SecretsShaped
  BY <1>1, ScenariosAssumption DEF SecretsShaped
<1>4. \A i \in Ingresses : life[i] = "live" => i \in queued
  BY <1>1
<1>5. \A i \in Ingresses : Settled(i)
  BY <1>4 DEF Settled
<1>6. WorkShaped
  BY <1>2 DEF WorkShaped
<1> QED BY <1>2, <1>3, <1>5, <1>6 DEF Rest

(* Nothing happens. *)
LEMMA StutterRest == GatewayInv /\ UNCHANGED vars => Rest'
<1> SUFFICES ASSUME GatewayInv, UNCHANGED vars PROVE Rest'
  OBVIOUS
<1>1. UNCHANGED <<config, localTLS, spec, life, secrets, copies, gateways, vs, tracked, queued, work>>
  BY DEF vars
<1>2. SecretsShaped'
  BY <1>1 DEF GatewayInv, Rest, SecretsShaped
<1> QED BY <1>1, <1>2, EnvironmentPreservesRest

(* Every step preserves the invariant. *)
LEMMA NextGatewayInv == GatewayInv /\ [Next]_vars => GatewayInv'
<1> SUFFICES ASSUME GatewayInv, [Next]_vars PROVE GatewayInv'
  OBVIOUS
<1>1. Inv'
  BY NextInv DEF GatewayInv
<1>2. ASSUME Environment PROVE Rest'
  BY <1>2, EnvironmentRest
<1>3. ASSUME NEW i \in Ingresses, WorkerStep(i) PROVE Rest'
  BY <1>3, StartReconcileRest, ReconcileExternalTLSRest, ReconcileClusterLocalTLSRest, ReconcileIngressGatewaysRest,
     ReconcileVirtualServicesRest, ReconcileMeshOnlyIngressRest, FinalizeKindRest DEF WorkerStep
<1>4. ASSUME UNCHANGED vars PROVE Rest'
  BY <1>4, StutterRest
<1>5. Rest'
  BY <1>2, <1>3, <1>4 DEF Next
<1> QED BY <1>1, <1>5 DEF GatewayInv

(* What is there for an Ingress that is not queued is what its reconciliation, *)
(* as far as it has come, should have made of the present configuration,       *)
(* Ingress and certificates, whatever other Ingresses did meanwhile.           *)
LEMMA SpecGatewayInv == Spec => []GatewayInv
<1>1. Init => GatewayInv
  BY InitInv, InitRest DEF GatewayInv
<1> QED BY <1>1, NextGatewayInv, PTL DEF Spec

-----------------------------------------------------------------------------
(***************************************************************************)
(* An Ingress at rest.                                                     *)
(***************************************************************************)

(* It is served, and its VirtualServices are those of the names it should use. *)
LEMMA ServedAtRest ==
  ASSUME GatewayInv, NEW i \in Ingresses, InGateways(i)
  PROVE  \E wild \in SUBSET GetSecrets(Object(i), "ExternalIP") :
           Served(i, wild) /\ vs[i] = MakeVirtualServices(Object(i), FinalNames(i, wild))
<1>1. life[i] = "live" /\ i \notin queued /\ Busy(i, "idle") /\ GatewaysEnabled(istio)
  BY DEF InGateways, AtRest
<1>2. PICK wild \in SUBSET GetSecrets(Object(i), "ExternalIP") : Progress(i, wild)
  BY <1>1, SoFar
<1> QED BY <1>1, <1>2 DEF Progress

(* The names it should use for each visibility, one by one. *)
LEMMA FinalNamesAre ==
  ASSUME NEW i, NEW wild
  PROVE  /\ FinalNames(i, wild)["ExternalIP"]
              = WildcardKeys(i, wild) \cup DefaultNames(i) \cup GetQualifiedGatewayNames(WithHTTP(i, wild))
         /\ FinalNames(i, wild)["ClusterLocal"] = LocalNames(i) \cup GetQualifiedGatewayNames(LocalGateways(i))
BY DEF FinalNames, Both, Visibilities

(* The name of a Gateway tells what it is for; none is the mesh. *)
LEMMA NamesTell ==
  ASSUME NEW i \in Ingresses, NEW wild
  PROVE  /\ \A key \in WildcardKeys(i, wild) : key.name.kind = "wildcard" /\ key.name.visibility = "ExternalIP"
         /\ \A key \in LocalNames(i) \cup DefaultNames(i) : key.name.kind = "configured"
         /\ \A key \in GetQualifiedGatewayNames(WithHTTP(i, wild)) : key.name.kind = "ingress" /\ key.name.visibility = "ExternalIP"
         /\ \A key \in GetQualifiedGatewayNames(LocalGateways(i)) : key.name.kind = "ingress" /\ key.name.visibility = "ClusterLocal"
<1>1. \A key \in WildcardKeys(i, wild) : key.name.kind = "wildcard" /\ key.name.visibility = "ExternalIP"
  BY DEF WildcardKeys, WildcardKey, WildcardGatewayName
<1>2. \A gws : \A key \in NamesOf(gws) : key.name.kind = "configured"
  BY DEF NamesOf, QualifiedName
<1>3. \A key \in LocalNames(i) \cup DefaultNames(i) : key.name.kind = "configured"
  BY <1>2 DEF LocalNames, DefaultNames
<1>4. OfVisibility(WithHTTP(i, wild), "ExternalIP")
  BY TLSGatewaysShaped, HTTPGatewaysShaped DEF WithHTTP, ExternalGateways, Visibilities
<1>5. OfVisibility(LocalGateways(i), "ClusterLocal")
  BY TLSGatewaysShaped DEF LocalGateways, Visibilities, OfVisibility
<1>6. /\ \A g \in WithHTTP(i, wild) : g.key.name.kind = "ingress"
      /\ \A g \in LocalGateways(i) : g.key.name.kind = "ingress"
  BY OwnGateways DEF MadeFor
<1>7. \A key \in GetQualifiedGatewayNames(WithHTTP(i, wild)) : key.name.kind = "ingress" /\ key.name.visibility = "ExternalIP"
  BY <1>4, <1>6 DEF OfVisibility, GetQualifiedGatewayNames
<1>8. \A key \in GetQualifiedGatewayNames(LocalGateways(i)) : key.name.kind = "ingress" /\ key.name.visibility = "ClusterLocal"
  BY <1>5, <1>6 DEF OfVisibility, GetQualifiedGatewayNames
<1> QED BY <1>1, <1>3, <1>7, <1>8

(* So none of the names is the mesh. *)
LEMMA NoNameIsMesh ==
  ASSUME NEW i \in Ingresses, NEW wild, NEW v \in Visibilities
  PROVE  Mesh \notin FinalNames(i, wild)[v]
<1>1. Mesh.name.kind = "mesh"
  BY DEF Mesh
<1>2. Mesh \notin FinalNames(i, wild)["ExternalIP"] /\ Mesh \notin FinalNames(i, wild)["ClusterLocal"]
  BY <1>1, FinalNamesAre, NamesTell
<1> QED BY <1>2 DEF Visibilities

(* A VirtualService for gateways serves all hosts of all rules. *)
LEMMA AllHostsServed ==
  ASSUME NEW ing, NEW n \in DOMAIN ing.rules
  PROVE  ServedHosts(ing, ExpandedHosts(getHosts(ing)), n) = ing.rules[n].hosts
<1>1. ing.rules[n].hosts \subseteq getHosts(ing)
  BY DEF getHosts, ToSet
<1>2. \A hosts : hosts \subseteq ExpandedHosts(hosts)
  BY DEF ExpandedHosts
<1> QED BY <1>1, <1>2 DEF ServedHosts

(* The VirtualServices for gateways: the one of these names, and it is there *)
(* when some rule has a gateway.                                             *)
LEMMA IngressVSAre ==
  ASSUME Functions, NEW i \in Ingresses, NEW wild, vs[i] = MakeVirtualServices(Object(i), FinalNames(i, wild))
  PROVE  /\ \A x \in IngressVS(i) : x.gateways = {} \/ x = MakeIngressVirtualService(Object(i), FinalNames(i, wild))
         /\ \A n \in DOMAIN spec[i].rules :
              LET v == spec[i].rules[n].visibility
                  x == MakeIngressVirtualService(Object(i), FinalNames(i, wild))
              IN  FinalNames(i, wild)[v] # {} /\ spec[i].rules[n].hosts # {} =>
                    x \in IngressVS(i) /\ FinalNames(i, wild)[v] \subseteq x.gateways
<1> DEFINE ing == Object(i)
           names == FinalNames(i, wild)
           x == MakeIngressVirtualService(ing, names)
           mesh == [v \in Visibilities |-> {Mesh}]
<1>1. IsIngress(ing) /\ ing.rules = spec[i].rules
  BY ObjectShape
<1>2. \A v \in Visibilities : Mesh \notin names[v]
  BY NoNameIsMesh
<1>3. vs[i] = MakeMeshVirtualService(ing, names)
                \cup {MakeIngressVirtualService(ing, names) : v \in {u \in Visibilities : RulesOf(ing, u) # {} /\ names[u] # {}}}
  BY DEF MakeVirtualServices
<1> HIDE DEF ing, names
<1>4. ASSUME NEW y \in IngressVS(i) PROVE y.gateways = {} \/ y = x
  <2>1. y \in vs[i] /\ Mesh \notin y.gateways
    BY DEF IngressVS
  <2>2. CASE y \in MakeMeshVirtualService(ing, names)
    <3>1. PICK hosts : y = makeVirtualServiceSpec(ing, mesh, hosts)
      BY <2>2 DEF MakeMeshVirtualService
    <3>2. \A key \in y.gateways : \E v \in Visibilities : key \in mesh[v]
      <4> HIDE DEF mesh
      <4> QED BY <1>1, <3>1, SpecGateways
    <3> QED BY <2>1, <3>2
  <2>3. CASE y = x
    BY <2>3
  <2> QED BY <1>3, <2>1, <2>2, <2>3
<1>5. ASSUME NEW n \in DOMAIN ing.rules, names[ing.rules[n].visibility] # {}, ing.rules[n].hosts # {}
      PROVE  x \in IngressVS(i) /\ names[ing.rules[n].visibility] \subseteq x.gateways
  <2> DEFINE hosts == ExpandedHosts(getHosts(ing))
             v == ing.rules[n].visibility
  <2>1. x = makeVirtualServiceSpec(ing, names, hosts)
    BY DEF MakeIngressVirtualService
  <2>2. ServedHosts(ing, hosts, n) # {}
    BY <1>5, AllHostsServed
  <2> HIDE DEF hosts
  <2>3. names[v] \subseteq x.gateways /\ \A key \in x.gateways : \E u \in Visibilities : key \in names[u]
    BY <1>1, <2>1, <2>2, SpecGateways
  <2>4. Mesh \notin x.gateways
    BY <1>2, <2>3
  <2>5. v \in Visibilities /\ RulesOf(ing, v) # {}
    BY <1>1, RuleShape DEF RulesOf, ToSet
  <2>6. x \in vs[i]
    BY <1>3, <1>5, <2>5
  <2> QED BY <2>3, <2>4, <2>6 DEF IngressVS
<1> QED BY <1>1, <1>4, <1>5 DEF ing, names

(* Pods present what the origin holds for a server with its credential, be it *)
(* the origin itself or a copy.                                               *)
LEMMA PresentsOrigin ==
  ASSUME NEW i, NEW ref \in Origins, NEW name, NEW s, CopyThere(i, ref, name, s),
         NEW g, g.service = s, NEW server, server.credential = {CredentialName(ref, name, s)}
  PROVE  secrets[ref] \in Presented(g, server)
<1>1. CASE ref.ns = s.ns
  <2>1. originName(ref) \in server.credential
    BY <1>1 DEF CredentialName
  <2> QED BY <1>1, <2>1 DEF Presented
<1>2. CASE ref.ns # s.ns
  <2> DEFINE c == makeSecret(ref, secrets[ref], name, s.ns)
  <2>1. name \in server.credential
    BY <1>2 DEF CredentialName
  <2>2. c \in copies
    BY <1>2 DEF CopyThere
  <2>3. c.ns = s.ns /\ c.name = name /\ c.content = secrets[ref]
    BY DEF makeSecret
  <2> HIDE DEF c
  <2> QED BY <2>1, <2>2, <2>3 DEF Presented
<1> QED BY <1>1, <1>2

(* The Gateways with the certificates of the Ingress are there with all their *)
(* servers, and the HTTP server.                                              *)
LEMMA HTTPGatewaysExtend ==
  ASSUME NEW ing, NEW gws, \A g \in gws : IsGateway(g), NEW services, NEW g \in gws
  PROVE  \E h \in AddHTTPServer(ing, gws, services) : h.key = g.key /\ h.service = g.service /\ g.servers \subseteq h.servers
<1>1. CASE ~shouldReconcileHTTPServer(ing)
  <2>1. g \in AddHTTPServer(ing, gws, services)
    BY <1>1, Zenon DEF AddHTTPServer
  <2> QED BY <2>1
<1>2. CASE shouldReconcileHTTPServer(ing)
  <2> DEFINE h == [g EXCEPT !.servers = @ \cup MakeHTTPServer(ing)]
  <2>1. gws # {}
    OBVIOUS
  <2>2. AddHTTPServer(ing, gws, services) = {[d EXCEPT !.servers = @ \cup MakeHTTPServer(ing)] : d \in gws}
    BY <1>2, <2>1, Zenon DEF AddHTTPServer
  <2>3. h = [key |-> g.key, owner |-> g.owner, service |-> g.service, servers |-> g.servers \cup MakeHTTPServer(ing)]
    BY WithServers
  <2>4. h \in AddHTTPServer(ing, gws, services)
    BY <2>2, Zenon
  <2> HIDE DEF h
  <2>5. h.key = g.key /\ h.service = g.service /\ g.servers \subseteq h.servers
    BY <2>3
  <2> QED BY <2>4, <2>5
<1> QED BY <1>1, <1>2

(* A Gateway with certificates has a server for each TLS entry, on each service. *)
LEMMA TLSGatewayHas ==
  ASSUME NEW ing, NEW v \in Visibilities, NEW tls, NEW t \in ToSet(tls), NEW services, NEW s \in ToSet(services)
  PROVE  \E g \in MakeIngressTLSGateways(ing, v, tls, services) :
           /\ IsGateway(g) /\ g.service = s
           /\ TLSServer(t.hosts, HTTPSPort(v), CredentialName(t.secret, targetSecret(t.secret, ing), s)) \in g.servers
<1> DEFINE g == makeIngressGateway(ing, v, MakeTLSServers(ing, v, tls, s), s)
<1>1. tls # <<>>
  BY DEF ToSet
<1>2. g \in MakeIngressTLSGateways(ing, v, tls, services)
  BY <1>1 DEF MakeIngressTLSGateways
<1>3. IsGateway(g) /\ g.service = s /\ g.servers = MakeTLSServers(ing, v, tls, s)
  BY DEF makeIngressGateway, IsGateway
<1>4. TLSServer(t.hosts, HTTPSPort(v), CredentialName(t.secret, targetSecret(t.secret, ing), s)) \in MakeTLSServers(ing, v, tls, s)
  BY DEF MakeTLSServers
<1> HIDE DEF g
<1> QED BY <1>2, <1>3, <1>4

(* A server on the port for HTTPS with a pattern for the host. *)
LEMMA TLSServerFor ==
  ASSUME NEW v \in Visibilities, NEW host, NEW hosts, NEW p \in hosts, Covers(p, host), NEW credential,
         NEW server, server = TLSServer(hosts, HTTPSPort(v), credential), NEW g, server \in g.servers
  PROVE  server \in ServersFor(g, v, host) /\ server.port = HTTPSPort(v) /\ server.credential = {credential}
<1>1. server.port = HTTPSPort(v) /\ server.hosts = hosts /\ server.credential = {credential}
  BY DEF TLSServer
<1>2. HTTPSPort(v) \in Ports(v)
  BY DEF Ports
<1>3. server \in ServersFor(g, v, host)
  BY <1>1, <1>2 DEF ServersFor
<1> QED BY <1>1, <1>3

(* What EncryptedHostsServed asks for one host, except that the name of the *)
(* Gateway is one of the names that were collected.                         *)
HostServed(names, v, ref, s, host) ==
  \E g \in gateways :
    /\ g.key \in names /\ g.service = s
    /\ \E server \in ServersFor(g, v, host) : server.port = HTTPSPort(v) /\ secrets[ref] \in Presented(g, server)

(* By a Gateway of the Ingress. *)
LEMMA ServedByOwn ==
  ASSUME NEW i, NEW v \in Visibilities, NEW t, t.secret \in Origins, NEW ing, NEW s,
         NEW host \in Hosts, host \in t.hosts, CopyThere(i, t.secret, targetSecret(t.secret, ing), s),
         NEW names, NEW g \in gateways, g.key \in names, g.service = s,
         TLSServer(t.hosts, HTTPSPort(v), CredentialName(t.secret, targetSecret(t.secret, ing), s)) \in g.servers
  PROVE  HostServed(names, v, t.secret, s, host)
<1> DEFINE credential == CredentialName(t.secret, targetSecret(t.secret, ing), s)
           server == TLSServer(t.hosts, HTTPSPort(v), credential)
<1>1. host \in t.hosts /\ Covers(host, host)
  BY CoversItself
<1>2. server \in ServersFor(g, v, host) /\ server.port = HTTPSPort(v) /\ server.credential = {credential}
  <2>1. PICK c, x : c = credential /\ x = TLSServer(t.hosts, HTTPSPort(v), c)
    OBVIOUS
  <2>2. x \in g.servers
    BY <2>1
  <2>3. x \in ServersFor(g, v, host) /\ x.port = HTTPSPort(v) /\ x.credential = {c}
    BY <1>1, <2>1, <2>2, TLSServerFor
  <2> QED BY <2>1, <2>3
<1> HIDE DEF server
<1>3. secrets[t.secret] \in Presented(g, server)
  BY <1>2, PresentsOrigin
<1> QED BY <1>2, <1>3 DEF HostServed

(* By that of a wildcard certificate. *)
LEMMA ServedByWildcard ==
  ASSUME NEW i, NEW ref \in Origins, NEW s, CopyThere(i, ref, targetWildcardSecretName(ref), s), WildcardThere(i, ref, s),
         NEW host, \A c \in ShownFor(i, ref) : \E d \in ToSet(c.dns) : Covers(d, host),
         NEW names, WildcardKey(ref, s) \in names
  PROVE  HostServed(names, "ExternalIP", ref, s, host)
<1>1. PICK g \in gateways, c \in Contents[ref] :
        /\ g.key = WildcardKey(ref, s) /\ g.service = s /\ g.servers = {WildcardServer(ref, c, s)}
        /\ OriginRef(ref) \in tracked[i] => c = secrets[ref]
  BY DEF WildcardThere
<1>2. c \in ShownFor(i, ref)
  BY <1>1 DEF ShownFor
<1> DEFINE credential == CredentialName(ref, targetWildcardSecretName(ref), s)
           server == TLSServer(ToSet(c.dns), HTTPSPort("ExternalIP"), credential)
<1>3. g.servers = {server} /\ "ExternalIP" \in Visibilities
  BY <1>1 DEF WildcardServer, HTTPSPort, Visibilities
<1>4. /\ server \in ServersFor(g, "ExternalIP", host) /\ server.port = HTTPSPort("ExternalIP")
      /\ server.credential = {credential}
  <2>1. PICK p \in ToSet(c.dns) : Covers(p, host)
    BY <1>2
  <2>2. PICK a, b, x : a = credential /\ b = ToSet(c.dns) /\ x = TLSServer(b, HTTPSPort("ExternalIP"), a)
    OBVIOUS
  <2>3. x \in g.servers
    BY <1>3, <2>2
  <2>4. x \in ServersFor(g, "ExternalIP", host) /\ x.port = HTTPSPort("ExternalIP") /\ x.credential = {a}
    BY <1>3, <2>1, <2>2, <2>3, TLSServerFor
  <2> QED BY <2>2, <2>4
<1> HIDE DEF server
<1>5. secrets[ref] \in Presented(g, server)
  BY <1>1, <1>4, PresentsOrigin
<1> QED BY <1>1, <1>4, <1>5 DEF HostServed

(* One or the other serves each host of a TLS entry on each service. *)
LEMMA HostIsServed ==
  ASSUME Functions, NEW i \in Ingresses, NEW wild, Served(i, wild),
         NEW v \in Visibilities, v = "ClusterLocal" => localTLS,
         NEW t \in ToSet(GetIngressTLSForVisibility(Object(i), v)), NEW s \in ServicesNow(i), NEW host \in Hosts, host \in t.hosts,
         \A c \in ShownFor(i, t.secret) : \E d \in ToSet(c.dns) : Covers(d, host)
  PROVE  HostServed(FinalNames(i, wild)[v], v, t.secret, s, host)
<1>1. /\ ExternalThere(i, wild) /\ LocalThere(i) /\ WithHTTP(i, wild) \subseteq gateways /\ LocalGateways(i) \subseteq gateways
  BY DEF Served
<1>2. t.secret \in GetSecrets(Object(i), v) /\ t.secret \in Origins
  <2>1. t.secret \in GetSecrets(Object(i), v)
    BY DEF GetSecrets
  <2> QED BY <2>1, ObjectShape
<1>3. IsSequence(GetIngressTLSForVisibility(Object(i), v))
  BY ObjectShape, TLSEntries DEF IsIngress
<1>4. s \in ToSet(ServicesOf(Now(i)))
  BY DEF ServicesNow
<1>5. CASE v = "ExternalIP" /\ t.secret \in wild
  <2>1. CopyThere(i, t.secret, targetWildcardSecretName(t.secret), s) /\ WildcardThere(i, t.secret, s)
    BY <1>1, <1>2, <1>5 DEF ExternalThere
  <2>2. WildcardKey(t.secret, s) \in FinalNames(i, wild)[v]
    BY <1>5, FinalNamesAre DEF WildcardKeys
  <2> QED BY <1>2, <1>5, <2>1, <2>2, ServedByWildcard
<1>6. CASE v = "ExternalIP" /\ t.secret \notin wild
  <2> DEFINE tls == GetIngressTLSForVisibility(Object(i), "ExternalIP")
             chosen == {n \in DOMAIN tls : tls[n].secret \notin wild}
             server == TLSServer(t.hosts, HTTPSPort(v), CredentialName(t.secret, targetSecret(t.secret, Object(i)), s))
  <2>1. CopyThere(i, t.secret, targetSecret(t.secret, Object(i)), s)
    BY <1>1, <1>2, <1>6 DEF ExternalThere
  <2>2. t \in ToSet(PlainTLS(i, wild))
    <3>1. PlainTLS(i, wild) = Subsequence(tls, chosen)
      BY DEF PlainTLS
    <3>2. PICK S : tls \in Seq(S)
      BY <1>3, <1>6 DEF IsSequence
    <3>3. PICK k \in chosen : t = tls[k]
      BY <1>6 DEF ToSet
    <3>4. chosen \in SUBSET DOMAIN tls
      OBVIOUS
    <3> HIDE DEF tls, chosen
    <3> QED BY <3>1, <3>2, <3>3, <3>4, SubsequenceHas
  <2>3. PICK g \in ExternalGateways(i, wild) : g.service = s /\ server \in g.servers
    BY <1>4, <1>6, <2>2, TLSGatewayHas DEF ExternalGateways, Visibilities
  <2>4. \A d \in ExternalGateways(i, wild) : IsGateway(d)
    BY TLSGatewaysShaped DEF ExternalGateways, OfVisibility, Shaped, Visibilities
  <2> HIDE DEF server
  <2>5. PICK h \in WithHTTP(i, wild) : h.key = g.key /\ h.service = g.service /\ g.servers \subseteq h.servers
    BY <2>4, HTTPGatewaysExtend DEF WithHTTP
  <2>6. h \in gateways /\ h.key \in FinalNames(i, wild)[v] /\ h.service = s /\ server \in h.servers
    BY <1>1, <1>6, <2>3, <2>5, FinalNamesAre DEF GetQualifiedGatewayNames
  <2> QED BY <1>2, <2>1, <2>6, ServedByOwn DEF server
<1>7. CASE v = "ClusterLocal"
  <2> DEFINE server == TLSServer(t.hosts, HTTPSPort(v), CredentialName(t.secret, targetSecret(t.secret, Object(i)), s))
  <2>1. CopyThere(i, t.secret, targetSecret(t.secret, Object(i)), s)
    BY <1>1, <1>2, <1>7 DEF LocalThere
  <2>2. PICK g \in LocalGateways(i) : g.service = s /\ server \in g.servers
    BY <1>4, <1>7, TLSGatewayHas DEF LocalGateways
  <2> HIDE DEF server
  <2>3. g \in gateways /\ g.key \in FinalNames(i, wild)[v]
    BY <1>1, <1>7, <2>2, FinalNamesAre DEF GetQualifiedGatewayNames
  <2> QED BY <1>2, <2>1, <2>2, <2>3, ServedByOwn DEF server
<1> QED BY <1>5, <1>6, <1>7 DEF Visibilities

(* Every host of an Ingress at rest with a TLS entry is served with the        *)
(* certificate that its origin holds now, on the pods of every gateway the     *)
(* Ingress has, for any number of Ingresses that share certificates, copies    *)
(* and Gateways, and every order of their reconciliations, edits, deletions,   *)
(* renewals and changes of the configuration (reconcileIngress,                *)
(* reconcileCertSecrets, reconcileWildcardGateways, DeleteCopies).             *)
THEOREM EncryptedHostsCorrect == Spec => []EncryptedHostsServed
<1>1. ASSUME GatewayInv, NEW i \in Ingresses, InGateways(i), NEW v \in Visibilities, v = "ClusterLocal" => localTLS,
             NEW t \in ToSet(GetIngressTLSForVisibility(Object(i), v)),
             NEW r \in RulesOf(Object(i), v), NEW s \in ToSet(ServicesOf(Now(i))), NEW h \in r.hosts \cap t.hosts,
             \A c \in ShownFor(i, t.secret) : \E d \in ToSet(c.dns) : Covers(d, h)
      PROVE  HostServed(Bound(i), v, t.secret, s, h)
  <2>1. Functions
    BY <1>1 DEF GatewayInv, Inv
  <2>2. PICK wild : Served(i, wild) /\ vs[i] = MakeVirtualServices(Object(i), FinalNames(i, wild))
    BY <1>1, ServedAtRest
  <2>3. PICK n \in DOMAIN spec[i].rules : r = spec[i].rules[n] /\ r.visibility = v
    BY <2>1, ObjectShape DEF RulesOf, ToSet
  <2>4. h \in Hosts
    <3>1. spec[i].rules \in Seq(IngressRules)
      BY <2>1, ObjectShape DEF IsIngress
    <3>2. r \in IngressRules
      BY <2>3, <3>1
    <3> QED BY <1>1, <3>2 DEF IngressRules
  <2>5. HostServed(FinalNames(i, wild)[v], v, t.secret, s, h)
    BY <1>1, <2>1, <2>2, <2>4, HostIsServed DEF ServicesNow
  <2>6. FinalNames(i, wild)[v] # {}
    BY <2>5 DEF HostServed
  <2> DEFINE x == MakeIngressVirtualService(Object(i), FinalNames(i, wild))
  <2>7. x \in IngressVS(i) /\ FinalNames(i, wild)[v] \subseteq x.gateways
    BY <1>1, <2>1, <2>2, <2>3, <2>6, IngressVSAre
  <2> HIDE DEF x
  <2>8. FinalNames(i, wild)[v] \subseteq Bound(i)
    BY <2>7 DEF Bound
  <2> QED BY <2>5, <2>8 DEF HostServed
<1>2. GatewayInv => EncryptedHostsServed
  BY <1>1 DEF EncryptedHostsServed, HostServed
<1> QED BY <1>2, SpecGatewayInv, PTL

-----------------------------------------------------------------------------
(***************************************************************************)
(* Requests for the hosts of an Ingress at rest.                           *)
(***************************************************************************)

(* A request that is no probe is answered by the first route of a rule that *)
(* matches.                                                                 *)
LEMMA AnsweredByRule ==
  ASSUME NEW ing, IsIngress(ing), NEW gws, NEW hosts, NEW x, x = makeVirtualServiceSpec(ing, gws, hosts),
         NEW req, req.probe = FALSE, Route(x, req) # 0
  PROVE  \E m \in DOMAIN ing.rules : \E p \in 1 .. PathCount(ing, m) :
           /\ x.http[Route(x, req)] = RouteFor(ing, gws, hosts, m, p, FALSE)
           /\ Matches(x, RouteFor(ing, gws, hosts, m, p, FALSE), req)
           /\ \A q \in 1 .. PathCount(ing, m) : Matches(x, RouteFor(ing, gws, hosts, m, q, FALSE), req) => p <= q
<1>1. IsSequence(x.http) /\ \E start : IsRouting(start, ing, gws, hosts, x.http)
  BY SpecRouting DEF IsIngress
<1>2. PICK start : IsRouting(start, ing, gws, hosts, x.http)
  BY <1>1
<1>3. PICK k : k = Route(x, req)
  OBVIOUS
<1>4. k \in DOMAIN x.http /\ Matches(x, x.http[k], req) /\ \A j \in DOMAIN x.http : Matches(x, x.http[j], req) => k <= j
  BY <1>1, <1>3, RouteIsFirst
<1>5. PICK m \in DOMAIN ing.rules : \E p \in 1 .. PathCount(ing, m) :
        ServedHosts(ing, hosts, m) # {} /\ k \in {start[m] + p, start[m] + (PathCount(ing, m) + p)}
  BY <1>2, <1>4 DEF IsRouting
<1>6. PICK p \in 1 .. PathCount(ing, m) :
        ServedHosts(ing, hosts, m) # {} /\ k \in {start[m] + p, start[m] + (PathCount(ing, m) + p)}
  BY <1>5
<1>7. /\ start[m] \in Nat /\ PathCount(ing, m) \in Nat
      /\ \A q \in 1 .. PathCount(ing, m) :
           /\ x.http[start[m] + q] = RouteFor(ing, gws, hosts, m, q, TRUE)
           /\ start[m] + (PathCount(ing, m) + q) \in DOMAIN x.http
           /\ x.http[start[m] + (PathCount(ing, m) + q)] = RouteFor(ing, gws, hosts, m, q, FALSE)
  <2>1. PathCount(ing, m) \in Nat
    BY RuleShape
  <2> QED BY <1>2, <1>6, <2>1 DEF IsRouting
<1>8. k = start[m] + (PathCount(ing, m) + p)
  <2>1. SUFFICES ASSUME k = start[m] + p PROVE FALSE
    BY <1>6
  <2>2. PICK b \in BOOLEAN : b = TRUE /\ x.http[k] = RouteFor(ing, gws, hosts, m, p, b)
    BY <1>7, <2>1
  <2>3. x.http[k].probe = b
    <3>1. RouteFor(ing, gws, hosts, m, p, b).probe = b
      BY Zenon DEF RouteFor, makeVirtualServiceRoute
    <3> QED BY <2>2, <3>1, Zenon
  <2> QED BY <1>4, <2>2, <2>3 DEF Matches
<1>9. x.http[k] = RouteFor(ing, gws, hosts, m, p, FALSE)
  BY <1>7, <1>8
<1>10. ASSUME NEW q \in 1 .. PathCount(ing, m), Matches(x, RouteFor(ing, gws, hosts, m, q, FALSE), req) PROVE p <= q
  <2>1. k <= start[m] + (PathCount(ing, m) + q)
    BY <1>4, <1>7, <1>10
  <2> QED BY <1>7, <1>8, <2>1
<1> QED BY <1>3, <1>4, <1>9, <1>10

(* Only its own rule has a prefix that matches a host, or a short name of it. *)
LEMMA RuleByHost ==
  ASSUME NEW ing, IsIngress(ing), RulesApart(ing), NEW n \in DOMAIN ing.rules, NEW h \in ing.rules[n].hosts,
         NEW name \in ExpandedHosts({h}), NEW m \in DOMAIN ing.rules, NEW e \in ing.rules[m].hosts,
         IsPrefix(hostPrefix(e), name)
  PROVE  m = n
<1>1. h \in Seq(Nat) /\ e \in Seq(Nat)
  BY RuleShape
<1>2. name \in Seq(Nat) /\ IsPrefix(name, h)
  BY <1>1, ExpandedIsPrefix
<1>3. /\ hostPrefix(e) \in Seq(Nat) /\ hostPrefix(h) \in Seq(Nat)
      /\ IsPrefix(hostPrefix(h), h)
  BY <1>1, HostPrefixOf
<1>4. IsPrefix(hostPrefix(e), h)
  BY <1>1, <1>2, <1>3, PrefixTransitive
<1>5. IsPrefix(hostPrefix(e), hostPrefix(h)) \/ IsPrefix(hostPrefix(h), hostPrefix(e))
  BY <1>1, <1>3, <1>4, PrefixesComparable
<1> QED BY <1>5 DEF RulesApart

(* The gateways of a visibility that the configuration gives to an Ingress are *)
(* none only if it has none.                                                   *)
LEMMA LocalNamesThere ==
  ASSUME Functions, NEW i \in Ingresses, istio["ClusterLocal"] # <<>>
  PROVE  LocalNames(i) # {}
<1> DEFINE selected == GatewaysFromContext(Parsed(config), spec[i].labels)["ClusterLocal"]
           entries == {Parsed(config)["ClusterLocal"][n] : n \in DOMAIN Parsed(config)["ClusterLocal"]}
<1>1. selected \in Seq(entries) /\ selected # <<>>
  BY NetworkingAssumption, SelectedGateways DEF Functions, istio, Visibilities
<1>2. Selected(Now(i))["ClusterLocal"] = selected
  BY DEF Selected, Now, istio, Object
<1> HIDE DEF selected, entries
<1>3. 1 \in DOMAIN selected
  BY <1>1
<1> QED BY <1>2, <1>3 DEF LocalNames, NamesOf

(* The VirtualService for gateways is bound to names of one visibility or the *)
(* other.                                                                     *)
LEMMA BoundNames ==
  ASSUME Functions, NEW i \in Ingresses, NEW wild, vs[i] = MakeVirtualServices(Object(i), FinalNames(i, wild)),
         NEW key \in Bound(i)
  PROVE  \E v \in Visibilities : key \in FinalNames(i, wild)[v]
<1>1. PICK x \in IngressVS(i) : key \in x.gateways
  BY DEF Bound
<1>2. x = makeVirtualServiceSpec(Object(i), FinalNames(i, wild), ExpandedHosts(getHosts(Object(i))))
  <2>1. x.gateways = {} \/ x = MakeIngressVirtualService(Object(i), FinalNames(i, wild))
    BY <1>1, IngressVSAre
  <2> QED BY <1>1, <2>1 DEF MakeIngressVirtualService
<1> QED BY <1>1, <1>2, ObjectShape, SpecGateways

(* A Gateway that the Ingress is bound to and that serves hosts of a visibility *)
(* is one of those for the visibility.                                          *)
LEMMA BoundFor ==
  ASSUME Functions, NEW i \in Ingresses, NEW wild, vs[i] = MakeVirtualServices(Object(i), FinalNames(i, wild)),
         NEW g, Shaped(g), g.key \in Bound(i), NEW v \in Visibilities, NEW host, ServersFor(g, v, host) # {}
  PROVE  g.key \in FinalNames(i, wild)[v]
<1>1. PICK u \in Visibilities : g.key \in FinalNames(i, wild)[u]
  BY BoundNames
<1>2. g.key.name.kind # "configured"
  BY DEF Shaped
<1>3. g.key.name.visibility = u
  BY <1>1, <1>2, FinalNamesAre, NamesTell DEF Visibilities
<1>4. PICK x \in g.servers : x.port \in Ports(v) /\ x.port \in Ports(u)
  BY <1>3 DEF ServersFor, Shaped
<1>5. u = v
  BY <1>4 DEF Ports, HTTPSPort, Visibilities
<1> QED BY <1>1, <1>5

(* Where clients of a host come in is among the gateways of its visibility. *)
LEMMA EntryPointsNamed ==
  ASSUME GatewayInv, NEW i \in Ingresses, NEW wild, vs[i] = MakeVirtualServices(Object(i), FinalNames(i, wild)),
         NEW v \in Visibilities, NEW host, NEW key \in EntryPoints(i, v, host)
  PROVE  key \in FinalNames(i, wild)[v]
<1>1. Functions /\ \A g \in gateways : Shaped(g)
  BY DEF GatewayInv, Inv, Rest
<1>2. CASE \E g \in gateways : key = g.key /\ g.key \in Bound(i) /\ ServersFor(g, v, host) # {}
  BY <1>1, <1>2, BoundFor
<1>3. CASE key \in NamesOf(IF v = "ExternalIP" /\ shouldReconcileHTTPServer(Object(i)) THEN <<>> ELSE Selected(Now(i))[v])
  <2>1. NamesOf(<<>>) = {}
    BY DEF NamesOf, ToSet
  <2>2. CASE v = "ExternalIP"
    <3>1. key \in DefaultNames(i)
      BY <1>3, <2>1, <2>2 DEF DefaultNames, External
    <3> QED BY <2>2, <3>1, FinalNamesAre
  <2>3. CASE v = "ClusterLocal"
    <3>1. key \in LocalNames(i)
      BY <1>3, <2>3 DEF LocalNames
    <3> QED BY <2>3, <3>1, FinalNamesAre
  <2> QED BY <2>2, <2>3 DEF Visibilities
<1> QED BY <1>2, <1>3 DEF EntryPoints

(* The ways in for cluster-local hosts are all names for them: each Gateway of *)
(* the Ingress has a server for one of these hosts.                            *)
LEMMA LocalNamesAreEntries ==
  ASSUME Functions, NEW i \in Ingresses, NEW wild, Served(i, wild), NEW host \in LocalHosts(i),
         NEW key \in FinalNames(i, wild)["ClusterLocal"], key \in Bound(i)
  PROVE  \E l \in LocalHosts(i) : key \in EntryPoints(i, "ClusterLocal", l)
<1>1. CASE key \in LocalNames(i)
  BY <1>1 DEF LocalNames, EntryPoints
<1>2. CASE key \in GetQualifiedGatewayNames(LocalGateways(i))
  <2> DEFINE tls == GetIngressTLSForVisibility(Object(i), "ClusterLocal")
             services == ServicesOf(Now(i))
             ing == Object(i)
  <2>1. PICK g \in LocalGateways(i) : key = g.key
    BY <1>2 DEF GetQualifiedGatewayNames
  <2>2. g \in gateways
    BY <2>1 DEF Served
  <2>3. /\ tls # <<>>
        /\ \E s \in ToSet(services) : g = makeIngressGateway(ing, "ClusterLocal", MakeTLSServers(ing, "ClusterLocal", tls, s), s)
    BY <2>1 DEF LocalGateways, MakeIngressTLSGateways
  <2>4. PICK s : g.servers = MakeTLSServers(ing, "ClusterLocal", tls, s)
    BY <2>3 DEF makeIngressGateway
  <2>5. IsIngress(ing) /\ IsSequence(tls) /\ \A t \in ToSet(tls) : CoversRule(ing, "ClusterLocal", t)
    BY ObjectShape, TLSEntries DEF IsIngress
  <2> HIDE DEF tls, services, ing
  <2>6. PICK t : t \in ToSet(tls)
    <3>1. 1 \in DOMAIN tls
      BY <2>3, <2>5 DEF IsSequence
    <3> QED BY <3>1 DEF ToSet
  <2>7. PICK m \in DOMAIN ing.rules :
          ing.rules[m].visibility = "ClusterLocal" /\ ing.rules[m].hosts # {} /\ ing.rules[m].hosts \subseteq t.hosts
    BY <2>5, <2>6 DEF CoversRule
  <2>8. PICK l \in ing.rules[m].hosts : l \in t.hosts
    BY <2>7
  <2>9. l \in Hosts
    <3>1. ing.rules[m] \in IngressRules
      BY <2>5 DEF IsIngress
    <3> QED BY <3>1 DEF IngressRules
  <2>10. l \in LocalHosts(i)
    BY <2>7 DEF LocalHosts, getClusterLocalIngressRules, RulesOf, ToSet, ing
  <2> DEFINE credential == CredentialName(t.secret, targetSecret(t.secret, ing), s)
             server == TLSServer(t.hosts, HTTPSPort("ClusterLocal"), credential)
  <2>11. server \in g.servers
    BY <2>4, <2>6 DEF MakeTLSServers
  <2>12. server \in ServersFor(g, "ClusterLocal", l)
    <3>1. PICK c, x : c = credential /\ x = TLSServer(t.hosts, HTTPSPort("ClusterLocal"), c)
      OBVIOUS
    <3>2. Covers(l, l) /\ x \in g.servers /\ "ClusterLocal" \in Visibilities
      BY <2>9, <2>11, <3>1, CoversItself DEF Visibilities
    <3>3. x \in ServersFor(g, "ClusterLocal", l)
      BY <2>8, <3>1, <3>2, TLSServerFor
    <3> QED BY <3>1, <3>3
  <2> QED BY <2>1, <2>2, <2>10, <2>12 DEF EntryPoints
<1> QED BY <1>1, <1>2, FinalNamesAre

(* A cluster-local host of an Ingress at rest is not routed at a gateway that  *)
(* is no way in for any cluster-local host of it, under any of its names, for  *)
(* any number of Ingresses and every order of their reconciliations and of     *)
(* changes of the configuration (makeVirtualServiceSpec, hostPrefix, Match).   *)
THEOREM OnlyWhereVisibleCorrect == Spec => []ServedOnlyWhereVisible
<1>1. ASSUME GatewayInv, NEW i \in Ingresses, InGateways(i), RulesApart(Object(i)), istio["ClusterLocal"] # <<>>,
             NEW r \in getClusterLocalIngressRules(Object(i)), NEW h \in ExpandedHosts(r.hosts), NEW path,
             NEW x \in IngressVS(i),
             NEW key \in Bound(i) \ UNION {EntryPoints(i, "ClusterLocal", l) : l \in LocalHosts(i)}
      PROVE  Route(x, Request(key, h, path)) = 0
  <2>1. SUFFICES ASSUME Route(x, Request(key, h, path)) # 0 PROVE FALSE
    OBVIOUS
  <2> DEFINE ing == Object(i)
             hosts == ExpandedHosts(getHosts(ing))
  <2>2. Functions
    BY <1>1 DEF GatewayInv, Inv
  <2>3. PICK wild : Served(i, wild) /\ vs[i] = MakeVirtualServices(Object(i), FinalNames(i, wild))
    BY <1>1, ServedAtRest
  <2>4. PICK names : names = FinalNames(i, wild)
    OBVIOUS
  <2>5. PICK n \in DOMAIN ing.rules : r = ing.rules[n] /\ r.visibility = "ClusterLocal"
    BY <1>1 DEF getClusterLocalIngressRules, RulesOf, ToSet
  <2>6. PICK g \in r.hosts : h \in ExpandedHosts({g})
    BY <1>1 DEF ExpandedHosts
  <2>7. IsIngress(ing)
    BY <2>2, ObjectShape
  <2>8. PICK req : req = Request(key, h, path)
    OBVIOUS
  <2>9. req.probe = FALSE /\ req.gateway = key /\ req.host = h
    BY <2>8 DEF Request
  <2>10. x = makeVirtualServiceSpec(ing, names, hosts)
    <3>1. x.gateways = {} \/ x = MakeIngressVirtualService(ing, names)
      BY <1>1, <2>2, <2>3, <2>4, IngressVSAre
    <3>2. req.gateway \in x.gateways
      <4>1. Route(x, req) # 0
        BY <2>1, <2>8
      <4> QED BY <4>1 DEF Route
    <3> QED BY <3>1, <3>2 DEF MakeIngressVirtualService
  <2> HIDE DEF ing, hosts
  <2>11. PICK m \in DOMAIN ing.rules : \E p \in 1 .. PathCount(ing, m) :
           Matches(x, RouteFor(ing, names, hosts, m, p, FALSE), req)
    BY <2>1, <2>7, <2>8, <2>9, <2>10, AnsweredByRule
  <2>12. PICK p : Matches(x, RouteFor(ing, names, hosts, m, p, FALSE), req)
    BY <2>11
  <2>13. PICK e \in ing.rules[m].hosts :
           /\ IsPrefix(hostPrefix(e), h)
           /\ names[ing.rules[m].visibility] = {} \/ key \in names[ing.rules[m].visibility]
    <3>1. PICK b \in BOOLEAN : Matches(x, RouteFor(ing, names, hosts, m, p, b), req)
      BY <2>12
    <3> QED BY <2>7, <2>9, <3>1, MatchNamesRule
  <2>14. m = n
    BY <1>1, <2>5, <2>6, <2>7, <2>13, RuleByHost DEF ing
  <2>15. key \in FinalNames(i, wild)["ClusterLocal"]
    <3>1. FinalNames(i, wild)["ClusterLocal"] # {}
      BY <1>1, <2>2, LocalNamesThere, FinalNamesAre
    <3> QED BY <2>4, <2>5, <2>13, <2>14, <3>1
  <2>16. g \in LocalHosts(i)
    BY <1>1, <2>6 DEF LocalHosts
  <2>17. \E l \in LocalHosts(i) : key \in EntryPoints(i, "ClusterLocal", l)
    BY <1>1, <2>2, <2>3, <2>15, <2>16, LocalNamesAreEntries
  <2> QED BY <1>1, <2>17
<1>2. GatewayInv => ServedOnlyWhereVisible
  BY <1>1 DEF ServedOnlyWhereVisible
<1> QED BY <1>2, SpecGatewayInv, PTL

(* All routes of a rule match the hosts that start with the prefix of a host of *)
(* it, at the gateways of the rule.                                             *)
LEMMA HostMatched ==
  ASSUME NEW ing, IsIngress(ing), NEW gws, NEW hosts, NEW n \in DOMAIN ing.rules,
         ServedHosts(ing, hosts, n) = ing.rules[n].hosts, NEW h \in ing.rules[n].hosts,
         NEW name \in Seq(Nat), IsPrefix(hostPrefix(h), name), NEW key \in gws[ing.rules[n].visibility],
         NEW q, NEW b \in BOOLEAN
  PROVE  \E m \in RouteFor(ing, gws, hosts, n, q, b).matches :
           IsPrefix(m.prefix, name) /\ (m.gateways = {} \/ key \in m.gateways)
<1> DEFINE served == ing.rules[n].hosts
           g == gws[ing.rules[n].visibility]
           route == RouteFor(ing, gws, hosts, n, q, b)
<1>1. served \in SUBSET Seq(Nat) /\ IsFiniteSet(served)
  BY RuleShape
<1>2. h \in Seq(Nat) /\ hostPrefix(h) \in Seq(Nat)
  BY <1>1, HostPrefixOf
<1>3. PICK e \in getDistinctHostPrefixes(served) : IsPrefix(e, hostPrefix(h)) /\ e \in Seq(Nat)
  <2>1. PICK e \in getDistinctHostPrefixes(served) : IsPrefix(e, hostPrefix(h))
    BY <1>1, DistinctPrefixes
  <2>2. PICK k \in served : e = hostPrefix(k)
    BY <1>1, DistinctPrefixes
  <2> QED BY <1>1, <2>1, <2>2, HostPrefixOf
<1>4. IsPrefix(e, name)
  BY <1>2, <1>3, PrefixTransitive
<1>5. route.matches = {makeMatch(k, g) : k \in getDistinctHostPrefixes(served)}
  BY RouteFields
<1> HIDE DEF route
<1> DEFINE m == makeMatch(e, g)
<1>6. m \in route.matches
  BY <1>3, <1>5
<1>7. m.prefix = e /\ m.gateways = g
  BY DEF makeMatch
<1> HIDE DEF m
<1> QED BY <1>4, <1>6, <1>7 DEF route

(* Which routes of a rule answer a request for a host of it, under any of its *)
(* names, that comes in at a gateway of the rule: the ones whose path fits.   *)
LEMMA MatchesByPath ==
  ASSUME NEW ing, IsIngress(ing), NEW gws, NEW hosts, NEW n \in DOMAIN ing.rules,
         ServedHosts(ing, hosts, n) = ing.rules[n].hosts, NEW h \in ing.rules[n].hosts,
         IsSuffix(DomainSuffix, h) => IsSuffix(LocalSuffix, h), NEW name \in ExpandedHosts({h}),
         NEW x, NEW req, req.host = name, req.probe = FALSE, req.gateway \in gws[ing.rules[n].visibility], NEW q
  PROVE  Matches(x, RouteFor(ing, gws, hosts, n, q, FALSE), req) <=> ing.rules[n].paths[q] \in {"", req.path}
<1> DEFINE route == RouteFor(ing, gws, hosts, n, q, FALSE)
<1>1. h \in Seq(Nat) /\ name \in Seq(Nat) /\ IsPrefix(hostPrefix(h), name)
  BY RuleShape, ExpandedIsPrefix, PrefixOfExpanded
<1>2. \E m \in route.matches : IsPrefix(m.prefix, req.host) /\ (m.gateways = {} \/ req.gateway \in m.gateways)
  <2>1. PICK b \in BOOLEAN : route = RouteFor(ing, gws, hosts, n, q, b)
    OBVIOUS
  <2> HIDE DEF route
  <2> QED BY <1>1, <2>1, HostMatched
<1>3. route.path = ing.rules[n].paths[q]
  BY Zenon DEF RouteFor, makeVirtualServiceRoute
<1>4. ~route.probe
  BY Zenon DEF RouteFor, makeVirtualServiceRoute
<1> HIDE DEF route
<1> QED BY <1>2, <1>3, <1>4, Zenon DEF Matches, route

(* The first entry that is one of these. *)
IsFirst(p, paths, fits) == paths[p] \in fits /\ \A q \in DOMAIN paths : paths[q] \in fits => p <= q

(* A request for a host of a rule comes in at a gateway of the rule, where the *)
(* Ingress has its VirtualService.                                             *)
ComesIn(req, x, ing, names, n, h) ==
  /\ IsIngress(ing) /\ RulesApart(ing) /\ n \in DOMAIN ing.rules /\ h \in ing.rules[n].hosts
  /\ IsSuffix(DomainSuffix, h) => IsSuffix(LocalSuffix, h)
  /\ x = MakeIngressVirtualService(ing, names)
  /\ req.host \in ExpandedHosts({h}) /\ req.probe = FALSE /\ req.path \in ToSet(ing.rules[n].paths)
  /\ req.gateway \in names[ing.rules[n].visibility] /\ req.gateway \in x.gateways

(* The rule answers, by the first of its paths that fits. *)
AnsweredBy(req, x, n, paths) ==
  /\ Route(x, req) # 0 /\ x.http[Route(x, req)].rule = n
  /\ \E p \in DOMAIN paths : x.http[Route(x, req)].path = paths[p] /\ IsFirst(p, paths, {"", req.path})

(* A request for a host of a rule that comes in at a gateway of the rule is *)
(* answered by the rule, and by the first of its paths that fits.           *)
LEMMA RoutedByVirtualService ==
  ASSUME NEW ing, NEW names, NEW n, NEW h, NEW x, NEW req, ComesIn(req, x, ing, names, n, h)
  PROVE  AnsweredBy(req, x, n, ing.rules[n].paths)
<1>0. /\ IsIngress(ing) /\ RulesApart(ing) /\ n \in DOMAIN ing.rules /\ h \in ing.rules[n].hosts
      /\ IsSuffix(DomainSuffix, h) => IsSuffix(LocalSuffix, h)
      /\ x = MakeIngressVirtualService(ing, names)
      /\ req.host \in ExpandedHosts({h}) /\ req.probe = FALSE /\ req.path \in ToSet(ing.rules[n].paths)
      /\ req.gateway \in names[ing.rules[n].visibility] /\ req.gateway \in x.gateways
  BY Zenon DEF ComesIn
<1> USE <1>0
<1> DEFINE hosts == ExpandedHosts(getHosts(ing))
           paths == ing.rules[n].paths
           name == req.host
           path == req.path
<1>1. x = makeVirtualServiceSpec(ing, names, hosts)
  BY DEF MakeIngressVirtualService
<1>2. ServedHosts(ing, hosts, n) = ing.rules[n].hosts
  BY AllHostsServed
<1>3. name \in hosts
  <2>1. h \in getHosts(ing)
    BY DEF getHosts, ToSet
  <2> QED BY <2>1 DEF ExpandedHosts
<1> HIDE DEF hosts
<1>4. DOMAIN paths = 1 .. PathCount(ing, n)
  BY RuleShape DEF IsSequence, PathCount
<1>5. IsSequence(x.http) /\ x.hosts = hosts /\ \E start : IsRouting(start, ing, names, hosts, x.http)
  BY <1>1, SpecRouting DEF IsIngress
<1>6. \A q \in DOMAIN paths : Matches(x, RouteFor(ing, names, hosts, n, q, FALSE), req) <=> paths[q] \in {"", path}
  BY <1>2, MatchesByPath
<1>7. Route(x, req) # 0
  <2>1. PICK q \in DOMAIN paths : paths[q] = path
    BY DEF ToSet
  <2>2. PICK start : IsRouting(start, ing, names, hosts, x.http)
    BY <1>5
  <2>3. PICK k \in DOMAIN x.http : x.http[k] = RouteFor(ing, names, hosts, n, q, FALSE)
    BY <1>2, <1>4, <2>2 DEF IsRouting
  <2>4. Matches(x, x.http[k], req)
    BY <1>6, <2>1, <2>3
  <2> QED BY <1>3, <1>5, <2>4, RouteIsFirst
<1>8. PICK m \in DOMAIN ing.rules : \E p \in 1 .. PathCount(ing, m) :
        /\ x.http[Route(x, req)] = RouteFor(ing, names, hosts, m, p, FALSE)
        /\ Matches(x, RouteFor(ing, names, hosts, m, p, FALSE), req)
        /\ \A q \in 1 .. PathCount(ing, m) : Matches(x, RouteFor(ing, names, hosts, m, q, FALSE), req) => p <= q
  BY <1>1, <1>7, AnsweredByRule
<1>9. PICK p \in 1 .. PathCount(ing, m) :
        /\ x.http[Route(x, req)] = RouteFor(ing, names, hosts, m, p, FALSE)
        /\ Matches(x, RouteFor(ing, names, hosts, m, p, FALSE), req)
        /\ \A q \in 1 .. PathCount(ing, m) : Matches(x, RouteFor(ing, names, hosts, m, q, FALSE), req) => p <= q
  BY <1>8
<1>10. PICK e \in ing.rules[m].hosts : IsPrefix(hostPrefix(e), name)
  <2>1. PICK b \in BOOLEAN : Matches(x, RouteFor(ing, names, hosts, m, p, b), req)
    BY <1>9
  <2> QED BY <2>1, MatchNamesRule
<1>11. m = n
  BY <1>10, RuleByHost
<1>12. x.http[Route(x, req)].rule = n /\ x.http[Route(x, req)].path = paths[p]
  <2>1. PICK b \in BOOLEAN : x.http[Route(x, req)] = RouteFor(ing, names, hosts, n, p, b)
    BY <1>9, <1>11
  <2>2. PICK route : route = x.http[Route(x, req)]
    OBVIOUS
  <2>3. route.rule = n /\ route.path = paths[p]
    BY <2>1, <2>2, RouteFields
  <2> QED BY <2>2, <2>3
<1>13. p \in DOMAIN paths /\ IsFirst(p, paths, {"", path})
  BY <1>4, <1>6, <1>9, <1>11 DEF IsFirst
<1> QED BY <1>7, <1>12, <1>13 DEF AnsweredBy

(* The first path that fits is the one that a search finds. *)
LEMMA FirstThatFits ==
  ASSUME NEW paths, IsSequence(paths), NEW fits, NEW p \in DOMAIN paths, IsFirst(p, paths, fits)
  PROVE  LET Here(s) == s \in fits IN SelectInSeq(paths, Here) = p
<1> DEFINE I == {k \in 1 .. Len(paths) : paths[k] \in fits}
<1>1. DOMAIN paths = 1 .. Len(paths) /\ Len(paths) \in Nat
  BY DEF IsSequence
<1>2. I \in SUBSET Nat /\ p \in I /\ \A q \in I : p <= q
  BY <1>1 DEF IsFirst
<1>3. (LET Here(s) == s \in fits IN SelectInSeq(paths, Here)) = IF I # {} THEN Min(I) ELSE 0
  BY DEF SelectInSeq
<1> HIDE DEF I
<1>4. Min(I) \in I /\ \A q \in I : Min(I) <= q
  BY <1>2, LeastOf
<1>5. Min(I) = p
  <2>1. PICK q : q = Min(I)
    OBVIOUS
  <2>2. q \in Nat /\ p \in Nat /\ p <= q /\ q <= p
    BY <1>2, <1>4, <2>1
  <2> QED BY <2>1, <2>2
<1> QED BY <1>2, <1>3, <1>5

(* A request for a host of an Ingress at rest, under any of its names, that    *)
(* comes in where the host's rule is visible, is routed to that rule and to    *)
(* the first of its paths that fits, for any rules whose hosts are apart, any  *)
(* number of Ingresses and every order of their reconciliations and of changes *)
(* of the configuration (makeVirtualServiceSpec, getDistinctHostPrefixes,      *)
(* InsertProbe, reconcileIngress).                                             *)
THEOREM RoutingCorrect == Spec => []RoutedToItsRule
<1>1. ASSUME GatewayInv, NEW i \in Ingresses, InGateways(i), RulesApart(Object(i)), NEW n \in DOMAIN spec[i].rules,
             NEW h \in spec[i].rules[n].hosts, IsSuffix(DomainSuffix, h) => IsSuffix(LocalSuffix, h),
             NEW key \in EntryPoints(i, spec[i].rules[n].visibility, h),
             NEW name \in ExpandedHosts({h}), NEW path \in ToSet(spec[i].rules[n].paths)
      PROVE  \E x \in IngressVS(i) :
               LET k == Route(x, Request(key, name, path))
                   Here(p) == p \in {"", path}
               IN /\ k # 0 /\ x.http[k].rule = n
                  /\ x.http[k].path = spec[i].rules[n].paths[SelectInSeq(spec[i].rules[n].paths, Here)]
  <2>1. PICK ing : ing = Object(i)
    OBVIOUS
  <2> DEFINE v == ing.rules[n].visibility
             paths == ing.rules[n].paths
  <2>2. Functions
    BY <1>1 DEF GatewayInv, Inv
  <2>3. IsIngress(ing) /\ ing.rules = spec[i].rules
    BY <2>1, <2>2, ObjectShape
  <2>4. v \in Visibilities /\ IsSequence(paths)
    BY <2>3, RuleShape
  <2>5. PICK wild : vs[i] = MakeVirtualServices(Object(i), FinalNames(i, wild))
    BY <1>1, ServedAtRest
  <2>6. key \in FinalNames(i, wild)[v]
    BY <1>1, <2>3, <2>4, <2>5, EntryPointsNamed
  <2>7. PICK x : x = MakeIngressVirtualService(ing, FinalNames(i, wild))
    OBVIOUS
  <2>8. x \in IngressVS(i) /\ FinalNames(i, wild)[v] \subseteq x.gateways
    BY <1>1, <2>1, <2>2, <2>3, <2>5, <2>6, <2>7, IngressVSAre
  <2>9. PICK req, names : req = Request(key, name, path) /\ names = FinalNames(i, wild)
    OBVIOUS
  <2>10. /\ req.host \in ExpandedHosts({h}) /\ req.probe = FALSE /\ req.path = path /\ req.gateway \in names[v]
         /\ req.gateway \in x.gateways /\ x = MakeIngressVirtualService(ing, names)
    BY <1>1, <2>6, <2>7, <2>8, <2>9 DEF Request
  <2>11. /\ n \in DOMAIN ing.rules /\ h \in ing.rules[n].hosts /\ req.path \in ToSet(paths) /\ RulesApart(ing)
         /\ IsSuffix(DomainSuffix, h) => IsSuffix(LocalSuffix, h)
    BY <1>1, <2>1, <2>3, <2>10
  <2>12. ComesIn(req, x, ing, names, n, h)
    BY <2>3, <2>10, <2>11, Zenon DEF ComesIn
  <2>13. AnsweredBy(req, x, n, paths)
    BY <2>12, RoutedByVirtualService
  <2>14. PICK p \in DOMAIN paths : x.http[Route(x, req)].path = paths[p] /\ IsFirst(p, paths, {"", path})
    BY <2>10, <2>13 DEF AnsweredBy
  <2>15. (LET Here(s) == s \in {"", path} IN SelectInSeq(paths, Here)) = p
    BY <2>4, <2>14, FirstThatFits
  <2> QED BY <2>3, <2>8, <2>9, <2>13, <2>14, <2>15 DEF AnsweredBy
<1>2. GatewayInv => RoutedToItsRule
  BY <1>1 DEF RoutedToItsRule
<1> QED BY <1>2, SpecGatewayInv, PTL

-----------------------------------------------------------------------------
(***************************************************************************)
(* Probes of an Ingress at rest.                                           *)
(***************************************************************************)

(* Any two names are in order. *)
LEMMA StringLessTotal ==
  ASSUME NEW s \in Seq(Nat), NEW t \in Seq(Nat), s # t
  PROVE  StringLess(s, t) \/ StringLess(t, s)
<1> DEFINE D == {n \in DOMAIN s \cap DOMAIN t : s[n] # t[n]}
<1>1. /\ DOMAIN s = 1 .. Len(s) /\ DOMAIN t = 1 .. Len(t) /\ Len(s) \in Nat /\ Len(t) \in Nat
      /\ \A n \in DOMAIN s : s[n] \in Nat
      /\ \A n \in DOMAIN t : t[n] \in Nat
  OBVIOUS
<1>2. CASE D = {}
  <2>1. \A n \in 1 .. Len(s) : n \in 1 .. Len(t) => s[n] = t[n]
    BY <1>1, <1>2
  <2>2. IsPrefix(s, t) \/ IsPrefix(t, s)
    <3>1. CASE Len(s) <= Len(t)
      <4>1. \A n \in 1 .. Len(s) : s[n] = t[n]
        BY <1>1, <2>1, <3>1
      <4> QED BY <3>1, <4>1, PrefixAgrees
    <3>2. CASE Len(t) <= Len(s)
      <4>1. \A n \in 1 .. Len(t) : t[n] = s[n]
        BY <1>1, <2>1, <3>2
      <4> QED BY <3>2, <4>1, PrefixAgrees
    <3> QED BY <1>1, <3>1, <3>2
  <2> QED BY <2>2 DEF StringLess, IsStrictPrefix
<1>3. CASE D # {}
  <2>1. D \in SUBSET Nat
    BY <1>1
  <2>2. Min(D) \in D /\ \A n \in D : Min(D) <= n
    <3> HIDE DEF D
    <3> QED BY <1>3, <2>1, LeastOf
  <2>3. PICK n \in D : \A m \in D : n <= m
    BY <2>2
  <2>4. \A m \in 1 .. n - 1 : m \in 1 .. Len(s) /\ m \in 1 .. Len(t) /\ m \notin D
    <3>1. n \in Nat /\ n <= Len(s) /\ n <= Len(t) /\ n >= 1
      BY <1>1, <2>3
    <3> HIDE DEF D
    <3>2. ASSUME NEW m \in 1 .. n - 1 PROVE m \in 1 .. Len(s) /\ m \in 1 .. Len(t) /\ ~(n <= m)
      BY <1>1, <3>1
    <3> QED BY <2>3, <3>2
  <2>5. \A m \in 1 .. n - 1 : s[m] = t[m]
    BY <1>1, <2>4
  <2>6. s[n] < t[n] \/ t[n] < s[n]
    BY <1>1
  <2> QED BY <2>5, <2>6 DEF StringLess
<1> QED BY <1>2, <1>3

(* The first of finitely many hosts is one of them. *)
LEMMA FirstIsOne ==
  ASSUME NEW P \in SUBSET Seq(Nat), IsFiniteSet(P), P # {}
  PROVE  (CHOOSE h \in P : \A other \in P \ {h} : StringLess(h, other)) \in P
<1>1. PICK g \in P : \A e \in P : ~StringLess(e, g)
  BY FirstHost
<1>2. \A other \in P \ {g} : StringLess(g, other)
  BY <1>1, StringLessTotal
<1> QED BY <1>2

(* The values of a function on a finite set are finitely many. *)
LEMMA ImageFinite ==
  ASSUME NEW S, NEW T, NEW f \in [S -> T], IsFiniteSet(S)
  PROVE  IsFiniteSet({f[x] : x \in S})
<1> DEFINE R == {f[x] : x \in S}
<1>1. f \in Surjection(S, R)
  BY DEF Surjection
<1> HIDE DEF R
<1>2. IsFiniteSet(R)
  BY <1>1, FS_Surjection
<1> QED BY <1>2 DEF R

(* Finitely many hosts have finitely many names. *)
LEMMA ExpandedFinite ==
  ASSUME NEW hosts \in SUBSET Seq(Nat), IsFiniteSet(hosts)
  PROVE  ExpandedHosts(hosts) \in SUBSET Seq(Nat) /\ IsFiniteSet(ExpandedHosts(hosts))
<1> DEFINE f == [h \in hosts |-> {h, TrimSuffix(h, DomainSuffix), TrimSuffix(h, LocalSuffix)}]
           parts == {f[h] : h \in hosts}
<1>1. ExpandedHosts(hosts) = UNION parts
  BY DEF ExpandedHosts
<1>2. ASSUME NEW h \in hosts PROVE f[h] \in SUBSET Seq(Nat) /\ IsFiniteSet(f[h])
  <2>1. f[h] = ({h} \cup {TrimSuffix(h, DomainSuffix)}) \cup {TrimSuffix(h, LocalSuffix)}
    OBVIOUS
  <2>2. f[h] \in SUBSET Seq(Nat)
    BY TrimIsPrefix, SuffixLengths
  <2>3. IsFiniteSet(({h} \cup {TrimSuffix(h, DomainSuffix)}) \cup {TrimSuffix(h, LocalSuffix)})
    <3>1. PICK a, b : a = TrimSuffix(h, DomainSuffix) /\ b = TrimSuffix(h, LocalSuffix)
      OBVIOUS
    <3>2. IsFiniteSet({h})
      BY FS_Singleton
    <3>3. IsFiniteSet({h} \cup {a})
      BY <3>2, FS_AddElement
    <3>4. IsFiniteSet(({h} \cup {a}) \cup {b})
      BY <3>3, FS_AddElement
    <3> QED BY <3>1, <3>4
  <2> QED BY <2>1, <2>2, <2>3
<1>3. f \in [hosts -> SUBSET Seq(Nat)]
  BY <1>2
<1> HIDE DEF f
<1>4. IsFiniteSet(parts)
  BY <1>3, ImageFinite
<1>5. \A part \in parts : part \in SUBSET Seq(Nat) /\ IsFiniteSet(part)
  BY <1>2
<1> HIDE DEF parts
<1>6. IsFiniteSet(UNION parts) /\ UNION parts \in SUBSET Seq(Nat)
  BY <1>4, <1>5, FS_UNION
<1> QED BY <1>1, <1>6

(* So have those of an Ingress that are probed at a gateway. *)
LEMMA ProbedHostsFinite ==
  ASSUME NEW ing, IsIngress(ing), NEW names, NEW key
  PROVE  /\ HostsPerVisibility(ing, names, key) \in SUBSET Seq(Nat)
         /\ IsFiniteSet(HostsPerVisibility(ing, names, key))
<1> DEFINE rules == {r \in ToSet(ing.rules) : key \in names[r.visibility]}
           chosen == {n \in DOMAIN ing.rules : key \in names[ing.rules[n].visibility]}
           f == [n \in chosen |-> ing.rules[n].hosts]
           parts == {f[n] : n \in chosen}
<1>1. HostsPerVisibility(ing, names, key) = ExpandedHosts(UNION {r.hosts : r \in rules})
  BY DEF HostsPerVisibility
<1>2. UNION {r.hosts : r \in rules} = UNION parts
  BY DEF ToSet
<1>3. \A n \in chosen : f[n] \in SUBSET Seq(Nat) /\ IsFiniteSet(f[n])
  BY RuleShape
<1>4. f \in [chosen -> SUBSET Seq(Nat)]
  BY <1>3
<1>5. IsFiniteSet(chosen)
  <2>1. DOMAIN ing.rules = 1 .. Len(ing.rules) /\ Len(ing.rules) \in Nat
    BY DEF IsIngress
  <2>2. IsFiniteSet(1 .. Len(ing.rules))
    BY <2>1, FS_Interval
  <2>3. chosen \in SUBSET (1 .. Len(ing.rules))
    BY <2>1
  <2> HIDE DEF chosen
  <2> QED BY <2>2, <2>3, FS_Subset
<1> HIDE DEF f, chosen
<1>6. IsFiniteSet(parts) /\ \A part \in parts : part \in SUBSET Seq(Nat) /\ IsFiniteSet(part)
  BY <1>3, <1>4, <1>5, ImageFinite
<1> HIDE DEF parts
<1>7. IsFiniteSet(UNION parts) /\ UNION parts \in SUBSET Seq(Nat)
  BY <1>6, FS_UNION
<1> QED BY <1>1, <1>2, <1>7, ExpandedFinite

(* The star covers every host. *)
LEMMA StarCovers == ASSUME NEW h \in Seq(Nat) PROVE Covers(<<Star>>, h)
<1>1. isWildcardHost(<<Star>>) /\ Tail(<<Star>>) = <<>>
  BY DEF isWildcardHost, Star
<1>2. Reverse(<<>>) = <<>>
  BY DEF Reverse
<1>3. IsPrefix(<<>>, Reverse(h))
  <2>1. PICK e, r : e = <<>> /\ r = Reverse(h)
    OBVIOUS
  <2>2. e \in Seq(Nat) /\ Len(e) = 0 /\ r \in Seq(Nat)
    BY <2>1, ReverseLength
  <2>3. Len(e) <= Len(r) /\ \A n \in 1 .. Len(e) : e[n] = r[n]
    BY <2>2
  <2>4. IsPrefix(e, r)
    BY <2>2, <2>3, PrefixAgrees
  <2> QED BY <2>1, <2>4
<1> QED BY <1>1, <1>2, <1>3 DEF Covers, IsSuffix

(* A probe route comes before the route that it is made of. *)
LEMMA ProbesFirst ==
  ASSUME NEW ing, IsIngress(ing), NEW gws, NEW hosts, NEW x, x = makeVirtualServiceSpec(ing, gws, hosts),
         NEW req, req.probe = TRUE, Route(x, req) # 0
  PROVE  x.http[Route(x, req)].probe = TRUE
<1>1. IsSequence(x.http) /\ \E start : IsRouting(start, ing, gws, hosts, x.http)
  BY SpecRouting DEF IsIngress
<1>2. PICK start : IsRouting(start, ing, gws, hosts, x.http)
  BY <1>1
<1>3. PICK k : k = Route(x, req)
  OBVIOUS
<1>4. k \in DOMAIN x.http /\ Matches(x, x.http[k], req) /\ \A j \in DOMAIN x.http : Matches(x, x.http[j], req) => k <= j
  BY <1>1, <1>3, RouteIsFirst
<1>5. PICK m \in DOMAIN ing.rules : \E p \in 1 .. PathCount(ing, m) :
        ServedHosts(ing, hosts, m) # {} /\ k \in {start[m] + p, start[m] + (PathCount(ing, m) + p)}
  BY <1>2, <1>4 DEF IsRouting
<1>6. PICK p \in 1 .. PathCount(ing, m) :
        ServedHosts(ing, hosts, m) # {} /\ k \in {start[m] + p, start[m] + (PathCount(ing, m) + p)}
  BY <1>5
<1>7. /\ start[m] \in Nat /\ PathCount(ing, m) \in Nat /\ PathCount(ing, m) >= 1
      /\ start[m] + p \in DOMAIN x.http
      /\ x.http[start[m] + p] = RouteFor(ing, gws, hosts, m, p, TRUE)
      /\ x.http[start[m] + (PathCount(ing, m) + p)] = RouteFor(ing, gws, hosts, m, p, FALSE)
  <2>1. PathCount(ing, m) \in Nat /\ PathCount(ing, m) >= 1
    BY RuleShape
  <2> QED BY <1>2, <1>6, <2>1 DEF IsRouting
<1> DEFINE probe == RouteFor(ing, gws, hosts, m, p, TRUE)
           route == RouteFor(ing, gws, hosts, m, p, FALSE)
<1>8. probe.probe = TRUE /\ probe.path = route.path /\ probe.matches = route.matches
  BY Zenon DEF RouteFor, makeVirtualServiceRoute
<1> HIDE DEF probe, route
<1>9. k = start[m] + p
  <2>1. SUFFICES ASSUME k = start[m] + (PathCount(ing, m) + p) PROVE FALSE
    BY <1>6
  <2>2. x.http[k] = route /\ x.http[start[m] + p] = probe
    BY <1>7, <2>1 DEF probe, route
  <2>3. Matches(x, route, req)
    BY <1>4, <2>2
  <2>4. Matches(x, probe, req)
    BY <1>8, <2>3, Zenon DEF Matches
  <2>5. k <= start[m] + p
    BY <1>4, <1>7, <2>2, <2>4
  <2> QED BY <1>7, <2>1, <2>5
<1>10. x.http[k] = probe
  BY <1>7, <1>9 DEF probe
<1> QED BY <1>3, <1>8, <1>10, Zenon

(* A probe for a host of a rule comes in at a gateway of the rule, where the *)
(* Ingress has its VirtualService.                                           *)
ProbeComesIn(req, x, ing, names, n, h) ==
  /\ IsIngress(ing) /\ n \in DOMAIN ing.rules /\ h \in ing.rules[n].hosts /\ ProbeableRule(ing.rules[n])
  /\ x = MakeIngressVirtualService(ing, names)
  /\ req.host \in ExpandedHosts({h}) /\ req.probe = TRUE
  /\ req.gateway \in names[ing.rules[n].visibility] /\ req.gateway \in x.gateways

(* It is answered by a probe route. *)
LEMMA ProbeAnswered ==
  ASSUME NEW ing, NEW names, NEW n, NEW h, NEW x, NEW req, ProbeComesIn(req, x, ing, names, n, h)
  PROVE  Route(x, req) # 0 /\ x.http[Route(x, req)].probe = TRUE
<1>1. /\ IsIngress(ing) /\ n \in DOMAIN ing.rules /\ h \in ing.rules[n].hosts /\ ProbeableRule(ing.rules[n])
      /\ x = MakeIngressVirtualService(ing, names)
      /\ req.host \in ExpandedHosts({h}) /\ req.probe = TRUE
      /\ req.gateway \in names[ing.rules[n].visibility] /\ req.gateway \in x.gateways
  BY Zenon DEF ProbeComesIn
<1> DEFINE hosts == ExpandedHosts(getHosts(ing))
<1>2. x = makeVirtualServiceSpec(ing, names, hosts)
  BY <1>1 DEF MakeIngressVirtualService
<1>3. ServedHosts(ing, hosts, n) = ing.rules[n].hosts
  BY <1>1, AllHostsServed
<1>4. req.host \in hosts
  <2>1. h \in getHosts(ing)
    BY <1>1 DEF getHosts, ToSet
  <2> QED BY <1>1, <2>1 DEF ExpandedHosts
<1> HIDE DEF hosts
<1>5. h \in Seq(Nat) /\ req.host \in Seq(Nat)
  BY <1>1, RuleShape, ExpandedIsPrefix
<1>6. IsPrefix(hostPrefix(h), req.host)
  <2>1. CASE ExpandedHosts({h}) = {h}
    BY <1>1, <1>5, <2>1, HostPrefixOf
  <2>2. CASE IsSuffix(DomainSuffix, h) => IsSuffix(LocalSuffix, h)
    BY <1>1, <1>5, <2>2, PrefixOfExpanded
  <2> QED BY <1>1, <2>1, <2>2 DEF ProbeableRule
<1>7. PICK q \in 1 .. PathCount(ing, n) : ing.rules[n].paths[q] = ""
  <2>1. DOMAIN ing.rules[n].paths = 1 .. PathCount(ing, n)
    BY <1>1, RuleShape DEF IsSequence, PathCount
  <2> QED BY <1>1, <2>1 DEF ProbeableRule
<1>8. IsSequence(x.http) /\ x.hosts = hosts /\ \E start : IsRouting(start, ing, names, hosts, x.http)
  BY <1>1, <1>2, SpecRouting DEF IsIngress
<1>9. Route(x, req) # 0
  <2>1. PICK start : IsRouting(start, ing, names, hosts, x.http)
    BY <1>8
  <2>2. PICK k \in DOMAIN x.http : x.http[k] = RouteFor(ing, names, hosts, n, q, TRUE)
    BY <1>1, <1>3, <1>7, <2>1 DEF IsRouting
  <2>3. PICK b \in BOOLEAN : x.http[k] = RouteFor(ing, names, hosts, n, q, b)
    BY <2>2
  <2>4. \E m \in x.http[k].matches : IsPrefix(m.prefix, req.host) /\ (m.gateways = {} \/ req.gateway \in m.gateways)
    <3>1. PICK name, key : name = req.host /\ key = req.gateway
      OBVIOUS
    <3>2. \E m \in RouteFor(ing, names, hosts, n, q, b).matches :
            IsPrefix(m.prefix, name) /\ (m.gateways = {} \/ key \in m.gateways)
      BY <1>1, <1>3, <1>5, <1>6, <3>1, HostMatched
    <3> QED BY <2>3, <3>1, <3>2
  <2>5. x.http[k].path = ""
    <3>1. RouteFor(ing, names, hosts, n, q, b).path = ing.rules[n].paths[q]
      BY RouteFields
    <3> QED BY <1>7, <2>3, <3>1
  <2>6. Matches(x, x.http[k], req)
    BY <1>1, <2>4, <2>5, Zenon DEF Matches
  <2> QED BY <1>1, <1>4, <1>8, <2>6, RouteIsFirst
<1> QED BY <1>1, <1>2, <1>9, ProbesFirst

(* When an Ingress has an HTTP server, it is on the pods of every gateway. *)
LEMMA HTTPServerThere ==
  ASSUME NEW ing, shouldReconcileHTTPServer(ing), NEW services, NEW s \in ToSet(services), NEW tls,
         NEW gws, gws = MakeIngressTLSGateways(ing, "ExternalIP", tls, services),
         NEW server, server \in MakeHTTPServer(ing)
  PROVE  \E g \in AddHTTPServer(ing, gws, services) : g.service = s /\ server \in g.servers
<1>1. CASE gws = {}
  <2> DEFINE g == makeIngressGateway(ing, "ExternalIP", MakeHTTPServer(ing), s)
  <2>1. AddHTTPServer(ing, gws, services) = MakeExternalIngressGateways(ing, MakeHTTPServer(ing), services)
    BY <1>1, Zenon DEF AddHTTPServer
  <2>2. g \in AddHTTPServer(ing, gws, services)
    BY <2>1 DEF MakeExternalIngressGateways
  <2>3. g.service = s /\ g.servers = MakeHTTPServer(ing)
    BY DEF makeIngressGateway
  <2> HIDE DEF g
  <2> QED BY <2>2, <2>3
<1>2. CASE gws # {}
  <2> DEFINE g == makeIngressGateway(ing, "ExternalIP", MakeTLSServers(ing, "ExternalIP", tls, s), s)
             h == [g EXCEPT !.servers = @ \cup MakeHTTPServer(ing)]
  <2>1. g \in gws
    BY <1>2 DEF MakeIngressTLSGateways
  <2>2. IsGateway(g) /\ g.service = s
    BY DEF makeIngressGateway, IsGateway
  <2>3. AddHTTPServer(ing, gws, services) = {[d EXCEPT !.servers = @ \cup MakeHTTPServer(ing)] : d \in gws}
    BY <1>2, Zenon DEF AddHTTPServer
  <2> HIDE DEF g
  <2>4. h = [key |-> g.key, owner |-> g.owner, service |-> g.service, servers |-> g.servers \cup MakeHTTPServer(ing)]
    BY <2>2, WithServers
  <2>5. h \in AddHTTPServer(ing, gws, services)
    BY <2>1, <2>3, Zenon
  <2> HIDE DEF h
  <2>6. h.service = s /\ server \in h.servers
    BY <2>2, <2>4
  <2> QED BY <2>5, <2>6
<1> QED BY <1>1, <1>2

(* What makes a target answered: a server on the right pods and port, of a    *)
(* Gateway that is one of the names for the rule, which redirects or not.     *)
LEMMA AnsweredIf ==
  ASSUME Functions, NEW i \in Ingresses, NEW wild, vs[i] = MakeVirtualServices(Object(i), FinalNames(i, wild)),
         NEW n \in DOMAIN spec[i].rules, NEW h \in spec[i].rules[n].hosts, NEW t, t.host \in ExpandedHosts({h}),
         NEW g \in gateways \cup Installed, NEW s \in g.servers,
         g.key \in FinalNames(i, wild)[spec[i].rules[n].visibility], g.service = t.service,
         s.port = t.port, NEW p \in s.hosts, Covers(p, t.host)
  PROVE  Answered(i, t)
<1>1. PICK ing, names, key : ing = Object(i) /\ names = FinalNames(i, wild) /\ key = g.key
  OBVIOUS
<1>2. IsIngress(ing) /\ ing.rules = spec[i].rules /\ ProbeableRule(ing.rules[n])
  <2>1. spec[i] \in SpecsOf[i]
    BY DEF Functions
  <2> QED BY <1>1, <2>1, ObjectShape, InstallationAssumption
<1>3. PICK x : x = MakeIngressVirtualService(ing, names)
  OBVIOUS
<1>4. x \in IngressVS(i) /\ names[spec[i].rules[n].visibility] \subseteq x.gateways
  BY <1>1, <1>3, IngressVSAre
<1>5. PICK req : req = [gateway |-> key, host |-> t.host, path |-> "/healthz", probe |-> TRUE]
  OBVIOUS
<1>6. req.host = t.host /\ req.probe = TRUE /\ req.gateway = key
  BY <1>5, Zenon
<1>7. ProbeComesIn(req, x, ing, names, n, h)
  <2>1. req.gateway \in names[ing.rules[n].visibility] /\ req.gateway \in x.gateways
    BY <1>1, <1>2, <1>4, <1>6
  <2>2. n \in DOMAIN ing.rules /\ h \in ing.rules[n].hosts
    BY <1>2
  <2> QED BY <1>2, <1>3, <1>6, <2>1, <2>2, Zenon DEF ProbeComesIn
<1>8. Route(x, req) # 0 /\ x.http[Route(x, req)].probe
  BY <1>7, ProbeAnswered
<1>9. g.key \in Bound(i)
  BY <1>1, <1>4 DEF Bound
<1>10. \E y \in IngressVS(i) :
         LET k == Route(y, [gateway |-> g.key, host |-> t.host, path |-> "/healthz", probe |-> TRUE])
         IN k # 0 /\ y.http[k].probe
  BY <1>1, <1>4, <1>5, <1>8
<1> QED BY <1>9, <1>10 DEF Answered

(* A target is a port of an installed Gateway that the configuration gives to  *)
(* the Ingress for one of its rules, and its host a name of a host of that     *)
(* rule.                                                                       *)
LEMMA TargetIs ==
  ASSUME Functions, NEW i \in Ingresses, NEW t \in ListProbeTargets(istio, Object(i))
  PROVE  \E n \in DOMAIN spec[i].rules : \E h \in spec[i].rules[n].hosts :
           \E e \in DOMAIN Selected(Now(i))[spec[i].rules[n].visibility] :
             \E g \in getGateway(QualifiedName(Selected(Now(i))[spec[i].rules[n].visibility][e])) : \E s \in g.servers :
               t.host \in ExpandedHosts({h}) /\ t.service = g.service /\ t.port = s.port
<1> DEFINE ing == Object(i)
           names == QualifiedGatewayNamesFromContext(istio, ing)
           Names(key) == HostsPerVisibility(ing, names, key)
           First(key) == CHOOSE h \in Names(key) : \A other \in Names(key) \ {h} : StringLess(h, other)
<1>1. PICK key \in ProbedGateways(istio, ing) :
        t \in {[service |-> u.service, port |-> u.port, host |-> First(key)] :
                 u \in UNION {listGatewayTargets(g) : g \in getGateway(key)}}
  BY DEF ListProbeTargets
<1>2. PICK u \in UNION {listGatewayTargets(g) : g \in getGateway(key)} :
        t = [service |-> u.service, port |-> u.port, host |-> First(key)]
  BY <1>1
<1>3. PICK g \in getGateway(key) : u \in listGatewayTargets(g)
  BY <1>2
<1>4. PICK s \in g.servers : u = [service |-> g.service, port |-> s.port]
  BY <1>3 DEF listGatewayTargets
<1>5. t.service = g.service /\ t.port = s.port /\ t.host = First(key)
  BY <1>2, <1>4
<1>6. IsIngress(ing) /\ ing.rules = spec[i].rules
  BY ObjectShape
<1>7. Names(key) # {}
  BY <1>1 DEF ProbedGateways
<1>8. First(key) \in Names(key)
  <2>1. PICK P : P = Names(key)
    OBVIOUS
  <2>2. P \in SUBSET Seq(Nat) /\ IsFiniteSet(P) /\ P # {}
    <3> HIDE DEF ing, names
    <3> QED BY <1>6, <1>7, <2>1, ProbedHostsFinite
  <2>3. (CHOOSE h \in P : \A other \in P \ {h} : StringLess(h, other)) \in P
    BY <2>2, FirstIsOne
  <2> QED BY <2>1, <2>3
<1>9. PICK r \in ToSet(ing.rules) : key \in names[r.visibility] /\ \E h \in r.hosts : t.host \in ExpandedHosts({h})
  <2>1. t.host \in ExpandedHosts(UNION {r.hosts : r \in {x \in ToSet(ing.rules) : key \in names[x.visibility]}})
    BY <1>5, <1>8 DEF HostsPerVisibility
  <2> HIDE DEF ing, names
  <2> QED BY <2>1 DEF ExpandedHosts
<1>10. PICK n \in DOMAIN spec[i].rules : r = spec[i].rules[n]
  BY <1>6, <1>9 DEF ToSet
<1>11. PICK h \in spec[i].rules[n].hosts : t.host \in ExpandedHosts({h})
  BY <1>9, <1>10
<1>12. r.visibility \in Visibilities
  BY <1>6, <1>10, RuleShape
<1>13. names[r.visibility] = NamesOf(Selected(Now(i))[r.visibility])
  BY <1>12 DEF QualifiedGatewayNamesFromContext, Selected, Now
<1>14. PICK e \in DOMAIN Selected(Now(i))[r.visibility] : key = QualifiedName(Selected(Now(i))[r.visibility][e])
  BY <1>9, <1>13 DEF NamesOf
<1> QED BY <1>3, <1>5, <1>10, <1>11, <1>14

(* A gateway that the configuration gives to an Ingress is installed as probes *)
(* need it.                                                                    *)
LEMMA SelectedProbeable ==
  ASSUME Functions, NEW i \in Ingresses, NEW v \in Visibilities, NEW e \in DOMAIN Selected(Now(i))[v]
  PROVE  ProbeableEntry(v, Selected(Now(i))[v][e])
<1> DEFINE gws == Parsed(config)[v]
           entries == {gws[n] : n \in DOMAIN gws}
<1>1. Selected(Now(i)) = GatewaysFromContext(Parsed(config), Object(i).labels)
  BY DEF Selected, Now, istio
<1>2. config \in ConfigMaps /\ config \in ConfigMapData /\ Accepted(config)
  BY NetworkingAssumption DEF Functions
<1>3. Selected(Now(i))[v] \in Seq(entries)
  BY <1>1, <1>2, SelectedGateways
<1>4. Selected(Now(i))[v][e] \in entries
  <2> HIDE DEF entries
  <2> QED BY <1>3
<1>5. PICK n \in DOMAIN gws : Selected(Now(i))[v][e] = gws[n]
  BY <1>4
<1>6. ProbeableEntry(v, gws[n])
  BY <1>2, InstallationAssumption
<1> QED BY <1>5, <1>6

(* No probe of an Ingress at rest is sent where nobody will answer it: at each *)
(* target of ListProbeTargets a Gateway that the Ingress is bound to has a     *)
(* server for the host, which redirects or leads to a probe route, be it a     *)
(* Gateway of the configuration or one of the Ingress that replaces it, for    *)
(* any number of Ingresses and every order of their reconciliations, edits and *)
(* changes of the configuration (InsertProbe, HostsPerVisibility,              *)
(* reconcileIngress).                                                          *)
THEOREM ProbesCorrect == Spec => []ProbesReachTheIngress
<1>1. ASSUME GatewayInv, NEW i \in Ingresses, InGateways(i), NEW t \in ListProbeTargets(istio, Object(i))
      PROVE  Answered(i, t)
  <2>1. Functions
    BY <1>1 DEF GatewayInv, Inv
  <2>2. PICK wild : Served(i, wild) /\ vs[i] = MakeVirtualServices(Object(i), FinalNames(i, wild))
    BY <1>1, ServedAtRest
  <2>3. PICK n \in DOMAIN spec[i].rules : \E h \in spec[i].rules[n].hosts :
          \E e \in DOMAIN Selected(Now(i))[spec[i].rules[n].visibility] :
            \E g \in getGateway(QualifiedName(Selected(Now(i))[spec[i].rules[n].visibility][e])) : \E s \in g.servers :
              t.host \in ExpandedHosts({h}) /\ t.service = g.service /\ t.port = s.port
    BY <1>1, <2>1, TargetIs
  <2>4. PICK h \in spec[i].rules[n].hosts :
          \E e \in DOMAIN Selected(Now(i))[spec[i].rules[n].visibility] :
            \E g \in getGateway(QualifiedName(Selected(Now(i))[spec[i].rules[n].visibility][e])) : \E s \in g.servers :
              t.host \in ExpandedHosts({h}) /\ t.service = g.service /\ t.port = s.port
    BY <2>3
  <2>5. PICK v, selected : v = spec[i].rules[n].visibility /\ selected = Selected(Now(i))[v]
    OBVIOUS
  <2>6. PICK e \in DOMAIN selected : \E g \in getGateway(QualifiedName(selected[e])) : \E s \in g.servers :
          t.host \in ExpandedHosts({h}) /\ t.service = g.service /\ t.port = s.port
    BY <2>4, <2>5
  <2>7. PICK g \in getGateway(QualifiedName(selected[e])) : \E s \in g.servers :
          t.host \in ExpandedHosts({h}) /\ t.service = g.service /\ t.port = s.port
    BY <2>6
  <2>8. PICK s \in g.servers : t.host \in ExpandedHosts({h}) /\ t.service = g.service /\ t.port = s.port
    BY <2>7
  <2>9. g \in Installed /\ g.key = QualifiedName(selected[e])
    BY <2>7 DEF getGateway
  <2>10. IsIngress(Object(i)) /\ Object(i).rules = spec[i].rules
    BY <2>1, ObjectShape
  <2>11. v \in Visibilities /\ spec[i].rules[n].hosts \in SUBSET Seq(Nat)
    BY <2>5, <2>10, RuleShape
  <2>12. t.host \in Seq(Nat)
    BY <2>8, <2>11, ExpandedIsPrefix
  <2>13. /\ <<Star>> \in s.hosts /\ (v = "ExternalIP" => s.port = 80)
         /\ v = "ExternalIP" /\ parseIngressGatewayConfig(selected[e]) \in Services =>
              g.service = parseIngressGatewayConfig(selected[e])
    BY <2>1, <2>5, <2>6, <2>7, <2>8, <2>11, SelectedProbeable DEF ProbeableEntry
  <2>14. g.key \in NamesOf(selected)
    BY <2>6, <2>9 DEF NamesOf
  <2>15. CASE ~(v = "ExternalIP" /\ shouldReconcileHTTPServer(Object(i)))
    <3>1. g.key \in FinalNames(i, wild)[v]
      <4>1. CASE v = "ExternalIP"
        BY <2>5, <2>14, <2>15, <4>1, FinalNamesAre DEF DefaultNames, External
      <4>2. CASE v = "ClusterLocal"
        BY <2>5, <2>14, <4>2, FinalNamesAre DEF LocalNames
      <4> QED BY <2>11, <4>1, <4>2 DEF Visibilities
    <3>2. Covers(<<Star>>, t.host)
      BY <2>12, StarCovers
    <3> QED BY <2>1, <2>2, <2>5, <2>8, <2>9, <2>13, <3>1, <3>2, AnsweredIf
  <2>16. CASE v = "ExternalIP" /\ shouldReconcileHTTPServer(Object(i))
    <3> DEFINE service == parseIngressGatewayConfig(selected[e])
               server == [port |-> 80, hosts |-> getPublicHosts(Object(i)), credential |-> {},
                          redirect |-> Object(i).http = "Redirected"]
    <3>1. service \in ToSet(ServicesOf(Now(i)))
      BY <2>5, <2>6, <2>16 DEF ServicesOf, External, ToSet
    <3>2. service \in Services
      BY <2>2, <2>16, <3>1 DEF Served, ServicesExist
    <3>3. server \in MakeHTTPServer(Object(i))
      BY DEF MakeHTTPServer
    <3>4. server.port = 80 /\ server.hosts = getPublicHosts(Object(i))
      OBVIOUS
    <3> HIDE DEF service, server
    <3>5. PICK own \in WithHTTP(i, wild) : own.service = service /\ server \in own.servers
      BY <2>16, <3>1, <3>3, HTTPServerThere DEF WithHTTP, ExternalGateways
    <3>6. own \in gateways /\ own.key \in FinalNames(i, wild)[v]
      BY <2>2, <2>16, <3>5, FinalNamesAre DEF Served, GetQualifiedGatewayNames
    <3>7. own.service = t.service /\ server.port = t.port
      BY <2>8, <2>13, <2>16, <3>2, <3>4, <3>5 DEF service
    <3>8. h \in server.hosts
      <4>1. PICK ing, r : ing = Object(i) /\ r = spec[i].rules[n]
        OBVIOUS
      <4>2. h \in r.hosts /\ r.visibility = "ExternalIP" /\ ing.rules[n] = r /\ n \in DOMAIN ing.rules
        BY <2>5, <2>10, <2>16, <4>1
      <4>3. r \in getPublicIngressRules(ing)
        BY <4>2 DEF getPublicIngressRules, RulesOf, ToSet
      <4>4. h \in getPublicHosts(ing)
        BY <4>2, <4>3 DEF getPublicHosts
      <4> QED BY <3>4, <4>1, <4>4
    <3>9. t.host = h
      <4>1. spec[i] \in SpecsOf[i]
        BY <2>1 DEF Functions
      <4>2. ProbeableRule(spec[i].rules[n])
        BY <4>1, InstallationAssumption
      <4>3. ExpandedHosts({h}) = {h}
        BY <2>5, <2>16, <4>2 DEF ProbeableRule
      <4> QED BY <2>8, <4>3
    <3>10. Covers(h, t.host)
      <4>1. h \in Hosts
        <5>1. spec[i].rules[n] \in IngressRules
          BY <2>10 DEF IsIngress
        <5> QED BY <5>1 DEF IngressRules
      <4> QED BY <3>9, <4>1, CoversItself
    <3> QED BY <2>1, <2>2, <2>5, <2>8, <3>5, <3>6, <3>7, <3>8, <3>10, AnsweredIf
  <2> QED BY <2>15, <2>16
<1>2. GatewayInv => ProbesReachTheIngress
  BY <1>1 DEF ProbesReachTheIngress
<1> QED BY <1>2, SpecGatewayInv, PTL

=============================================================================

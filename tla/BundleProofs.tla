---------------------------- MODULE BundleProofs ----------------------------
(***************************************************************************)
(* Proofs about Bundle: manifests are applied in the order of their kinds  *)
(* whatever the source and the cluster, an id is read back to the parts it *)
(* was made of, and a delete reaches the object of the manifest that was   *)
(* removed and no other.                                                   *)
(***************************************************************************)
EXTENDS Bundle, FiniteSetTheorems, WellFoundedInduction, TLAPS

\* What is needed belongs to an earlier kind of KindOrder than what needs it.
NeedsAreOrdered ==
    \A pair \in Needs : KindRank(pair[1]) < KindRank(pair[2])

-----------------------------------------------------------------------------
(* The order of kinds.                                                     *)

\* The rank of a kind is a number, whatever the kind.
LEMMA KindRankType == ASSUME NEW kind PROVE KindRank(kind) \in Nat
<1> DEFINE Order == KindOrder
<1>1. Len(KindOrder) = 34 /\ DOMAIN KindOrder = 1..34
  BY DEF KindOrder
<1>2. CASE \E i \in DOMAIN KindOrder : KindOrder[i] = kind
  BY <1>1, <1>2 DEF KindRank
<1>3. CASE ~\E i \in DOMAIN KindOrder : KindOrder[i] = kind
  <2>1. KindRank(kind) = Len(KindOrder) + 1
    BY <1>3 DEF KindRank
  <2> QED
    BY <1>1, <2>1
<1> QED
  BY <1>2, <1>3

\* What has been applied is in the order of kinds, and nothing that is still
\* to come goes before it.
Rank(m) == KindRank(m.doc.kind)
OrderInv ==
    /\ \E S : applied \in Seq(S)
    /\ phase \in {"walk", "expanded", "planned", "delete"} => applied = <<>>
    /\ \A i, j \in DOMAIN applied : i < j => Rank(applied[i]) <= Rank(applied[j])
    /\ \A i \in DOMAIN applied, j \in todo : Rank(applied[i]) <= Rank(manifests[j])

\* Of two manifests that are left, the one that may go next is not of a later
\* kind.
LEMMA NextIsLeast ==
    ASSUME NEW i \in todo, IsNext(i), NEW j \in todo
    PROVE  Rank(manifests[i]) <= Rank(manifests[j])
<1>1. ~(Rank(manifests[j]) < Rank(manifests[i]))
  BY DEF IsNext, Less, Rank
<1>2. Rank(manifests[i]) \in Nat /\ Rank(manifests[j]) \in Nat
  BY KindRankType DEF Rank
<1> QED
  BY <1>1, <1>2

\* kubectl comes to one more manifest.
LEMMA OrderApplyOne ==
    ASSUME OrderInv, ApplyOne
    PROVE  OrderInv'
<1>1. PICK S : applied \in Seq(S)
  BY DEF OrderInv
<1>2. PICK i \in todo : /\ IsNext(i)
                        /\ todo' = todo \ {i}
                        /\ applied' = Append(applied, manifests[i])
  BY DEF ApplyOne
<1>3. phase = "apply" /\ UNCHANGED <<phase, manifests>>
  BY DEF ApplyOne
<1> DEFINE T == S \cup {manifests[i]}
<1>4. applied \in Seq(T)
  <2>1. DOMAIN applied = 1..Len(applied) /\ Len(applied) \in Nat
    BY <1>1
  <2>2. \A k \in 1..Len(applied) : applied[k] \in T
    BY <1>1, <2>1
  <2>3. applied = [k \in 1..Len(applied) |-> applied[k]]
    BY <1>1
  <2> QED
    BY <2>1, <2>2, <2>3
<1>5. applied' \in Seq(T)
  BY <1>2, <1>4
<1>6. /\ DOMAIN applied' = 1..(Len(applied) + 1)
      /\ \A k \in 1..Len(applied) : applied'[k] = applied[k]
      /\ applied'[Len(applied) + 1] = manifests[i]
      /\ DOMAIN applied = 1..Len(applied)
      /\ Len(applied) \in Nat
  BY <1>2, <1>4
<1>7. \A k \in DOMAIN applied : Rank(applied[k]) <= Rank(manifests[i])
  BY <1>2 DEF OrderInv
<1>8. \A j \in todo : Rank(manifests[i]) <= Rank(manifests[j])
  BY <1>2, NextIsLeast
<1>9. ASSUME NEW k \in DOMAIN applied', NEW l \in DOMAIN applied', k < l
      PROVE  Rank(applied'[k]) <= Rank(applied'[l])
  <2>1. k \in 1..Len(applied) /\ applied'[k] = applied[k]
    BY <1>6, <1>9
  <2>2. CASE l \in 1..Len(applied)
    <3>1. applied'[l] = applied[l]
      BY <1>6, <2>2
    <3> QED
      BY <1>6, <1>9, <2>1, <2>2, <3>1 DEF OrderInv
  <2>3. CASE l = Len(applied) + 1
    <3>1. applied'[l] = manifests[i]
      BY <1>6, <2>3
    <3> QED
      BY <1>6, <1>7, <2>1, <3>1
  <2> QED
    BY <1>6, <2>2, <2>3
<1>10. ASSUME NEW k \in DOMAIN applied', NEW j \in todo'
       PROVE  Rank(applied'[k]) <= Rank(manifests'[j])
  <2>1. j \in todo /\ manifests'[j] = manifests[j]
    BY <1>2, <1>3
  <2>2. CASE k \in 1..Len(applied)
    <3>1. applied'[k] = applied[k]
      BY <1>6, <2>2
    <3> QED
      BY <1>6, <2>1, <2>2, <3>1 DEF OrderInv
  <2>3. CASE k = Len(applied) + 1
    <3>1. applied'[k] = manifests[i]
      BY <1>6, <2>3
    <3> QED
      BY <1>8, <2>1, <3>1
  <2> QED
    BY <1>6, <2>2, <2>3
<1> QED
  BY <1>3, <1>5, <1>9, <1>10 DEF OrderInv, Rank

\* The order of kinds is kept by every step.
LEMMA OrderStep ==
    ASSUME OrderInv, [Next]_vars
    PROVE  OrderInv'
<1> USE DEF OrderInv, Rank
<1>1. CASE StartProvider \/ StartKaexpand
  <2>1. applied' = <<>> /\ phase' = "walk"
    BY <1>1 DEF StartProvider, StartKaexpand, Begins
  <2>2. applied' \in Seq({}) /\ DOMAIN applied' = {}
    BY <2>1
  <2> QED
    BY <2>1, <2>2
<1>2. CASE ExpandOne
  BY <1>2 DEF ExpandOne, applyVars
<1>3. CASE Expanded
  <2>1. applied' = <<>> /\ DOMAIN applied' = {}
    BY <1>3 DEF Expanded, applyVars
  <2>2. applied' \in Seq({})
    BY <2>1
  <2> QED
    BY <2>1, <2>2
<1>4. CASE Diff
  BY <1>4 DEF Diff, applyVars
<1>5. CASE Refuse
  BY <1>5 DEF Refuse, applyVars
<1>6. CASE Confirm \/ Update
  <2>1. applied' = <<>> /\ DOMAIN applied' = {}
    BY <1>6 DEF Confirm, Update
  <2>2. applied' \in Seq({})
    BY <2>1
  <2> QED
    BY <2>1, <2>2
<1>7. CASE DeleteOne
  BY <1>7 DEF DeleteOne, applyVars
<1>8. CASE Deleted
  BY <1>8 DEF Deleted, applyVars
<1>9. CASE ApplyOne
  BY <1>9, OrderApplyOne
<1>10. CASE Save \/ Return
  BY <1>10 DEF Save, Return, applyVars
<1>11. CASE UNCHANGED vars
  BY <1>11 DEF vars, applyVars
<1> QED
  BY <1>1, <1>2, <1>3, <1>4, <1>5, <1>6, <1>7, <1>8, <1>9, <1>10, <1>11 DEF Next

\* Whatever the sources, no manifest is applied before one that it needs
\* (SortManifests, manifests.go:180-240), so far as KindOrder puts the kind
\* of what is needed first.
THEOREM NeedsComeFirst ==
    ASSUME NeedsAreOrdered
    PROVE  Spec => []NeededFirst
<1>1. Init => OrderInv
  <2> SUFFICES ASSUME Init PROVE OrderInv
    OBVIOUS
  <2>1. applied \in Seq({}) /\ DOMAIN applied = {}
    BY DEF Init
  <2> QED
    BY <2>1 DEF Init, OrderInv
<1>2. OrderInv /\ [Next]_vars => OrderInv'
  BY OrderStep
<1>3. OrderInv => NeededFirst
  <2> SUFFICES ASSUME OrderInv, NEW i \in DOMAIN applied,
                      NEW j \in DOMAIN applied, i < j,
                      <<applied[j].doc.kind, applied[i].doc.kind>> \in Needs
               PROVE  FALSE
    BY DEF NeededFirst
  <2>1. KindRank(applied[j].doc.kind) < KindRank(applied[i].doc.kind)
    BY DEF NeedsAreOrdered
  <2>2. KindRank(applied[i].doc.kind) <= KindRank(applied[j].doc.kind)
    BY DEF OrderInv, Rank
  <2> QED
    BY <2>1, <2>2, KindRankType
<1> QED
  BY <1>1, <1>2, <1>3, PTL DEF Spec

-----------------------------------------------------------------------------
(* Ids are read back.                                                      *)

\* The first dot at or after a position is where it is seen to be.
LEMMA FirstDot ==
    ASSUME NEW S, NEW id \in Seq(S), NEW from \in Nat \ {0},
           NEW n \in from..Len(id), id[n] = ".",
           \A m \in from..(n - 1) : id[m] # "."
    PROVE  SelectInSubSeq(id, from, Len(id), LAMBDA w : w = ".") = n
<1> DEFINE I == {i \in from..Len(id) : id[i] = "."}
<1>1. n \in I /\ I # {}
  OBVIOUS
<1>2. \A m \in I : n <= m
  OBVIOUS
<1>3. \A x \in I : (\A y \in I : x <= y) => x = n
  BY <1>1, <1>2
<1>4. Min(I) = n
  BY <1>1, <1>2, <1>3 DEF Min
<1>5. SelectInSubSeq(id, from, Len(id), LAMBDA w : w = ".") =
          IF I # {} THEN Min(I) ELSE 0
  BY DEF SelectInSubSeq
<1> QED
  BY <1>1, <1>4, <1>5

\* The first slash, where there is one, and 0 where there is none.
LEMMA FirstSlash ==
    ASSUME NEW S, NEW id \in Seq(S), NEW n \in 1..Len(id), id[n] = "/",
           \A m \in 1..(n - 1) : id[m] # "/"
    PROVE  SelectInSeq(id, LAMBDA w : w = "/") = n
<1> DEFINE I == {i \in 1..Len(id) : id[i] = "/"}
<1>1. n \in I /\ I # {}
  OBVIOUS
<1>2. \A m \in I : n <= m
  OBVIOUS
<1>3. \A x \in I : (\A y \in I : x <= y) => x = n
  BY <1>1, <1>2
<1>4. Min(I) = n
  BY <1>1, <1>2, <1>3 DEF Min
<1>5. SelectInSeq(id, LAMBDA w : w = "/") = IF I # {} THEN Min(I) ELSE 0
  BY DEF SelectInSeq
<1> QED
  BY <1>1, <1>4, <1>5

\* Nothing is found where there is no slash.
LEMMA NoSlash ==
    ASSUME NEW S, NEW id \in Seq(S), \A m \in 1..Len(id) : id[m] # "/"
    PROVE  SelectInSeq(id, LAMBDA w : w = "/") = 0
<1> DEFINE I == {i \in 1..Len(id) : id[i] = "/"}
<1>1. I = {}
  OBVIOUS
<1>2. SelectInSeq(id, LAMBDA w : w = "/") = IF I # {} THEN Min(I) ELSE 0
  BY DEF SelectInSeq
<1> QED
  BY <1>1, <1>2

\* What Kubernetes allows for the parts of a manifest's header: dots in the
\* group and in the name, one slash, between group and version.
WithoutDots(text) == \A i \in DOMAIN text : text[i] # "."
WithoutSlash(text) == \A i \in DOMAIN text : text[i] # "/"
WellFormed(d) ==
    /\ {d.api, d.ns, d.name} \subseteq Seq(Words)
    /\ d.kind \notin {".", "/"}
    /\ WithoutDots(d.ns) /\ WithoutSlash(d.ns) /\ WithoutSlash(d.name)
    /\ \/ WithoutSlash(d.api) /\ WithoutDots(d.api)
       \/ \E p \in DOMAIN d.api :
              /\ p > 1
              /\ d.api[p] = "/"
              /\ \A i \in DOMAIN d.api : i < p => d.api[i] # "/"
              /\ \A i \in DOMAIN d.api : i > p => d.api[i] # "."

\* Two texts, one behind the other.
LEMMA Joined ==
    ASSUME NEW S, NEW s \in Seq(S), NEW u \in Seq(S)
    PROVE  /\ s \o u \in Seq(S)
           /\ Len(s \o u) = Len(s) + Len(u)
           /\ \A i \in 1..Len(s) : (s \o u)[i] = s[i]
           /\ \A i \in 1..Len(u) : (s \o u)[Len(s) + i] = u[i]
<1>1. s \o u \in Seq(S) /\ Len(s \o u) = Len(s) + Len(u)
  OBVIOUS
<1>2. Len(s) \in Nat /\ Len(u) \in Nat
  OBVIOUS
<1>3. \A i \in 1..(Len(s) + Len(u)) :
          (s \o u)[i] = IF i <= Len(s) THEN s[i] ELSE u[i - Len(s)]
  OBVIOUS
<1>4. ASSUME NEW i \in 1..Len(s) PROVE (s \o u)[i] = s[i]
  BY <1>2, <1>3
<1>5. ASSUME NEW i \in 1..Len(u) PROVE (s \o u)[Len(s) + i] = u[i]
  <2>1. Len(s) + i \in 1..(Len(s) + Len(u)) /\ ~(Len(s) + i <= Len(s))
    BY <1>2
  <2>2. (Len(s) + i) - Len(s) = i
    BY <1>2
  <2> QED
    BY <1>3, <2>1, <2>2
<1> QED
  BY <1>1, <1>4, <1>5

\* The words of an id, one by one.
LEMMA IdWords ==
    ASSUME NEW d, WellFormed(d)
    PROVE  LET id == ManifestId(d)
               a == Len(d.api)
               n == Len(d.ns)
           IN  /\ id \in Seq(Words \cup {".", d.kind})
               /\ a \in Nat /\ n \in Nat /\ Len(d.name) \in Nat
               /\ Len(id) = a + n + 4 + Len(d.name)
               /\ \A i \in 1..a : id[i] = d.api[i]
               /\ id[a + 1] = "." /\ id[a + 2] = d.kind /\ id[a + 3] = "."
               /\ \A i \in 1..n : id[a + 3 + i] = d.ns[i]
               /\ id[a + n + 4] = "."
               /\ \A i \in 1..Len(d.name) : id[a + n + 4 + i] = d.name[i]
<1> DEFINE S == Words \cup {".", d.kind}
           api == d.api
           ns == d.ns
           name == d.name
           s1 == api \o <<".", d.kind, ".">>
           s2 == s1 \o ns
           s3 == s2 \o <<".">>
           id == s3 \o name
<1>1. ManifestId(d) = id
  BY DEF ManifestId
<1>2. api \in Seq(S) /\ ns \in Seq(S) /\ name \in Seq(S)
  BY DEF WellFormed
<1>3. <<".", d.kind, ".">> \in Seq(S) /\ <<".">> \in Seq(S)
  OBVIOUS
<1> HIDE DEF api, ns, name
<1>4. /\ s1 \in Seq(S)
      /\ Len(s1) = Len(api) + 3
      /\ \A i \in 1..Len(api) : s1[i] = api[i]
      /\ s1[Len(api) + 1] = "."
      /\ s1[Len(api) + 2] = d.kind
      /\ s1[Len(api) + 3] = "."
  BY <1>2, <1>3
<1> HIDE DEF s1
<1>5. /\ s2 \in Seq(S)
      /\ Len(s2) = Len(s1) + Len(ns)
      /\ \A i \in 1..Len(s1) : s2[i] = s1[i]
      /\ \A i \in 1..Len(ns) : s2[Len(s1) + i] = ns[i]
  <2>1. s1 \in Seq(S) /\ ns \in Seq(S)
    BY <1>2, <1>4
  <2> HIDE DEF S
  <2> QED
    BY <2>1, Joined
<1> HIDE DEF s2
<1>6. /\ s3 \in Seq(S)
      /\ Len(s3) = Len(s2) + 1
      /\ \A i \in 1..Len(s2) : s3[i] = s2[i]
      /\ s3[Len(s2) + 1] = "."
  BY <1>3, <1>5, Joined
<1> HIDE DEF s3
<1>7. /\ id \in Seq(S)
      /\ Len(id) = Len(s3) + Len(name)
      /\ \A i \in 1..Len(s3) : id[i] = s3[i]
      /\ \A i \in 1..Len(name) : id[Len(s3) + i] = name[i]
  <2>1. s3 \in Seq(S) /\ name \in Seq(S)
    BY <1>2, <1>6
  <2> HIDE DEF S
  <2> QED
    BY <2>1, Joined
<1> HIDE DEF id
<1>8. Len(api) \in Nat /\ Len(ns) \in Nat /\ Len(name) \in Nat
  BY <1>2
<1>9. Len(id) = Len(api) + Len(ns) + 4 + Len(name)
  BY <1>4, <1>5, <1>6, <1>7, <1>8
<1>10. \A i \in 1..Len(api) : id[i] = api[i]
  BY <1>4, <1>5, <1>6, <1>7, <1>8
<1>11. id[Len(api) + 1] = "." /\ id[Len(api) + 2] = d.kind /\ id[Len(api) + 3] = "."
  <2>1. \A i \in 1..Len(s1) : id[i] = s1[i]
    BY <1>5, <1>6, <1>7, <1>8
  <2> QED
    BY <1>4, <1>8, <2>1
<1>12. \A i \in 1..Len(ns) : id[Len(api) + 3 + i] = ns[i]
  <2>1. \A i \in 1..Len(s2) : id[i] = s2[i]
    BY <1>5, <1>6, <1>7, <1>8
  <2>2. ASSUME NEW i \in 1..Len(ns) PROVE id[Len(api) + 3 + i] = ns[i]
    <3>1. Len(s1) + i \in 1..Len(s2)
      BY <1>4, <1>5, <1>8
    <3>2. id[Len(s1) + i] = ns[i]
      BY <1>5, <2>1, <3>1
    <3> QED
      BY <1>4, <3>2
  <2> QED
    BY <2>2
<1>13. id[Len(api) + Len(ns) + 4] = "."
  BY <1>4, <1>5, <1>6, <1>7, <1>8
<1>14. \A i \in 1..Len(name) : id[Len(api) + Len(ns) + 4 + i] = name[i]
  BY <1>4, <1>5, <1>6, <1>7, <1>8
<1> QED
  BY <1>1, <1>7, <1>8, <1>9, <1>10, <1>11, <1>12, <1>13, <1>14 DEF api, ns, name

\* A part of a text, cut out, is the text that went in.
LEMMA CutOut ==
    ASSUME NEW S, NEW id \in Seq(S), NEW T, NEW u \in Seq(T), NEW m \in Nat,
           m + Len(u) <= Len(id), \A i \in 1..Len(u) : id[m + i] = u[i]
    PROVE  SubSeq(id, m + 1, m + Len(u)) = u
<1> DEFINE v == SubSeq(id, m + 1, m + Len(u))
<1>1. Len(u) \in Nat /\ Len(id) \in Nat
  OBVIOUS
<1>2. v = [i \in 1..Len(u) |-> id[m + i]]
  <2>1. v = [i \in 1..((m + Len(u)) - (m + 1) + 1) |-> id[i + (m + 1) - 1]]
    BY <1>1
  <2>2. (m + Len(u)) - (m + 1) + 1 = Len(u)
    BY <1>1
  <2>3. \A i \in 1..Len(u) : i + (m + 1) - 1 = m + i
    BY <1>1
  <2> QED
    BY <2>1, <2>2, <2>3
<1>3. u = [i \in 1..Len(u) |-> u[i]]
  OBVIOUS
<1> QED
  BY <1>2, <1>3

\* manifestIDToComponents reads an id back to the parts that GetManifests made
\* it of (manifests.go:137-143, 249-270): with dots in the group and in the
\* name, with and without a group or a namespace.
THEOREM IdsReadBack ==
    ASSUME NEW d, WellFormed(d)
    PROVE  IdComponents(ManifestId(d)) =
               [api |-> d.api, kind |-> <<d.kind>>, ns |-> d.ns, name |-> d.name]
<1> DEFINE id == ManifestId(d)
           api == d.api
           ns == d.ns
           name == d.name
           word == d.kind
           a == Len(api)
           n == Len(ns)
           m == Len(name)
           S == Words \cup {".", word}
           slash == SelectInSeq(id, LAMBDA w : w = "/")
           from == IF slash > 1 THEN slash ELSE 1
           Dot(k) == SelectInSubSeq(id, k, Len(id), LAMBDA w : w = ".")
<1>1. /\ id \in Seq(S)
      /\ a \in Nat /\ n \in Nat /\ m \in Nat
      /\ Len(id) = a + n + 4 + m
      /\ \A i \in 1..a : id[i] = api[i]
      /\ id[a + 1] = "." /\ id[a + 2] = word /\ id[a + 3] = "."
      /\ \A i \in 1..n : id[a + 3 + i] = ns[i]
      /\ id[a + n + 4] = "."
      /\ \A i \in 1..m : id[a + n + 4 + i] = name[i]
  BY IdWords
<1>2. /\ DOMAIN api = 1..a /\ DOMAIN ns = 1..n /\ DOMAIN name = 1..m
      /\ api \in Seq(Words) /\ ns \in Seq(Words) /\ name \in Seq(Words)
  BY DEF WellFormed
<1>w. /\ word \notin {".", "/"}
      /\ WithoutDots(ns) /\ WithoutSlash(ns) /\ WithoutSlash(name)
      /\ \/ WithoutSlash(api) /\ WithoutDots(api)
         \/ \E p \in DOMAIN api :
                /\ p > 1
                /\ api[p] = "/"
                /\ \A i \in DOMAIN api : i < p => api[i] # "/"
                /\ \A i \in DOMAIN api : i > p => api[i] # "."
  BY DEF WellFormed
<1> HIDE DEF id, api, ns, name, word, a, n, m, S, Dot, from, slash
<1>3. /\ from \in 1..(a + 1)
      /\ \A i \in from..a : id[i] # "."
  <2>1. CASE WithoutSlash(api) /\ WithoutDots(api)
    <3>1. \A i \in 1..Len(id) : id[i] # "/"
      <4> SUFFICES ASSUME NEW i \in 1..Len(id) PROVE id[i] # "/"
        OBVIOUS
      <4>1. CASE i <= a
        <5>1. i \in DOMAIN api /\ id[i] = api[i]
          BY <1>1, <1>2, <4>1
        <5> QED
          BY <2>1, <5>1 DEF WithoutSlash
      <4>2. CASE i \in {a + 1, a + 2, a + 3, a + n + 4}
        BY <1>1, <1>w, <4>2
      <4>3. CASE i > a + 3 /\ i < a + n + 4
        <5>1. i - (a + 3) \in 1..n /\ a + 3 + (i - (a + 3)) = i
          BY <1>1, <4>3
        <5>2. id[i] = ns[i - (a + 3)]
          BY <1>1, <5>1
        <5> QED
          BY <1>2, <1>w, <5>1, <5>2 DEF WithoutSlash
      <4>4. CASE i > a + n + 4
        <5>1. /\ i - (a + n + 4) \in 1..m
              /\ a + n + 4 + (i - (a + n + 4)) = i
          BY <1>1, <4>4
        <5>2. id[i] = name[i - (a + n + 4)]
          BY <1>1, <5>1
        <5> QED
          BY <1>2, <1>w, <5>1, <5>2 DEF WithoutSlash
      <4> QED
        BY <1>1, <4>1, <4>2, <4>3, <4>4
    <3>2. slash = 0
      BY <1>1, <3>1, NoSlash DEF slash
    <3>3. from = 1
      BY <3>2 DEF from
    <3>4. ASSUME NEW i \in 1..a PROVE id[i] # "."
      <4>1. i \in DOMAIN api /\ id[i] = api[i]
        BY <1>1, <1>2
      <4> QED
        BY <2>1, <4>1 DEF WithoutDots
    <3> QED
      BY <1>1, <3>3, <3>4
  <2>2. CASE \E p \in DOMAIN api :
                 /\ p > 1
                 /\ api[p] = "/"
                 /\ \A i \in DOMAIN api : i < p => api[i] # "/"
                 /\ \A i \in DOMAIN api : i > p => api[i] # "."
    <3>1. PICK p \in 1..a :
              /\ p > 1
              /\ api[p] = "/"
              /\ \A i \in 1..a : i < p => api[i] # "/"
              /\ \A i \in 1..a : i > p => api[i] # "."
      BY <1>2, <2>2
    <3>2. p \in 1..Len(id) /\ id[p] = "/" /\ \A i \in 1..(p - 1) : id[i] # "/"
      BY <1>1, <3>1
    <3>3. slash = p
      BY <1>1, <3>2, FirstSlash DEF slash
    <3>4. from = p
      BY <3>1, <3>3 DEF from
    <3>5. "/" # "."
      OBVIOUS
    <3>6. \A i \in p..a : id[i] # "."
      BY <1>1, <3>1, <3>5
    <3> QED
      BY <1>1, <3>1, <3>4, <3>6
  <2> QED
    BY <1>w, <2>1, <2>2
<1>4. Dot(from) = a + 1
  <2>1. from \in Nat \ {0} /\ a + 1 \in from..Len(id)
    BY <1>1, <1>3
  <2>2. \A i \in from..((a + 1) - 1) : id[i] # "."
    BY <1>1, <1>3
  <2> QED
    BY <1>1, <2>1, <2>2, FirstDot DEF Dot
<1>5. Dot(a + 2) = a + 3
  <2>1. a + 2 \in Nat \ {0} /\ a + 3 \in (a + 2)..Len(id)
    BY <1>1
  <2>2. \A i \in (a + 2)..((a + 3) - 1) : id[i] # "."
    BY <1>1, <1>w
  <2> QED
    BY <1>1, <2>1, <2>2, FirstDot DEF Dot
<1>6. Dot(a + 4) = a + n + 4
  <2>1. a + 4 \in Nat \ {0} /\ a + n + 4 \in (a + 4)..Len(id)
    BY <1>1
  <2>2. ASSUME NEW i \in (a + 4)..((a + n + 4) - 1) PROVE id[i] # "."
    <3>1. i - (a + 3) \in 1..n /\ a + 3 + (i - (a + 3)) = i
      BY <1>1
    <3>2. id[i] = ns[i - (a + 3)]
      BY <1>1, <3>1
    <3> QED
      BY <1>2, <1>w, <3>1, <3>2 DEF WithoutDots
  <2> QED
    BY <1>1, <2>1, <2>2, FirstDot DEF Dot
<1>7. SubSeq(id, 1, a) = api
  <2>1. SubSeq(id, 0 + 1, 0 + Len(api)) = api
    <3>1. \A i \in 1..Len(api) : id[0 + i] = api[i]
      BY <1>1 DEF a
    <3>2. 0 + Len(api) <= Len(id)
      BY <1>1 DEF a
    <3> QED
      BY <1>1, <1>2, <3>1, <3>2, CutOut
  <2> QED
    BY <1>1, <2>1 DEF a
<1>8. SubSeq(id, a + 2, a + 2) = <<word>>
  <2> DEFINE u == <<word>>
  <2>1. u \in Seq({word}) /\ Len(u) = 1 /\ u[1] = word
    OBVIOUS
  <2>2. a + 1 \in Nat /\ (a + 1) + 1 <= Len(id) /\ id[(a + 1) + 1] = word
    BY <1>1
  <2> HIDE DEF u
  <2>3. SubSeq(id, (a + 1) + 1, (a + 1) + Len(u)) = u
    <3>1. \A i \in 1..Len(u) : id[(a + 1) + i] = u[i]
      BY <2>1, <2>2
    <3> QED
      BY <1>1, <2>1, <2>2, <3>1, CutOut
  <2>4. (a + 1) + 1 = a + 2 /\ (a + 1) + Len(u) = a + 2
    BY <1>1, <2>1
  <2> QED
    BY <2>3, <2>4 DEF u
<1>9. SubSeq(id, a + 4, a + n + 3) = ns
  <2>1. SubSeq(id, (a + 3) + 1, (a + 3) + Len(ns)) = ns
    <3>1. \A i \in 1..Len(ns) : id[(a + 3) + i] = ns[i]
      BY <1>1 DEF n
    <3>2. (a + 3) + Len(ns) <= Len(id) /\ a + 3 \in Nat
      BY <1>1 DEF n
    <3> QED
      BY <1>1, <1>2, <3>1, <3>2, CutOut
  <2>2. (a + 3) + 1 = a + 4 /\ (a + 3) + Len(ns) = a + n + 3
    BY <1>1 DEF n
  <2> QED
    BY <2>1, <2>2
<1>10. SubSeq(id, a + n + 5, Len(id)) = name
  <2>1. SubSeq(id, (a + n + 4) + 1, (a + n + 4) + Len(name)) = name
    <3>1. /\ (a + n + 4) + Len(name) <= Len(id) /\ a + n + 4 \in Nat
          /\ \A i \in 1..Len(name) : id[(a + n + 4) + i] = name[i]
      BY <1>1 DEF m
    <3> QED
      BY <1>1, <1>2, <3>1, CutOut
  <2>2. (a + n + 4) + 1 = a + n + 5 /\ (a + n + 4) + Len(name) = Len(id)
    BY <1>1 DEF m
  <2> QED
    BY <2>1, <2>2
<1>11. IdComponents(id) =
           LET i == Dot(from)
               j == Dot(i + 1)
               k == Dot(j + 1)
           IN  IF 0 \in {i, j, k}
               THEN NoComponents
               ELSE [api |-> SubSeq(id, 1, i - 1),
                     kind |-> SubSeq(id, i + 1, j - 1),
                     ns |-> SubSeq(id, j + 1, k - 1),
                     name |-> SubSeq(id, k + 1, Len(id))]
  BY DEF IdComponents, Dot, from, slash
<1>12. /\ (a + 1) + 1 = a + 2 /\ (a + 3) + 1 = a + 4
       /\ (a + 1) - 1 = a /\ (a + 3) - 1 = a + 2
       /\ (a + n + 4) - 1 = a + n + 3 /\ (a + n + 4) + 1 = a + n + 5
       /\ 0 \notin {a + 1, a + 3, a + n + 4}
  BY <1>1
<1>13. IdComponents(id) =
           [api |-> SubSeq(id, 1, a), kind |-> SubSeq(id, a + 2, a + 2),
            ns |-> SubSeq(id, a + 4, a + n + 3),
            name |-> SubSeq(id, a + n + 5, Len(id))]
  BY <1>4, <1>5, <1>6, <1>11, <1>12
<1> QED
  BY <1>7, <1>8, <1>9, <1>10, <1>13 DEF id, api, ns, name, word

-----------------------------------------------------------------------------
(* Deletes reach the object of their id.                                   *)

\* Of some natural numbers one is the least, for "<" is well-founded.
LEMMA LeastIsThere ==
    ASSUME NEW I \in SUBSET Nat, I # {}
    PROVE  \E x \in I : \A y \in I : x <= y
<1> DEFINE R == OpToRel(<, Nat)
<1>1. IsWellFoundedOn(R, Nat)
  BY NatLessThanWellFounded, Zenon
<1>2. R = {pair \in Nat \X Nat : pair[1] < pair[2]}
  BY Zenon DEF OpToRel
<1> HIDE DEF R
<1>3. \E x \in I : \A y \in I : ~(<<y, x>> \in R)
  BY <1>1, WFMin
<1>4. \A x, y \in I : ~(<<y, x>> \in R) => x <= y
  BY <1>2
<1> QED
  BY <1>3, <1>4

\* The first of some positions is among them.
LEMMA MinIsThere ==
    ASSUME NEW I \in SUBSET Nat, I # {}
    PROVE  Min(I) \in I
BY LeastIsThere DEF Min

\* The last of some positions is among them.
LEMMA MaxIsThere ==
    ASSUME NEW n \in Nat, NEW I \in SUBSET (1..n), I # {}
    PROVE  Max(I) \in I
<1> DEFINE J == {n - i : i \in I}
<1>1. J \in SUBSET Nat /\ J # {}
  <2>1. \A i \in I : n - i \in Nat
    OBVIOUS
  <2> QED
    BY <2>1
<1>2. PICK x \in J : \A y \in J : x <= y
  BY <1>1, LeastIsThere
<1>3. PICK i \in I : x = n - i
  BY <1>2
<1>4. \A j \in I : j <= i
  <2> SUFFICES ASSUME NEW j \in I PROVE j <= i
    OBVIOUS
  <2>1. n - i <= n - j
    BY <1>2, <1>3
  <2> QED
    BY <2>1
<1>5. \E k \in I : \A j \in I : k >= j
  BY <1>4
<1> QED
  BY <1>5 DEF Max

\* A resource name belongs to one kind of one group, and the group that a
\* manifest names is the one that its kind is listed in.  Where two groups
\* have a kind or a resource of one name, this does not hold.
OneResource ==
    \A i, j \in DOMAIN ApiResources :
        (/\ ApiResources[i].resource = ApiResources[j].resource
         /\ ApiResources[i].sub = "" /\ ApiResources[j].sub = "")
        => /\ ApiResources[i].group = ApiResources[j].group
           /\ ApiResources[i].kind = ApiResources[j].kind
OneGroup(d) ==
    \A i \in DOMAIN ApiResources :
        (ApiResources[i].kind = d.kind /\ ApiResources[i].sub = "")
        => ApiResources[i].group = GroupOf(d.api)

\* The request that the id of a manifest comes down to, unless kubectl turns
\* it down, is for the object of that manifest and for no other
\* (ordered_client.go:232-271).
THEOREM RequestsReachTheirObject ==
    ASSUME NEW A, ApiResources \in Seq(A), OneResource,
           NEW d, WellFormed(d), OneGroup(d),
           NEW r \in Request(ManifestId(d)), ~Refused(r)
    PROVE  ObjectAsked(r) = ObjectNamed(d)
<1> DEFINE Length == Len(ApiResources)
           OfKind == {i \in 1..Length : <<ApiResources[i].kind>> = <<d.kind>>}
           last == SelectLastInSeq(ApiResources,
                                   LAMBDA e : <<e.kind>> = <<d.kind>>)
           Named == {i \in 1..Length : ApiResources[i].resource = r.resource
                                       /\ ApiResources[i].sub = ""}
           first == SelectInSeq(ApiResources,
                        LAMBDA e : e.resource = r.resource /\ e.sub = "")
<1>1. Length \in Nat /\ DOMAIN ApiResources = 1..Length
  OBVIOUS
<1>2. last = IF OfKind # {} THEN Max(OfKind) ELSE 0
  BY DEF SelectLastInSeq
<1>3. first = IF Named # {} THEN Min(Named) ELSE 0
  BY DEF SelectInSeq
<1>4. ResourceOf(<<d.kind>>) = IF last = 0 THEN {} ELSE {ApiResources[last]}
  BY DEF ResourceOf
<1>5. ObjectAsked(r) = [group |-> ApiResources[first].group,
                        kind |-> ApiResources[first].kind,
                        ns |-> r.ns, name |-> r.name]
  BY DEF ObjectAsked
<1>6. PICK e \in ResourceOf(<<d.kind>>) :
          r = [resource |-> e.resource, sub |-> e.sub, ns |-> d.ns, name |-> d.name]
  BY IdsReadBack DEF Request
<1> HIDE DEF last, first, Length
<1>7. last \in OfKind /\ e = ApiResources[last]
  <2>1. last # 0 /\ e = ApiResources[last]
    BY <1>4, <1>6
  <2>2. OfKind # {} /\ last = Max(OfKind)
    BY <1>2, <2>1
  <2> QED
    BY <1>1, <2>1, <2>2, MaxIsThere
<1>8. e.kind = d.kind /\ e.sub = ""
  BY <1>6, <1>7 DEF Refused
<1>9. last \in Named
  BY <1>6, <1>7, <1>8
<1>10. first \in Named
  <2>1. Named \in SUBSET Nat /\ Named # {}
    <3>1. Named \subseteq 1..Length
      OBVIOUS
    <3> HIDE DEF Named
    <3> QED
      BY <1>1, <1>9, <3>1
  <2> QED
    BY <1>3, <2>1, MinIsThere
<1>11. /\ ApiResources[first].group = e.group
       /\ ApiResources[first].kind = e.kind
  BY <1>1, <1>7, <1>9, <1>10 DEF OneResource
<1>12. e.group = GroupOf(d.api)
  BY <1>1, <1>7, <1>8 DEF OneGroup
<1> QED
  BY <1>5, <1>6, <1>8, <1>11, <1>12 DEF ObjectNamed

-----------------------------------------------------------------------------
(* What is put in order is all there, each once.                           *)

IsOrder(R, S) ==
    /\ \A x \in S : <<x, x>> \notin R
    /\ \A x, y, z \in S : <<x, y>> \in R /\ <<y, z>> \in R => <<x, z>> \in R
    /\ \A x, y \in S : x = y \/ <<x, y>> \in R \/ <<y, x>> \in R

Distinct(list) == \A k, l \in DOMAIN list : list[k] = list[l] => k = l

\* How many come before x.
Before(S, R, x) == Cardinality({y \in S : <<y, x>> \in R})

\* Each member of a finite set in an order has a number of its own, that of
\* the members before it, and every number below the size of the set is one.
LEMMA Numbered ==
    ASSUME NEW S, IsFiniteSet(S), NEW R, IsOrder(R, S)
    PROVE  /\ Cardinality(S) \in Nat
           /\ \A x \in S : Before(S, R, x) \in 0..(Cardinality(S) - 1)
           /\ \A x, y \in S :
                  <<x, y>> \in R => Before(S, R, x) < Before(S, R, y)
           /\ \A k \in 0..(Cardinality(S) - 1) :
                  \E x \in S : Before(S, R, x) = k
<1> DEFINE n == Cardinality(S)
           Below(x) == {y \in S : <<y, x>> \in R}
           c == [x \in S |-> Cardinality(Below(x))]
<1>0. \A x \in S : c[x] = Before(S, R, x)
  BY DEF Before
<1>1. n \in Nat
  BY FS_CardinalityType
<1>2. ASSUME NEW x \in S PROVE c[x] \in 0..(n - 1)
  <2>1. IsFiniteSet(S \ {x}) /\ Cardinality(S \ {x}) = n - 1
    BY FS_RemoveElement
  <2>2. Below(x) \in SUBSET (S \ {x})
    BY DEF IsOrder
  <2> HIDE DEF Below
  <2>3. IsFiniteSet(Below(x)) /\ Cardinality(Below(x)) <= n - 1
    BY <2>1, <2>2, FS_Subset
  <2>4. Cardinality(Below(x)) \in Nat
    BY <2>3, FS_CardinalityType
  <2> QED
    BY <1>1, <2>3, <2>4
<1>3. ASSUME NEW x \in S, NEW y \in S, <<x, y>> \in R
      PROVE  c[x] < c[y]
  <2>1. Below(x) \in SUBSET S /\ Below(y) \in SUBSET S
    OBVIOUS
  <2>2. x \notin Below(x) /\ Below(x) \cup {x} \in SUBSET Below(y)
    BY <1>3 DEF IsOrder
  <2> HIDE DEF Below
  <2>3. IsFiniteSet(Below(x)) /\ IsFiniteSet(Below(y))
    BY <2>1, FS_Subset
  <2>4. Cardinality(Below(x) \cup {x}) = Cardinality(Below(x)) + 1
    BY <2>2, <2>3, FS_AddElement
  <2>5. Cardinality(Below(x) \cup {x}) <= Cardinality(Below(y))
    BY <2>2, <2>3, FS_Subset
  <2>6. Cardinality(Below(x)) \in Nat /\ Cardinality(Below(y)) \in Nat
    BY <2>3, FS_CardinalityType
  <2> QED
    BY <2>4, <2>5, <2>6
<1>4. ASSUME NEW k \in 0..(n - 1), \A x \in S : c[x] # k
      PROVE  FALSE
  <2> DEFINE T == (0..(n - 1)) \ {k}
  <2>1. IsFiniteSet(0..(n - 1)) /\ Cardinality(0..(n - 1)) = n
    <3>1. 0 \in Int /\ n - 1 \in Int /\ ~(0 > n - 1) /\ (n - 1) - 0 + 1 = n
      BY <1>1
    <3> QED
      BY <3>1, FS_Interval
  <2>2. IsFiniteSet(T) /\ Cardinality(T) = n - 1
    BY <2>1, FS_RemoveElement
  <2>3. c \in [S -> T]
    <3>1. \A x \in S : c[x] \in T
      BY <1>2, <1>4
    <3> HIDE DEF T
    <3> QED
      BY <3>1
  <2>4. Cardinality(T) < Cardinality(S)
    BY <1>1, <2>2
  <2> HIDE DEF T, c
  <2>5. PICK x \in S, y \in S : x # y /\ c[x] = c[y]
    BY <2>2, <2>3, <2>4, FS_PigeonHole
  <2>6. <<x, y>> \in R \/ <<y, x>> \in R
    BY <2>5 DEF IsOrder
  <2>7. c[x] \in 0..(n - 1) /\ c[y] \in 0..(n - 1)
    BY <1>2
  <2>8. c[x] < c[y] \/ c[y] < c[x]
    BY <1>3, <2>6
  <2> QED
    BY <1>1, <2>5, <2>7, <2>8
<1> QED
  <2> HIDE DEF c
  <2> QED
    BY <1>0, <1>1, <1>2, <1>3, <1>4

\* InOrder lists every member of the set, each once, and nothing else.
LEMMA InOrderLists ==
    ASSUME NEW S, IsFiniteSet(S), NEW R, IsOrder(R, S)
    PROVE  LET list == InOrder(S, R)
           IN  /\ list \in Seq(S) /\ Len(list) = Cardinality(S)
               /\ \A x \in S : \E k \in DOMAIN list : list[k] = x
               /\ \A k, l \in DOMAIN list : list[k] = list[l] => k = l
<1> DEFINE n == Cardinality(S)
           c(x) == Before(S, R, x)
           list == InOrder(S, R)
<1>1. /\ n \in Nat
      /\ \A x \in S : c(x) \in 0..(n - 1)
      /\ \A x, y \in S : <<x, y>> \in R => c(x) < c(y)
      /\ \A k \in 0..(n - 1) : \E x \in S : c(x) = k
  BY Numbered
<1>2. list = [k \in 1..n |-> CHOOSE x \in S : c(x) = k - 1]
  BY DEF InOrder, Before
<1> HIDE DEF n, c, list
<1>3. ASSUME NEW k \in 1..n PROVE list[k] \in S /\ c(list[k]) = k - 1
  <2>1. k - 1 \in 0..(n - 1)
    BY <1>1
  <2>2. \E x \in S : c(x) = k - 1
    BY <1>1, <2>1
  <2> QED
    BY <1>2, <2>2
<1>4. ASSUME NEW x \in S, NEW y \in S, c(x) = c(y) PROVE x = y
  <2>1. c(x) \in 0..(n - 1) /\ c(y) \in 0..(n - 1)
    BY <1>1
  <2>2. ~(<<x, y>> \in R) /\ ~(<<y, x>> \in R)
    BY <1>1, <1>4, <2>1
  <2> QED
    BY <2>2 DEF IsOrder
<1>5. list \in Seq(S) /\ Len(list) = n /\ DOMAIN list = 1..n
  <2>1. list = [k \in 1..n |-> list[k]]
    BY <1>2
  <2> QED
    BY <1>1, <1>3, <2>1
<1>6. ASSUME NEW x \in S PROVE \E k \in DOMAIN list : list[k] = x
  <2>1. c(x) + 1 \in 1..n /\ (c(x) + 1) - 1 = c(x)
    BY <1>1
  <2>2. list[c(x) + 1] \in S /\ c(list[c(x) + 1]) = c(x)
    BY <1>3, <2>1
  <2>3. list[c(x) + 1] = x
    BY <1>4, <2>2
  <2> QED
    BY <1>5, <2>1, <2>3
<1>7. ASSUME NEW k \in DOMAIN list, NEW l \in DOMAIN list, list[k] = list[l]
      PROVE  k = l
  <2>1. k - 1 = l - 1
    BY <1>3, <1>5, <1>7
  <2>2. k \in Int /\ l \in Int
    BY <1>1, <1>5
  <2> QED
    BY <2>1, <2>2
<1> QED
  BY <1>5, <1>6, <1>7 DEF list, n

-----------------------------------------------------------------------------
(* What is read from a directory.                                          *)

\* The names of files are told apart by their place in the listing.
LEMMA NamesHaveRanks ==
    /\ \A f \in FileNames : NameRank(f) \in Nat
    /\ \A f, g \in FileNames : NameRank(f) = NameRank(g) => f = g
<1>1. /\ DOMAIN ExtensionRank = {"json", "txt", "yaml", "yml"}
      /\ ExtensionRank["json"] = 1
      /\ ExtensionRank["txt"] = 2
      /\ ExtensionRank["yaml"] = 3
      /\ ExtensionRank["yml"] = 4
  BY DEF ExtensionRank
<1> DEFINE b(f) == IF f.tpl THEN 0 ELSE 4
           e(f) == ExtensionRank[f.ext]
<1>2. ASSUME NEW f \in FileNames
      PROVE  /\ f.base \in Nat /\ f.tpl \in BOOLEAN
             /\ b(f) \in {0, 4} /\ e(f) \in {1, 2, 3, 4}
             /\ NameRank(f) = 8 * f.base + b(f) + e(f)
  <2>1. f.base \in Nat /\ f.tpl \in BOOLEAN /\ f.ext \in {"json", "txt", "yaml", "yml"}
    BY <1>1 DEF FileNames
  <2>2. e(f) \in {1, 2, 3, 4}
    BY <1>1, <2>1
  <2>3. NameRank(f) = 8 * f.base + b(f) + e(f)
    BY DEF NameRank
  <2> QED
    BY <2>1, <2>2, <2>3
<1>3. ASSUME NEW f \in FileNames PROVE NameRank(f) \in Nat
  <2> HIDE DEF b, e
  <2>1. b(f) \in Nat /\ e(f) \in Nat
    BY <1>2
  <2> QED
    BY <1>2, <2>1
<1>4. ASSUME NEW f \in FileNames, NEW g \in FileNames, NameRank(f) = NameRank(g)
      PROVE  f = g
  <2>1. f.base = g.base /\ b(f) = b(g) /\ e(f) = e(g)
    <3> HIDE DEF b, e
    <3>1. f.base \in Nat /\ g.base \in Nat
      BY <1>2
    <3>2. 8 * f.base + b(f) + e(f) = 8 * g.base + b(g) + e(g)
      BY <1>2, <1>4
    <3>3. b(f) \in {0, 4} /\ e(f) \in {1, 2, 3, 4} /\ b(g) \in {0, 4} /\ e(g) \in {1, 2, 3, 4}
      BY <1>2
    <3>4. b(f) + e(f) \in 1..8 /\ b(g) + e(g) \in 1..8
      BY <3>3
    <3>5. \A x, y \in Nat, u, v \in 1..8 : 8 * x + u = 8 * y + v => x = y /\ u = v
      OBVIOUS
    <3>6. f.base = g.base /\ b(f) + e(f) = b(g) + e(g)
      <4> DEFINE u == b(f) + e(f)
                 v == b(g) + e(g)
      <4>1. 8 * f.base + u = 8 * g.base + v
        BY <3>1, <3>2, <3>3
      <4> HIDE DEF u, v
      <4>2. u \in 1..8 /\ v \in 1..8
        BY <3>4 DEF u, v
      <4>3. f.base = g.base /\ u = v
        BY <3>1, <3>5, <4>1, <4>2
      <4> QED
        BY <4>3 DEF u, v
    <3> QED
      BY <3>3, <3>6
  <2>2. f.tpl = g.tpl
    BY <1>2, <2>1
  <2>3. f.ext = g.ext
    <3>1. f.ext \in {"json", "txt", "yaml", "yml"} /\ g.ext \in {"json", "txt", "yaml", "yml"}
      BY <1>1 DEF FileNames
    <3> QED
      BY <1>1, <2>1, <3>1
  <2> QED
    BY <2>1, <2>2, <2>3 DEF FileNames
<1> QED
  BY <1>3, <1>4

\* The lexical order is an order of file names.
LEMMA NamesAreOrdered ==
    ASSUME NEW S \in SUBSET FileNames
    PROVE  IsOrder(NameOrder(S), S)
<1>1. \A f, g \in S : <<f, g>> \in NameOrder(S) <=> NameRank(f) < NameRank(g)
  BY DEF NameOrder
<1>2. \A f \in S : NameRank(f) \in Nat
  BY NamesHaveRanks
<1>3. \A f, g \in S : NameRank(f) = NameRank(g) => f = g
  BY NamesHaveRanks
<1> QED
  BY <1>1, <1>2, <1>3 DEF IsOrder

\* The order of the walk is an order of the places of documents.
LEMMA PlacesAreOrdered ==
    ASSUME NEW P \in SUBSET (FileNames \X Nat)
    PROVE  IsOrder(WalkOrder(P), P)
<1> DEFINE r(p) == NameRank(p[1])
<1>1. \A p, q \in P :
          <<p, q>> \in WalkOrder(P)
          <=> (r(p) < r(q) \/ (p[1] = q[1] /\ p[2] < q[2]))
  BY DEF WalkOrder
<1>2. \A p \in P : r(p) \in Nat /\ p[2] \in Nat /\ p = <<p[1], p[2]>>
  BY NamesHaveRanks
<1>3. \A p, q \in P : r(p) = r(q) <=> p[1] = q[1]
  BY NamesHaveRanks
<1> HIDE DEF r
<1>4. \A p \in P : <<p, p>> \notin WalkOrder(P)
  BY <1>1, <1>2
<1>5. ASSUME NEW p \in P, NEW q \in P, NEW s \in P,
             <<p, q>> \in WalkOrder(P), <<q, s>> \in WalkOrder(P)
      PROVE  <<p, s>> \in WalkOrder(P)
  BY <1>1, <1>2, <1>3, <1>5
<1>6. ASSUME NEW p \in P, NEW q \in P
      PROVE  p = q \/ <<p, q>> \in WalkOrder(P) \/ <<q, p>> \in WalkOrder(P)
  BY <1>1, <1>2, <1>3
<1> QED
  BY <1>4, <1>5, <1>6 DEF IsOrder

\* A directory: finitely many files, whose documents and texts are of some
\* sets.
IsDir(files, docs, texts) ==
    /\ IsFiniteSet(DOMAIN files) /\ DOMAIN files \subseteq FileNames
    /\ \A f \in DOMAIN files :
           files[f].docs \in Seq(docs) /\ files[f].holds \subseteq texts

\* The places of documents in a directory are finitely many.
LEMMA PlacesAreFinite ==
    ASSUME NEW files, NEW docs, NEW texts, IsDir(files, docs, texts), NEW exts
    PROVE  /\ IsFiniteSet(Places(files, exts))
           /\ Places(files, exts) \subseteq FileNames \X Nat
           /\ \A p \in Places(files, exts) :
                  /\ p[1] \in DOMAIN files
                  /\ p[2] \in DOMAIN files[p[1]].docs
                  /\ p[1].ext \in exts
<1> DEFINE F == {g \in DOMAIN files : g.ext \in exts}
           Row == [f \in F |-> {f} \X DOMAIN files[f].docs]
           T == {Row[f] : f \in F}
<1>1. IsFiniteSet(F)
  <2>1. F \in SUBSET DOMAIN files /\ IsFiniteSet(DOMAIN files)
    BY DEF IsDir
  <2> HIDE DEF F
  <2> QED
    BY <2>1, FS_Subset
<1>2. Places(files, exts) = UNION T
  BY DEF Places
<1>3. ASSUME NEW f \in F
      PROVE  /\ DOMAIN files[f].docs = 1..Len(files[f].docs)
             /\ Len(files[f].docs) \in Nat
  <2>1. files[f].docs \in Seq(docs)
    BY DEF IsDir
  <2> QED
    BY <2>1
<1>4. \A f \in F : IsFiniteSet(Row[f])
  <2> SUFFICES ASSUME NEW f \in F PROVE IsFiniteSet({f} \X DOMAIN files[f].docs)
    OBVIOUS
  <2>1. IsFiniteSet({f})
    BY FS_Singleton
  <2>2. IsFiniteSet(DOMAIN files[f].docs)
    BY <1>3, FS_Interval
  <2> QED
    BY <2>1, <2>2, FS_Product
<1>5. \A p \in UNION T :
          p[1] \in F /\ p[2] \in DOMAIN files[p[1]].docs /\ p = <<p[1], p[2]>>
  <2> SUFFICES ASSUME NEW p \in UNION T
               PROVE  p[1] \in F /\ p[2] \in DOMAIN files[p[1]].docs
                      /\ p = <<p[1], p[2]>>
    OBVIOUS
  <2>1. PICK f \in F : p \in {f} \X DOMAIN files[f].docs
    OBVIOUS
  <2>2. p[1] = f /\ p[2] \in DOMAIN files[f].docs /\ p = <<p[1], p[2]>>
    BY <2>1
  <2> QED
    BY <2>2
<1>6. F \subseteq FileNames
  BY DEF IsDir
<1>7. IsFiniteSet(T)
  <2>1. Row \in Surjection(F, T)
    BY DEF Surjection
  <2> HIDE DEF Row, T, F
  <2> QED
    BY <1>1, <2>1, FS_Surjection
<1>8. \A t \in T : IsFiniteSet(t)
  BY <1>4
<1>9. IsFiniteSet(UNION T)
  <2> HIDE DEF T
  <2> QED
    BY <1>7, <1>8, FS_UNION
<1>10. \A p \in UNION T : p \in FileNames \X Nat
  <2> SUFFICES ASSUME NEW p \in UNION T PROVE p \in FileNames \X Nat
    OBVIOUS
  <2>1. p[1] \in F /\ p[2] \in DOMAIN files[p[1]].docs /\ p = <<p[1], p[2]>>
    BY <1>5
  <2>2. p[2] \in Nat
    BY <1>3, <2>1
  <2> QED
    BY <1>6, <2>1, <2>2
<1> QED
  BY <1>2, <1>5, <1>9, <1>10

\* The places of the manifests of a directory.
LEMMA ManifestPlacesAreFinite ==
    ASSUME NEW files, NEW docs, NEW texts, IsDir(files, docs, texts)
    PROVE  /\ IsFiniteSet(ManifestPlaces(files))
           /\ ManifestPlaces(files) \subseteq FileNames \X Nat
           /\ \A p \in ManifestPlaces(files) :
                  /\ p[1] \in DOMAIN files
                  /\ p[2] \in DOMAIN files[p[1]].docs
                  /\ p[1].ext = "yaml"
                  /\ IsManifest(DocumentAt(files, p).doc)
<1> DEFINE P == ManifestPlaces(files)
           Q == Places(files, {"yaml"})
<1>1. /\ IsFiniteSet(Q) /\ Q \subseteq FileNames \X Nat
      /\ \A p \in Q : /\ p[1] \in DOMAIN files
                      /\ p[2] \in DOMAIN files[p[1]].docs
                      /\ p[1].ext \in {"yaml"}
  BY PlacesAreFinite
<1>2. P \in SUBSET Q
  BY DEF ManifestPlaces
<1>3. \A p \in P : IsManifest(DocumentAt(files, p).doc)
  BY DEF ManifestPlaces
<1> HIDE DEF P, Q
<1>4. IsFiniteSet(P)
  BY <1>1, <1>2, FS_Subset
<1> QED
  BY <1>1, <1>2, <1>3, <1>4 DEF P

\* GetManifests goes through those places, to each once.
LEMMA ManifestsWalk ==
    ASSUME NEW files, NEW docs, NEW texts, IsDir(files, docs, texts)
    PROVE  \E walk \in Seq(ManifestPlaces(files)) :
               /\ Distinct(walk)
               /\ ToSet(walk) = ManifestPlaces(files)
               /\ GetManifests(files) =
                      [k \in DOMAIN walk |-> DocumentAt(files, walk[k])]
<1> DEFINE P == ManifestPlaces(files)
           walk == InOrder(P, WalkOrder(P))
<1>1. IsFiniteSet(P) /\ P \in SUBSET (FileNames \X Nat)
  BY ManifestPlacesAreFinite
<1>2. GetManifests(files) = [k \in DOMAIN walk |-> DocumentAt(files, walk[k])]
  BY DEF GetManifests, ManifestsAt
<1> HIDE DEF P
<1>3. /\ walk \in Seq(P)
      /\ \A x \in P : \E k \in DOMAIN walk : walk[k] = x
      /\ \A k, l \in DOMAIN walk : walk[k] = walk[l] => k = l
  BY <1>1, InOrderLists, PlacesAreOrdered
<1> HIDE DEF walk
<1>4. ToSet(walk) = P
  <2>1. \A k \in DOMAIN walk : walk[k] \in P
    BY <1>3
  <2> QED
    BY <1>3, <2>1 DEF ToSet
<1> QED
  BY <1>2, <1>3, <1>4 DEF P, Distinct

\* GetManifests returns the manifests of the .yaml files, all and no others.
LEMMA ManifestsAreRead ==
    ASSUME NEW files, NEW docs, NEW texts, IsDir(files, docs, texts)
    PROVE  LET read == GetManifests(files)
           IN  /\ read \in Seq([doc : {d \in docs : IsManifest(d)},
                                holds : SUBSET texts])
               /\ {read[k] : k \in DOMAIN read} =
                      {DocumentAt(files, p) : p \in ManifestPlaces(files)}
<1> DEFINE P == ManifestPlaces(files)
           read == GetManifests(files)
           M == [doc : {d \in docs : IsManifest(d)}, holds : SUBSET texts]
<1>1. \A p \in P : /\ p[1] \in DOMAIN files
                  /\ p[2] \in DOMAIN files[p[1]].docs
                  /\ IsManifest(DocumentAt(files, p).doc)
  BY ManifestPlacesAreFinite
<1> HIDE DEF P, read
<1>2. PICK walk \in Seq(P) :
          /\ ToSet(walk) = P
          /\ read = [k \in DOMAIN walk |-> DocumentAt(files, walk[k])]
  BY ManifestsWalk DEF P, read
<1>3. \A x \in P : \E k \in DOMAIN walk : walk[k] = x
  BY <1>2 DEF ToSet
<1>4. ASSUME NEW p \in P PROVE DocumentAt(files, p) \in M
  <2>1. files[p[1]].docs \in Seq(docs) /\ files[p[1]].holds \subseteq texts
    BY <1>1 DEF IsDir
  <2>2. files[p[1]].docs[p[2]] \in docs
    BY <1>1, <2>1
  <2> QED
    BY <1>1, <2>1, <2>2 DEF DocumentAt
<1>5. DOMAIN walk = 1..Len(walk) /\ Len(walk) \in Nat
      /\ \A k \in DOMAIN walk : walk[k] \in P
  BY <1>2
<1>6. read \in Seq(M)
  <2> HIDE DEF M
  <2> QED
    BY <1>2, <1>4, <1>5
<1>7. {read[k] : k \in DOMAIN read} = {DocumentAt(files, p) : p \in P}
  BY <1>2, <1>3, <1>5
<1> QED
  BY <1>6, <1>7 DEF read, P

-----------------------------------------------------------------------------
(* The directory of a run.                                                 *)

Docs(src) == UNION {ToSet(src[f].docs) : f \in DOMAIN src}
Texts(src) == {src[f].text : f \in DOMAIN src}

\* Where the files of the directory may be from: the provider's are those of
\* its source, kaexpand may have those of earlier runs too.
Origins == IF tool = "provider" THEN {source} ELSE Sources
FromDocs == UNION {Docs(src) : src \in Origins}
FromTexts == UNION {Texts(src) : src \in Origins}
Entries(docs, texts) ==
    [doc : {d \in docs : IsManifest(d)}, holds : SUBSET texts]

RunTypes ==
    /\ phase \in Phases
    /\ tool \in {"provider", "kaexpand"}
    /\ noDiff \in BOOLEAN /\ created \in BOOLEAN /\ trouble \in BOOLEAN
    /\ source \in Sources \cup {<<>>}
    /\ runs \in 0..MaxRuns

\* The queue has the templates that the directory still holds, each once;
\* when it is empty the manifests of the directory are read.
DirInv ==
    /\ IsDir(dir, FromDocs, FromTexts)
    /\ queue \in Seq(FileNames) /\ Distinct(queue)
    /\ phase = "walk" => ToSet(queue) = {f \in DOMAIN dir : f.tpl}
    /\ phase \notin {"idle", "walk"} =>
           (\A f \in DOMAIN dir : ~f.tpl) /\ manifests = GetManifests(dir)
    /\ manifests \in Seq(Entries(FromDocs, FromTexts))

\* What the diff shows is what kubectl finds in the directory.
ShownInv ==
    /\ phase \in {"walk", "expanded"} => shown = {}
    /\ shown \subseteq KubectlReads(dir)
    /\ phase \in {"planned", "delete", "apply"} /\ ~noDiff
           => shown = KubectlShows(dir)

\* The state has manifests of the sources under their own ids.
SavedInv ==
    /\ \A id \in DOMAIN saved :
           /\ ManifestId(saved[id].doc) = id
           /\ IsManifest(saved[id].doc)
           /\ \E src \in Sources : saved[id].doc \in Docs(src)
    /\ doomed \subseteq DOMAIN saved
    /\ phase # "delete" => doomed = {}

\* What has been applied and what is left are the manifests that were read.
AppliedInv ==
    /\ todo \subseteq DOMAIN manifests
    /\ applied \in Seq(Entries(FromDocs, FromTexts))
    /\ phase \in {"walk", "expanded", "planned", "delete"} => applied = <<>>
    /\ phase \in {"walk", "expanded", "planned"} => todo = {}
    /\ phase = "delete" => todo = DOMAIN manifests
    /\ phase = "apply" => ToSet(applied) =
                              {manifests[i] : i \in DOMAIN manifests \ todo}

BundleInv == RunTypes /\ DirInv /\ ShownInv /\ SavedInv /\ AppliedInv

\* What the source assumption says of the files of a source.
LEMMA SourceFiles ==
    ASSUME NEW src \in Sources
    PROVE  /\ IsFiniteSet(DOMAIN src) /\ DOMAIN src \subseteq FileNames
           /\ \A f \in DOMAIN src : src[f].docs \in Seq(ToSet(src[f].docs))
BY SourceAssumption

\* A list is one of more things, too.
LEMMA SeqOfMore ==
    ASSUME NEW S, NEW T, S \subseteq T, NEW list \in Seq(S)
    PROVE  list \in Seq(T)
OBVIOUS

\* What is fetched is a directory of the source's documents and texts.
LEMMA FetchedIsDir ==
    ASSUME NEW src \in Sources, NEW docs, NEW texts,
           Docs(src) \subseteq docs, Texts(src) \subseteq texts
    PROVE  IsDir(Fetched(src), docs, texts)
<1> DEFINE files == Fetched(src)
<1>1. DOMAIN files = DOMAIN src
  BY DEF Fetched
<1>2. ASSUME NEW f \in DOMAIN src
      PROVE  files[f].docs \in Seq(docs) /\ files[f].holds \subseteq texts
  <2>1. files[f] = [docs |-> src[f].docs, reads |-> src[f].reads,
                    holds |-> {src[f].text}]
    BY DEF Fetched
  <2>2. files[f].docs = src[f].docs /\ files[f].holds = {src[f].text}
    BY <2>1
  <2>3. ToSet(src[f].docs) \subseteq docs
    BY DEF Docs
  <2>4. src[f].docs \in Seq(docs)
    BY <2>3, SourceFiles, SeqOfMore
  <2>5. src[f].text \in texts
    BY DEF Texts
  <2> QED
    BY <2>2, <2>4, <2>5
<1> HIDE DEF files
<1> QED
  BY <1>1, <1>2, SourceFiles DEF IsDir, files

\* What Over and Put make.
LEMMA OverValues ==
    ASSUME NEW top, NEW f
    PROVE  /\ DOMAIN Over(top, f) = DOMAIN top \cup DOMAIN f
           /\ \A x \in DOMAIN top : Over(top, f)[x] = top[x]
           /\ \A x \in DOMAIN f \ DOMAIN top : Over(top, f)[x] = f[x]
BY DEF Over

\* One directory over another is a directory.
LEMMA OverIsDir ==
    ASSUME NEW docs, NEW texts, NEW top, IsDir(top, docs, texts),
           NEW files, IsDir(files, docs, texts)
    PROVE  IsDir(Over(top, files), docs, texts)
<1>1. IsFiniteSet(DOMAIN top \cup DOMAIN files)
  BY FS_Union DEF IsDir
<1>2. ASSUME NEW x \in DOMAIN top \cup DOMAIN files
      PROVE  /\ x \in FileNames
             /\ Over(top, files)[x].docs \in Seq(docs)
             /\ Over(top, files)[x].holds \subseteq texts
  <2>1. CASE x \in DOMAIN top
    <3>1. Over(top, files)[x] = top[x]
      BY <2>1, OverValues
    <3>2. x \in FileNames /\ top[x].docs \in Seq(docs) /\ top[x].holds \subseteq texts
      BY <2>1 DEF IsDir
    <3> QED
      BY <3>1, <3>2
  <2>2. CASE x \in DOMAIN files \ DOMAIN top
    <3>1. Over(top, files)[x] = files[x]
      BY <2>2 DEF Over
    <3>2. /\ x \in FileNames
          /\ files[x].docs \in Seq(docs) /\ files[x].holds \subseteq texts
      BY <2>2 DEF IsDir
    <3> QED
      BY <3>1, <3>2
  <2> QED
    BY <2>1, <2>2
<1> QED
  BY <1>1, <1>2, OverValues DEF IsDir

\* A file more, or other contents of one, leave a directory.
LEMMA PutIsDir ==
    ASSUME NEW docs, NEW texts, NEW files, IsDir(files, docs, texts),
           NEW f \in FileNames, NEW file,
           file.docs \in Seq(docs), file.holds \subseteq texts
    PROVE  IsDir(Put(f, file, files), docs, texts)
<1> DEFINE top == [y \in {f} |-> file]
<1>1. DOMAIN top = {f} /\ top[f] = file
  OBVIOUS
<1>2. IsFiniteSet({f})
  BY FS_Singleton
<1> HIDE DEF top
<1>3. IsDir(top, docs, texts)
  BY <1>1, <1>2 DEF IsDir
<1>4. Put(f, file, files) = Over(top, files)
  BY DEF Put, top
<1> QED
  BY <1>3, <1>4, OverIsDir

\* What Put makes.
LEMMA PutValues ==
    ASSUME NEW f, NEW x, NEW value
    PROVE  /\ DOMAIN Put(x, value, f) = DOMAIN f \cup {x}
           /\ Put(x, value, f)[x] = value
           /\ \A y \in DOMAIN f \ {x} : Put(x, value, f)[y] = f[y]
BY DEF Put, Over

\* Some files of a directory are a directory.
LEMMA RestrictIsDir ==
    ASSUME NEW docs, NEW texts, NEW files, IsDir(files, docs, texts),
           NEW S \in SUBSET DOMAIN files
    PROVE  IsDir(Restrict(files, S), docs, texts)
<1>1. IsFiniteSet(S)
  BY FS_Subset DEF IsDir
<1>2. DOMAIN Restrict(files, S) = S
      /\ \A f \in S : Restrict(files, S)[f] = files[f]
  BY DEF Restrict
<1> QED
  BY <1>1, <1>2 DEF IsDir

\* The walk is to come to each template of the directory once.
LEMMA TemplatesListed ==
    ASSUME NEW files, NEW docs, NEW texts, IsDir(files, docs, texts)
    PROVE  /\ Templates(files) \in Seq(FileNames)
           /\ Distinct(Templates(files))
           /\ ToSet(Templates(files)) = {f \in DOMAIN files : f.tpl}
<1> DEFINE S == {f \in DOMAIN files : f.tpl}
           list == Templates(files)
<1>1. S \in SUBSET FileNames /\ S \in SUBSET DOMAIN files
      /\ IsFiniteSet(DOMAIN files)
  BY DEF IsDir
<1>2. list = InOrder(S, NameOrder(S))
  BY DEF Templates, Listing
<1> HIDE DEF S, list
<1>3. IsFiniteSet(S)
  BY <1>1, FS_Subset
<1>4. /\ list \in Seq(S)
      /\ \A x \in S : \E k \in DOMAIN list : list[k] = x
      /\ \A k, l \in DOMAIN list : list[k] = list[l] => k = l
  BY <1>1, <1>2, <1>3, InOrderLists, NamesAreOrdered
<1>5. list \in Seq(FileNames)
  BY <1>1, <1>4, SeqOfMore
<1>6. \A k \in DOMAIN list : list[k] \in S
  BY <1>4
<1> QED
  BY <1>4, <1>5, <1>6 DEF Distinct, ToSet, S, list

\* What a template expands to is a file that is none.
LEMMA OutputIsPlain ==
    ASSUME NEW f \in FileNames
    PROVE  Output(f) \in FileNames /\ ~Output(f).tpl /\ Output(f).ext = f.ext
BY DEF Output, FileNames

\* A run begins.
LEMMA BundleStart ==
    ASSUME BundleInv, StartProvider \/ StartKaexpand
    PROVE  BundleInv'
<1> USE DEF BundleInv
<1> DEFINE docs == FromDocs'
           texts == FromTexts'
<1>1. PICK src \in Sources : source' = src
  BY DEF StartProvider, StartKaexpand
<1>2. /\ runs < MaxRuns /\ runs' = runs + 1
      /\ queue' = Templates(dir')
      /\ phase' = "walk"
      /\ manifests' = <<>> /\ shown' = {} /\ asked' = {}
      /\ todo' = {} /\ applied' = <<>> /\ trouble' = FALSE
      /\ created' = created /\ saved' = saved /\ doomed' = doomed
      /\ phase = "idle"
      /\ noDiff' \in BOOLEAN /\ tool' \in {"provider", "kaexpand"}
  BY DEF StartProvider, StartKaexpand, Begins
<1>3. Docs(src) \subseteq docs /\ Texts(src) \subseteq texts
  <2>1. src \in Origins'
    BY <1>1 DEF Origins
  <2>2. FromDocs' = UNION {Docs(s) : s \in Origins'}
        /\ FromTexts' = UNION {Texts(s) : s \in Origins'}
    BY DEF FromDocs, FromTexts, Docs, Texts
  <2> QED
    BY <2>1, <2>2
<1>4. IsDir(dir', docs, texts)
  <2> HIDE DEF docs, texts
  <2>1. IsDir(Fetched(src), docs, texts)
    BY <1>3, FetchedIsDir
  <2>2. CASE dir' = Fetched(src)
    BY <2>1, <2>2
  <2>3. CASE dir' = Over(Fetched(src), dir) /\ tool = "kaexpand" /\ tool' = "kaexpand"
    <3>1. Origins = Sources /\ Origins' = Sources
      BY <2>3 DEF Origins
    <3>2. docs = FromDocs /\ texts = FromTexts
      BY <3>1 DEF docs, texts, FromDocs, FromTexts, Docs, Texts
    <3>3. IsDir(dir, docs, texts)
      BY <3>2 DEF DirInv
    <3> QED
      BY <2>1, <2>3, <3>3, OverIsDir
  <2> QED
    BY <1>1, <2>2, <2>3 DEF StartProvider, StartKaexpand, Begins
<1>5. RunTypes'
  <2>1. runs + 1 \in 0..MaxRuns
    BY <1>2, SourceAssumption DEF RunTypes
  <2> QED
    BY <1>1, <1>2, <2>1 DEF RunTypes, Phases
<1>6. DirInv'
  <2> HIDE DEF docs, texts
  <2>1. /\ queue' \in Seq(FileNames) /\ Distinct(queue')
        /\ ToSet(queue') = {f \in DOMAIN dir' : f.tpl}
    BY <1>2, <1>4, TemplatesListed
  <2>2. manifests' \in Seq(Entries(docs, texts))
    BY <1>2
  <2> QED
    BY <1>2, <1>4, <2>1, <2>2 DEF DirInv, docs, texts, Distinct, Entries, ToSet, IsDir
<1>7. ShownInv'
  BY <1>2 DEF ShownInv
<1>8. SavedInv'
  BY <1>2 DEF SavedInv, Docs
<1>9. AppliedInv'
  <2>1. applied' \in Seq(Entries(docs, texts)) /\ DOMAIN manifests' = {}
    BY <1>2
  <2> QED
    BY <1>2, <2>1 DEF AppliedInv, Entries
<1> QED
  BY <1>5, <1>6, <1>7, <1>8, <1>9

\* The walk comes to one template.
LEMMA BundleExpandOne ==
    ASSUME BundleInv, ExpandOne
    PROVE  BundleInv'
<1> USE DEF BundleInv
<1> DEFINE f == Head(queue)
           out == Output(f)
           opened == Put(out, Created, dir)
           written == Put(out, Rendered(opened, f), dir)
           docs == FromDocs
           texts == FromTexts
<1>1. /\ phase = "walk" /\ queue # <<>>
      /\ tool' = tool /\ noDiff' = noDiff /\ source' = source
      /\ manifests' = manifests /\ shown' = shown /\ created' = created
      /\ saved' = saved /\ doomed' = doomed /\ asked' = asked
      /\ todo' = todo /\ applied' = applied /\ trouble' = trouble
      /\ runs' = runs
  BY DEF ExpandOne, stateVars, applyVars
<1>2. \/ /\ Includes(opened, f)
         /\ dir' = Restrict(written, DOMAIN written \ {f})
         /\ queue' = Tail(queue) /\ phase' = "walk"
      \/ dir' = opened /\ queue' = <<>> /\ phase' = "idle"
  BY <1>1 DEF ExpandOne
<1>3. docs' = docs /\ texts' = texts
  BY <1>1 DEF FromDocs, FromTexts, Origins, Docs, Texts
<1>4. /\ queue \in Seq(FileNames) /\ Distinct(queue)
      /\ ToSet(queue) = {g \in DOMAIN dir : g.tpl}
      /\ IsDir(dir, docs, texts)
  BY <1>1 DEF DirInv
<1>5. /\ DOMAIN queue = 1..Len(queue) /\ Len(queue) \in Nat \ {0}
      /\ f = queue[1] /\ 1 \in DOMAIN queue
      /\ Tail(queue) \in Seq(FileNames)
      /\ DOMAIN Tail(queue) = 1..(Len(queue) - 1)
      /\ \A k \in 1..(Len(queue) - 1) : Tail(queue)[k] = queue[k + 1]
  BY <1>1, <1>4
<1>6. f \in DOMAIN dir /\ f.tpl /\ f \in FileNames
  <2>1. f \in ToSet(queue)
    BY <1>5 DEF ToSet
  <2>2. f \in FileNames
    BY <1>4, <1>5
  <2> QED
    BY <1>4, <2>1, <2>2
<1>7. out \in FileNames /\ ~out.tpl /\ out # f
  BY <1>6, OutputIsPlain
<1> HIDE DEF f, out, docs, texts
<1>8. IsDir(opened, docs, texts)
  <2>1. Created.docs \in Seq(docs) /\ Created.holds \subseteq texts
    <3>1. Created.docs = <<>> /\ Created.holds = {}
      BY DEF Created
    <3> QED
      BY <3>1
  <2> QED
    BY <1>4, <1>7, <2>1, PutIsDir
<1>9. ASSUME Includes(opened, f) PROVE IsDir(written, docs, texts)
  <2>1. DOMAIN opened = DOMAIN dir \cup {out} /\ f \in DOMAIN opened
    <3>1. DOMAIN opened = DOMAIN dir \cup {out}
      BY PutValues
    <3> HIDE DEF opened
    <3> QED
      BY <1>6, <3>1
  <2>2. \A g \in DOMAIN opened :
            opened[g].docs \in Seq(docs) /\ opened[g].holds \subseteq texts
    BY <1>8 DEF IsDir
  <2>3. Rendered(opened, f).docs = opened[f].docs
    BY DEF Rendered
  <2>4. Rendered(opened, f).holds =
            opened[f].holds \cup UNION {opened[g].holds : g \in opened[f].reads}
    BY DEF Rendered
  <2>5. \A g \in opened[f].reads : opened[g].holds \subseteq texts
    BY <1>9, <2>2 DEF Includes
  <2>6. Rendered(opened, f).docs \in Seq(docs)
        /\ Rendered(opened, f).holds \subseteq texts
    BY <2>1, <2>2, <2>3, <2>4, <2>5
  <2> QED
    BY <1>4, <1>7, <2>6, PutIsDir
<1>10. /\ DOMAIN opened = DOMAIN dir \cup {out}
       /\ DOMAIN written = DOMAIN dir \cup {out}
  BY PutValues
<1> HIDE DEF opened, written
<1>11. IsDir(dir', docs, texts)
  <2>1. CASE dir' = opened
    BY <1>8, <2>1
  <2>2. CASE Includes(opened, f) /\ dir' = Restrict(written, DOMAIN written \ {f})
    BY <1>9, <2>2, RestrictIsDir
  <2> QED
    BY <1>2, <2>1, <2>2
<1>12. queue' \in Seq(FileNames) /\ Distinct(queue')
  <2>1. CASE queue' = Tail(queue)
    <3>1. ASSUME NEW k \in DOMAIN queue', NEW l \in DOMAIN queue',
                 queue'[k] = queue'[l]
          PROVE  k = l
      <4>1. /\ k \in 1..(Len(queue) - 1) /\ l \in 1..(Len(queue) - 1)
            /\ queue[k + 1] = queue[l + 1]
        BY <1>5, <2>1, <3>1
      <4>2. k + 1 \in DOMAIN queue /\ l + 1 \in DOMAIN queue
        BY <1>5, <4>1
      <4>3. k + 1 = l + 1
        BY <1>4, <4>1, <4>2 DEF Distinct
      <4> QED
        BY <4>1, <4>3
    <3> QED
      BY <1>5, <2>1, <3>1 DEF Distinct
  <2>2. CASE queue' = <<>>
    <3>1. <<>> \in Seq(FileNames) /\ DOMAIN <<>> = {}
      OBVIOUS
    <3> QED
      BY <2>2, <3>1 DEF Distinct
  <2> QED
    BY <1>2, <2>1, <2>2
<1>13. phase' = "walk" => ToSet(queue') = {g \in DOMAIN dir' : g.tpl}
  <2> SUFFICES ASSUME phase' = "walk"
               PROVE  ToSet(queue') = {g \in DOMAIN dir' : g.tpl}
    OBVIOUS
  <2>1. queue' = Tail(queue) /\ dir' = Restrict(written, DOMAIN written \ {f})
    BY <1>2
  <2>2. DOMAIN dir' = (DOMAIN dir \cup {out}) \ {f}
    BY <1>10, <2>1 DEF Restrict
  <2>3. {g \in DOMAIN dir' : g.tpl} = {g \in DOMAIN dir : g.tpl} \ {f}
    BY <1>7, <2>2
  <2>4. ToSet(queue') = ToSet(queue) \ {f}
    <3>1. ASSUME NEW g \in ToSet(queue') PROVE g \in ToSet(queue) \ {f}
      <4>1. PICK k \in 1..(Len(queue) - 1) : g = queue[k + 1]
        BY <1>5, <2>1 DEF ToSet
      <4>2. k + 1 \in DOMAIN queue /\ k + 1 # 1
        BY <1>5
      <4>3. queue[k + 1] # queue[1]
        BY <1>4, <1>5, <4>2 DEF Distinct
      <4> QED
        BY <1>5, <4>1, <4>2, <4>3 DEF ToSet
    <3>2. ASSUME NEW g \in ToSet(queue), g # f PROVE g \in ToSet(queue')
      <4>1. PICK k \in DOMAIN queue : g = queue[k]
        BY DEF ToSet
      <4>2. k # 1
        BY <1>5, <3>2, <4>1
      <4>3. k - 1 \in 1..(Len(queue) - 1) /\ (k - 1) + 1 = k
        BY <1>5, <4>1, <4>2
      <4>4. Tail(queue)[k - 1] = g /\ k - 1 \in DOMAIN Tail(queue)
        BY <1>5, <4>1, <4>3
      <4> QED
        BY <2>1, <4>4 DEF ToSet
    <3> QED
      BY <3>1, <3>2
  <2> QED
    BY <1>4, <2>3, <2>4
<1>14. phase' \in {"idle", "walk"}
  BY <1>2
<1>15. RunTypes'
  BY <1>1, <1>14 DEF RunTypes, Phases
<1>16. DirInv'
  <2>1. IsDir(dir, FromDocs, FromTexts)' <=> IsDir(dir', docs, texts)
    BY <1>3 DEF IsDir, docs, texts
  <2>2. manifests' \in Seq(Entries(docs, texts))
    BY <1>1 DEF DirInv, docs, texts
  <2>3. (manifests \in Seq(Entries(FromDocs, FromTexts)))'
    BY <1>3, <2>2 DEF docs, texts, Entries
  <2> QED
    BY <1>11, <1>12, <1>13, <1>14, <2>1, <2>3 DEF DirInv, Distinct, ToSet
<1>17. ShownInv'
  BY <1>1, <1>14 DEF ShownInv
<1>18. SavedInv'
  BY <1>1, <1>14 DEF SavedInv, Docs
<1>19. AppliedInv'
  BY <1>1, <1>3, <1>14 DEF AppliedInv, docs, texts, Entries
<1> QED
  BY <1>15, <1>16, <1>17, <1>18, <1>19

\* A document of the directory is one of a source.
LEMMA FromSources ==
    ASSUME RunTypes, NEW d \in FromDocs
    PROVE  \E src \in Sources : d \in Docs(src)
<1>1. PICK src \in Origins : d \in Docs(src)
  BY DEF FromDocs
<1>2. src \in Sources \/ src = <<>>
  BY <1>1 DEF Origins, RunTypes
<1>3. src # <<>>
  <2>1. Docs(<<>>) = {}
    <3>1. DOMAIN <<>> = {}
      OBVIOUS
    <3> QED
      BY <3>1 DEF Docs
  <2> QED
    BY <1>1, <2>1
<1> QED
  BY <1>1, <1>2, <1>3

\* Each id of the resources is that of the manifest which stands under it.
LEMMA ResourcesHaveTheirIds ==
    ASSUME NEW E, NEW read \in Seq(E), NEW id \in DOMAIN Resources(read)
    PROVE  /\ Resources(read)[id] \in E
           /\ ManifestId(Resources(read)[id].doc) = id
<1> DEFINE n == Len(read)
           I == {i \in 1..n : ManifestId(read[i].doc) = id}
           last == SelectLastInSeq(read, LAMBDA m : ManifestId(m.doc) = id)
<1>1. n \in Nat /\ DOMAIN read = 1..n
  OBVIOUS
<1>2. id \in {ManifestId(read[i].doc) : i \in DOMAIN read}
  BY DEF Resources
<1>3. I # {} /\ I \in SUBSET (1..n)
  BY <1>1, <1>2
<1>4. Resources(read)[id] = read[last]
  BY <1>2 DEF Resources
<1>5. last = IF I # {} THEN Max(I) ELSE 0
  BY DEF SelectLastInSeq
<1>6. last \in I
  <2> HIDE DEF n, I, last
  <2> QED
    BY <1>1, <1>3, <1>5, MaxIsThere
<1>7. read[last] \in E
  BY <1>1, <1>6
<1> QED
  BY <1>4, <1>6, <1>7

\* What is saved after a run has the ids of the manifests that were read.
LEMMA ResourcesAreSaved ==
    ASSUME RunTypes, manifests \in Seq(Entries(FromDocs, FromTexts)),
           NEW id \in DOMAIN Resources(manifests)
    PROVE  LET m == Resources(manifests)[id]
           IN  /\ ManifestId(m.doc) = id
               /\ IsManifest(m.doc)
               /\ \E src \in Sources : m.doc \in Docs(src)
<1> DEFINE m == Resources(manifests)[id]
<1>1. m \in Entries(FromDocs, FromTexts) /\ ManifestId(m.doc) = id
  BY ResourcesHaveTheirIds
<1> HIDE DEF m
<1>2. m.doc \in FromDocs /\ IsManifest(m.doc)
  BY <1>1 DEF Entries
<1> QED
  BY <1>1, <1>2, FromSources DEF m

\* The manifests are read and the diff is made, or the plan is refused.
LEMMA BundlePlan ==
    ASSUME BundleInv, Expanded \/ Diff \/ Refuse
    PROVE  BundleInv'
<1> USE DEF BundleInv
<1>1. /\ tool' = tool /\ noDiff' = noDiff /\ source' = source /\ dir' = dir
      /\ queue' = queue /\ created' = created /\ saved' = saved
      /\ doomed' = doomed /\ asked' = asked /\ todo' = todo
      /\ applied' = applied /\ trouble' = trouble /\ runs' = runs
  BY DEF Expanded, Diff, Refuse, walkVars, stateVars, applyVars
<1>2. /\ phase \in {"walk", "expanded", "planned"}
      /\ phase' \in {"idle", "expanded", "planned"}
  BY DEF Expanded, Diff, Refuse
<1>3. FromDocs' = FromDocs /\ FromTexts' = FromTexts
  BY <1>1 DEF FromDocs, FromTexts, Origins, Docs, Texts
<1>4. RunTypes'
  BY <1>1, <1>2 DEF RunTypes, Phases
<1>5. IsDir(dir, FromDocs, FromTexts)'
  BY <1>1, <1>3 DEF IsDir, DirInv
<1>6. /\ manifests' \in Seq(Entries(FromDocs, FromTexts))
      /\ phase' \notin {"idle", "walk"} =>
             (\A f \in DOMAIN dir : ~f.tpl) /\ manifests' = GetManifests(dir)
  <2>1. CASE Expanded
    <3>1. phase = "walk" /\ queue = <<>> /\ manifests' = GetManifests(dir)
      BY <2>1 DEF Expanded
    <3>2. ToSet(queue) = {}
      <4>1. DOMAIN <<>> = {}
        OBVIOUS
      <4> QED
        BY <3>1, <4>1 DEF ToSet
    <3>3. \A f \in DOMAIN dir : ~f.tpl
      BY <3>1, <3>2 DEF DirInv
    <3>4. manifests' \in Seq(Entries(FromDocs, FromTexts))
      BY <3>1, ManifestsAreRead DEF DirInv, Entries
    <3> QED
      BY <3>1, <3>3, <3>4
  <2>2. CASE Diff \/ Refuse
    BY <2>2 DEF Diff, Refuse, DirInv
  <2> QED
    BY <2>1, <2>2
<1>7. DirInv'
  <2>1. (manifests \in Seq(Entries(FromDocs, FromTexts)))'
    BY <1>3, <1>6 DEF Entries
  <2>2. GetManifests(dir)' = GetManifests(dir)
    BY <1>1
  <2> QED
    BY <1>1, <1>2, <1>5, <1>6, <2>1, <2>2 DEF DirInv, Distinct
<1>8. ShownInv'
  <2>1. KubectlReads(dir)' = KubectlReads(dir)
        /\ KubectlShows(dir)' = KubectlShows(dir)
    BY <1>1
  <2>2. KubectlShows(dir) \subseteq KubectlReads(dir)
    BY DEF KubectlShows
  <2>3. CASE Expanded
    BY <1>1, <2>1, <2>3 DEF Expanded, ShownInv
  <2>4. CASE Diff
    BY <1>1, <2>1, <2>2, <2>4 DEF Diff, ShownInv
  <2>5. CASE Refuse
    BY <1>1, <2>1, <2>5 DEF Refuse, ShownInv
  <2> QED
    BY <2>3, <2>4, <2>5
<1>9. SavedInv'
  BY <1>1, <1>2 DEF SavedInv, Docs
<1>10. AppliedInv'
  <2>1. applied = <<>> /\ applied' = <<>>
    BY <1>1, <1>2 DEF AppliedInv
  <2>2. todo' = {}
    BY <1>1, <1>2 DEF AppliedInv
  <2>3. applied' \in Seq(Entries(FromDocs, FromTexts)')
    BY <2>1
  <2> QED
    BY <1>2, <2>1, <2>2, <2>3 DEF AppliedInv, Entries
<1> QED
  BY <1>4, <1>7, <1>8, <1>9, <1>10

\* The plan is confirmed, removed ids are deleted.
LEMMA BundleDelete ==
    ASSUME BundleInv, Confirm \/ Update \/ DeleteOne \/ Deleted
    PROVE  BundleInv'
<1> USE DEF BundleInv
<1>1. /\ tool' = tool /\ noDiff' = noDiff /\ source' = source /\ dir' = dir
      /\ queue' = queue /\ manifests' = manifests /\ shown' = shown
      /\ created' = created /\ applied' = applied /\ trouble' = trouble
      /\ runs' = runs
  BY DEF Confirm, Update, DeleteOne, Deleted, walkVars, stateVars, applyVars
<1>2. /\ phase \in {"planned", "delete"}
      /\ phase' \in {"idle", "delete", "apply"}
  BY DEF Confirm, Update, DeleteOne, Deleted
<1>3. FromDocs' = FromDocs /\ FromTexts' = FromTexts
  BY <1>1 DEF FromDocs, FromTexts, Origins, Docs, Texts
<1>4. RunTypes'
  BY <1>1, <1>2 DEF RunTypes, Phases
<1>5. DirInv'
  <2>1. IsDir(dir, FromDocs, FromTexts)'
    BY <1>1, <1>3 DEF IsDir, DirInv
  <2>2. (manifests \in Seq(Entries(FromDocs, FromTexts)))'
    BY <1>1, <1>3 DEF Entries, DirInv
  <2>3. GetManifests(dir)' = GetManifests(dir)
    BY <1>1
  <2> QED
    BY <1>1, <1>2, <2>1, <2>2, <2>3 DEF DirInv, Distinct
<1>6. ShownInv'
  <2>1. KubectlReads(dir)' = KubectlReads(dir)
        /\ KubectlShows(dir)' = KubectlShows(dir)
    BY <1>1
  <2> QED
    BY <1>1, <1>2, <2>1 DEF ShownInv
<1>7. SavedInv'
  <2>1. CASE Confirm
    BY <2>1 DEF Confirm, SavedInv, stateVars, Docs
  <2>2. CASE Update
    <3>1. saved' = saved /\ doomed' \subseteq DOMAIN saved /\ phase' = "delete"
      BY <2>2 DEF Update
    <3> QED
      BY <3>1 DEF SavedInv, Docs
  <2>3. CASE Deleted
    BY <2>3 DEF Deleted, SavedInv, stateVars, Docs
  <2>4. CASE DeleteOne
    <3>1. \/ phase' = "idle" /\ saved' = Resources(manifests) /\ doomed' = {}
          \/ saved' = saved /\ doomed' \subseteq doomed /\ phase' = phase
      BY <2>4 DEF DeleteOne
    <3>2. CASE phase' = "idle" /\ saved' = Resources(manifests) /\ doomed' = {}
      <4>1. \A id \in DOMAIN Resources(manifests) :
                /\ ManifestId(Resources(manifests)[id].doc) = id
                /\ IsManifest(Resources(manifests)[id].doc)
                /\ \E src \in Sources : Resources(manifests)[id].doc \in Docs(src)
        BY ResourcesAreSaved DEF DirInv
      <4> QED
        BY <3>2, <4>1 DEF SavedInv, Docs
    <3>3. CASE saved' = saved /\ doomed' \subseteq doomed /\ phase' = phase
      BY <3>3 DEF SavedInv, Docs
    <3> QED
      BY <3>1, <3>2, <3>3
  <2> QED
    BY <2>1, <2>2, <2>3, <2>4
<1>8. AppliedInv'
  <2>1. applied = <<>> /\ applied' = <<>>
    BY <1>1, <1>2 DEF AppliedInv
  <2>2. /\ todo' \subseteq DOMAIN manifests'
        /\ phase' \in {"delete", "apply"} => todo' = DOMAIN manifests
    BY <1>1 DEF Confirm, Update, DeleteOne, Deleted, AppliedInv, applyVars
  <2>3. applied' \in Seq(Entries(FromDocs, FromTexts)')
    BY <2>1
  <2>4. ToSet(applied)' = {}
    <3>1. DOMAIN <<>> = {}
      OBVIOUS
    <3> QED
      BY <2>1, <3>1 DEF ToSet
  <2>5. phase' = "apply" =>
            {manifests[i] : i \in DOMAIN manifests \ todo}' = {}
    BY <1>1, <2>2
  <2> QED
    BY <1>1, <1>2, <2>1, <2>2, <2>3, <2>4, <2>5 DEF AppliedInv, Entries
<1> QED
  BY <1>4, <1>5, <1>6, <1>7, <1>8

\* kubectl comes to one more manifest.
LEMMA BundleApplyOne ==
    ASSUME BundleInv, ApplyOne
    PROVE  BundleInv'
<1> USE DEF BundleInv
<1>1. /\ tool' = tool /\ noDiff' = noDiff /\ source' = source /\ dir' = dir
      /\ queue' = queue /\ manifests' = manifests /\ shown' = shown
      /\ created' = created /\ saved' = saved /\ doomed' = doomed
      /\ phase = "apply" /\ phase' = "apply" /\ runs' = runs
  BY DEF ApplyOne, walkVars, stateVars
<1>2. PICK i \in todo : todo' = todo \ {i} /\ applied' = Append(applied, manifests[i])
  BY DEF ApplyOne
<1>3. trouble' \in BOOLEAN
  BY DEF ApplyOne, RunTypes
<1>4. FromDocs' = FromDocs /\ FromTexts' = FromTexts
  BY <1>1 DEF FromDocs, FromTexts, Origins, Docs, Texts
<1>5. RunTypes'
  BY <1>1, <1>3 DEF RunTypes
<1>6. DirInv'
  <2>1. IsDir(dir, FromDocs, FromTexts)'
    BY <1>1, <1>4 DEF IsDir, DirInv
  <2>2. (manifests \in Seq(Entries(FromDocs, FromTexts)))'
    BY <1>1, <1>4 DEF Entries, DirInv
  <2>3. GetManifests(dir)' = GetManifests(dir)
    BY <1>1
  <2> QED
    BY <1>1, <2>1, <2>2, <2>3 DEF DirInv, Distinct
<1>7. ShownInv'
  <2>1. KubectlReads(dir)' = KubectlReads(dir)
        /\ KubectlShows(dir)' = KubectlShows(dir)
    BY <1>1
  <2> QED
    BY <1>1, <2>1 DEF ShownInv
<1>8. SavedInv'
  BY <1>1 DEF SavedInv, Docs
<1>9. AppliedInv'
  <2> DEFINE E == Entries(FromDocs, FromTexts)
             Gone == {manifests[j] : j \in DOMAIN manifests \ todo}
  <2>1. /\ manifests \in Seq(E) /\ applied \in Seq(E) /\ todo \subseteq DOMAIN manifests
        /\ ToSet(applied) = Gone
    BY <1>1 DEF DirInv, AppliedInv
  <2> HIDE DEF E
  <2>2. manifests[i] \in E
    BY <1>2, <2>1
  <2>3. /\ applied' \in Seq(E) /\ DOMAIN applied = 1..Len(applied)
        /\ Len(applied) \in Nat
        /\ DOMAIN applied' = 1..(Len(applied) + 1)
        /\ \A k \in 1..Len(applied) : applied'[k] = applied[k]
        /\ applied'[Len(applied) + 1] = manifests[i]
    BY <1>2, <2>1, <2>2
  <2>4. ToSet(applied') = ToSet(applied) \cup {manifests[i]}
    <3>1. DOMAIN applied' = DOMAIN applied \cup {Len(applied) + 1}
      BY <2>3
    <3>2. \A k \in DOMAIN applied : applied'[k] = applied[k]
      BY <2>3
    <3> QED
      BY <2>3, <3>1, <3>2 DEF ToSet
  <2>5. {manifests[j] : j \in DOMAIN manifests \ (todo \ {i})}
            = Gone \cup {manifests[i]}
    <3>1. DOMAIN manifests \ (todo \ {i}) = (DOMAIN manifests \ todo) \cup {i}
      BY <1>2, <2>1
    <3> QED
      BY <3>1
  <2>6. E' = E
    BY <1>4 DEF E, Entries
  <2>7. (applied \in Seq(Entries(FromDocs, FromTexts)))'
    BY <2>3, <2>6 DEF E
  <2>8. (ToSet(applied) = {manifests[j] : j \in DOMAIN manifests \ todo})'
    BY <1>1, <1>2, <2>1, <2>4, <2>5 DEF ToSet
  <2> QED
    BY <1>1, <1>2, <2>1, <2>7, <2>8 DEF AppliedInv
<1> QED
  BY <1>5, <1>6, <1>7, <1>8, <1>9

\* A run ends.
LEMMA BundleEnd ==
    ASSUME BundleInv, Save \/ Return
    PROVE  BundleInv'
<1> USE DEF BundleInv
<1>1. /\ tool' = tool /\ noDiff' = noDiff /\ source' = source /\ dir' = dir
      /\ queue' = queue /\ manifests' = manifests /\ shown' = shown
      /\ doomed' = doomed /\ todo' = todo /\ applied' = applied
      /\ trouble' = trouble
      /\ phase = "apply" /\ phase' = "idle" /\ runs' = runs
  BY DEF Save, Return, walkVars, stateVars, applyVars
<1>2. /\ created' \in BOOLEAN
      /\ saved' = saved \/ saved' = Resources(manifests)
  BY DEF Save, Return, stateVars, RunTypes
<1>3. FromDocs' = FromDocs /\ FromTexts' = FromTexts
  BY <1>1 DEF FromDocs, FromTexts, Origins, Docs, Texts
<1>4. RunTypes'
  BY <1>1, <1>2 DEF RunTypes, Phases
<1>5. DirInv'
  <2>1. IsDir(dir, FromDocs, FromTexts)'
    BY <1>1, <1>3 DEF IsDir, DirInv
  <2>2. (manifests \in Seq(Entries(FromDocs, FromTexts)))'
    BY <1>1, <1>3 DEF Entries, DirInv
  <2> QED
    BY <1>1, <2>1, <2>2 DEF DirInv, Distinct
<1>6. ShownInv'
  <2>1. KubectlReads(dir)' = KubectlReads(dir)
    BY <1>1
  <2> QED
    BY <1>1, <2>1 DEF ShownInv
<1>7. SavedInv'
  <2>1. doomed' = {}
    BY <1>1 DEF SavedInv
  <2>2. CASE saved' = saved
    BY <1>1, <2>1, <2>2 DEF SavedInv, Docs
  <2>3. CASE saved' = Resources(manifests)
    <3>1. \A id \in DOMAIN Resources(manifests) :
              /\ ManifestId(Resources(manifests)[id].doc) = id
              /\ IsManifest(Resources(manifests)[id].doc)
              /\ \E src \in Sources : Resources(manifests)[id].doc \in Docs(src)
      BY ResourcesAreSaved DEF DirInv
    <3> QED
      BY <2>1, <2>3, <3>1 DEF SavedInv, Docs
  <2> QED
    BY <1>2, <2>2, <2>3
<1>8. AppliedInv'
  BY <1>1, <1>3 DEF AppliedInv, Entries
<1> QED
  BY <1>4, <1>5, <1>6, <1>7, <1>8

\* Every step keeps the invariant.
LEMMA BundleStep ==
    ASSUME BundleInv, [Next]_vars
    PROVE  BundleInv'
<1>1. CASE StartProvider \/ StartKaexpand
  BY <1>1, BundleStart
<1>2. CASE ExpandOne
  BY <1>2, BundleExpandOne
<1>3. CASE Expanded \/ Diff \/ Refuse
  BY <1>3, BundlePlan
<1>4. CASE Confirm \/ Update \/ DeleteOne \/ Deleted
  BY <1>4, BundleDelete
<1>5. CASE ApplyOne
  BY <1>5, BundleApplyOne
<1>6. CASE Save \/ Return
  BY <1>6, BundleEnd
<1>7. CASE UNCHANGED vars
  <2>1. /\ phase' = phase /\ tool' = tool /\ noDiff' = noDiff /\ source' = source
        /\ dir' = dir /\ queue' = queue /\ manifests' = manifests
        /\ shown' = shown /\ created' = created /\ saved' = saved
        /\ doomed' = doomed /\ todo' = todo /\ applied' = applied
        /\ trouble' = trouble /\ runs' = runs
    BY <1>7 DEF vars, walkVars, stateVars, applyVars
  <2>2. FromDocs' = FromDocs /\ FromTexts' = FromTexts
    BY <2>1 DEF FromDocs, FromTexts, Origins, Docs, Texts
  <2>3. RunTypes'
    BY <2>1 DEF BundleInv, RunTypes
  <2>4. DirInv'
    <3>1. IsDir(dir, FromDocs, FromTexts)'
      BY <2>1, <2>2 DEF BundleInv, IsDir, DirInv
    <3>2. (manifests \in Seq(Entries(FromDocs, FromTexts)))'
      BY <2>1, <2>2 DEF BundleInv, Entries, DirInv
    <3>3. GetManifests(dir)' = GetManifests(dir)
      BY <2>1
    <3> QED
      BY <2>1, <3>1, <3>2, <3>3 DEF BundleInv, DirInv, Distinct, ToSet
  <2>5. ShownInv'
    <3>1. KubectlReads(dir)' = KubectlReads(dir)
          /\ KubectlShows(dir)' = KubectlShows(dir)
      BY <2>1
    <3> QED
      BY <2>1, <3>1 DEF BundleInv, ShownInv
  <2>6. SavedInv'
    BY <2>1 DEF BundleInv, SavedInv, Docs
  <2>7. AppliedInv'
    BY <2>1, <2>2 DEF BundleInv, AppliedInv, Entries, ToSet
  <2> QED
    BY <2>3, <2>4, <2>5, <2>6, <2>7 DEF BundleInv
<1> QED
  BY <1>1, <1>2, <1>3, <1>4, <1>5, <1>6, <1>7 DEF Next

\* It holds at the start.
LEMMA BundleInit ==
    ASSUME Init
    PROVE  BundleInv
<1>1. DOMAIN <<>> = {} /\ <<>> \in Seq(FileNames)
  OBVIOUS
<1> USE <1>1 DEF Init
<1>2. RunTypes
  <2>1. 0 \in 0..MaxRuns
    BY SourceAssumption
  <2>2. source \in Sources \cup {<<>>}
    OBVIOUS
  <2> QED
    BY <2>1, <2>2 DEF RunTypes, Phases
<1>3. DirInv
  <2>1. IsDir(dir, FromDocs, FromTexts)
    BY FS_EmptySet DEF IsDir
  <2>2. manifests \in Seq(Entries(FromDocs, FromTexts))
    OBVIOUS
  <2> QED
    BY <2>1, <2>2 DEF DirInv, Distinct
<1>4. ShownInv
  BY DEF ShownInv
<1>5. SavedInv
  BY DEF SavedInv
<1>6. AppliedInv
  <2>1. applied \in Seq(Entries(FromDocs, FromTexts))
    OBVIOUS
  <2> QED
    BY <2>1 DEF AppliedInv
<1> QED
  BY <1>2, <1>3, <1>4, <1>5, <1>6 DEF BundleInv

\* Whatever the sources, the provider applies documents of its own source with
\* texts of it, and no run plans over a template that is left: the types of
\* the state (expandTemplates and GetManifests).
THEOREM BundleTypes == Spec => []TypeOK
<1>1. Init => BundleInv
  BY BundleInit
<1>2. BundleInv /\ [Next]_vars => BundleInv'
  BY BundleStep
<1>3. BundleInv => TypeOK
  <2> SUFFICES ASSUME BundleInv PROVE TypeOK
    OBVIOUS
  <2>1. phase \in Phases \ {"idle", "walk"} => \A f \in DOMAIN dir : ~f.tpl
    BY DEF BundleInv, DirInv, Phases
  <2>2. tool = "provider" => ToSet(manifests) \subseteq Stands
    <3> SUFFICES ASSUME tool = "provider", NEW i \in DOMAIN manifests
                 PROVE  manifests[i] \in Stands
      BY DEF ToSet
    <3>1. Origins = {source}
      BY DEF Origins
    <3>2. FromDocs = Docs(source) /\ FromTexts = Texts(source)
      BY <3>1 DEF FromDocs, FromTexts
    <3>3. Entries(FromDocs, FromTexts) = Stands
      BY <3>2 DEF Entries, Stands, Docs, Texts
    <3>4. manifests \in Seq(Entries(FromDocs, FromTexts))
      BY DEF BundleInv, DirInv
    <3> QED
      BY <3>3, <3>4
  <2> QED
    BY <2>1, <2>2 DEF TypeOK, BundleInv, RunTypes, ShownInv, SavedInv, AppliedInv
<1> QED
  BY <1>1, <1>2, <1>3, PTL DEF Spec

\* kubectl reads .yml and .json files for the diff, GetManifests does not for
\* the apply: the two agree on sources that have no manifest in one.
KubectlOnly == {"json", "yml"}
KubectlReadsNoMore ==
    \A src \in Sources : \A f \in DOMAIN src :
        f.ext \in KubectlOnly => \A d \in ToSet(src[f].docs) : ~IsManifest(d)

\* No .yml or .json file of the directory has come to hold a manifest.
KubectlInv ==
    \A f \in DOMAIN dir :
        f.ext \in KubectlOnly => \A d \in ToSet(dir[f].docs) : ~IsManifest(d)

\* The files of a source, fetched, have no manifest in one of these, and
\* expanding a template makes none.
LEMMA KubectlStep ==
    ASSUME KubectlReadsNoMore, BundleInv, KubectlInv, [Next]_vars
    PROVE  KubectlInv'
<1>1. CASE StartProvider \/ StartKaexpand
  <2>1. PICK src \in Sources :
            dir' = Fetched(src) \/ dir' = Over(Fetched(src), dir)
    BY <1>1 DEF StartProvider, StartKaexpand, Begins
  <2>2. /\ DOMAIN Fetched(src) = DOMAIN src
        /\ \A f \in DOMAIN src : Fetched(src)[f].docs = src[f].docs
    BY DEF Fetched
  <2>3. \A f \in DOMAIN Fetched(src) :
            f.ext \in KubectlOnly => \A d \in ToSet(Fetched(src)[f].docs) : ~IsManifest(d)
    BY <2>2 DEF KubectlReadsNoMore
  <2>4. CASE dir' = Fetched(src)
    BY <2>3, <2>4 DEF KubectlInv
  <2>5. CASE dir' = Over(Fetched(src), dir)
    <3>1. ASSUME NEW f \in DOMAIN dir', f.ext \in KubectlOnly,
                 NEW d \in ToSet(dir'[f].docs)
          PROVE  ~IsManifest(d)
      <4>1. CASE f \in DOMAIN Fetched(src)
        <5>1. dir'[f] = Fetched(src)[f]
          BY <2>5, <4>1, OverValues
        <5> QED
          BY <2>3, <3>1, <4>1, <5>1
      <4>2. CASE f \notin DOMAIN Fetched(src)
        <5>1. f \in DOMAIN dir \ DOMAIN Fetched(src)
          BY <2>5, <3>1, <4>2, OverValues
        <5>2. dir'[f] = dir[f]
          BY <2>5, <5>1 DEF Over
        <5> QED
          BY <3>1, <5>1, <5>2 DEF KubectlInv
      <4> QED
        BY <4>1, <4>2
    <3> QED
      BY <3>1 DEF KubectlInv
  <2> QED
    BY <2>1, <2>4, <2>5
<1>2. CASE ExpandOne
  <2> DEFINE f == Head(queue)
             out == Output(f)
             opened == Put(out, Created, dir)
             written == Put(out, Rendered(opened, f), dir)
  <2>1. \/ dir' = Restrict(written, DOMAIN written \ {f})
        \/ dir' = opened
    BY <1>2 DEF ExpandOne
  <2>2. /\ phase = "walk" /\ queue # <<>> /\ queue \in Seq(FileNames)
        /\ ToSet(queue) = {g \in DOMAIN dir : g.tpl}
    BY <1>2 DEF ExpandOne, BundleInv, DirInv
  <2>3. f \in FileNames /\ f \in DOMAIN dir /\ f.tpl
    <3>1. f = queue[1] /\ 1 \in DOMAIN queue
      BY <2>2
    <3> QED
      BY <2>2, <3>1 DEF ToSet
  <2>4. out # f /\ out.ext = f.ext
    BY <2>3, OutputIsPlain
  <2> HIDE DEF f, out
  <2>5. /\ DOMAIN opened = DOMAIN dir \cup {out}
        /\ opened[out] = Created
        /\ \A g \in DOMAIN dir \ {out} : opened[g] = dir[g]
    <3> HIDE DEF written
    <3>1. DOMAIN opened = DOMAIN dir \cup {out} /\ opened[out] = Created
      BY DEF Put, Over
    <3>2. \A g \in DOMAIN dir \ {out} : opened[g] = dir[g]
      BY DEF Put, Over
    <3> QED
      BY <3>1, <3>2
  <2> HIDE DEF opened
  <2>6. /\ DOMAIN written = DOMAIN dir \cup {out}
        /\ written[out] = Rendered(opened, f)
        /\ \A g \in DOMAIN dir \ {out} : written[g] = dir[g]
    <3>1. /\ DOMAIN written = DOMAIN dir \cup {out}
          /\ written[out] = Rendered(opened, f)
      BY DEF Put, Over
    <3>2. \A g \in DOMAIN dir \ {out} : written[g] = dir[g]
      BY DEF Put, Over
    <3> QED
      BY <3>1, <3>2
  <2> HIDE DEF written
  <2>7. Created.docs = <<>> /\ ToSet(Created.docs) = {}
    <3>1. DOMAIN <<>> = {}
      OBVIOUS
    <3> QED
      BY <3>1 DEF Created, ToSet
  <2>8. Rendered(opened, f).docs = dir[f].docs
    BY <2>3, <2>4, <2>5 DEF Rendered
  <2>9. ASSUME NEW g \in DOMAIN dir \cup {out}, g.ext \in KubectlOnly,
               NEW d \in ToSet(opened[g].docs)
        PROVE  ~IsManifest(d)
    BY <2>5, <2>7, <2>9 DEF KubectlInv
  <2>10. ASSUME NEW g \in DOMAIN dir \cup {out}, g.ext \in KubectlOnly,
                NEW d \in ToSet(written[g].docs)
         PROVE  ~IsManifest(d)
    <3>1. CASE g = out
      BY <2>3, <2>4, <2>6, <2>8, <2>10, <3>1 DEF KubectlInv
    <3>2. CASE g # out
      BY <2>6, <2>10, <3>2 DEF KubectlInv
    <3> QED
      BY <3>1, <3>2
  <2>11. CASE dir' = opened
    BY <2>5, <2>9, <2>11 DEF KubectlInv
  <2>12. CASE dir' = Restrict(written, DOMAIN written \ {f})
    <3>1. /\ DOMAIN dir' = DOMAIN written \ {f}
          /\ \A g \in DOMAIN dir' : dir'[g] = written[g]
      BY <2>12 DEF Restrict
    <3> QED
      BY <2>6, <2>10, <3>1 DEF KubectlInv
  <2> QED
    BY <2>1, <2>11, <2>12
<1>3. CASE UNCHANGED dir
  BY <1>3 DEF KubectlInv
<1>4. ((Next /\ ~StartProvider /\ ~StartKaexpand /\ ~ExpandOne) \/ UNCHANGED vars)
      => UNCHANGED dir
  BY DEF Next, Expanded, Diff, Refuse, Confirm, Update, DeleteOne, Deleted,
         ApplyOne, Save, Return, vars, walkVars
<1> QED
  BY <1>1, <1>2, <1>3, <1>4

\* Where no manifest stands in a .yml or .json file, what kubectl finds in a directory
\* for the diff is what GetManifests returns for the apply.
LEMMA ReadsAgree ==
    ASSUME KubectlInv, NEW docs, NEW texts, IsDir(dir, docs, texts)
    PROVE  KubectlShows(dir) = ToSet(GetManifests(dir))
<1> DEFINE Shown == {p \in Places(dir, {"json", "yaml", "yml"}) :
                        IsManifest(DocumentAt(dir, p).doc)}
<1>1. KubectlShows(dir) = {DocumentAt(dir, p) : p \in Shown}
  BY DEF KubectlShows, KubectlReads
<1>2. ToSet(GetManifests(dir)) = {DocumentAt(dir, p) : p \in ManifestPlaces(dir)}
  BY ManifestsAreRead DEF ToSet
<1>3. Places(dir, {"yaml"}) \subseteq Places(dir, {"json", "yaml", "yml"})
  BY DEF Places
<1>4. ASSUME NEW p \in Shown PROVE p \in Places(dir, {"yaml"})
  <2>1. /\ p[1] \in DOMAIN dir /\ p[2] \in DOMAIN dir[p[1]].docs
        /\ p[1].ext \in {"json", "yaml", "yml"}
    BY PlacesAreFinite
  <2>2. DocumentAt(dir, p).doc = dir[p[1]].docs[p[2]]
    BY DEF DocumentAt
  <2>3. DocumentAt(dir, p).doc \in ToSet(dir[p[1]].docs)
    BY <2>1, <2>2 DEF ToSet
  <2>4. p[1].ext = "yaml"
    BY <2>1, <2>3 DEF KubectlInv, KubectlOnly
  <2>5. PICK f \in DOMAIN dir : p \in {f} \X DOMAIN dir[f].docs
    BY DEF Places
  <2> QED
    BY <2>4, <2>5 DEF Places
<1>5. Shown = ManifestPlaces(dir)
  BY <1>3, <1>4 DEF ManifestPlaces
<1> QED
  BY <1>1, <1>2, <1>5

\* Whatever the sources are otherwise, the diff is made of the manifests that
\* are applied and of no others (ordered_client.go:74-107, 171-173).
THEOREM DiffsShowWhatIsApplied ==
    ASSUME KubectlReadsNoMore
    PROVE  Spec => []DiffShowsWhatIsApplied
<1>1. Init => BundleInv /\ KubectlInv
  <2>1. Init => KubectlInv
    <3>1. DOMAIN <<>> = {}
      OBVIOUS
    <3> QED
      BY <3>1 DEF Init, KubectlInv
  <2> QED
    BY <2>1, BundleInit
<1>2. BundleInv /\ KubectlInv /\ [Next]_vars => (BundleInv /\ KubectlInv)'
  BY BundleStep, KubectlStep
<1>3. BundleInv /\ KubectlInv => DiffShowsWhatIsApplied
  <2> SUFFICES ASSUME BundleInv, KubectlInv, phase = "apply", todo = {}, ~noDiff
               PROVE  ToSet(applied) = shown
    BY DEF DiffShowsWhatIsApplied
  <2>1. ToSet(applied) = {manifests[i] : i \in DOMAIN manifests}
    BY DEF BundleInv, AppliedInv
  <2>2. shown = KubectlShows(dir)
    BY DEF BundleInv, ShownInv
  <2>3. manifests = GetManifests(dir) /\ IsDir(dir, FromDocs, FromTexts)
    BY DEF BundleInv, DirInv
  <2> QED
    BY <2>1, <2>2, <2>3, ReadsAgree DEF ToSet
<1> QED
  BY <1>1, <1>2, <1>3, PTL DEF Spec

\* What Kubernetes allows and discovery tells apart, for every manifest of
\* the sources.
SourcesAreWellFormed ==
    \A src \in Sources : \A d \in Docs(src) :
        IsManifest(d) => WellFormed(d) /\ OneGroup(d)

\* In every run, whatever the sources, each request to delete that kubectl
\* serves reaches the object of the manifest that was removed and no other
\* (ordered_client.go:232-271).
THEOREM DeletesReach ==
    ASSUME NEW A, ApiResources \in Seq(A), OneResource, SourcesAreWellFormed
    PROVE  Spec => []DeletesReachTheirObject
<1> DEFINE Inv == BundleInv /\ DeletesReachTheirObject
<1>1. Init => Inv
  BY BundleInit DEF Init, DeletesReachTheirObject
<1>2. Inv /\ [Next]_vars => Inv'
  <2> SUFFICES ASSUME Inv, [Next]_vars PROVE DeletesReachTheirObject'
    BY BundleStep
  <2>1. CASE asked' = asked \/ asked' = {}
    BY <2>1 DEF DeletesReachTheirObject
  <2>2. CASE DeleteOne
    <3>1. PICK id \in doomed :
              asked' = asked \cup {[request |-> r, for |-> saved[id].doc]
                                      : r \in Request(id)}
      BY <2>2 DEF DeleteOne
    <3> DEFINE d == saved[id].doc
    <3>2. ManifestId(d) = id /\ WellFormed(d) /\ OneGroup(d)
      BY DEF BundleInv, SavedInv, SourcesAreWellFormed
    <3> HIDE DEF d
    <3>3. ASSUME NEW r \in Request(id), ~Refused(r)
          PROVE  ObjectAsked(r) = ObjectNamed(d)
      BY <3>2, <3>3, RequestsReachTheirObject
    <3>4. ASSUME NEW a \in asked', ~Refused(a.request)
          PROVE  ObjectAsked(a.request) = ObjectNamed(a.for)
      <4>1. CASE a \in asked
        BY <3>4, <4>1 DEF DeletesReachTheirObject
      <4>2. CASE a \notin asked
        <5>1. PICK r \in Request(id) : a = [request |-> r, for |-> d]
          BY <3>1, <4>2 DEF d
        <5>2. a.request = r /\ a.for = d
          BY <5>1
        <5> QED
          BY <3>3, <3>4, <5>2
      <4> QED
        BY <4>1, <4>2
    <3> QED
      BY <3>4 DEF DeletesReachTheirObject
  <2>3. ~DeleteOne => asked' = asked \/ asked' = {}
    BY DEF Next, StartProvider, StartKaexpand, Begins, ExpandOne, Expanded,
           Diff, Refuse, Confirm, Update, Deleted, ApplyOne, Save, Return,
           vars, stateVars
  <2> QED
    BY <2>1, <2>2, <2>3
<1>3. Inv => DeletesReachTheirObject
  OBVIOUS
<1> QED
  BY <1>1, <1>2, <1>3, PTL DEF Spec

=============================================================================

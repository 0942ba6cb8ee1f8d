----------------------------- MODULE KubeProofs -----------------------------
(***************************************************************************)
(* Lemmas about the operations of KubeCluster, for the proofs about what   *)
(* is built on it.                                                         *)
(***************************************************************************)
EXTENDS KubeCluster, TLAPS

\* What a request does to the cluster keeps its type.
LEMMA RemoveType ==
    ASSUME ClusterTypeOK, NEW o, Remove(o)
    PROVE  /\ live' \in [Objects -> Content]
           /\ terminating' \subseteq Objects
           /\ managed' \subseteq Objects
BY DEF Remove, ClusterTypeOK, Content

\* A delete request keeps the types, whether the object goes or stays.
LEMMA RequestDeleteType ==
    ASSUME ClusterTypeOK, NEW o \in Objects, RequestDelete(o)
    PROVE  /\ live' \in [Objects -> Content]
           /\ terminating' \subseteq Objects
           /\ managed' \subseteq Objects
<1>1. CASE UNCHANGED <<live, terminating, managed>>
  BY <1>1 DEF ClusterTypeOK
<1>2. CASE Remove(o)
  BY <1>2, RemoveType
<1>3. CASE /\ terminating' = terminating \cup {p \in {o} \cup In(o) : Exists(p)}
           /\ UNCHANGED <<live, managed>>
  BY <1>3 DEF ClusterTypeOK, In
<1>4. QED
  BY <1>1, <1>2, <1>3 DEF RequestDelete

\* So does an apply of one manifest.
LEMMA PutType ==
    ASSUME ClusterTypeOK, NEW o \in Objects, NEW hash \in Content, Put(o, hash)
    PROVE  /\ live' \in [Objects -> Content]
           /\ terminating' \subseteq Objects
           /\ managed' \subseteq Objects
BY DEF Put, ClusterTypeOK

\* The empty bundle is a bundle.
LEMMA EmptyType == Empty \in AllBundles
BY DEF Empty, AllBundles, Content

-----------------------------------------------------------------------------
(* Namespaces are safe from the deletes of manifests.                      *)

\* No manifest is that of a namespace in which another one lives.
NoNamespaceManifests == \A i, j \in Ids : NamespaceOf[ObjectOf[i]] # ObjectOf[j]

\* No two ids name one object.
OneIdPerObject == \A i, j \in Ids : ObjectOf[i] = ObjectOf[j] => i = j

\* A delete request leaves an object that is neither the one to go nor in it,
\* and the namespace of that object, as they are.
LEMMA RequestDeleteElsewhere ==
    ASSUME ClusterTypeOK, NEW o \in Objects, RequestDelete(o),
           NEW p \in Objects, NamespaceOf[p] # o
    PROVE  /\ p # o => /\ live'[p] = live[p]
                       /\ p \in terminating' => p \in terminating
           /\ NamespaceOf[p] \in Objects =>
                  live'[NamespaceOf[p]] = live[NamespaceOf[p]]
           /\ NamespaceOf[p] \in terminating' => NamespaceOf[p] \in terminating
<1> DEFINE ns == NamespaceOf[p]
<1>1. ns \in Objects \cup {NoNamespace}
  BY IdsAssumption
<1>2. p \notin In(o) /\ ns # o
  BY DEF In
<1>3. ns \notin In(o)
  BY <1>1, NamespaceAssumption, IdsAssumption DEF In
<1> HIDE DEF ns
<1>4. CASE Remove(o)
  BY <1>1, <1>2, <1>3, <1>4 DEF Remove, ns
<1>5. CASE /\ terminating' = terminating \cup {q \in {o} \cup In(o) : Exists(q)}
           /\ UNCHANGED <<live, managed>>
  BY <1>2, <1>3, <1>5 DEF ns
<1>6. CASE UNCHANGED <<live, terminating, managed>>
  BY <1>6
<1>7. QED
  BY <1>4, <1>5, <1>6 DEF RequestDelete

\* A delete request for one manifest leaves the object of another, and its
\* namespace, as they are.
LEMMA RequestDeleteApart ==
    ASSUME NoNamespaceManifests, ClusterTypeOK,
           NEW id \in Ids, RequestDelete(ObjectOf[id]), NEW other \in Ids
    PROVE  /\ ObjectOf[other] # ObjectOf[id] =>
                  live'[ObjectOf[other]] = live[ObjectOf[other]]
           /\ NamespaceOf[ObjectOf[other]] \in Objects =>
                  live'[NamespaceOf[ObjectOf[other]]] =
                      live[NamespaceOf[ObjectOf[other]]]
           /\ NamespaceOf[ObjectOf[other]] \in terminating' =>
                  NamespaceOf[ObjectOf[other]] \in terminating
<1>1. ObjectOf[id] \in Objects /\ ObjectOf[other] \in Objects
  BY IdsAssumption
<1>2. QED
  BY <1>1, RequestDeleteElsewhere DEF NoNamespaceManifests

=============================================================================

---------------------------- MODULE KubeCluster ----------------------------
(***************************************************************************)
(* The Kubernetes cluster as the provider sees it through kubectl and the  *)
(* API client.  It is not code of this repository: its operations are      *)
(* modelled from how pkg/cluster/kube and pkg/provider call it, and every  *)
(* definition here is mapped as external.                                  *)
(*                                                                         *)
(* A manifest is known to the provider by its id (api version, kind,       *)
(* namespace, name) and to the cluster as an object.  Two ids may name the *)
(* same object: an api version bump changes the id and not the object.     *)
(* The contents of an object are abstracted to the hash of the manifest    *)
(* last applied to it.  A namespace is an object like the others.          *)
(***************************************************************************)
EXTENDS Naturals, FiniteSets, Functions

CONSTANTS
    Ids,            \* Manifest ids.
    Objects,        \* Objects of the cluster, namespaces included.
    ObjectOf,       \* The object that each id names.
    NamespaceOf,    \* The namespace object that each object lives in.
    NoNamespace,    \* What a cluster-scoped object has for a namespace.
    Hashes,         \* Contents of a manifest.
    Bare,           \* The contents of a namespace made by an API call.
    Absent,         \* An object that does not exist, an id not in a bundle.
    MaxDrifts       \* Bound on what others do to the cluster.

ASSUME IdsAssumption ==
    /\ ObjectOf \in [Ids -> Objects]
    /\ NamespaceOf \in [Objects -> Objects \cup {NoNamespace}]
    /\ NoNamespace \notin Objects

\* Namespaces are not nested.
ASSUME NamespaceAssumption ==
    \A o \in Objects : NamespaceOf[o] \in Objects =>
                            NamespaceOf[NamespaceOf[o]] = NoNamespace

ASSUME ContentAssumption ==
    /\ Bare \in Hashes
    /\ Absent \notin Hashes
    /\ MaxDrifts \in Nat

VARIABLES
    live,           \* The contents of each object, or Absent.
    terminating,    \* Objects deleted, and held back by a finalizer.
    managed,        \* Objects that a kubectl apply of the provider has set.
    drifts          \* How often others have touched the cluster.

clusterVars == <<live, terminating, managed, drifts>>

-----------------------------------------------------------------------------

Content == Hashes \cup {Absent}

\* A bundle is a set of manifests: the ids in it, with their contents.
AllBundles == [Ids -> Content]
Empty == [id \in Ids |-> Absent]
IdsOf(bundle) == {id \in Ids : bundle[id] # Absent}
ObjectsOf(bundle) == {ObjectOf[id] : id \in IdsOf(bundle)}
NamespacesOf(bundle) == {NamespaceOf[o] : o \in ObjectsOf(bundle)} \ {NoNamespace}

Exists(o) == live[o] # Absent
In(ns) == {o \in Objects : NamespaceOf[o] = ns}

\* The API server accepts a manifest for o: its namespace exists, and a
\* namespace that is going away takes no new object.
Accepts(o) ==
    NamespaceOf[o] # NoNamespace =>
        /\ Exists(NamespaceOf[o])
        /\ NamespaceOf[o] \in terminating => Exists(o)

ClusterTypeOK ==
    /\ live \in [Objects -> Content]
    /\ terminating \subseteq Objects
    /\ managed \subseteq Objects
    /\ drifts \in 0..MaxDrifts

ClusterInit ==
    /\ live = [o \in Objects |-> Absent]
    /\ terminating = {}
    /\ managed = {}
    /\ drifts = 0

-----------------------------------------------------------------------------
(* What requests do to the cluster.                                        *)

\* An object is gone, and with a namespace all that lives in it.
Remove(o) ==
    LET gone == {o} \cup In(o)
    IN  /\ live' = [p \in Objects |-> IF p \in gone THEN Absent ELSE live[p]]
        /\ terminating' = terminating \ gone
        /\ managed' = managed \ gone

\* kubectl delete --wait=false --ignore-not-found: the object goes at once or
\* stays, marked, until its finalizers are done.  A namespace that stays
\* marks what lives in it too.
RequestDelete(o) ==
    IF ~Exists(o)
    THEN UNCHANGED <<live, terminating, managed>>
    ELSE \/ Remove(o)
         \/ /\ terminating' = terminating \cup
                    {p \in {o} \cup In(o) : Exists(p)}
            /\ UNCHANGED <<live, managed>>

\* kubectl apply of one accepted manifest.
Put(o, hash) ==
    /\ live' = [live EXCEPT ![o] = hash]
    /\ managed' = managed \cup {o}
    /\ UNCHANGED terminating

-----------------------------------------------------------------------------
(* What happens in the cluster by itself, or by the hand of others.        *)

\* The finalizers of a deleted object are done.
Finalize ==
    \E o \in terminating : Remove(o) /\ UNCHANGED drifts

\* Another user edits, creates or deletes an object.
Drift ==
    /\ drifts < MaxDrifts
    /\ drifts' = drifts + 1
    /\ \E o \in Objects :
          \/ \E hash \in Hashes \ {live[o]} :
                /\ Accepts(o)
                /\ live' = [live EXCEPT ![o] = hash]
                /\ UNCHANGED <<terminating, managed>>
          \/ Exists(o) /\ Remove(o)

=============================================================================

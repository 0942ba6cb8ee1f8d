----------------------------- MODULE Manifests -----------------------------
(***************************************************************************)
(* The pure parts of pkg/cluster/kube (manifests.go, resources.go and the  *)
(* lookups of ordered_client.go): which documents of a directory are       *)
(* manifests, the order they are applied in, the ids they are known by,    *)
(* and the request that an id comes down to when it is deleted.            *)
(*                                                                         *)
(* Text is a sequence of words; "." and "/" are words.  An api version is  *)
(* <<"v1">> or <<"apps", "/", "v1">>, the group may hold dots, and so may  *)
(* the name of an object; kinds and namespaces are one word.               *)
(***************************************************************************)
EXTENDS Naturals, FiniteSets, Sequences, SequencesExt

CONSTANTS
    Words,          \* All words but the kinds.
    WordRank,       \* Their order in a dictionary.
    ApiResources    \* What discovery lists, group by group.

ASSUME WordAssumption ==
    /\ WordRank \in [Words -> Nat]
    /\ \A v, w \in Words : WordRank[v] = WordRank[w] => v = w

-----------------------------------------------------------------------------
(* Files and documents.                                                    *)

\* A file name is a base, ".gotpl" for a template, and an extension.  Files
\* of one base sort as "x.gotpl.txt" < "x.gotpl.yaml" < "x.txt" < "x.yaml".
ExtensionRank == [json |-> 1, txt |-> 2, yaml |-> 3, yml |-> 4]
FileNames == [base : Nat, tpl : BOOLEAN, ext : DOMAIN ExtensionRank]
NameRank(f) == 8 * f.base + (IF f.tpl THEN 0 ELSE 4) + ExtensionRank[f.ext]

\* The members of S one after the other: the k-th has k - 1 before it.
InOrder(S, before) ==
    [k \in 1..Cardinality(S) |->
        CHOOSE x \in S : Cardinality({y \in S : <<y, x>> \in before}) = k - 1]

NameOrder(names) ==
    {pair \in names \X names : NameRank(pair[1]) < NameRank(pair[2])}
Listing(names) == InOrder(names, NameOrder(names))

\* The three sorts of documents that a "---" separates: comments only, text
\* that is not a manifest (it does not parse or has no metadata), manifests.
Blank == [sort |-> "blank"]
Junk == [sort |-> "junk"]
IsManifest(doc) == doc.sort = "manifest"

\* The places of the documents of the files with these extensions.
Places(dir, extensions) ==
    UNION {{f} \X DOMAIN dir[f].docs
              : f \in {g \in DOMAIN dir : g.ext \in extensions}}

\* The walk comes to the files by name, and reads each from its top.
WalkOrder(places) ==
    {pair \in places \X places :
        \/ NameRank(pair[1][1]) < NameRank(pair[2][1])
        \/ pair[1][1] = pair[2][1] /\ pair[1][2] < pair[2][2]}

\* A document stands with what its file holds once it is expanded.
DocumentAt(dir, place) ==
    [doc |-> dir[place[1]].docs[place[2]], holds |-> dir[place[1]].holds]

ManifestPlaces(dir) ==
    {place \in Places(dir, {"yaml"}) : IsManifest(DocumentAt(dir, place).doc)}
ManifestsAt(dir, places) ==
    LET walk == InOrder(places, WalkOrder(places))
    IN  [k \in DOMAIN walk |-> DocumentAt(dir, walk[k])]

\* Mutant of GetManifests: only the first document of a file is read.
GetFirstManifests(dir) ==
    ManifestsAt(dir, {place \in ManifestPlaces(dir) : place[2] = 1})

\* GetManifests reads .yaml files and passes over what is not a manifest.
GetManifests(dir) == ManifestsAt(dir, ManifestPlaces(dir))

-----------------------------------------------------------------------------
(* SortManifests.                                                          *)

KindOrder == <<
    "Namespace", "NetworkPolicy", "ResourceQuota", "LimitRange",
    "PodSecurityPolicy", "PodDisruptionBudget", "Secret", "ConfigMap",
    "ConfigMapList", "StorageClass", "PersistentVolume",
    "PersistentVolumeClaim", "ServiceAccount", "CustomResourceDefinition",
    "ClusterRole", "ClusterRoleList", "ClusterRoleBinding",
    "ClusterRoleBindingList", "Role", "RoleList", "RoleBinding",
    "RoleBindingList", "Service", "DaemonSet", "Pod",
    "ReplicationController", "ReplicaSet", "Deployment",
    "HorizontalPodAutoscaler", "StatefulSet", "Job", "CronJob", "Ingress",
    "APIService" >>

\* Kinds that are not in the list come last.
KindRank(kind) ==
    IF \E i \in DOMAIN KindOrder : KindOrder[i] = kind
    THEN CHOOSE i \in DOMAIN KindOrder : KindOrder[i] = kind
    ELSE Len(KindOrder) + 1

\* The order of two texts: they part at position i, or s ends there.
TextLess(s, t) ==
    \E i \in DOMAIN t :
        /\ \A j \in 1..(i - 1) : j \in DOMAIN s /\ s[j] = t[j]
        /\ i \in DOMAIN s => WordRank[s[i]] < WordRank[t[i]]

\* Mutant of Less: the kinds do not count.
LessByName(d, e) ==
    TextLess(d.ns, e.ns) \/ (d.ns = e.ns /\ TextLess(d.name, e.name))

Less(d, e) ==
    LET rank == KindRank(d.kind)
        other == KindRank(e.kind)
    IN  \/ rank < other
        \/ rank = other /\ TextLess(d.ns, e.ns)
        \/ rank = other /\ d.ns = e.ns /\ TextLess(d.name, e.name)

-----------------------------------------------------------------------------
(* Ids.                                                                    *)

ManifestId(d) == d.api \o <<".", d.kind, ".">> \o d.ns \o <<".">> \o d.name

NoComponents == [api |-> <<>>, kind |-> <<>>, ns |-> <<>>, name |-> <<>>]

\* Mutant of IdComponents: the rest is cut at all of its dots.
IdPieces(id) ==
    LET Dot(from) == SelectInSubSeq(id, from, Len(id), LAMBDA w : w = ".")
        slash == SelectInSeq(id, LAMBDA w : w = "/")
        api == Dot(IF slash > 1 THEN slash ELSE 1)
        kind == Dot(api + 1)
        ns == Dot(kind + 1)
        name == Dot(ns + 1)
    IN  [api |-> SubSeq(id, 1, api - 1),
         kind |-> SubSeq(id, api + 1, kind - 1),
         ns |-> SubSeq(id, kind + 1, ns - 1),
         name |-> SubSeq(id, ns + 1, IF name = 0 THEN Len(id) ELSE name - 1)]

\* manifestIDToComponents: the api version ends at the first dot behind the
\* slash; the rest is cut at its first two dots.
IdComponents(id) ==
    LET Dot(from) == SelectInSubSeq(id, from, Len(id), LAMBDA w : w = ".")
        slash == SelectInSeq(id, LAMBDA w : w = "/")
        api == Dot(IF slash > 1 THEN slash ELSE 1)
        kind == Dot(api + 1)
        ns == Dot(kind + 1)
    IN  IF 0 \in {api, kind, ns}
        THEN NoComponents
        ELSE [api |-> SubSeq(id, 1, api - 1),
              kind |-> SubSeq(id, api + 1, kind - 1),
              ns |-> SubSeq(id, kind + 1, ns - 1),
              name |-> SubSeq(id, ns + 1, Len(id))]

-----------------------------------------------------------------------------
(* Requests to delete.                                                     *)

\* An entry of discovery: [group, kind, resource, sub], where sub is "" or
\* the subresource of "resource/sub"; a group's list follows another's.
\* Delete keeps, of the entries of a kind, the last.
ResourceOf(kind) ==
    LET last == SelectLastInSeq(ApiResources, LAMBDA r : <<r.kind>> = kind)
    IN  IF last = 0 THEN {} ELSE {ApiResources[last]}

\* The objects that a manifest and a request name.  Two api versions of one
\* group name the same object.
GroupOf(api) ==
    LET slash == SelectInSeq(api, LAMBDA w : w = "/")
    IN  SubSeq(api, 1, slash - 1)
ObjectNamed(d) == [group |-> GroupOf(d.api), kind |-> d.kind, ns |-> d.ns,
                   name |-> d.name]

\* kubectl delete RESOURCE NAME: a resource with a slash in it is refused;
\* otherwise the first group that has the resource is meant.
Refused(request) == request.sub # ""
ObjectAsked(request) ==
    LET first == SelectInSeq(ApiResources,
                    LAMBDA r : r.resource = request.resource /\ r.sub = "")
    IN  [group |-> ApiResources[first].group,
         kind |-> ApiResources[first].kind,
         ns |-> request.ns, name |-> request.name]

-----------------------------------------------------------------------------
(* kubectl's own reading of a directory.                                   *)

IsListed(doc) == IsManifest(doc) /\ ResourceOf(<<doc.kind>>) # {}

\* kubectl -R -f reads .yml and .json files too, and fails on what is not a
\* manifest of a kind that the API server knows.
KubectlReads(dir) ==
    {DocumentAt(dir, place) : place \in Places(dir, {"json", "yaml", "yml"})}
KubectlAccepts(dir) ==
    \A m \in KubectlReads(dir) : m.doc = Blank \/ IsListed(m.doc)
KubectlShows(dir) == {m \in KubectlReads(dir) : IsManifest(m.doc)}

=============================================================================

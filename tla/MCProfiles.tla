----------------------------- MODULE MCProfiles -----------------------------
(***************************************************************************)
(* Two modules, each with an object in the same namespace, and one that is *)
(* cluster-scoped.  From one configuration to the other the first module   *)
(* drops the latter, both change their objects, and the change of the first*)
(* is one that no diff shows.  In the moving configurations the            *)
(* cluster-scoped object goes from module to module.                       *)
(***************************************************************************)
EXTENDS Profiles, TLC

CONSTANTS m1, m2, a, b, c, oa, ob, oc, ns, h1, h2, h3, bare, absent, none

MCModules == {m1, m2}
MCIds == {a, b, c}
MCObjects == {oa, ob, oc, ns}
MCObjectOf == (a :> oa) @@ (b :> ob) @@ (c :> oc)
MCNamespaceOf == [o \in Objects |-> IF o \in {oa, oc} THEN ns ELSE none]
MCHashes == {h1, h2, h3, bare}
MCRank == [id \in Ids |-> 1]

\* Contents h1 and h3 look the same.
Look(content) == IF content = h3 THEN h1 ELSE content
MCTexts == {NoText} \cup (Content \X Content)
MCTextOf == [old \in Content |-> [new \in Content |->
    IF Look(old) = Look(new) THEN NoText ELSE <<Look(old), Look(new)>>]]

Holding(x, y, z) == (a :> x) @@ (b :> y) @@ (c :> z)

MCConfigs == {
    (m1 :> Holding(h1, h1, absent)) @@ (m2 :> Holding(absent, absent, h1)),
    (m1 :> Holding(h3, absent, absent)) @@ (m2 :> Holding(absent, absent, h2))}

MCMoving == {
    (m1 :> Holding(h1, h1, absent)) @@ (m2 :> Holding(absent, absent, h1)),
    (m1 :> Holding(h1, absent, absent)) @@ (m2 :> Holding(absent, h1, h1))}

=============================================================================

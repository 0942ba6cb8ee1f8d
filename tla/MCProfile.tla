----------------------------- MODULE MCProfile -----------------------------
(***************************************************************************)
(* Small instances of the profile resource.                                *)
(*                                                                         *)
(* Manifest "a" is namespaced, "b" is cluster-scoped.  Contents h1 and h3  *)
(* differ at the end of a long line, where no diff looks.  Each input is   *)
(* named for what it renders; the second version of the source renders     *)
(* other contents and leaves "b" out.                                      *)
(***************************************************************************)
EXTENDS ProfileProperties, TLC

CONSTANTS a, b, oa, ob, ns, h1, h2, h3, bare, absent, none, lines

MCIds == {a, b}
MCObjects == {oa, ob, ns}
MCObjectOf == [id \in Ids |-> IF id = a THEN oa ELSE ob]
MCNamespaceOf == (oa :> ns) @@ (ob :> none) @@ (ns :> none)
MCHashes == {h1, h2, h3, bare}
MCRank == [id \in Ids |-> IF id = a THEN 2 ELSE 1]

\* A diff is known by the contents that it shows; they may all have as many
\* lines.
Look(content) == IF content = h3 THEN h1 ELSE content
MCTexts == {NoText, lines} \cup (Content \X Content)
MCTextOf == [old \in Content |-> [new \in Content |->
    IF Look(old) = Look(new) THEN NoText ELSE <<Look(old), Look(new)>>]]
MCLinesIn == [hash \in Hashes |-> lines]

MCInputs == {"both", "other", "long", "a only", "b only"}
MCFewInputs == MCInputs \ {"other"}
MCBundles ==
    ("both"   :> ((a :> h1) @@ (b :> h1))) @@
    ("other"  :> ((a :> h2) @@ (b :> h1))) @@
    ("long"   :> ((a :> h1) @@ (b :> h3))) @@
    ("a only" :> ((a :> h1) @@ (b :> absent))) @@
    ("b only" :> ((a :> absent) @@ (b :> h3)))
MCRender == [v \in Versions |-> [x \in Inputs |->
    IF v = "v1" THEN MCBundles[x] ELSE (a :> h2) @@ (b :> absent)]]

\* A placeholder changes what a manifest says, not which manifests there are.
MCPlaceholders == [x \in Inputs |->
    IF x = "both" /\ "other" \in Inputs THEN "other" ELSE x]

=============================================================================

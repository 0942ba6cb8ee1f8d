---------------------------- MODULE KubectlDiff ----------------------------
(***************************************************************************)
(* What "kubectl diff" lets the provider see.  OrderedClient.DiffStructured*)
(* runs it with kadiff as the external differ, and kadiff compares lines   *)
(* cut off at a length (pkg/cluster/diff/diff.go, cmd/kadiff/main.go: 256  *)
(* characters) and cuts off the text at a size.  So two contents may differ*)
(* and give no entry, and two differences may give the same text.          *)
(*                                                                         *)
(* The text is therefore any function of the two contents.  That it is a   *)
(* function stands for the care the code takes to make it one (sorted file *)
(* names, no time stamps, no managed fields); StructuredDiff has the lines.*)
(***************************************************************************)
EXTENDS KubeCluster

CONSTANTS
    Texts,          \* What an entry of the diff may say.
    NoText,         \* There is no entry.
    TextOf          \* What the entry for an object says, from old to new.

\* Equal contents give no entry, an object on one side only always gives one.
ASSUME TextAssumption ==
    /\ NoText \in Texts
    /\ TextOf \in [Content -> [Content -> Texts]]
    /\ \A content \in Content : TextOf[content][content] = NoText
    /\ \A hash \in Hashes :
          TextOf[Absent][hash] # NoText /\ TextOf[hash][Absent] # NoText

\* evalDiffs: is there an entry for an object that goes from old to new?
Shows(old, new) == TextOf[old][new] # NoText

=============================================================================

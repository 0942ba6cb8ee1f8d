---------------------------- MODULE MCWorkspace ----------------------------
(***************************************************************************)
(* Two processes, the second of which may start while the first serves or  *)
(* after it has ended, and two modules, one with two files.                *)
(***************************************************************************)
EXTENDS Workspace, TLC

CONSTANTS r1, r2, m1, m2, f1, f2, g1, t1, t2

MCSourceOf == (m1 :> {f1, f2}) @@ (m2 :> {g1})
MCSymmetry == Permutations(Runs) \cup Permutations(Stamps)

=============================================================================

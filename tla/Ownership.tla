----------------------------- MODULE Ownership -----------------------------
(***************************************************************************)
(* What Terraform and the provider owe to whoever looks after a cluster:   *)
(* the books are kept.  Every object that was made and is there to stay is *)
(* in the Terraform state, or the user has been told of it, whenever no    *)
(* run is at work.  Between two runs nothing is made; during a run the     *)
(* books stay as they are, and are settled once at its end.                *)
(*                                                                         *)
(* This module knows nothing of bundles, ids, kubectl or failures.         *)
(* ProfileProperties says how the resource implements it.                  *)
(***************************************************************************)
CONSTANT Objects        \* Objects of the cluster.

VARIABLES
    owned,              \* What the books list.
    made,               \* What was made, and is there to stay.
    told,               \* What the user was told to look after.
    busy                \* Is a run at work?

books == <<owned, made, told, busy>>

\* The promise itself.
Kept == made \subseteq owned \cup told

Init ==
    /\ owned = {}
    /\ made = {}
    /\ told = {}
    /\ busy = FALSE

\* A run begins, or goes on; it may tell the user of more.
Work ==
    /\ told \subseteq told'
    /\ busy' = TRUE
    /\ UNCHANGED <<owned, made>>

Make ==
    /\ busy
    /\ \E o \in Objects : made' = made \cup {o}
    /\ UNCHANGED <<owned, told, busy>>

\* Objects go, by the hand of anybody and at any time.
Lose ==
    /\ made' \subseteq made
    /\ UNCHANGED <<owned, told, busy>>

\* A run ends, and the books are settled.  The user may forget only what the
\* books list again.
Settle ==
    /\ told \ told' \subseteq owned'
    /\ busy' = FALSE
    /\ Kept'
    /\ UNCHANGED made

Next == Work \/ Make \/ Lose \/ Settle

Spec == Init /\ [][Next]_books

=============================================================================

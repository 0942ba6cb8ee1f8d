--------------------------- MODULE OrderedClient ---------------------------
(***************************************************************************)
(* OrderedClient (pkg/cluster/kube/ordered_client.go): one call of Apply   *)
(* or Delete, as the kubectl requests that it comes down to.  The cluster  *)
(* changes one object at a time, so other users, finalizers and failures   *)
(* fall between any two of them.                                           *)
(*                                                                         *)
(* Apply writes the manifests to numbered files and runs one               *)
(* "kubectl apply -R", which takes them in that order, goes on past a      *)
(* manifest that fails, and reports the failure at its end.  Delete runs   *)
(* one "kubectl delete" for each id and stops at the first that fails; an  *)
(* id whose kind the API server did not list is skipped, with success.     *)
(***************************************************************************)
EXTENDS KubectlDiff

CONSTANTS
    Rank,           \* The place of the id's kind in KindOrder.
    Discovered,     \* Ids whose kind getApiResources returns.
    MaxFaults       \* Bound on failures of kubectl, git and the provider.

ASSUME ClientAssumption ==
    /\ Rank \in [Ids -> Nat]
    /\ Discovered \subseteq Ids
    /\ MaxFaults \in Nat

VARIABLES
    call,           \* The call in progress.
    faults          \* How many failures have happened.

clientVars == <<call, faults>>

Calls == [op : {"none", "apply", "delete"}, bundle : AllBundles,
          todo : SUBSET Ids, failed : BOOLEAN]

NoCall == [op |-> "none", bundle |-> Empty, todo |-> {}, failed |-> FALSE]

ClientTypeOK ==
    /\ call \in Calls
    /\ faults \in 0..MaxFaults

ClientInit ==
    /\ call = NoCall
    /\ faults = 0

Fault ==
    /\ faults < MaxFaults
    /\ faults' = faults + 1

-----------------------------------------------------------------------------
(* Apply.                                                                  *)

BeginApply(bundle) ==
    call' = [op |-> "apply", bundle |-> bundle, todo |-> IdsOf(bundle),
             failed |-> FALSE]

\* SortManifests: a manifest goes before those of a later kind.
IsNext(id) == \A other \in call.todo : Rank[id] <= Rank[other]

\* A request that took effect is answered, or its answer is lost and kubectl
\* reports a failure.
Answer(id) ==
    \/ /\ call' = [call EXCEPT !.todo = @ \ {id}]
       /\ UNCHANGED faults
    \/ /\ Fault
       /\ call' = [call EXCEPT !.todo = @ \ {id}, !.failed = TRUE]

ApplyOne ==
    /\ call.op = "apply"
    /\ \E id \in call.todo :
          /\ IsNext(id)
          /\ \/ /\ Accepts(ObjectOf[id])
                /\ Put(ObjectOf[id], call.bundle[id])
                /\ Answer(id)
             \/ /\ Fault \/ (~Accepts(ObjectOf[id]) /\ UNCHANGED faults)
                /\ call' = [call EXCEPT !.todo = @ \ {id}, !.failed = TRUE]
                /\ UNCHANGED <<live, terminating, managed>>
    /\ UNCHANGED drifts

-----------------------------------------------------------------------------
(* Delete.                                                                 *)

\* The ids are looked up in the list of API resources first; the deletes run
\* in the order of a Go map.
BeginDelete(ids) ==
    call' = [op |-> "delete", bundle |-> Empty, todo |-> ids \cap Discovered,
             failed |-> FALSE]

\* The lookup itself may fail, whether or not there is anything to delete.
DeleteOne ==
    /\ call.op = "delete"
    /\ ~call.failed
    /\ \/ \E id \in call.todo : RequestDelete(ObjectOf[id]) /\ Answer(id)
       \/ /\ Fault
          /\ call' = [call EXCEPT !.failed = TRUE]
          /\ UNCHANGED <<live, terminating, managed>>
    /\ UNCHANGED drifts

Returned(op) ==
    /\ call.op = op
    /\ call.todo = {} \/ (op = "delete" /\ call.failed)

Succeeded(op) == Returned(op) /\ ~call.failed
Failed(op) == Returned(op) /\ call.failed

=============================================================================

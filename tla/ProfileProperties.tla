------------------------- MODULE ProfileProperties -------------------------
(***************************************************************************)
(* What the kubeapply_profile resource promises: to the author of a        *)
(* module, to the reader of a plan and to whoever looks after the cluster. *)
(* Each property names the code that has to keep it.                       *)
(***************************************************************************)
EXTENDS ProfileResource

\* The cluster holds a bundle, as far as a diff can tell.
Holds(bundle) ==
    \A id \in IdsOf(bundle) : ~Shows(live[ObjectOf[id]], bundle[id])

-----------------------------------------------------------------------------
(* Safety.                                                                 *)

\* A run of Terraform that ends well leaves the cluster as the configuration
\* says, and the state says what the cluster holds, up to what no diff shows
\* (LeavesNothingStale is without that exception, and fails).  This rests on
\* the second expand of Create and Update, on Update applying whenever the
\* diff is not empty, and on the "NO DIFFS FOUND" entry.
InSync ==
    outcome = "ok" /\ quiet =>
        IF wanted
        THEN /\ st # NoState
             /\ st.resources = Render[version][inputs]
             /\ Holds(st.resources)
        ELSE st = NoState

\* What the user is led to believe: after a run that ends well and with nobody
\* else at work, the state lists what the cluster holds, to the letter.
\* (getFileLines says that it avoids diffing "files with the same content".)
LeavesNothingStale ==
    outcome = "ok" /\ quiet /\ wanted =>
        \A id \in IdsOf(st.resources) : live[ObjectOf[id]] = st.resources[id]

\* An object that the provider made and that Terraform no longer lists is
\* either being deleted, or the user was told: by the warning of a provider
\* that may not delete, or by the error of the run that lost it.
\* (getResourceChanges, the delete in Update, resourceProfileDelete.)
NoSilentOrphan ==
    pc \in {"idle", "planned"} => Untracked(st) \subseteq told

\* An apply is never refused for want of a namespace that the provider could
\* have had ready: each manifest still to be applied finds its namespace, or
\* the manifest of it comes first.  (createNamespaces, SortManifests, and that
\* Update deletes before it applies.)
NamespacesReady ==
    pc = "applying" /\ quiet /\ ~call.failed =>
        \A id \in call.todo :
            \/ Accepts(ObjectOf[id])
            \/ \E first \in call.todo :
                  /\ ObjectOf[first] = NamespaceOf[ObjectOf[id]]
                  /\ ObjectOf[first] \notin terminating
                  /\ Rank[first] < Rank[id]

-----------------------------------------------------------------------------
(* The books.                                                              *)

\* The resource as a keeper of books: the state lists what its manifests name,
\* what stays is what no delete has marked, and a run is at work from the
\* approval of its plan to the end of its handler.
Books == INSTANCE Ownership WITH
            owned <- Tracked(st),
            made <- managed \ terminating,
            busy <- pc \notin {"idle", "planned"}

\* The resource keeps the books, whatever fails and whoever else acts: nothing
\* is applied outside of a handler, the state changes only as a run ends, and
\* then every object that stays is listed or the user knows of it, who forgets
\* only what is listed again.  (Create, Update and Delete in
\* resource_profile.go, and what Terraform saves after each.)
KeepsBooks == Books!Spec

-----------------------------------------------------------------------------
(* What a step may never do.                                               *)

\* The deletes of an update leave alone every object that the new bundle
\* holds.  (getResourceChanges compares ids; OrderedClient.Delete deletes
\* objects.)
DeletesOnlyRemoved ==
    [][DeleteOne /\ pc = "deleting" =>
          \A o \in ObjectsOf(plan.resources) :
              /\ live'[o] = live[o]
              /\ o \in terminating' => o \in terminating]_vars

\* What an approved plan said of object o, and whether it now comes true.
Announced(o) ==
    \/ plan.op = "destroy" /\ o \in ObjectsOf(st.resources)
    \/ \E entry \in plan.diff :
          /\ entry.id \in Ids
          /\ ObjectOf[entry.id] = o
          /\ \/ /\ entry.what = "delete"
                /\ live'[o] = Absent \/ o \in terminating'
             \/ /\ entry.what = IF live[o] = Absent THEN "create" ELSE "change"
                /\ live'[o] # Absent
                /\ entry.text = EntryText(live[o], live'[o])

\* While nobody else acts, the provider changes an object only as the plan
\* that the user approved said it would; but for a change that a diff does not
\* show, which no plan can announce.  (customize-diff runs before every apply;
\* the apply expands again and takes the result as it is.)
PlanIsHonest ==
    [][Kubectl /\ quiet =>
          \A o \in Objects :
              (Shows(live[o], live'[o])
                    \/ (o \in terminating' /\ o \notin terminating))
                  => Announced(o)]_vars

\* While nobody else acts, the same plan is made twice: Terraform never turns
\* down the final plan.  (The comments at format.go:9 and fake_client.go:146
\* say why the diff has to be deterministic.)
SteadyPlan ==
    [][outcome' = "rejected" /\ outcome # "rejected" => ~quiet]_vars

-----------------------------------------------------------------------------
(* Liveness.                                                               *)

Converged ==
    IF wanted
    THEN st # NoState /\ Holds(Render[version][inputs])
    ELSE st = NoState

\* The user (or a CI job) keeps running Terraform, and Terraform and the
\* provider keep going; finalizers end.  Nothing is assumed of edits, drift
\* and failures.
Fairness ==
    /\ WF_vars(\E can \in CanRuns, unknown \in Unknowns : MakePlan(can, unknown))
    /\ WF_vars(PlanDestroy)
    /\ WF_vars(Approve)
    /\ WF_vars(\E can \in CanRuns : Reject(can) \/ Destroy(can))
    /\ WF_vars(FinalPlanFails)
    /\ WF_vars(ExpandAndApply \/ SkipApply \/ ApplyReturns \/ DeleteReturns
                   \/ DestroyReturns)
    /\ WF_vars(Kubectl)
    /\ WF_vars(ClusterMoves /\ drifts' = drifts)

FairSpec == Spec /\ Fairness

\* However runs fail or are interrupted, once edits, drift and failures stop,
\* running Terraform again and again brings the cluster to what the
\* configuration says, and keeps it there.
RetriesConverge == <>[]Converged

=============================================================================

-------------------------- MODULE ProfileResource --------------------------
(***************************************************************************)
(* The kubeapply_profile resource: the handlers of                         *)
(* pkg/provider/resource_profile.go and the provider context they call,    *)
(* under the life cycle in which Terraform calls them.                     *)
(*                                                                         *)
(* Terraform plans (customize-diff), shows the plan, and once it is        *)
(* approved runs customize-diff again with all values known.  It refuses   *)
(* to go on if a value that the plan showed as known has changed.          *)
(* Otherwise it calls Create, Update or Delete, and saves what the handler *)
(* leaves: nothing when Create fails, the whole planned state (as the      *)
(* handler changed it) when Update fails, the prior state when Delete      *)
(* fails or the provider dies.  A plan without changes calls no handler.   *)
(*                                                                         *)
(* One instance of the resource is modelled.  The hash of all resources    *)
(* says what "resources" says, and expanded_files is only for display: both*)
(* are left out.                                                           *)
(***************************************************************************)
EXTENDS OrderedClient

CONSTANTS
    ForceDiffs,             \* Provider options: force_diffs,
    AllowDeletes,           \* allow_deletes,
    AutoCreateNamespaces,   \* auto_create_namespaces,
    VerboseDiffs,           \* verbose_diffs,
    NoDiff,                 \* Resource option: no_diff.
    CanRuns,                \* Values of canRun: are host and config known?
    Unknowns,               \* What may be unknown while planning.
    Versions,               \* What the source may resolve to.
    Inputs,                 \* Values of parameters and set, and ...
    Placeholders,           \* ... what stands for them when set is unknown.
    Render,                 \* The bundle each version makes of each input.
    Unknown,                \* A planned value known only after the apply.
    LinesIn,                \* The line count shown for a new object.
    NoState, NoPlan, NoId,
    MaxEdits                \* Bound on what the author of the module does.

ASSUME OptionAssumption ==
    /\ {ForceDiffs, AllowDeletes, AutoCreateNamespaces, VerboseDiffs, NoDiff}
            \subseteq BOOLEAN
    /\ CanRuns \subseteq BOOLEAN
    /\ Unknowns \subseteq {"nothing", "set", "parameters"}
    /\ MaxEdits \in Nat

ASSUME RenderAssumption ==
    /\ Render \in [Versions -> [Inputs -> AllBundles]]
    /\ Placeholders \in [Inputs -> Inputs]
    /\ Unknown \notin AllBundles
    /\ LinesIn \in [Hashes -> Texts]

ASSUME SentinelAssumption == NoId \notin Ids

VARIABLES
    inputs,         \* What the configuration gives the resource.
    wanted,         \* Is the resource in the configuration?
    version,        \* What its source resolves to now.
    st,             \* The resource in the Terraform state, or NoState.
    plan,           \* The plan being shown or applied, or NoPlan.
    pc,             \* Where Terraform, or the handler it called, stands.
    outcome,        \* How the last run ended.
    quiet,          \* Has nobody else acted since the last customize-diff?
    told,           \* Objects the user was told to look after.
    edits           \* How often the author acted.

tfVars == <<inputs, wanted, version, st, plan, pc, outcome, quiet, told, edits>>

vars == <<clusterVars, clientVars, tfVars>>

-----------------------------------------------------------------------------
(* Types.                                                                  *)

\* The diff attribute: a set of entries, each for an id or for the whole.
\* "text" is the part that depends on contents, if any does.
Entries == [what : {"create", "change", "delete", "remove", "no diffs",
                    "no host", "unknown parameters"},
            id : Ids \cup {NoId}, text : Texts]

States == [inputs : Inputs, resources : AllBundles, diff : SUBSET Entries]

Plans == [op : {"create", "update", "destroy"}, inputs : Inputs,
          resources : AllBundles \cup {Unknown}, diff : SUBSET Entries]

\* The sentinels are no values of their own kind.
ASSUME StateAssumption == NoState \notin States

Phases == {"idle", "planned", "creating", "deleting", "deleted",
           "applying", "destroying"}

TypeOK ==
    /\ ClusterTypeOK
    /\ ClientTypeOK
    /\ inputs \in Inputs
    /\ wanted \in BOOLEAN
    /\ version \in Versions
    /\ st \in States \cup {NoState}
    /\ plan \in Plans \cup {NoPlan}
    /\ pc \in Phases
    /\ outcome \in {"none", "ok", "error", "rejected"}
    /\ quiet \in BOOLEAN
    /\ told \subseteq Objects
    /\ edits \in 0..MaxEdits

Init ==
    /\ ClusterInit
    /\ ClientInit
    /\ inputs \in Inputs
    /\ wanted = TRUE
    /\ version \in Versions
    /\ st = NoState
    /\ plan = NoPlan
    /\ pc = "idle"
    /\ outcome = "none"
    /\ quiet = TRUE
    /\ told = {}
    /\ edits = 0

-----------------------------------------------------------------------------
(* Customize-diff.                                                         *)

Prior == IF st = NoState THEN Empty ELSE st.resources

\* Mutants of Removed: changed ids count as removed; old and new swapped.
RemovedOrChanged(old, new) == {id \in IdsOf(old) : old[id] # new[id]}
RemovedSwapped(old, new) == IdsOf(new) \ IdsOf(old)

\* getResourceChanges: the ids that only the old map has.
Removed(old, new) == IdsOf(old) \ IdsOf(new)

Whole(what) == [what |-> what, id |-> NoId, text |-> NoText]
About(what, id) == [what |-> what, id |-> id, text |-> NoText]

\* Mutant of Missing: asks the Terraform state and not the API server.
MissingInState(bundle) == NamespacesOf(bundle) \ NamespacesOf(Prior)

\* createNamespaces: the namespaces of the manifests that the API server does
\* not list are made.
Missing(bundle) == {ns \in NamespacesOf(bundle) : ~Exists(ns)}

WithNamespaces(made) == [o \in Objects |-> IF o \in made THEN Bare ELSE live[o]]

\* What the entry for an object says.  Unless diffs are verbose a new object
\* shows only the number of its lines.
EntryText(old, new) ==
    IF old = Absent /\ ~VerboseDiffs THEN LinesIn[new] ELSE TextOf[old][new]

\* The structured diff: the objects that a server-side dry run of the apply
\* would change, as far as the differ can see.
Differences(bundle, cluster) ==
    {[what |-> IF cluster[ObjectOf[id]] = Absent THEN "create" ELSE "change",
      id |-> id,
      text |-> EntryText(cluster[ObjectOf[id]], bundle[id])]
     : id \in {i \in IdsOf(bundle) : Shows(cluster[ObjectOf[i]], bundle[i])}}

\* Mutants of ShouldDiff: force_diffs is ignored; a new resource needs no diff.
DiffOnChange(seen) == ~NoDiff /\ seen # Prior
DiffOnUpdate(seen) == ~NoDiff /\ ForceDiffs /\ st # NoState

\* shouldDiff; seen is the planned value of resources as the handler reads it.
ShouldDiff(seen) == ~NoDiff /\ (ForceDiffs \/ seen # Prior)

\* Mutants of Deletions: what goes is not part of the diff; it is there by the
\* name of the object and not by its id.
DeletionsUnseen(seen) == {}
DeletionsByObject(seen) ==
    {About("delete", ObjectOf[id]) : id \in Removed(Prior, seen)}

Deletions(seen) ==
    {About(IF AllowDeletes THEN "delete" ELSE "remove", id)
        : id \in Removed(Prior, seen)}

\* Mutant of Results: says too which manifests get a new namespace.
ResultsWithNamespaces(bundle, seen, cluster) ==
    Differences(bundle, cluster) \cup Deletions(seen) \cup
        {[what |-> "change", id |-> id, text |-> TextOf[Absent][Bare]]
            : id \in {i \in IdsOf(bundle) :
                        NamespaceOf[ObjectOf[i]] \in Missing(bundle)}}

\* resourceProfileCustomDiff once the manifests are known: the results map.
Results(bundle, seen, cluster) ==
    LET found == Differences(bundle, cluster) \cup Deletions(seen)
    IN  IF found = {} /\ seen # Prior THEN {Whole("no diffs")} ELSE found

\* The namespaces a customize-diff makes, if it gets that far.
Made(bundle, seen) ==
    IF ShouldDiff(seen) /\ AutoCreateNamespaces THEN Missing(bundle) ELSE {}

\* kubectl diff fails for a manifest that the API server would not accept.
CanDiff(bundle, seen) ==
    ShouldDiff(seen) =>
        \A o \in ObjectsOf(bundle) :
            Accepts(o) \/ NamespaceOf[o] \in Made(bundle, seen)

\* The inputs that a customize-diff expands.
Values(unknown) == IF unknown = "set" THEN Placeholders[inputs] ELSE inputs

\* How "resources", once planned, reads back through the SDK: an unknown value
\* reads as empty or as the prior one.
SeenAs(unknown, bundle) == IF unknown = "set" THEN {Empty, Prior} ELSE {bundle}

Undetermined(reason) ==
    [plan |-> [op |-> IF st = NoState THEN "create" ELSE "update",
               inputs |-> inputs, resources |-> Unknown,
               diff |-> {Whole(reason)}],
     made |-> {}]

Determined(unknown, bundle, seen) ==
    LET made == Made(bundle, seen)
    IN  [plan |-> [op |-> IF st = NoState THEN "create" ELSE "update",
                   inputs |-> inputs,
                   resources |-> IF unknown = "set" THEN Unknown ELSE bundle,
                   diff |-> IF ShouldDiff(seen)
                            THEN Results(bundle, seen, WithNamespaces(made))
                            ELSE {}],
         made |-> made]

\* resourceProfileCustomDiff: the plans it may return, each with the
\* namespaces it makes on the way.  None if kubectl diff fails.
CustomDiff(can, unknown) ==
    IF ~can THEN {Undetermined("no host")}
    ELSE IF unknown = "parameters" THEN {Undetermined("unknown parameters")}
    ELSE LET bundle == Render[version][Values(unknown)]
         IN  {Determined(unknown, bundle, seen) :
                seen \in {s \in SeenAs(unknown, bundle) : CanDiff(bundle, s)}}

\* The namespaces left behind by a customize-diff that fails: expanding may
\* fail, or the API server may while some of them are made, or kubectl diff.
LeftBehind(unknown) ==
    LET bundle == Render[version][Values(unknown)]
    IN  UNION {SUBSET Made(bundle, seen) : seen \in SeenAs(unknown, bundle)}

FailedDiff(unknown) ==
    /\ Fault \/ (CustomDiff(TRUE, unknown) = {} /\ UNCHANGED faults)
    /\ \E made \in LeftBehind(unknown) : live' = WithNamespaces(made)

-----------------------------------------------------------------------------
(* Planning.                                                               *)

\* What the user has to look after: objects the provider once applied, that
\* are there to stay, and that the state does not list.
Tracked(state) == IF state = NoState THEN {} ELSE ObjectsOf(state.resources)
Untracked(state) == (managed \ terminating) \ Tracked(state)

\* The state Terraform saves after an update that leaves "diff" as given.  An
\* unknown value is dropped.
Saved(diff) ==
    [inputs |-> plan.inputs, diff |-> diff,
     resources |-> IF plan.resources = Unknown THEN Empty ELSE plan.resources]

\* A run ends with the state as given; a run that fails shows its error, and
\* with it that what it left half done is the user's to look after.
End(how, state) ==
    /\ st' = state
    /\ plan' = NoPlan
    /\ pc' = "idle"
    /\ call' = NoCall
    /\ outcome' = how
    /\ told' = (IF how = "error" THEN told \cup Untracked(state) ELSE told)
                    \ Tracked(state)
    /\ UNCHANGED <<inputs, wanted, version, quiet, edits>>

\* Nothing differs from the state: Terraform calls no handler.
NoChange(planned) ==
    /\ st # NoState
    /\ planned.inputs = st.inputs
    /\ planned.resources = st.resources
    /\ planned.diff = st.diff

MakePlan(can, unknown) ==
    /\ pc = "idle"
    /\ wanted
    /\ \E result \in CustomDiff(can, unknown) :
          /\ live' = WithNamespaces(result.made)
          /\ IF NoChange(result.plan)
             THEN /\ outcome' = "ok"
                  /\ UNCHANGED <<pc, plan>>
             ELSE /\ pc' = "planned"
                  /\ plan' = result.plan
                  /\ outcome' = "none"
    /\ quiet' = TRUE
    /\ UNCHANGED <<terminating, managed, drifts, clientVars, inputs, wanted,
                   version, st, told, edits>>

PlanFails ==
    /\ pc = "idle"
    /\ wanted
    /\ TRUE \in CanRuns
    /\ \E unknown \in Unknowns \ {"parameters"} : FailedDiff(unknown)
    /\ outcome' = "error"
    /\ UNCHANGED <<terminating, managed, drifts, call, inputs, wanted, version,
                   st, plan, pc, quiet, told, edits>>

\* A destroy is planned without customize-diff.
PlanDestroy ==
    /\ pc = "idle"
    /\ ~wanted
    /\ IF st = NoState
       THEN /\ outcome' = "ok"
            /\ UNCHANGED <<pc, plan>>
       ELSE /\ pc' = "planned"
            /\ plan' = [op |-> "destroy", inputs |-> st.inputs,
                        resources |-> Empty, diff |-> {}]
            /\ outcome' = "none"
    /\ quiet' = TRUE
    /\ UNCHANGED <<clusterVars, clientVars, inputs, wanted, version, st, told,
                   edits>>

-----------------------------------------------------------------------------
(* Applying the plan.                                                      *)

\* Terraform's check of the final plan against the one that was approved.
Consistent(final) ==
    /\ plan.resources \in {Unknown, final.resources}
    /\ plan.diff = final.diff

\* resourceProfileCreate up to its expand.
StartCreate ==
    /\ pc' = "creating"
    /\ UNCHANGED <<call, told>>

\* Mutants of StartUpdate: no warning without allow_deletes; canDelete is not
\* asked.
StartUpdateSilent(removed) ==
    IF AllowDeletes /\ removed # {}
    THEN BeginDelete(removed) /\ pc' = "deleting" /\ UNCHANGED told
    ELSE pc' = "deleted" /\ UNCHANGED <<call, told>>
StartUpdateBold(removed) ==
    BeginDelete(removed) /\ pc' = "deleting" /\ UNCHANGED told

\* resourceProfileUpdate up to the end of its delete: "removed" goes first.
StartUpdate(removed) ==
    \/ /\ removed = {}
       /\ pc' = "deleted"
       /\ UNCHANGED <<call, told>>
    \/ /\ removed # {}
       /\ AllowDeletes
       /\ BeginDelete(removed)
       /\ pc' = "deleting"
       /\ UNCHANGED told
    \/ /\ removed # {}
       /\ ~AllowDeletes
       /\ told' = told \cup {ObjectOf[id] : id \in removed}
       /\ pc' = "deleted"
       /\ UNCHANGED call

\* The plan is approved, and customize-diff runs again with all values known.
Approve ==
    /\ pc = "planned"
    /\ plan.op # "destroy"
    /\ TRUE \in CanRuns
    /\ \E result \in CustomDiff(TRUE, "nothing") :
          /\ Consistent(result.plan)
          /\ live' = WithNamespaces(result.made)
          /\ plan' = result.plan
          /\ IF plan.op = "create"
             THEN StartCreate
             ELSE StartUpdate(Removed(Prior, result.plan.resources))
    /\ quiet' = TRUE
    /\ UNCHANGED <<terminating, managed, drifts, faults, inputs, wanted,
                   version, st, outcome, edits>>

\* Terraform reports an inconsistent final plan, and calls no handler.
Reject(can) ==
    /\ pc = "planned"
    /\ plan.op # "destroy"
    /\ \E result \in CustomDiff(can, "nothing") :
          /\ ~Consistent(result.plan)
          /\ live' = WithNamespaces(result.made)
    /\ End("rejected", st)
    /\ UNCHANGED <<terminating, managed, drifts, faults>>

\* The final customize-diff fails.
FinalPlanFails ==
    /\ pc = "planned"
    /\ plan.op # "destroy"
    /\ TRUE \in CanRuns
    /\ FailedDiff("nothing")
    /\ End("error", st)
    /\ UNCHANGED <<terminating, managed, drifts>>

\* canRun is false when the handler runs: Create and Update return an error.
Refuse ==
    /\ pc = "planned"
    /\ plan.op # "destroy"
    /\ FALSE \in CanRuns
    /\ Consistent(Undetermined("no host").plan)
    /\ End("error", IF plan.op = "create" THEN st ELSE Saved(plan.diff))
    /\ UNCHANGED <<clusterVars, faults>>

Discard ==
    /\ pc = "planned"
    /\ edits < MaxEdits
    /\ pc' = "idle"
    /\ plan' = NoPlan
    /\ edits' = edits + 1
    /\ UNCHANGED <<clusterVars, clientVars, inputs, wanted, version, st,
                   outcome, quiet, told>>

-----------------------------------------------------------------------------
(* The handlers.                                                           *)

\* Mutant of ExpandAndApply: the placeholders are still in place.
ApplyPlaceholders ==
    /\ \/ pc = "creating"
       \/ pc = "deleted" /\ (plan.diff # {} \/ NoDiff)
    /\ BeginApply(Render[version][Placeholders[plan.inputs]])
    /\ pc' = "applying"
    /\ UNCHANGED <<clusterVars, faults, inputs, wanted, version, st, plan,
                   outcome, quiet, told, edits>>

\* The source is expanded again, and applied.
ExpandAndApply ==
    /\ \/ pc = "creating"
       \/ pc = "deleted" /\ (plan.diff # {} \/ NoDiff)
    /\ BeginApply(Render[version][plan.inputs])
    /\ pc' = "applying"
    /\ UNCHANGED <<clusterVars, faults, inputs, wanted, version, st, plan,
                   outcome, quiet, told, edits>>

\* Update with an empty diff does not apply.
SkipApply ==
    /\ pc = "deleted"
    /\ plan.diff = {}
    /\ ~NoDiff
    /\ End("ok", Saved({}))
    /\ UNCHANGED <<clusterVars, faults>>

ExpandFails ==
    /\ \/ pc = "creating" /\ End("error", st)
       \/ /\ pc = "deleted"
          /\ plan.diff # {} \/ NoDiff
          /\ End("error", Saved({}))
    /\ Fault
    /\ UNCHANGED clusterVars

\* Create sets "resources" to what it expanded; Update leaves it as planned.
ApplyReturns ==
    /\ pc = "applying"
    /\ \/ /\ Succeeded("apply")
          /\ End("ok", IF plan.op = "create"
                       THEN [inputs |-> plan.inputs, diff |-> {},
                             resources |-> call.bundle]
                       ELSE Saved({}))
       \/ /\ Failed("apply")
          /\ End("error", IF plan.op = "create" THEN st ELSE Saved({}))
    /\ UNCHANGED <<clusterVars, faults>>

\* Update returns as soon as its delete fails, before it clears the diff.
DeleteReturns ==
    /\ pc = "deleting"
    /\ \/ /\ Succeeded("delete")
          /\ pc' = "deleted"
          /\ call' = NoCall
          /\ UNCHANGED <<inputs, wanted, version, st, plan, outcome, quiet,
                         told, edits>>
       \/ /\ Failed("delete")
          /\ End("error", Saved(plan.diff))
    /\ UNCHANGED <<clusterVars, faults>>

\* resourceProfileDelete.
Destroy(can) ==
    /\ pc = "planned"
    /\ plan.op = "destroy"
    /\ \/ /\ ~can
          /\ AllowDeletes
          /\ End("error", st)
       \/ /\ ~AllowDeletes
          /\ st' = NoState
          /\ plan' = NoPlan
          /\ pc' = "idle"
          /\ outcome' = "ok"
          /\ told' = told \cup ObjectsOf(st.resources)
          /\ UNCHANGED <<call, inputs, wanted, version, quiet, edits>>
       \/ /\ can
          /\ AllowDeletes
          /\ BeginDelete(IdsOf(st.resources))
          /\ pc' = "destroying"
          /\ quiet' = TRUE
          /\ UNCHANGED <<inputs, wanted, version, st, plan, outcome, told, edits>>
    /\ UNCHANGED <<clusterVars, faults>>

\* Mutant of DestroyReturns: the error of the delete is dropped.
DestroyForgets ==
    /\ pc = "destroying"
    /\ Returned("delete")
    /\ End("ok", NoState)
    /\ UNCHANGED <<clusterVars, faults>>

DestroyReturns ==
    /\ pc = "destroying"
    /\ \/ Succeeded("delete") /\ End("ok", NoState)
       \/ Failed("delete") /\ End("error", st)
    /\ UNCHANGED <<clusterVars, faults>>

\* The provider, or Terraform, dies in a handler: the prior state stays.
Crash ==
    /\ pc \notin {"idle", "planned"}
    /\ Fault
    /\ End("error", st)
    /\ UNCHANGED clusterVars

\* The requests of the call in progress.
Kubectl == (ApplyOne \/ DeleteOne) /\ UNCHANGED tfVars

-----------------------------------------------------------------------------
(* What others do.                                                         *)

\* The author edits the configuration between two runs: a plan is applied
\* with the configuration that it was made from.
EditConfig ==
    /\ pc = "idle"
    /\ edits < MaxEdits
    /\ edits' = edits + 1
    /\ \E value \in Inputs, keep \in BOOLEAN :
          /\ <<value, keep>> # <<inputs, wanted>>
          /\ inputs' = value
          /\ wanted' = keep
    /\ outcome' = "none"
    /\ UNCHANGED <<clusterVars, clientVars, version, st, plan, pc, quiet, told>>

\* What the source refers to (a branch, a directory) changes.
SourceMoves ==
    /\ edits < MaxEdits
    /\ edits' = edits + 1
    /\ version' \in Versions \ {version}
    /\ quiet' = FALSE
    /\ UNCHANGED <<clusterVars, clientVars, inputs, wanted, st, plan, pc,
                   outcome, told>>

ClusterMoves ==
    /\ Finalize \/ Drift
    /\ quiet' = FALSE
    /\ UNCHANGED <<clientVars, inputs, wanted, version, st, plan, pc, outcome,
                   told, edits>>

Handlers ==
    \/ ExpandAndApply \/ SkipApply \/ ExpandFails \/ ApplyReturns
    \/ DeleteReturns \/ DestroyReturns \/ Kubectl \/ Crash

Terraform ==
    \/ \E can \in CanRuns :
          \/ \E unknown \in Unknowns : MakePlan(can, unknown)
          \/ Reject(can)
          \/ Destroy(can)
    \/ PlanFails \/ PlanDestroy \/ Approve \/ FinalPlanFails \/ Refuse \/ Discard

Next ==
    \/ Terraform
    \/ Handlers
    \/ EditConfig \/ SourceMoves \/ ClusterMoves

Spec == Init /\ [][Next]_vars

=============================================================================

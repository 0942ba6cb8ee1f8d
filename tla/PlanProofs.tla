----------------------------- MODULE PlanProofs -----------------------------
(***************************************************************************)
(* Theorems about what a run of Terraform promises: that it leaves the     *)
(* cluster as the configuration says, does what its plan announced, finds  *)
(* its namespaces ready, and makes the same plan twice.                    *)
(***************************************************************************)
EXTENDS ProfileProofs

-----------------------------------------------------------------------------
(* What a run rests on.                                                    *)

\* The phases of Create and Update.
Working == {"creating", "deleting", "deleted", "applying"}

\* The bundle that the source renders now.
Rendered == Render[version][inputs]

\* How the plan, the call and the phase of a run hang together: the plan is
\* that of the configuration, the bundle of a handler is one that the source
\* rendered, the one it renders still as long as nobody else acts, and a call
\* has no more to do than its phase says.
RunInv ==
    /\ outcome # "none" => pc = "idle"
    /\ pc \in {"idle", "planned", "creating", "deleted"} => call.op = "none"
    /\ pc # "idle" =>
            /\ wanted => plan.op # "destroy" /\ plan.inputs = inputs
            /\ ~wanted => plan.op = "destroy"
            /\ plan.op = "create" <=> st = NoState
    /\ pc = "creating" => plan.op = "create"
    /\ pc \in {"deleting", "deleted"} => plan.op = "update"
    /\ pc \in Working =>
            /\ plan.op # "destroy"
            /\ \E v \in Versions, x \in Inputs : plan.resources = Render[v][x]
            /\ quiet => plan.resources = Rendered
    /\ pc = "deleting" =>
            /\ call.op = "delete"
            /\ AllowDeletes
            /\ Removed(Prior, plan.resources) # {}
            /\ call.todo \subseteq Removed(Prior, plan.resources)
    /\ pc = "applying" =>
            /\ call.op = "apply"
            /\ call.todo \subseteq IdsOf(call.bundle)
            /\ quiet => call.bundle = Rendered
    /\ pc = "destroying" =>
            /\ call.op = "delete"
            /\ plan.op = "destroy"
            /\ call.todo \subseteq IdsOf(st.resources)

\* Where no run is at work and no call is made, nothing needs to hang together.
LEMMA RunIdle ==
    ASSUME pc' = "idle", call'.op = "none"
    PROVE  RunInv'
BY DEF RunInv, Working

\* The end of a run.
LEMMA RunEnds ==
    ASSUME NEW how, NEW state, End(how, state)
    PROVE  RunInv'
BY RunIdle DEF End, NoCall

\* A plan is that of the configuration.
LEMMA CustomDiffPlan ==
    ASSUME NEW can, NEW unknown, NEW result \in CustomDiff(can, unknown)
    PROVE  /\ result.plan.inputs = inputs
           /\ result.plan.op = "create" <=> st = NoState
           /\ result.plan.op # "destroy"
<1>1. \A reason : /\ Undetermined(reason).plan.inputs = inputs
                  /\ Undetermined(reason).plan.op # "destroy"
  BY DEF Undetermined
<1>2. \A bundle, seen :
        /\ Determined(unknown, bundle, seen).plan.inputs = inputs
        /\ Determined(unknown, bundle, seen).plan.op # "destroy"
  BY DEF Determined
<1>3. QED
  BY <1>1, <1>2, CustomDiffOp DEF CustomDiff

\* A run begins with nothing to hang together.
LEMMA RunInit == Init => RunInv
BY DEF Init, ClientInit, NoCall, RunInv, Working

\* Planning, and giving up a plan.
LEMMA RunPlanning ==
    ASSUME TypeInv, RunInv,
           \/ \E can \in CanRuns, unknown \in Unknowns : MakePlan(can, unknown)
           \/ PlanFails \/ PlanDestroy \/ Discard \/ EditConfig
    PROVE  RunInv'
<1>1. CASE \E can \in CanRuns, unknown \in Unknowns : MakePlan(can, unknown)
  <2>1. PICK can \in CanRuns, unknown \in Unknowns : MakePlan(can, unknown)
    BY <1>1
  <2>2. PICK result \in CustomDiff(can, unknown) :
            \/ pc' = pc
            \/ pc' = "planned" /\ plan' = result.plan /\ outcome' = "none"
    BY <2>1 DEF MakePlan
  <2>3. /\ pc = "idle" /\ wanted /\ call.op = "none"
        /\ UNCHANGED <<call, inputs, wanted, st>>
    BY <2>1 DEF MakePlan, clientVars, RunInv
  <2>4. CASE pc' = "planned" /\ plan' = result.plan /\ outcome' = "none"
    BY <2>3, <2>4, CustomDiffPlan DEF RunInv, Working
  <2>5. QED
    BY <2>2, <2>3, <2>4, RunIdle
<1>2. CASE PlanDestroy
  <2>1. /\ pc = "idle" /\ ~wanted /\ call.op = "none"
        /\ UNCHANGED <<call, wanted, st>>
    BY <1>2 DEF PlanDestroy, clientVars, RunInv
  <2>2. CASE pc' = pc
    BY <2>1, <2>2, RunIdle
  <2>3. CASE /\ st # NoState /\ pc' = "planned" /\ outcome' = "none"
             /\ plan'.op = "destroy"
    BY <2>1, <2>3 DEF RunInv, Working
  <2>4. QED
    BY <1>2, <2>2, <2>3 DEF PlanDestroy
<1>3. CASE PlanFails \/ Discard \/ EditConfig
  BY <1>3, RunIdle DEF PlanFails, Discard, EditConfig, clientVars, RunInv
<1>4. QED
  BY <1>1, <1>2, <1>3

\* The final plan, and the start of Create or Update.
LEMMA RunApprove == ASSUME TypeInv, RunInv, Approve PROVE RunInv'
<1>1. PICK result \in CustomDiff(TRUE, "nothing") :
            /\ plan' = result.plan
            /\ IF plan.op = "create"
               THEN StartCreate
               ELSE StartUpdate(Removed(Prior, result.plan.resources))
  BY DEF Approve
<1>2. /\ pc = "planned" /\ wanted /\ call.op = "none" /\ outcome = "none"
      /\ plan.op = "create" <=> st = NoState
      /\ UNCHANGED <<inputs, wanted, version, st, outcome>>
  BY DEF Approve, RunInv
<1>3. /\ plan'.inputs = inputs
      /\ plan'.op = "create" <=> st = NoState
      /\ plan'.op # "destroy"
      /\ plan'.op = "update" \/ plan'.op = "create"
      /\ plan'.resources = Rendered
  BY <1>1, CustomDiffPlan, FinalPlan DEF Rendered
<1>4. Rendered' = Rendered /\ Prior' = Prior
  BY <1>2 DEF Rendered, Prior
<1>5. \E v \in Versions, x \in Inputs : Rendered = Render[v][x]
  BY DEF Rendered, TypeInv, TypeOK
<1>6. ASSUME plan.op = "create"
      PROVE  pc' = "creating" /\ call' = call
  BY <1>1, <1>6 DEF StartCreate
<1>7. ASSUME plan.op # "create"
      PROVE  \/ pc' = "deleted" /\ call' = call
             \/ /\ pc' = "deleting"
                /\ AllowDeletes
                /\ call'.op = "delete"
                /\ Removed(Prior, plan'.resources) # {}
                /\ call'.todo \subseteq Removed(Prior, plan'.resources)
  BY <1>1, <1>7 DEF StartUpdate, BeginDelete
<1> HIDE DEF Rendered
<1>8. CASE plan.op = "create"
  BY <1>2, <1>3, <1>4, <1>5, <1>6, <1>8 DEF RunInv, Working
<1>9. CASE plan.op # "create" /\ pc' = "deleted" /\ call' = call
  BY <1>2, <1>3, <1>4, <1>5, <1>9 DEF RunInv, Working
<1>10. CASE /\ plan.op # "create"
            /\ pc' = "deleting"
            /\ AllowDeletes
            /\ call'.op = "delete"
            /\ Removed(Prior, plan'.resources) # {}
            /\ call'.todo \subseteq Removed(Prior, plan'.resources)
  <2>1. Removed(Prior, plan.resources)' = Removed(Prior, plan'.resources)
    BY <1>4 DEF Removed, IdsOf
  <2>2. QED
    BY <1>2, <1>3, <1>4, <1>5, <1>10, <2>1 DEF RunInv, Working
<1>11. QED
  BY <1>7, <1>8, <1>9, <1>10

\* A destroy that is given up, made without deletes, or begun.
LEMMA RunDestroy ==
    ASSUME TypeInv, RunInv, NEW can, Destroy(can)
    PROVE  RunInv'
<1>1. /\ pc = "planned" /\ plan.op = "destroy" /\ call.op = "none"
      /\ outcome = "none"
  BY DEF Destroy, RunInv
<1>2. CASE End("error", st)
  BY <1>2, RunEnds
<1>3. CASE pc' = "idle" /\ UNCHANGED call
  BY <1>1, <1>3, RunIdle
<1>4. CASE /\ BeginDelete(IdsOf(st.resources))
           /\ pc' = "destroying"
           /\ UNCHANGED <<inputs, wanted, version, st, plan, outcome, told, edits>>
  <2>1. call'.op = "delete" /\ call'.todo \subseteq IdsOf(st.resources)
    BY <1>4 DEF BeginDelete
  <2>2. IdsOf(st.resources)' = IdsOf(st.resources)
    BY <1>4 DEF IdsOf
  <2>3. QED
    BY <1>1, <1>4, <2>1, <2>2 DEF RunInv, Working
<1>5. QED
  BY <1>2, <1>3, <1>4 DEF Destroy

\* The second expand, which makes of the plan's inputs what it made before
\* if nobody else has acted.
LEMMA RunExpands == ASSUME TypeInv, RunInv, ExpandAndApply PROVE RunInv'
<1>1. /\ pc \in {"creating", "deleted"}
      /\ pc' = "applying"
      /\ outcome = "none"
      /\ call' = [op |-> "apply", bundle |-> Render[version][plan.inputs],
                  todo |-> IdsOf(Render[version][plan.inputs]), failed |-> FALSE]
      /\ UNCHANGED <<inputs, wanted, version, st, plan, outcome, quiet>>
  BY DEF ExpandAndApply, BeginApply, RunInv
<1>2. Rendered' = Rendered
  BY <1>1 DEF Rendered
<1>3. wanted /\ plan.inputs = inputs
  BY <1>1 DEF RunInv, Working
<1>4. call'.op = "apply" /\ call'.bundle = Rendered /\ call'.todo = IdsOf(Rendered)
  BY <1>1, <1>3 DEF Rendered
<1>5. IdsOf(call.bundle)' = IdsOf(Rendered)
  BY <1>4 DEF IdsOf
<1>6. QED
  BY <1>1, <1>2, <1>4, <1>5 DEF RunInv, Working

\* The requests of a call.
LEMMA RunKubectl == ASSUME TypeInv, RunInv, Kubectl PROVE RunInv'
<1>1. /\ call'.op = call.op /\ call'.bundle = call.bundle
      /\ call'.todo \subseteq call.todo
  BY KubectlTodo
<1>2. UNCHANGED <<inputs, wanted, version, st, plan, pc, outcome, quiet>>
  BY DEF Kubectl, tfVars
<1>3. /\ Rendered' = Rendered
      /\ Removed(Prior, plan.resources)' = Removed(Prior, plan.resources)
      /\ IdsOf(call.bundle)' = IdsOf(call.bundle)
      /\ IdsOf(st.resources)' = IdsOf(st.resources)
  BY <1>1, <1>2 DEF Rendered, Removed, Prior, IdsOf
<1>4. QED
  BY <1>1, <1>2, <1>3 DEF RunInv

\* The ends of the handlers, and the end of an update's delete.
LEMMA RunReturns ==
    ASSUME TypeInv, RunInv,
           SkipApply \/ ExpandFails \/ ApplyReturns \/ DeleteReturns
               \/ DestroyReturns \/ Crash
    PROVE  RunInv'
<1>1. CASE \E how, state : End(how, state)
  BY <1>1, RunEnds
<1>2. CASE /\ pc = "deleting" /\ pc' = "deleted" /\ call' = NoCall
           /\ UNCHANGED <<inputs, wanted, version, st, plan, outcome, quiet>>
  <2>1. Rendered' = Rendered
    BY <1>2 DEF Rendered
  <2>2. QED
    BY <1>2, <2>1 DEF RunInv, Working, NoCall
<1>3. QED
  BY <1>1, <1>2 DEF SkipApply, ExpandFails, ApplyReturns, DeleteReturns,
     DestroyReturns, Crash

\* What others do leaves the run as it is, and is noticed.
LEMMA RunOthers ==
    ASSUME TypeInv, RunInv, SourceMoves \/ ClusterMoves \/ UNCHANGED vars
    PROVE  RunInv'
<1>1. UNCHANGED <<call, inputs, wanted, st, plan, pc, outcome>>
  BY DEF SourceMoves, ClusterMoves, vars, clientVars, tfVars
<1>2. quiet' => quiet /\ version' = version
  BY DEF SourceMoves, ClusterMoves, vars, tfVars
<1>3. /\ Removed(Prior, plan.resources)' = Removed(Prior, plan.resources)
      /\ IdsOf(call.bundle)' = IdsOf(call.bundle)
      /\ IdsOf(st.resources)' = IdsOf(st.resources)
  BY <1>1 DEF Removed, Prior, IdsOf
<1>4. quiet' => Rendered' = Rendered
  BY <1>1, <1>2 DEF Rendered
<1>5. QED
  BY <1>1, <1>2, <1>3, <1>4 DEF RunInv

\* Every step keeps a run in order.
LEMMA RunStep == TypeInv /\ RunInv /\ [Next]_vars => RunInv'
<1> SUFFICES ASSUME TypeInv, RunInv, [Next]_vars
             PROVE  RunInv'
  OBVIOUS
<1>1. CASE (\E can \in CanRuns : Reject(can)) \/ FinalPlanFails \/ Refuse
  BY <1>1, RunEnds DEF Reject, FinalPlanFails, Refuse
<1>2. CASE Terraform
  BY <1>1, <1>2, RunPlanning, RunApprove, RunDestroy DEF Terraform
<1>3. CASE Handlers
  BY <1>3, RunExpands, RunKubectl, RunReturns DEF Handlers
<1>4. CASE EditConfig \/ SourceMoves \/ ClusterMoves \/ UNCHANGED vars
  BY <1>4, RunPlanning, RunOthers
<1>5. QED
  BY <1>2, <1>3, <1>4 DEF Next

-----------------------------------------------------------------------------
(* A run that ends well leaves everything in sync.                         *)

\* A bundle does not name an object twice.
OneIdPerBundle ==
    \A v \in Versions, x \in Inputs :
        \A i, j \in IdsOf(Render[v][x]) : ObjectOf[i] = ObjectOf[j] => i = j

\* A diff that no plan without changes can have: one with an entry for the
\* whole, or for a manifest that goes.
Odd(diff) == \E entry \in diff : entry.what \notin {"create", "change"}

\* What is known while a run is at work and nobody else acts: an empty diff
\* means that the cluster holds the bundle, and an apply has set what it is
\* done with.  A diff that a failed run leaves in the state is odd.
SyncInv ==
    /\ st # NoState => st.diff = {} \/ Odd(st.diff)
    /\ pc = "deleting" => Odd(plan.diff)
    /\ pc = "deleted" /\ quiet /\ plan.diff = {} => Holds(plan.resources)
    /\ pc = "applying" /\ quiet /\ ~call.failed =>
            \A id \in IdsOf(call.bundle) \ call.todo :
                live[ObjectOf[id]] = call.bundle[id]
    /\ InSync

\* The structured diff speaks of what is created and changed, and of nothing
\* only if the cluster holds the bundle.
LEMMA DifferencesSay ==
    ASSUME NEW bundle, NEW cluster
    PROVE  /\ ~Odd(Differences(bundle, cluster))
           /\ Differences(bundle, cluster) = {} =>
                  \A id \in IdsOf(bundle) : ~Shows(cluster[ObjectOf[id]], bundle[id])
<1> DEFINE What(id) == IF cluster[ObjectOf[id]] = Absent THEN "create" ELSE "change"
           Entry(id) == [what |-> What(id), id |-> id,
                         text |-> EntryText(cluster[ObjectOf[id]], bundle[id])]
           changed == {i \in IdsOf(bundle) : Shows(cluster[ObjectOf[i]], bundle[i])}
<1>1. Differences(bundle, cluster) = {Entry(id) : id \in changed}
  BY DEF Differences
<1>2. \A id : Entry(id).what \in {"create", "change"}
  OBVIOUS
<1> HIDE DEF Entry
<1>3. QED
  BY <1>1, <1>2 DEF Odd

\* Nothing shows where nothing differs.
LEMMA AppliedHolds ==
    ASSUME TypeInv, \A id \in IdsOf(Rendered) : live[ObjectOf[id]] = Rendered[id]
    PROVE  Holds(Rendered)
<1>1. Rendered \in AllBundles
  BY RenderType DEF Rendered, TypeInv, TypeOK
<1> HIDE DEF Rendered
<1>2. \A id \in IdsOf(Rendered) : Rendered[id] \in Content
  BY <1>1 DEF AllBundles, IdsOf
<1>3. QED
  BY <1>2, TextAssumption DEF Holds, Shows

\* A bundle that is what the state lists removes nothing.
LEMMA NothingRemoved == Removed(Prior, Prior) = {} /\ Deletions(Prior) = {}
BY DEF Removed, Deletions

\* A plan with its resources known has rendered them.
LEMMA KnownPlan ==
    ASSUME NEW can, NEW unknown, NEW result \in CustomDiff(can, unknown),
           result.plan.resources \in AllBundles
    PROVE  /\ result = Determined(unknown, Rendered, Rendered)
           /\ result.plan.resources = Rendered
<1>1. \A reason : Undetermined(reason).plan.resources = Unknown
  BY DEF Undetermined
<1>2. \A bundle, seen : Determined(unknown, bundle, seen).plan.resources =
                            IF unknown = "set" THEN Unknown ELSE bundle
  BY DEF Determined
<1>3. can /\ unknown # "set" /\ unknown # "parameters"
  BY <1>1, <1>2, RenderAssumption DEF CustomDiff
<1>4. result = Determined(unknown, Rendered, Rendered)
  BY <1>3 DEF CustomDiff, Values, SeenAs, Rendered
<1>5. QED
  BY <1>2, <1>3, <1>4

\* A plan without changes is made only where there is nothing to do.
LEMMA NoChangeHolds ==
    ASSUME ForceDiffs, ~NoDiff, TypeInv, SyncInv,
           NEW can, NEW unknown, NEW result \in CustomDiff(can, unknown),
           NoChange(result.plan), live' = WithNamespaces(result.made)
    PROVE  /\ st # NoState
           /\ st.resources = Rendered
           /\ \A id \in IdsOf(Rendered) : ~Shows(live'[ObjectOf[id]], Rendered[id])
<1>1. /\ st # NoState
      /\ st.resources = result.plan.resources
      /\ st.diff = result.plan.diff
      /\ st.resources \in AllBundles
  BY DEF NoChange, TypeInv, TypeOK, States
<1>2. result = Determined(unknown, Rendered, Rendered) /\ st.resources = Rendered
  BY <1>1, KnownPlan
<1>3. Prior = Rendered
  BY <1>1, <1>2 DEF Prior
<1> HIDE DEF Rendered
<1>4. st.diff = Results(Rendered, Rendered, WithNamespaces(Made(Rendered, Rendered)))
  BY <1>1, <1>2 DEF Determined, ShouldDiff
<1>5. result.made = Made(Rendered, Rendered)
  BY <1>2 DEF Determined
<1>6. st.diff = Differences(Rendered, live')
  BY <1>3, <1>4, <1>5, NothingRemoved DEF Results
<1>7. Differences(Rendered, live') = {}
  BY <1>1, <1>6, DifferencesSay DEF SyncInv
<1>8. QED
  BY <1>1, <1>2, <1>7, DifferencesSay

\* A run that does not end well, or goes on, has nothing to show.
LEMMA SyncElsewhere ==
    ASSUME pc' \in {"idle", "planned", "creating", "destroying"}, outcome' # "ok",
           st' # NoState => st'.diff = {} \/ Odd(st'.diff)
    PROVE  SyncInv'
BY DEF SyncInv, InSync, Odd

\* A run that ends with a state that the cluster agrees with.
LEMMA SyncEnds ==
    ASSUME NEW how, NEW state, End(how, state), UNCHANGED live,
           state # NoState => state.diff = {} \/ Odd(state.diff),
           how = "ok" /\ quiet =>
               IF wanted
               THEN /\ state # NoState
                    /\ state.resources = Rendered
                    /\ Holds(Rendered)
               ELSE state = NoState
    PROVE  SyncInv'
<1>1. /\ pc' = "idle" /\ st' = state /\ outcome' = how
      /\ UNCHANGED <<inputs, wanted, version, quiet>>
  BY DEF End
<1>2. Rendered' = Rendered
  BY <1>1 DEF Rendered
<1>3. \A bundle : IdsOf(bundle)' = IdsOf(bundle')
  BY DEF IdsOf
<1>4. InSync'
  BY <1>1, <1>2 DEF InSync, Holds, Rendered, IdsOf
<1>5. QED
  BY <1>1, <1>4 DEF SyncInv, Odd

\* The empty state is in sync with nothing.
LEMMA SyncInit == Init => SyncInv
BY DEF Init, SyncInv, InSync

\* Planning ends a run well only if there is nothing to do.
LEMMA SyncPlanning ==
    ASSUME ForceDiffs, ~NoDiff, TypeInv, RunInv, SyncInv,
           \/ \E can \in CanRuns, unknown \in Unknowns : MakePlan(can, unknown)
           \/ PlanFails \/ PlanDestroy \/ Discard \/ EditConfig
    PROVE  SyncInv'
<1>1. CASE \E can \in CanRuns, unknown \in Unknowns : MakePlan(can, unknown)
  <2>1. PICK can \in CanRuns, unknown \in Unknowns : MakePlan(can, unknown)
    BY <1>1
  <2>2. PICK result \in CustomDiff(can, unknown) :
              /\ live' = WithNamespaces(result.made)
              /\ IF NoChange(result.plan)
                 THEN /\ outcome' = "ok"
                      /\ UNCHANGED <<pc, plan>>
                 ELSE /\ pc' = "planned"
                      /\ plan' = result.plan
                      /\ outcome' = "none"
    BY <2>1 DEF MakePlan
  <2>3. pc = "idle" /\ wanted /\ UNCHANGED <<inputs, wanted, version, st>>
    BY <2>1 DEF MakePlan
  <2>4. CASE NoChange(result.plan)
    <3>1. /\ st # NoState
          /\ st.resources = Rendered
          /\ \A id \in IdsOf(Rendered) : ~Shows(live'[ObjectOf[id]], Rendered[id])
      BY <2>2, <2>4, NoChangeHolds
    <3>2. Rendered' = Rendered
      BY <2>3 DEF Rendered
    <3>3. InSync'
      BY <2>3, <3>1, <3>2 DEF InSync, Holds, Rendered, IdsOf
    <3>4. QED
      BY <2>2, <2>3, <2>4, <3>3 DEF SyncInv, Odd
  <2>5. CASE ~NoChange(result.plan)
    BY <2>2, <2>3, <2>5, SyncElsewhere DEF SyncInv
  <2>6. QED
    BY <2>4, <2>5
<1>2. CASE PlanDestroy
  <2>1. pc = "idle" /\ ~wanted /\ UNCHANGED <<wanted, st>>
    BY <1>2 DEF PlanDestroy
  <2>2. CASE st = NoState
    BY <1>2, <2>1, <2>2 DEF PlanDestroy, SyncInv, InSync
  <2>3. CASE st # NoState
    BY <1>2, <2>1, <2>3, SyncElsewhere DEF PlanDestroy, SyncInv
  <2>4. QED
    BY <2>2, <2>3
<1>3. CASE PlanFails \/ EditConfig
  BY <1>3, SyncElsewhere DEF PlanFails, EditConfig, SyncInv
<1>4. CASE Discard
  BY <1>4, SyncElsewhere DEF Discard, SyncInv, RunInv
<1>5. QED
  BY <1>1, <1>2, <1>3, <1>4

\* The final plan has an empty diff only if the cluster holds its bundle, and
\* deletes only what its diff shows.
LEMMA SyncApprove ==
    ASSUME ForceDiffs, ~NoDiff, TypeInv, RunInv, SyncInv, Approve
    PROVE  SyncInv'
<1>1. PICK result \in CustomDiff(TRUE, "nothing") :
            /\ live' = WithNamespaces(result.made)
            /\ plan' = result.plan
            /\ IF plan.op = "create"
               THEN StartCreate
               ELSE StartUpdate(Removed(Prior, result.plan.resources))
  BY DEF Approve
<1>2. Rendered \in AllBundles
  BY RenderType DEF Rendered, TypeInv, TypeOK
<1>3. /\ result = Determined("nothing", Rendered, Rendered)
      /\ result.plan.resources = Rendered
  BY <1>2, KnownPlan, FinalPlan DEF Rendered
<1> HIDE DEF Rendered
<1>4. plan'.diff = Results(Rendered, Rendered, live') /\ plan'.resources = Rendered
  BY <1>1, <1>3 DEF Determined, ShouldDiff
<1>5. /\ outcome' = "none" /\ st' = st
      /\ st' # NoState => st'.diff = {} \/ Odd(st'.diff)
  BY DEF Approve, RunInv, SyncInv
<1>6. CASE pc' = "creating"
  BY <1>5, <1>6, SyncElsewhere
<1>7. CASE pc' = "deleting"
  <2>1. PICK id : id \in Removed(Prior, Rendered)
    BY <1>1, <1>3, <1>7 DEF StartCreate, StartUpdate
  <2>2. About(IF AllowDeletes THEN "delete" ELSE "remove", id) \in plan'.diff
    BY <1>4, <2>1 DEF Results, Deletions
  <2>3. Odd(plan'.diff)
    BY <2>2 DEF Odd, About
  <2>4. QED
    BY <1>5, <1>7, <2>3 DEF SyncInv, InSync, Odd
<1>8. CASE pc' = "deleted"
  <2>1. ASSUME plan'.diff = {} PROVE Holds(plan.resources)'
    <3>1. Differences(Rendered, live') = {}
      BY <1>4, <2>1 DEF Results
    <3>2. \A id \in IdsOf(Rendered) : ~Shows(live'[ObjectOf[id]], Rendered[id])
      BY <3>1, DifferencesSay
    <3>3. QED
      BY <1>4, <3>2 DEF Holds, IdsOf
  <2>2. QED
    BY <1>5, <1>8, <2>1 DEF SyncInv, InSync, Odd
<1>9. QED
  BY <1>1, <1>6, <1>7, <1>8 DEF StartCreate, StartUpdate

\* What Terraform does with a plan that it does not carry out.
LEMMA SyncGivesUp ==
    ASSUME TypeInv, RunInv, SyncInv,
           (\E can : Reject(can)) \/ FinalPlanFails \/ Refuse
    PROVE  SyncInv'
<1>1. st # NoState => st.diff = {} \/ Odd(st.diff)
  BY DEF SyncInv
<1>2. CASE (\E can : Reject(can)) \/ FinalPlanFails
  BY <1>1, <1>2, SyncElsewhere DEF Reject, FinalPlanFails, End
<1>3. CASE Refuse
  <2>1. plan.diff = {Whole("no host")}
    BY <1>3 DEF Refuse, Consistent, Undetermined
  <2>2. Saved(plan.diff).diff = plan.diff /\ Odd(plan.diff)
    <3>1. Whole("no host").what = "no host"
      BY DEF Whole
    <3>2. Odd(plan.diff)
      BY <2>1, <3>1 DEF Odd
    <3>3. QED
      BY <3>2 DEF Saved
  <2>3. QED
    BY <1>1, <1>3, <2>2, SyncElsewhere DEF Refuse, End
<1>4. QED
  BY <1>2, <1>3

\* A destroy is for a configuration that does not want the resource.
LEMMA SyncDestroy ==
    ASSUME TypeInv, RunInv, SyncInv, (\E can : Destroy(can)) \/ DestroyReturns
    PROVE  SyncInv'
<1>1. /\ pc \in {"planned", "destroying"}
      /\ ~wanted
      /\ outcome # "ok"
      /\ UNCHANGED live
      /\ st # NoState => st.diff = {} \/ Odd(st.diff)
  BY DEF Destroy, DestroyReturns, RunInv, SyncInv, clusterVars
<1>2. ASSUME NEW how, NEW state \in {st, NoState}, End(how, state),
             how = "error" \/ state = NoState
      PROVE  SyncInv'
  BY <1>1, <1>2, SyncEnds
<1>3. CASE DestroyReturns
  BY <1>2, <1>3 DEF DestroyReturns
<1>4. ASSUME NEW can, Destroy(can) PROVE SyncInv'
  <2>1. CASE End("error", st)
    BY <1>2, <2>1
  <2>2. CASE pc' = "idle" /\ st' = NoState /\ UNCHANGED wanted
    BY <1>1, <2>2 DEF SyncInv, InSync
  <2>3. CASE pc' = "destroying" /\ UNCHANGED <<st, outcome>>
    BY <1>1, <2>3, SyncElsewhere
  <2>4. QED
    BY <1>4, <2>1, <2>2, <2>3 DEF Destroy
<1>5. QED
  BY <1>3, <1>4

\* What an update saves.
LEMMA SavedBundle ==
    ASSUME TypeInv, pc # "idle", NEW diff, plan.resources \in AllBundles
    PROVE  /\ Saved(diff).resources = plan.resources
           /\ Saved(diff).diff = diff
           /\ diff \in SUBSET Entries => Saved(diff) # NoState
BY RenderAssumption, SavedType, StateAssumption DEF Saved

\* An apply begins with nothing done.
LEMMA SyncExpands == ASSUME TypeInv, RunInv, SyncInv, ExpandAndApply PROVE SyncInv'
<1>1. /\ pc' = "applying"
      /\ call'.todo = IdsOf(call'.bundle)
      /\ outcome' # "ok"
      /\ st' = st
  BY DEF ExpandAndApply, BeginApply, RunInv
<1>2. IdsOf(call.bundle)' = IdsOf(call'.bundle)
  BY DEF IdsOf
<1>3. st' # NoState => st'.diff = {} \/ Odd(st'.diff)
  BY <1>1 DEF SyncInv
<1>4. QED
  BY <1>1, <1>2, <1>3 DEF SyncInv, InSync, Odd

\* A manifest that is applied stays as it was applied, for no other of its
\* bundle is for the same object.
LEMMA SyncApplyOne ==
    ASSUME OneIdPerBundle, TypeInv, RunInv, SyncInv, ApplyOne, UNCHANGED tfVars,
           quiet, ~call'.failed
    PROVE  \A id \in IdsOf(call'.bundle) \ call'.todo :
                live'[ObjectOf[id]] = call'.bundle[id]
<1>1. /\ pc = "applying" /\ call.op = "apply" /\ call \in Calls
      /\ call.bundle = Rendered
      /\ call.todo \subseteq IdsOf(call.bundle)
  <2>1. call.op = "apply" /\ pc \in Phases
    BY DEF ApplyOne, TypeInv, TypeOK
  <2>2. pc = "applying"
    BY <2>1 DEF RunInv, Phases
  <2>3. QED
    BY <2>1, <2>2 DEF RunInv, TypeInv, TypeOK, ClientTypeOK
<1>2. \A i, j \in IdsOf(Rendered) : ObjectOf[i] = ObjectOf[j] => i = j
  BY DEF OneIdPerBundle, Rendered, TypeInv, TypeOK
<1> HIDE DEF Rendered
<1>3. PICK id \in call.todo :
        \/ /\ Put(ObjectOf[id], call.bundle[id])
           /\ Answer(id)
        \/ call' = [call EXCEPT !.todo = @ \ {id}, !.failed = TRUE]
  BY DEF ApplyOne
<1>4. Put(ObjectOf[id], call.bundle[id]) /\ call' = [call EXCEPT !.todo = @ \ {id}]
  BY <1>1, <1>3 DEF Answer, Calls
<1>5. /\ call'.bundle = call.bundle
      /\ call'.todo = call.todo \ {id}
      /\ ~call.failed
  BY <1>1, <1>4 DEF Calls
<1>6. /\ live' = [live EXCEPT ![ObjectOf[id]] = call.bundle[id]]
      /\ live \in [Objects -> Content]
      /\ id \in Ids
  BY <1>1, <1>4 DEF Put, TypeInv, TypeOK, ClusterTypeOK, Calls
<1>7. SUFFICES ASSUME NEW done \in IdsOf(call.bundle), done \notin call.todo \/ done = id
               PROVE  live'[ObjectOf[done]] = call.bundle[done]
  BY <1>5
<1>8. done \in Ids /\ ObjectOf[done] \in Objects /\ ObjectOf[id] \in Objects
  BY <1>6, IdsAssumption DEF IdsOf
<1>9. CASE done = id
  BY <1>6, <1>8, <1>9
<1>10. CASE done # id
  <2>1. ObjectOf[done] # ObjectOf[id]
    BY <1>1, <1>2, <1>10
  <2>2. live[ObjectOf[done]] = call.bundle[done]
    BY <1>1, <1>5, <1>7, <1>10 DEF SyncInv
  <2>3. QED
    BY <1>6, <1>8, <2>1, <2>2
<1>11. QED
  BY <1>9, <1>10

\* So the requests of a call keep what is known.
LEMMA SyncKubectl ==
    ASSUME OneIdPerBundle, TypeInv, RunInv, SyncInv, Kubectl
    PROVE  SyncInv'
<1>1. UNCHANGED <<st, plan, pc, outcome, quiet>> /\ outcome = "none"
  <2>1. call.op # "none"
    BY DEF Kubectl, ApplyOne, DeleteOne
  <2>2. pc # "idle" /\ outcome = "none"
    BY <2>1 DEF RunInv
  <2>3. QED
    BY <2>2 DEF Kubectl, tfVars
<1>2. pc # "deleted"
  BY DEF Kubectl, ApplyOne, DeleteOne, RunInv
<1>3. pc = "applying" /\ quiet /\ ~call'.failed =>
          \A id \in IdsOf(call'.bundle) \ call'.todo :
                live'[ObjectOf[id]] = call'.bundle[id]
  <2>1. pc = "applying" => ApplyOne /\ UNCHANGED tfVars
    BY DEF RunInv, Kubectl, DeleteOne
  <2>2. QED
    BY <2>1, SyncApplyOne
<1>4. IdsOf(call.bundle)' = IdsOf(call'.bundle)
  BY DEF IdsOf
<1>5. Odd(plan.diff)' = Odd(plan.diff) /\ Odd(st.diff)' = Odd(st.diff)
  BY <1>1 DEF Odd
<1>6. QED
  BY <1>1, <1>2, <1>3, <1>4, <1>5 DEF SyncInv, InSync

\* Create and Update end well with the cluster as the configuration says.
LEMMA SyncReturns ==
    ASSUME ~NoDiff, TypeInv, RunInv, SyncInv,
           SkipApply \/ ExpandFails \/ ApplyReturns \/ DeleteReturns \/ Crash
    PROVE  SyncInv'
<1>1. pc # "idle" /\ UNCHANGED live /\ outcome # "ok"
  BY DEF SkipApply, ExpandFails, ApplyReturns, DeleteReturns, Crash, clusterVars,
     RunInv
<1>2. st # NoState => st.diff = {} \/ Odd(st.diff)
  BY DEF SyncInv
<1>3. pc \in Working => plan.resources \in AllBundles /\ wanted
  <2>1. pc \in Working => wanted
    BY DEF RunInv, TypeInv, TypeOK, Working
  <2>2. pc \in Working => plan.resources \in AllBundles
    BY RenderType DEF RunInv
  <2>3. QED
    BY <2>1, <2>2
<1>4. ASSUME NEW state, End("error", state),
             state # NoState => state.diff = {} \/ Odd(state.diff)
      PROVE  SyncInv'
  BY <1>1, <1>4, SyncEnds
<1>5. pc \in Working => Saved({}).diff = {}
  BY DEF Saved
<1>6. CASE SkipApply
  <2>1. /\ pc = "deleted" /\ pc \in Working /\ plan.diff = {}
        /\ End("ok", Saved({}))
    BY <1>6 DEF SkipApply, Working
  <2>2. /\ Saved({}).resources = plan.resources
        /\ Saved({}) # NoState
    BY <1>1, <1>3, <2>1, SavedBundle
  <2>3. quiet => plan.resources = Rendered /\ Holds(plan.resources)
    BY <2>1 DEF RunInv, SyncInv
  <2>4. QED
    BY <1>1, <1>3, <1>5, <2>1, <2>2, <2>3, SyncEnds
<1>7. CASE ApplyReturns
  <2> DEFINE created == [inputs |-> plan.inputs, diff |-> {},
                         resources |-> call.bundle]
  <2>1. pc = "applying" /\ pc \in Working
    BY <1>7 DEF ApplyReturns, Working
  <2>2. CASE \E state \in {st, Saved({})} : End("error", state)
    BY <1>2, <1>4, <1>5, <2>1, <2>2
  <2>3. CASE Succeeded("apply")
    <3>1. quiet => /\ call.bundle = Rendered
                   /\ plan.resources = Rendered
                   /\ Holds(Rendered)
      <4>1. quiet => /\ call.bundle = Rendered
                     /\ plan.resources = Rendered
                     /\ \A id \in IdsOf(Rendered) : live[ObjectOf[id]] = Rendered[id]
        BY <2>1, <2>3 DEF RunInv, SyncInv, Succeeded, Returned
      <4>2. QED
        BY <4>1, AppliedHolds
    <3>2. CASE plan.op = "create"
      <4>1. End("ok", created)
        BY <1>7, <2>3, <3>2 DEF ApplyReturns, Succeeded, Failed
      <4>2. created \in States
        BY <1>1 DEF Plans, States, TypeInv, TypeOK, ClientTypeOK, Calls
      <4>3. created # NoState
        BY <4>2, StateAssumption
      <4>4. created.diff = {} /\ created.resources = call.bundle
        OBVIOUS
      <4> HIDE DEF created
      <4>5. QED
        BY <1>1, <1>3, <2>1, <3>1, <4>1, <4>3, <4>4, SyncEnds
    <3>3. CASE plan.op # "create"
      <4>1. End("ok", Saved({}))
        BY <1>7, <2>3, <3>3 DEF ApplyReturns, Succeeded, Failed
      <4>2. Saved({}).resources = plan.resources /\ Saved({}) # NoState
        BY <1>1, <1>3, <2>1, SavedBundle
      <4>3. QED
        BY <1>1, <1>3, <1>5, <2>1, <3>1, <4>1, <4>2, SyncEnds
    <3>4. QED
      BY <3>2, <3>3
  <2>4. QED
    BY <1>7, <2>2, <2>3 DEF ApplyReturns
<1>8. CASE DeleteReturns
  <2>1. pc = "deleting" /\ pc \in Working /\ Odd(plan.diff)
    BY <1>8 DEF DeleteReturns, Working, SyncInv
  <2>2. CASE End("error", Saved(plan.diff))
    <3>1. Saved(plan.diff).diff = plan.diff
      BY DEF Saved
    <3>2. QED
      BY <1>4, <2>1, <2>2, <3>1
  <2>3. CASE pc' = "deleted" /\ UNCHANGED <<st, plan, outcome>>
    <3>1. plan'.diff # {}
      BY <2>1, <2>3 DEF Odd
    <3>2. QED
      BY <1>1, <1>2, <2>3, <3>1 DEF SyncInv, InSync, Odd
  <2>4. QED
    BY <1>8, <2>2, <2>3 DEF DeleteReturns
<1>9. CASE ExpandFails
  BY <1>2, <1>4, <1>5, <1>9 DEF ExpandFails, Working
<1>10. CASE Crash
  BY <1>2, <1>4, <1>10 DEF Crash
<1>11. QED
  BY <1>6, <1>7, <1>8, <1>9, <1>10

\* What others do is no longer quiet.
LEMMA SyncOthers ==
    ASSUME SyncInv, SourceMoves \/ ClusterMoves \/ UNCHANGED vars
    PROVE  SyncInv'
<1>1. CASE SourceMoves \/ ClusterMoves
  <2>1. UNCHANGED <<st, plan, pc, outcome>> /\ ~quiet'
    BY <1>1 DEF SourceMoves, ClusterMoves
  <2>2. Odd(plan.diff)' = Odd(plan.diff) /\ Odd(st.diff)' = Odd(st.diff)
    BY <2>1 DEF Odd
  <2>3. QED
    BY <2>1, <2>2 DEF SyncInv, InSync
<1>2. CASE UNCHANGED vars
  BY <1>2 DEF vars, clusterVars, clientVars, tfVars, SyncInv, InSync, Odd, Holds,
     IdsOf
<1>3. QED
  BY <1>1, <1>2

\* Every step keeps what is known.
LEMMA SyncStep ==
    ASSUME ForceDiffs, ~NoDiff, OneIdPerBundle, TypeInv, RunInv, SyncInv, [Next]_vars
    PROVE  SyncInv'
<1>1. CASE Terraform
  BY <1>1, SyncPlanning, SyncApprove, SyncGivesUp, SyncDestroy DEF Terraform
<1>2. CASE Handlers
  BY <1>2, SyncExpands, SyncKubectl, SyncReturns, SyncDestroy DEF Handlers
<1>3. CASE EditConfig \/ SourceMoves \/ ClusterMoves \/ UNCHANGED vars
  BY <1>3, SyncPlanning, SyncOthers
<1>4. QED
  BY <1>1, <1>2, <1>3 DEF Next

\* With forced diffs, and bundles that do not name an object twice, a run that
\* ends well while nobody else acts leaves the cluster, as far as a diff can
\* tell, and the state as the configuration says, whatever was edited, failed
\* or drifted before.
THEOREM GoodRunsLeaveAllInSync ==
    ASSUME ForceDiffs, ~NoDiff, OneIdPerBundle
    PROVE  Spec => []InSync
<1>1. TypeInv /\ RunInv /\ SyncInv /\ [Next]_vars => SyncInv'
  BY SyncStep
<1>2. SyncInv => InSync
  BY DEF SyncInv
<1>3. QED
  BY <1>1, <1>2, SyncInit, RunInit, RunStep, TypeInit, TypeStep, PTL DEF Spec

\* What a diff cannot show is all that may be stale: if it showed every
\* difference of contents, as kadiff does where no line is longer than its
\* limit, such a run would leave nothing stale.
THEOREM StaleOnlyWhereDiffsAreBlind ==
    ASSUME ForceDiffs, ~NoDiff, OneIdPerBundle,
           \A old, new \in Content : ~Shows(old, new) => old = new
    PROVE  Spec => []LeavesNothingStale
<1>1. TypeInv /\ InSync => LeavesNothingStale
  <2>1. SUFFICES ASSUME TypeInv, st \in States, Holds(st.resources),
                        NEW id \in IdsOf(st.resources)
                 PROVE  live[ObjectOf[id]] = st.resources[id]
    BY DEF InSync, LeavesNothingStale, TypeInv, TypeOK
  <2>2. id \in Ids /\ st.resources \in AllBundles
    BY <2>1 DEF IdsOf, States
  <2>3. live[ObjectOf[id]] \in Content /\ st.resources[id] \in Content
    BY <2>1, <2>2, IdsAssumption DEF AllBundles, TypeInv, TypeOK, ClusterTypeOK
  <2>4. QED
    BY <2>1, <2>3 DEF Holds
<1>2. Spec => []TypeInv
  BY TypeInit, TypeStep, PTL DEF Spec
<1>3. QED
  BY <1>1, <1>2, GoodRunsLeaveAllInSync, PTL

-----------------------------------------------------------------------------
(* The same plan is made twice.                                            *)

\* All values are known while planning, and host and config are always known
\* or never.
AllKnown == Unknowns \subseteq {"nothing"} /\ \A can, other \in CanRuns : can = other

\* The plan that customize-diff makes with all values known.
PlanNow(can) ==
    IF can THEN Determined("nothing", Rendered, Rendered).plan
           ELSE Undetermined("no host").plan

\* A plan that waits for its approval is the one that would be made again.
SteadyInv ==
    pc = "planned" /\ quiet /\ wanted => \E can \in CanRuns : plan = PlanNow(can)

\* With all values known there is one plan to make.
LEMMA OnePlan ==
    ASSUME NEW can, NEW result \in CustomDiff(can, "nothing")
    PROVE  /\ result.plan = PlanNow(can)
           /\ can => result.made = Made(Rendered, Rendered)
           /\ can => CanDiff(Rendered, Rendered)
           /\ ~can => result.made = {}
<1>1. CASE ~can
  <2>1. result = Undetermined("no host")
    BY <1>1 DEF CustomDiff
  <2>2. result.made = {}
    BY <2>1 DEF Undetermined
  <2>3. QED
    BY <1>1, <2>1, <2>2 DEF PlanNow
<1>2. CASE can
  <2>1. result = Determined("nothing", Rendered, Rendered) /\ CanDiff(Rendered, Rendered)
    BY <1>2 DEF CustomDiff, Values, SeenAs, Rendered
  <2>2. result.made = Made(Rendered, Rendered)
    BY <2>1 DEF Determined
  <2>3. QED
    BY <1>2, <2>1, <2>2 DEF PlanNow
<1>3. QED
  BY <1>1, <1>2

\* The namespaces of a bundle are objects.
LEMMA NamespacesOfType ==
    ASSUME NEW bundle
    PROVE  NamespacesOf(bundle) \subseteq Objects
BY ObjectsOfType, IdsAssumption DEF NamespacesOf

\* With the namespaces made that were missing, none is.
LEMMA NoneMissing ==
    ASSUME NEW bundle, live' = WithNamespaces(Missing(bundle))
    PROVE  \A ns \in NamespacesOf(bundle) : live'[ns] # Absent
BY NamespacesOfType, ContentAssumption DEF WithNamespaces, Missing, Exists

\* What a customize-diff makes on its way does not change what it finds.
LEMMA PlanAgain ==
    ASSUME live \in [Objects -> Content], UNCHANGED <<st, inputs, version>>,
           live' = WithNamespaces(Made(Rendered, Rendered))
    PROVE  PlanNow(TRUE)' = PlanNow(TRUE)
<1>1. Rendered' = Rendered /\ Prior' = Prior
  BY DEF Rendered, Prior
<1>2. Deletions(Rendered)' = Deletions(Rendered)
  BY <1>1 DEF Deletions, Removed, IdsOf
<1>3. Made(Rendered, Rendered)' = {}
  <2>1. CASE ShouldDiff(Rendered) /\ AutoCreateNamespaces
    <3>1. live' = WithNamespaces(Missing(Rendered))
      BY <2>1 DEF Made
    <3>2. \A ns \in NamespacesOf(Rendered) : live'[ns] # Absent
      BY <3>1, NoneMissing
    <3>3. NamespacesOf(Rendered)' = NamespacesOf(Rendered)
      BY <1>1 DEF NamespacesOf, ObjectsOf, IdsOf
    <3>4. Missing(Rendered)' = {}
      BY <3>2, <3>3 DEF Missing, Exists
    <3>5. QED
      BY <3>4 DEF Made
  <2>2. CASE ~(ShouldDiff(Rendered) /\ AutoCreateNamespaces)
    BY <1>1, <2>2 DEF Made, ShouldDiff
  <2>3. QED
    BY <2>1, <2>2
<1>4. live' \in [Objects -> Content]
  BY NamespacesType
<1>5. WithNamespaces(Made(Rendered, Rendered))' = live'
  BY <1>3, <1>4 DEF WithNamespaces
<1>6. Results(Rendered, Rendered, WithNamespaces(Made(Rendered, Rendered)))' =
            Results(Rendered, Rendered, WithNamespaces(Made(Rendered, Rendered)))
  <2>1. Differences(Rendered, WithNamespaces(Made(Rendered, Rendered)))' =
            Differences(Rendered, WithNamespaces(Made(Rendered, Rendered)))
    BY <1>1, <1>5 DEF Differences, IdsOf
  <2>2. QED
    BY <1>1, <1>2, <2>1 DEF Results
<1>7. QED
  <2>1. PlanNow(TRUE) =
            [op |-> IF st = NoState THEN "create" ELSE "update",
             inputs |-> inputs,
             resources |-> Rendered,
             diff |-> IF ShouldDiff(Rendered)
                      THEN Results(Rendered, Rendered,
                                   WithNamespaces(Made(Rendered, Rendered)))
                      ELSE {}]
    BY DEF PlanNow, Determined
  <2>2. CASE ShouldDiff(Rendered)
    BY <1>1, <1>6, <2>1, <2>2 DEF PlanNow, Determined, ShouldDiff
  <2>3. CASE ~ShouldDiff(Rendered)
    BY <1>1, <2>1, <2>3 DEF PlanNow, Determined, ShouldDiff
  <2>4. QED
    BY <2>2, <2>3

\* A plan waits only where it was made.
LEMMA SteadyStep ==
    ASSUME AllKnown, TypeInv, RunInv, SteadyInv, [Next]_vars
    PROVE  SteadyInv'
<1> SUFFICES ASSUME pc' = "planned", quiet', wanted'
             PROVE  \E can \in CanRuns : plan' = PlanNow(can)'
  BY DEF SteadyInv
<1>1. ASSUME NEW can \in CanRuns, NEW unknown \in Unknowns, MakePlan(can, unknown)
      PROVE  \E known \in CanRuns : plan' = PlanNow(known)'
  <2>1. unknown = "nothing"
    BY DEF AllKnown
  <2>2. PICK result \in CustomDiff(can, "nothing") :
              /\ live' = WithNamespaces(result.made)
              /\ plan' = result.plan
    BY <1>1, <2>1 DEF MakePlan
  <2>3. UNCHANGED <<st, inputs, version>>
    BY <1>1 DEF MakePlan
  <2>4. CASE can
    <3>1. plan' = PlanNow(TRUE) /\ live' = WithNamespaces(Made(Rendered, Rendered))
      BY <2>2, <2>4, OnePlan DEF PlanNow
    <3>2. PlanNow(TRUE)' = PlanNow(TRUE)
      BY <2>3, <3>1, PlanAgain DEF TypeInv, TypeOK, ClusterTypeOK
    <3>3. PlanNow(can)' = PlanNow(TRUE)'
      BY <2>4 DEF PlanNow
    <3>4. QED
      BY <3>1, <3>2, <3>3
  <2>5. CASE ~can
    BY <2>2, <2>3, <2>5, OnePlan DEF PlanNow, Undetermined
  <2>6. QED
    BY <2>4, <2>5
<1>2. CASE Terraform
  BY <1>1, <1>2 DEF Terraform, PlanFails, PlanDestroy, Approve, Reject,
     FinalPlanFails, Refuse, Discard, Destroy, End, StartCreate, StartUpdate
<1>3. CASE Handlers
  <2>1. ASSUME Kubectl PROVE FALSE
    BY <2>1 DEF Kubectl, tfVars, ApplyOne, DeleteOne, RunInv
  <2>2. QED
    BY <1>3, <2>1 DEF Handlers, ExpandAndApply, SkipApply, ExpandFails,
       ApplyReturns, DeleteReturns, DestroyReturns, Crash, End
<1>4. CASE EditConfig
  BY <1>4 DEF EditConfig
<1>5. CASE SourceMoves \/ ClusterMoves
  BY <1>5 DEF SourceMoves, ClusterMoves
<1>6. CASE UNCHANGED vars
  <2>1. UNCHANGED <<live, inputs, version, st, plan, pc, quiet, wanted>>
    BY <1>6 DEF vars, clusterVars, tfVars
  <2>2. \A can : PlanNow(can)' = PlanNow(can)
    BY <2>1 DEF PlanNow, Determined, Undetermined, Rendered, ShouldDiff, Prior,
       Results, Differences, Deletions, Removed, IdsOf, WithNamespaces, Made,
       Missing, NamespacesOf, ObjectsOf, Exists
  <2>3. QED
    BY <2>1, <2>2 DEF SteadyInv
<1>7. QED
  BY <1>2, <1>3, <1>4, <1>5, <1>6 DEF Next

\* With all values known, Terraform turns down a final plan only if somebody
\* else has acted since the plan was made: whatever customize-diff does on its
\* way, the structured diff of a plan comes out the same twice.
THEOREM PlansAreSteady ==
    ASSUME AllKnown
    PROVE  Spec => SteadyPlan
<1>1. TypeInv /\ RunInv /\ SteadyInv /\ [Next]_vars => SteadyInv'
  BY SteadyStep
<1>2. TypeInv /\ RunInv /\ SteadyInv /\ [Next]_vars =>
        [outcome' = "rejected" /\ outcome # "rejected" => ~quiet]_vars
  <2> SUFFICES ASSUME TypeInv, RunInv, SteadyInv, [Next]_vars,
                      outcome' = "rejected", outcome # "rejected", quiet
               PROVE  FALSE
    OBVIOUS
  <2>1. PICK can \in CanRuns : Reject(can)
    BY DEF Next, Terraform, Handlers, MakePlan, PlanFails, PlanDestroy, Approve,
       FinalPlanFails, Refuse, Discard, Destroy, ExpandAndApply, SkipApply,
       ExpandFails, ApplyReturns, DeleteReturns, DestroyReturns, Crash, Kubectl,
       EditConfig, SourceMoves, ClusterMoves, End, vars, tfVars
  <2>2. PICK result \in CustomDiff(can, "nothing") : ~Consistent(result.plan)
    BY <2>1 DEF Reject
  <2>3. pc = "planned" /\ plan.op # "destroy"
    BY <2>1 DEF Reject
  <2>4. PICK known \in CanRuns : plan = PlanNow(known)
    BY <2>3 DEF RunInv, SteadyInv, TypeInv, TypeOK
  <2>5. result.plan = plan
    BY <2>2, <2>4, OnePlan DEF AllKnown
  <2>6. QED
    BY <2>2, <2>5 DEF Consistent
<1>3. Init => SteadyInv
  BY DEF Init, SteadyInv
<1>4. QED
  BY <1>1, <1>2, <1>3, RunInit, RunStep, TypeInit, TypeStep, PTL
     DEF Spec, SteadyPlan

-----------------------------------------------------------------------------
(* Deletes leave the bundle alone, and its namespaces are ready.           *)

\* A bundle with a manifest in a namespace has the manifest of that namespace
\* too, if there is one.
KeepsNamespaces ==
    \A v \in Versions, x \in Inputs :
        \A i \in IdsOf(Render[v][x]), j \in Ids :
            NamespaceOf[ObjectOf[i]] = ObjectOf[j] => j \in IdsOf(Render[v][x])

\* A handler that will apply its bundle.
WillApply ==
    /\ pc \in {"creating", "deleting", "deleted"}
    /\ quiet
    /\ plan.op = "create" \/ plan.diff # {}

\* What is going away is there, and the API server accepts all that is going
\* to be applied.
ReadyInv ==
    /\ \A o \in terminating : Exists(o)
    /\ WillApply => \A id \in IdsOf(plan.resources) : Accepts(ObjectOf[id])
    /\ pc = "applying" /\ quiet => \A id \in call.todo : Accepts(ObjectOf[id])

\* The deletes of an update leave the objects of the new bundle and their
\* namespaces as they are.
LEMMA DeletesApart ==
    ASSUME OneIdPerObject, KeepsNamespaces, TypeInv, RunInv,
           pc = "deleting", DeleteOne, NEW kept \in IdsOf(plan.resources)
    PROVE  /\ live'[ObjectOf[kept]] = live[ObjectOf[kept]]
           /\ ObjectOf[kept] \in terminating' => ObjectOf[kept] \in terminating
           /\ Accepts(ObjectOf[kept]) => Accepts(ObjectOf[kept])'
<1>1. CASE UNCHANGED <<live, terminating, managed>>
  BY <1>1 DEF Accepts, Exists
<1>2. ASSUME NEW id \in call.todo, RequestDelete(ObjectOf[id])
      PROVE  /\ live'[ObjectOf[kept]] = live[ObjectOf[kept]]
             /\ ObjectOf[kept] \in terminating' => ObjectOf[kept] \in terminating
             /\ Accepts(ObjectOf[kept]) => Accepts(ObjectOf[kept])'
  <2>1. id \in Ids /\ id \notin IdsOf(plan.resources) /\ kept \in Ids
    BY DEF RunInv, Removed, IdsOf
  <2>2. PICK v \in Versions, x \in Inputs : plan.resources = Render[v][x]
    BY DEF RunInv, Working
  <2>3. /\ ObjectOf[kept] # ObjectOf[id]
        /\ NamespaceOf[ObjectOf[kept]] # ObjectOf[id]
    BY <2>1, <2>2 DEF OneIdPerObject, KeepsNamespaces
  <2>4. ObjectOf[kept] \in Objects /\ ObjectOf[id] \in Objects
    BY <2>1, IdsAssumption
  <2>5. NamespaceOf[ObjectOf[kept]] \in Objects \cup {NoNamespace}
    BY <2>4, IdsAssumption
  <2>6. QED
    BY <1>2, <2>3, <2>4, <2>5, RequestDeleteElsewhere
       DEF Accepts, Exists, TypeInv, TypeOK
<1>3. QED
  BY <1>1, <1>2 DEF DeleteOne

\* An update deletes nothing that the new bundle holds, where ids and objects
\* are one and the same and a bundle keeps the namespaces it lives in.
THEOREM UpdateDeletesOnlyRemoved ==
    ASSUME OneIdPerObject, KeepsNamespaces
    PROVE  Spec => DeletesOnlyRemoved
<1>1. TypeInv /\ RunInv /\ [Next]_vars =>
        [DeleteOne /\ pc = "deleting" =>
            \A o \in ObjectsOf(plan.resources) :
                /\ live'[o] = live[o]
                /\ o \in terminating' => o \in terminating]_vars
  BY DeletesApart DEF ObjectsOf
<1>2. QED
  BY <1>1, RunInit, RunStep, TypeInit, TypeStep, PTL DEF Spec, DeletesOnlyRemoved

\* What the final plan finds: a diff of the bundle in a cluster with its
\* namespaces made, or nothing to do at all.
LEMMA FinalPlanFinds ==
    ASSUME ~NoDiff, TypeInv, RunInv, Approve
    PROVE  /\ plan'.resources = Rendered
           /\ live' = WithNamespaces(Made(Rendered, Rendered))
           /\ \/ /\ plan'.diff = Results(Rendered, Rendered, live')
                 /\ CanDiff(Rendered, Rendered)
                 /\ ShouldDiff(Rendered)
              \/ /\ plan'.diff = {}
                 /\ Rendered = Prior
                 /\ plan'.op = "create" => IdsOf(Rendered) = {}
           /\ plan'.op = "create" <=> st = NoState
           /\ pc' \in {"creating", "deleting", "deleted"}
<1>1. PICK result \in CustomDiff(TRUE, "nothing") :
            /\ live' = WithNamespaces(result.made)
            /\ plan' = result.plan
            /\ IF plan.op = "create"
               THEN StartCreate
               ELSE StartUpdate(Removed(Prior, result.plan.resources))
  BY DEF Approve
<1>2. /\ result.plan = Determined("nothing", Rendered, Rendered).plan
      /\ result.made = Made(Rendered, Rendered)
      /\ CanDiff(Rendered, Rendered)
  BY OnePlan DEF PlanNow
<1>3. plan'.op = "create" <=> st = NoState
  BY <1>1, CustomDiffPlan
<1>4. pc' \in {"creating", "deleting", "deleted"}
  BY <1>1 DEF StartCreate, StartUpdate
<1>5. CASE ShouldDiff(Rendered)
  BY <1>1, <1>2, <1>3, <1>4, <1>5 DEF Determined
<1>6. CASE ~ShouldDiff(Rendered)
  <2>1. Rendered = Prior
    BY <1>6 DEF ShouldDiff
  <2>2. st = NoState => IdsOf(Rendered) = {}
    BY <2>1 DEF Prior, Empty, IdsOf
  <2>3. QED
    BY <1>1, <1>2, <1>3, <1>4, <1>6, <2>1, <2>2 DEF Determined
<1>7. QED
  BY <1>5, <1>6

\* A namespace that was missing is there once it is made, and not going away.
LEMMA MadeReady ==
    ASSUME TypeInv, ReadyInv, NEW made, live' = WithNamespaces(made),
           UNCHANGED terminating, NEW o \in Objects,
           Accepts(o) \/ (NamespaceOf[o] \in made /\ ~Exists(NamespaceOf[o]))
    PROVE  Accepts(o)'
<1>1. NamespaceOf[o] \in Objects \cup {NoNamespace}
  BY IdsAssumption
<1>2. \A p \in Objects : live[p] # Absent \/ p \in made => live'[p] # Absent
  BY ContentAssumption DEF WithNamespaces
<1>3. QED
  BY <1>1, <1>2 DEF Accepts, Exists, ReadyInv

\* The final plan leaves every namespace of its bundle ready.
LEMMA ReadyApprove ==
    ASSUME ~NoDiff, TypeInv, RunInv, ReadyInv, Approve
    PROVE  ReadyInv'
<1>1. /\ plan'.resources = Rendered
      /\ live' = WithNamespaces(Made(Rendered, Rendered))
      /\ pc' \in {"creating", "deleting", "deleted"}
      /\ UNCHANGED terminating
  BY FinalPlanFinds DEF Approve
<1>2. \A o \in terminating : live'[o] # Absent
  BY <1>1, NamespacesExist DEF ReadyInv, TypeInv, TypeOK, ClusterTypeOK
<1>3. ASSUME CanDiff(Rendered, Rendered), ShouldDiff(Rendered),
             NEW id \in IdsOf(Rendered)
      PROVE  Accepts(ObjectOf[id])'
  <2>1. ObjectOf[id] \in ObjectsOf(Rendered) /\ ObjectOf[id] \in Objects
    BY IdsAssumption DEF ObjectsOf, IdsOf
  <2>2. \/ Accepts(ObjectOf[id])
        \/ NamespaceOf[ObjectOf[id]] \in Made(Rendered, Rendered)
    BY <1>3, <2>1 DEF CanDiff
  <2>3. \A ns \in Made(Rendered, Rendered) : ~Exists(ns)
    BY DEF Made, Missing
  <2>4. QED
    BY <1>1, <2>1, <2>2, <2>3, MadeReady
<1>4. (plan'.op = "create" \/ plan'.diff # {}) =>
            \A id \in IdsOf(Rendered) : Accepts(ObjectOf[id])'
  BY <1>3, FinalPlanFinds
<1>5. IdsOf(plan.resources)' = IdsOf(Rendered)
  BY <1>1 DEF IdsOf
<1>6. QED
  BY <1>1, <1>2, <1>4, <1>5 DEF ReadyInv, WillApply, Exists

\* A request leaves what is going away in place, and an apply takes no
\* namespace from another manifest.
LEMMA ReadyKubectl ==
    ASSUME OneIdPerObject, KeepsNamespaces, TypeInv, RunInv, ReadyInv, Kubectl
    PROVE  ReadyInv'
<1>1. /\ UNCHANGED <<plan, pc, quiet>>
      /\ call \in Calls
      /\ call'.todo \subseteq call.todo
  BY KubectlTodo DEF Kubectl, tfVars, TypeInv, TypeOK, ClientTypeOK
<1>2. IdsOf(plan.resources)' = IdsOf(plan.resources)
  BY <1>1 DEF IdsOf
<1>3. CASE ApplyOne
  <2>1. pc = "applying"
    BY <1>3 DEF ApplyOne, RunInv, TypeInv, TypeOK, Phases
  <2>2. call.todo \subseteq IdsOf(call.bundle)
    BY <2>1 DEF RunInv
  <2>3. /\ terminating' = terminating
        /\ \A o \in Objects : Exists(o) => live'[o] # Absent
    <3>1. CASE UNCHANGED <<live, terminating, managed>>
      BY <3>1 DEF Exists
    <3>2. ASSUME NEW id \in call.todo, Put(ObjectOf[id], call.bundle[id])
          PROVE  /\ terminating' = terminating
                 /\ \A o \in Objects : Exists(o) => live'[o] # Absent
      <4>1. call.bundle[id] # Absent
        BY <2>2 DEF IdsOf
      <4>2. QED
        BY <3>2, <4>1 DEF Put, Exists, TypeInv, TypeOK, ClusterTypeOK
    <3>3. QED
      BY <1>3, <3>1, <3>2 DEF ApplyOne
  <2>4. \A id \in call.todo : Accepts(ObjectOf[id]) => Accepts(ObjectOf[id])'
    <3>1. SUFFICES ASSUME NEW id \in call.todo, Accepts(ObjectOf[id])
                   PROVE  Accepts(ObjectOf[id])'
      OBVIOUS
    <3>2. /\ ObjectOf[id] \in Objects
          /\ NamespaceOf[ObjectOf[id]] \in Objects \cup {NoNamespace}
      BY <1>1, IdsAssumption DEF Calls
    <3>3. QED
      BY <2>3, <3>1, <3>2 DEF Accepts, Exists
  <2>5. \A o \in terminating' : live'[o] # Absent
    BY <2>3 DEF ReadyInv, TypeInv, TypeOK, ClusterTypeOK
  <2>6. QED
    BY <1>1, <2>1, <2>4, <2>5 DEF ReadyInv, WillApply, Exists
<1>4. CASE DeleteOne
  <2>1. pc \in {"deleting", "destroying"}
    BY <1>4 DEF DeleteOne, RunInv, TypeInv, TypeOK, Phases
  <2>2. \A o \in terminating' : live'[o] # Absent
    <3>1. ASSUME NEW id \in call.todo, RequestDelete(ObjectOf[id])
          PROVE  \A o \in terminating' : live'[o] # Absent
      <4>1. CASE Remove(ObjectOf[id])
        BY <4>1 DEF Remove, ReadyInv, Exists, TypeInv, TypeOK, ClusterTypeOK
      <4>2. CASE /\ terminating' = terminating \cup
                        {p \in {ObjectOf[id]} \cup In(ObjectOf[id]) : Exists(p)}
                 /\ UNCHANGED <<live, managed>>
        BY <4>2 DEF ReadyInv, Exists
      <4>3. CASE UNCHANGED <<live, terminating, managed>>
        BY <4>3 DEF ReadyInv, Exists
      <4>4. QED
        BY <3>1, <4>1, <4>2, <4>3 DEF RequestDelete
    <3>2. CASE UNCHANGED <<live, terminating, managed>>
      BY <3>2 DEF ReadyInv, Exists
    <3>3. QED
      BY <1>4, <3>1, <3>2 DEF DeleteOne
  <2>3. ASSUME pc = "deleting", NEW id \in IdsOf(plan.resources),
               Accepts(ObjectOf[id])
        PROVE  Accepts(ObjectOf[id])'
    BY <1>4, <2>3, DeletesApart
  <2>4. QED
    BY <1>1, <1>2, <2>1, <2>2, <2>3 DEF ReadyInv, WillApply, Exists
<1>5. QED
  BY <1>3, <1>4 DEF Kubectl

\* The start of an apply, and the end of an update's delete.
LEMMA ReadyGoesOn ==
    ASSUME ~NoDiff, TypeInv, RunInv, ReadyInv,
           ExpandAndApply \/ (DeleteReturns /\ pc' = "deleted")
    PROVE  ReadyInv'
<1>1. UNCHANGED <<live, terminating, plan, quiet>>
  BY DEF ExpandAndApply, DeleteReturns, End, clusterVars
<1>2. \A o \in Objects : Accepts(o)' = Accepts(o)
  BY <1>1 DEF Accepts, Exists
<1>3. IdsOf(plan.resources)' = IdsOf(plan.resources)
  BY <1>1 DEF IdsOf
<1>4. \A id \in Ids : Accepts(ObjectOf[id])' <=> Accepts(ObjectOf[id])
  BY <1>1 DEF Accepts, Exists
<1>5. IdsOf(plan.resources) \subseteq Ids
  BY IdsOfType
<1>6. CASE ExpandAndApply
  <2>1. /\ pc' = "applying"
        /\ call'.todo = IdsOf(Render[version][plan.inputs])
        /\ pc \in {"creating", "deleted"}
        /\ plan.op = "create" \/ plan.diff # {}
    BY <1>6 DEF ExpandAndApply, BeginApply, RunInv
  <2>2. quiet => plan.resources = Rendered /\ plan.inputs = inputs
    BY <2>1 DEF RunInv, Working, TypeInv, TypeOK
  <2>3. quiet => \A id \in IdsOf(plan.resources) : Accepts(ObjectOf[id])
    BY <2>1 DEF ReadyInv, WillApply
  <2>4. quiet => call'.todo = IdsOf(plan.resources)
    BY <2>1, <2>2 DEF Rendered
  <2>5. QED
    BY <1>1, <1>4, <1>5, <2>1, <2>3, <2>4 DEF ReadyInv, WillApply, Exists
<1>7. CASE DeleteReturns /\ pc' = "deleted"
  BY <1>1, <1>3, <1>4, <1>5, <1>7 DEF DeleteReturns, ReadyInv, WillApply, Exists
<1>8. QED
  BY <1>6, <1>7

\* Where nothing is going to be applied, the namespaces made are there.
LEMMA ReadyElsewhere ==
    ASSUME TypeInv, ReadyInv, pc' \in {"idle", "planned", "destroying"},
           UNCHANGED terminating,
           live' = live \/ \E made : live' = WithNamespaces(made)
    PROVE  ReadyInv'
<1>1. \A o \in terminating : live'[o] # Absent
  BY NamespacesExist DEF ReadyInv, Exists, TypeInv, TypeOK, ClusterTypeOK
<1>2. QED
  BY <1>1 DEF ReadyInv, WillApply, Exists

\* What others do is no longer quiet, and what is going away is there until it
\* is gone.
LEMMA ReadyOthers ==
    ASSUME TypeInv, ReadyInv, SourceMoves \/ ClusterMoves \/ UNCHANGED vars
    PROVE  ReadyInv'
<1>1. ASSUME NEW o, Remove(o) PROVE \A p \in terminating' : live'[p] # Absent
  BY <1>1 DEF Remove, ReadyInv, Exists, TypeInv, TypeOK, ClusterTypeOK
<1>2. CASE ClusterMoves
  <2>1. \A p \in terminating' : live'[p] # Absent
    <3>1. CASE Finalize
      BY <1>1, <3>1 DEF Finalize
    <3>2. CASE Drift
      <4>1. PICK o \in Objects :
              \/ Remove(o)
              \/ \E hash \in Hashes : live' = [live EXCEPT ![o] = hash]
                                      /\ UNCHANGED terminating
        BY <3>2 DEF Drift
      <4>2. CASE \E hash \in Hashes : live' = [live EXCEPT ![o] = hash]
                                      /\ UNCHANGED terminating
        BY <4>2, ContentAssumption
           DEF ReadyInv, Exists, TypeInv, TypeOK, ClusterTypeOK
      <4>3. QED
        BY <1>1, <4>1, <4>2
    <3>3. QED
      BY <1>2, <3>1, <3>2 DEF ClusterMoves
  <2>2. ~quiet'
    BY <1>2 DEF ClusterMoves
  <2>3. QED
    BY <2>1, <2>2 DEF ReadyInv, WillApply, Exists
<1>3. CASE SourceMoves
  BY <1>3 DEF SourceMoves, clusterVars, ReadyInv, WillApply, Exists
<1>4. CASE UNCHANGED vars
  BY <1>4 DEF vars, clusterVars, clientVars, tfVars, ReadyInv, WillApply, Exists,
     Accepts, IdsOf
<1>5. QED
  BY <1>2, <1>3, <1>4

\* Every step keeps the namespaces ready.
LEMMA ReadyStep ==
    ASSUME OneIdPerObject, KeepsNamespaces, ~NoDiff, TypeInv, RunInv, ReadyInv,
           [Next]_vars
    PROVE  ReadyInv'
<1>1. ASSUME NEW can \in CanRuns, NEW unknown \in Unknowns, MakePlan(can, unknown)
      PROVE  ReadyInv'
  BY <1>1, ReadyElsewhere DEF MakePlan
<1>2. ASSUME NEW can, Reject(can) \/ Destroy(can) PROVE ReadyInv'
  BY <1>2, ReadyElsewhere DEF Reject, Destroy, End, clusterVars
<1>3. CASE PlanFails \/ PlanDestroy \/ FinalPlanFails \/ Refuse \/ Discard
                \/ EditConfig
  BY <1>3, ReadyElsewhere DEF PlanFails, PlanDestroy, FinalPlanFails, Refuse,
     Discard, EditConfig, FailedDiff, End, clusterVars
<1>4. CASE SkipApply \/ ExpandFails \/ ApplyReturns \/ DestroyReturns \/ Crash
  BY <1>4, ReadyElsewhere DEF SkipApply, ExpandFails, ApplyReturns,
     DestroyReturns, Crash, End, clusterVars
<1>5. CASE DeleteReturns
  <2>1. CASE End("error", Saved(plan.diff))
    BY <1>5, <2>1, ReadyElsewhere DEF DeleteReturns, End, clusterVars
  <2>2. QED
    BY <1>5, <2>1, ReadyGoesOn DEF DeleteReturns
<1>6. CASE Terraform
  BY <1>1, <1>2, <1>3, <1>6, ReadyApprove DEF Terraform
<1>7. CASE Handlers
  BY <1>4, <1>5, <1>7, ReadyGoesOn, ReadyKubectl DEF Handlers
<1>8. CASE EditConfig \/ SourceMoves \/ ClusterMoves \/ UNCHANGED vars
  BY <1>3, <1>8, ReadyOthers
<1>9. QED
  BY <1>6, <1>7, <1>8 DEF Next

\* Where ids and objects are one and the same and a bundle keeps the
\* namespaces it lives in, no apply is refused for want of a namespace while
\* nobody else acts: whether the namespace was there, was made by the plan or
\* is in the bundle.
THEOREM AppliesFindTheirNamespaces ==
    ASSUME OneIdPerObject, KeepsNamespaces, ~NoDiff
    PROVE  Spec => []NamespacesReady
<1>1. TypeInv /\ RunInv /\ ReadyInv /\ [Next]_vars => ReadyInv'
  BY ReadyStep
<1>2. ReadyInv => NamespacesReady
  BY DEF ReadyInv, NamespacesReady
<1>3. Init => ReadyInv
  BY DEF Init, ClusterInit, ReadyInv, WillApply
<1>4. QED
  BY <1>1, <1>2, <1>3, RunInit, RunStep, TypeInit, TypeStep, PTL DEF Spec

-----------------------------------------------------------------------------
(* The plan is honest.                                                     *)

\* No manifest is that of a namespace in which any object may live.
NamespacesApart == \A o \in Objects, id \in Ids : NamespaceOf[o] # ObjectOf[id]

\* The entry that customize-diff makes for a manifest that is to change.
Difference(bundle, id) ==
    [what |-> IF live[ObjectOf[id]] = Absent THEN "create" ELSE "change",
     id |-> id,
     text |-> EntryText(live[ObjectOf[id]], bundle[id])]

\* The apply of this manifest would change nothing that shows or is in the
\* diff, as it will happen.
IsAnnounced(bundle, id) ==
    Shows(live[ObjectOf[id]], bundle[id]) => Difference(bundle, id) \in plan.diff

\* What a request does to an object that a user can see.
Touched(o) ==
    Shows(live[o], live'[o]) \/ (o \in terminating' /\ o \notin terminating)

\* What is still to be applied is in the diff, and so is what is to be deleted.
HonestInv ==
    /\ WillApply => \A id \in IdsOf(plan.resources) : IsAnnounced(plan.resources, id)
    /\ pc = "applying" /\ quiet => \A id \in call.todo : IsAnnounced(call.bundle, id)
    /\ pc = "deleting" =>
            \A id \in Removed(Prior, plan.resources) :
                About("delete", id) \in plan.diff

\* No bundle loses the namespace of what it holds if there is none to lose.
LEMMA ApartKeeps == NamespacesApart => KeepsNamespaces
BY IdsAssumption DEF NamespacesApart, KeepsNamespaces, IdsOf

\* The final plan announces what its handler is to do.
LEMMA HonestApprove ==
    ASSUME ~NoDiff, TypeInv, RunInv, HonestInv, Approve
    PROVE  HonestInv'
<1>1. /\ plan'.resources = Rendered
      /\ pc' \in {"creating", "deleting", "deleted"}
      /\ UNCHANGED st
      /\ RunInv'
  BY FinalPlanFinds, RunApprove DEF Approve
<1>2. IdsOf(plan.resources)' = IdsOf(Rendered) /\ Prior' = Prior
  BY <1>1 DEF IdsOf, Prior
<1>3. Removed(Prior, plan.resources)' = Removed(Prior, Rendered)
  BY <1>1, <1>2 DEF Removed, IdsOf
<1>4. CASE plan'.diff = Results(Rendered, Rendered, live')
  <2>1. /\ Differences(Rendered, live') \subseteq plan'.diff
        /\ Deletions(Rendered) \subseteq plan'.diff
    BY <1>4 DEF Results
  <2>2. ASSUME NEW id \in IdsOf(Rendered) PROVE IsAnnounced(plan.resources, id)'
    BY <1>1, <2>1, <2>2 DEF IsAnnounced, Difference, Differences
  <2>3. ASSUME pc' = "deleting", NEW id \in Removed(Prior, Rendered)
        PROVE  About("delete", id) \in plan'.diff
    <3>1. AllowDeletes
      BY <1>1, <2>3 DEF RunInv
    <3>2. QED
      BY <2>1, <2>3, <3>1 DEF Deletions
  <2>4. \A id : About("delete", id)' = About("delete", id)
    BY DEF About
  <2>5. QED
    BY <1>1, <1>2, <1>3, <2>2, <2>3, <2>4 DEF HonestInv, WillApply
<1>5. CASE /\ plan'.diff = {}
           /\ Rendered = Prior
           /\ plan'.op = "create" => IdsOf(Rendered) = {}
  <2>1. pc' # "deleting"
    <3>1. Removed(Prior, Rendered) = {}
      BY <1>5, NothingRemoved
    <3>2. QED
      BY <1>1, <1>3, <3>1 DEF RunInv
  <2>2. QED
    BY <1>1, <1>2, <1>5, <2>1 DEF HonestInv, WillApply
<1>6. QED
  BY <1>4, <1>5, FinalPlanFinds

\* The start of an apply, and the end of an update's delete.
LEMMA HonestGoesOn ==
    ASSUME ~NoDiff, TypeInv, RunInv, HonestInv,
           ExpandAndApply \/ (DeleteReturns /\ pc' = "deleted")
    PROVE  HonestInv'
<1>1. UNCHANGED <<live, plan, quiet>>
  BY DEF ExpandAndApply, DeleteReturns, End, clusterVars
<1>2. IdsOf(plan.resources)' = IdsOf(plan.resources)
  BY <1>1 DEF IdsOf
<1>3. \A id : IsAnnounced(plan.resources, id)' <=> IsAnnounced(plan.resources, id)
  BY <1>1 DEF IsAnnounced, Difference
<1>4. CASE ExpandAndApply
  <2>1. /\ pc' = "applying"
        /\ call'.bundle = Render[version][plan.inputs]
        /\ call'.todo = IdsOf(Render[version][plan.inputs])
        /\ pc \in {"creating", "deleted"}
        /\ plan.op = "create" \/ plan.diff # {}
    BY <1>4 DEF ExpandAndApply, BeginApply, RunInv
  <2>2. quiet => plan.resources = Rendered /\ plan.inputs = inputs
    BY <2>1 DEF RunInv, Working, TypeInv, TypeOK
  <2>3. ASSUME quiet, NEW id \in call'.todo PROVE IsAnnounced(call.bundle, id)'
    <3>1. id \in IdsOf(plan.resources) /\ call'.bundle = plan.resources
      BY <2>1, <2>2, <2>3 DEF Rendered
    <3>2. IsAnnounced(plan.resources, id)
      BY <2>1, <2>3, <3>1 DEF HonestInv, WillApply
    <3>3. QED
      BY <1>1, <3>1, <3>2 DEF IsAnnounced, Difference
  <2>4. QED
    BY <1>1, <2>1, <2>3 DEF HonestInv, WillApply
<1>5. CASE DeleteReturns /\ pc' = "deleted"
  BY <1>1, <1>2, <1>3, <1>5 DEF DeleteReturns, HonestInv, WillApply
<1>6. QED
  BY <1>4, <1>5

\* A request leaves what was announced of the others as it was.
LEMMA HonestKubectl ==
    ASSUME OneIdPerObject, NamespacesApart, TypeInv, RunInv, HonestInv, Kubectl
    PROVE  HonestInv'
<1>1. /\ UNCHANGED <<st, plan, pc, quiet>>
      /\ call \in Calls
      /\ call'.todo \subseteq call.todo
      /\ call'.bundle = call.bundle
  BY KubectlTodo DEF Kubectl, tfVars, TypeInv, TypeOK, ClientTypeOK
<1>2. /\ IdsOf(plan.resources)' = IdsOf(plan.resources)
      /\ Removed(Prior, plan.resources)' = Removed(Prior, plan.resources)
      /\ \A id : About("delete", id)' = About("delete", id)
  BY <1>1 DEF IdsOf, Removed, Prior, About
<1>3. CASE ApplyOne
  <2>1. pc = "applying"
    BY <1>3 DEF ApplyOne, RunInv, TypeInv, TypeOK, Phases
  <2>2. PICK id \in call.todo :
            /\ \/ Put(ObjectOf[id], call.bundle[id])
               \/ UNCHANGED <<live, terminating, managed>>
            /\ id \notin call'.todo
    <3>1. PICK id \in call.todo :
              \/ Put(ObjectOf[id], call.bundle[id]) /\ Answer(id)
              \/ /\ UNCHANGED <<live, terminating, managed>>
                 /\ call' = [call EXCEPT !.todo = @ \ {id}, !.failed = TRUE]
      BY <1>3 DEF ApplyOne
    <3>2. \/ call' = [call EXCEPT !.todo = @ \ {id}]
          \/ call' = [call EXCEPT !.todo = @ \ {id}, !.failed = TRUE]
      BY <3>1 DEF Answer
    <3>3. id \notin call'.todo
      BY <1>1, <3>2 DEF Calls
    <3> QED
      BY <3>1, <3>3
  <2>3. ASSUME quiet, NEW other \in call'.todo
        PROVE  IsAnnounced(call.bundle, other)'
    <3>1. other \in call.todo /\ other # id /\ other \in Ids /\ id \in Ids
      BY <1>1, <2>2, <2>3 DEF Calls
    <3>2. ObjectOf[other] # ObjectOf[id] /\ ObjectOf[other] \in Objects
      BY <3>1, IdsAssumption DEF OneIdPerObject
    <3>3. live'[ObjectOf[other]] = live[ObjectOf[other]]
      BY <2>2, <3>2 DEF Put, TypeInv, TypeOK, ClusterTypeOK
    <3>4. IsAnnounced(call.bundle, other)
      BY <2>1, <2>3, <3>1 DEF HonestInv
    <3>5. QED
      BY <1>1, <3>3, <3>4 DEF IsAnnounced, Difference
  <2>4. QED
    BY <1>1, <2>1, <2>3 DEF HonestInv, WillApply
<1>4. CASE DeleteOne
  <2>1. pc \in {"deleting", "destroying"}
    BY <1>4 DEF DeleteOne, RunInv, TypeInv, TypeOK, Phases
  <2>2. ASSUME pc = "deleting", NEW id \in IdsOf(plan.resources),
               IsAnnounced(plan.resources, id)
        PROVE  IsAnnounced(plan.resources, id)'
    <3>1. live'[ObjectOf[id]] = live[ObjectOf[id]]
      BY <1>4, <2>2, DeletesApart, ApartKeeps
    <3>2. QED
      BY <1>1, <2>2, <3>1 DEF IsAnnounced, Difference
  <2>3. QED
    BY <1>1, <1>2, <2>1, <2>2 DEF HonestInv, WillApply
<1>5. QED
  BY <1>3, <1>4 DEF Kubectl

\* What others do is no longer quiet.
LEMMA HonestOthers ==
    ASSUME HonestInv, SourceMoves \/ ClusterMoves \/ UNCHANGED vars
    PROVE  HonestInv'
<1>1. UNCHANGED <<st, plan, pc>>
  BY DEF SourceMoves, ClusterMoves, vars, tfVars
<1>2. /\ Removed(Prior, plan.resources)' = Removed(Prior, plan.resources)
      /\ \A id : About("delete", id)' = About("delete", id)
  BY <1>1 DEF IdsOf, Removed, Prior, About
<1>3. CASE SourceMoves \/ ClusterMoves
  <2>1. ~quiet'
    BY <1>3 DEF SourceMoves, ClusterMoves
  <2>2. QED
    BY <1>1, <1>2, <2>1 DEF HonestInv, WillApply
<1>4. CASE UNCHANGED vars
  BY <1>1, <1>2, <1>4 DEF vars, clusterVars, clientVars, tfVars, HonestInv,
     WillApply, IsAnnounced, Difference, IdsOf
<1>5. QED
  BY <1>3, <1>4

\* Every step keeps announced what is to come.
LEMMA HonestStep ==
    ASSUME OneIdPerObject, NamespacesApart, ~NoDiff, TypeInv, RunInv, HonestInv,
           [Next]_vars
    PROVE  HonestInv'
<1>1. ASSUME pc' \in {"idle", "planned", "destroying"} PROVE HonestInv'
  BY <1>1 DEF HonestInv, WillApply
<1>2. CASE Terraform
  BY <1>1, <1>2, HonestApprove DEF Terraform, MakePlan, PlanFails, PlanDestroy,
     Reject, FinalPlanFails, Refuse, Discard, Destroy, End
<1>3. CASE Handlers
  BY <1>1, <1>3, HonestGoesOn, HonestKubectl DEF Handlers, SkipApply, ExpandFails,
     ApplyReturns, DeleteReturns, DestroyReturns, Crash, End
<1>4. CASE EditConfig
  BY <1>1, <1>4 DEF EditConfig
<1>5. QED
  BY <1>2, <1>3, <1>4, HonestOthers DEF Next

\* What shows differs.
LEMMA TouchedChanges ==
    ASSUME TypeInv, NEW o \in Objects, Touched(o)
    PROVE  live'[o] # live[o] \/ (o \in terminating' /\ o \notin terminating)
BY TextAssumption DEF Touched, Shows, TypeInv, TypeOK, ClusterTypeOK

\* The object that a delete request changes is gone or going.
LEMMA DeleteGoes ==
    ASSUME NamespacesApart, TypeInv, NEW id \in Ids, RequestDelete(ObjectOf[id]),
           NEW o \in Objects, Touched(o)
    PROVE  o = ObjectOf[id] /\ (live'[o] = Absent \/ o \in terminating')
<1> live'[o] # live[o] \/ (o \in terminating' /\ o \notin terminating)
  BY TouchedChanges
<1>1. In(ObjectOf[id]) = {}
  BY DEF In, NamespacesApart
<1>2. CASE Remove(ObjectOf[id])
  BY <1>1, <1>2 DEF Remove
<1>3. CASE /\ terminating' = terminating \cup
                    {p \in {ObjectOf[id]} \cup In(ObjectOf[id]) : Exists(p)}
           /\ UNCHANGED <<live, managed>>
  BY <1>1, <1>3
<1>4. CASE UNCHANGED <<live, terminating, managed>>
  BY <1>4
<1>5. QED
  BY <1>2, <1>3, <1>4 DEF RequestDelete

\* An apply does what the diff said of its manifest.
LEMMA ApplyAnnounced ==
    ASSUME TypeInv, RunInv, HonestInv, ApplyOne, quiet, NEW o \in Objects, Touched(o)
    PROVE  Announced(o)
<1>1. pc = "applying"
  BY DEF ApplyOne, RunInv, TypeInv, TypeOK, Phases
<1>2. PICK id \in call.todo : Put(ObjectOf[id], call.bundle[id])
  BY TouchedChanges DEF ApplyOne
<1>3. /\ id \in Ids /\ id \in IdsOf(call.bundle)
      /\ live \in [Objects -> Content]
  BY <1>1 DEF TypeInv, TypeOK, ClientTypeOK, ClusterTypeOK, Calls, RunInv
<1>4. o = ObjectOf[id] /\ live'[o] = call.bundle[id] /\ live'[o] # live[o]
  BY <1>2, <1>3, TouchedChanges DEF Put
<1>5. Shows(live[o], live'[o]) /\ live'[o] # Absent
  BY <1>2, <1>3, <1>4 DEF Touched, Put, IdsOf
<1> DEFINE entry == Difference(call.bundle, id)
<1>6. entry \in plan.diff
  BY <1>1, <1>4, <1>5 DEF HonestInv, IsAnnounced
<1>7. /\ entry.id = id
      /\ entry.what = IF live[o] = Absent THEN "create" ELSE "change"
      /\ entry.text = EntryText(live[o], live'[o])
  BY <1>4 DEF Difference
<1> HIDE DEF entry
<1>8. QED
  BY <1>3, <1>4, <1>5, <1>6, <1>7 DEF Announced

\* A delete takes what the plan said would go.
LEMMA DeleteAnnounced ==
    ASSUME NamespacesApart, TypeInv, RunInv, HonestInv, DeleteOne, NEW o \in Objects,
           Touched(o)
    PROVE  Announced(o)
<1>1. PICK id \in call.todo : RequestDelete(ObjectOf[id])
  BY TouchedChanges DEF DeleteOne
<1>2. id \in Ids
  BY DEF TypeInv, TypeOK, ClientTypeOK, Calls
<1>3. o = ObjectOf[id] /\ (live'[o] = Absent \/ o \in terminating')
  BY <1>1, <1>2, DeleteGoes
<1>4. CASE pc = "deleting"
  <2>1. About("delete", id) \in plan.diff
    BY <1>4 DEF RunInv, HonestInv
  <2>2. About("delete", id).what = "delete" /\ About("delete", id).id = id
    BY DEF About
  <2>3. QED
    BY <1>2, <1>3, <2>1, <2>2 DEF Announced
<1>5. CASE pc = "destroying"
  BY <1>3, <1>5 DEF RunInv, Announced, ObjectsOf
<1>6. QED
  BY <1>4, <1>5 DEF DeleteOne, RunInv, TypeInv, TypeOK, Phases

\* Where ids and objects are one and the same and no manifest is that of a
\* namespace, the provider makes no change that a diff can show, while nobody
\* else acts, but as the approved plan said it would.
THEOREM PlansAreHonest ==
    ASSUME OneIdPerObject, NamespacesApart, ~NoDiff
    PROVE  Spec => PlanIsHonest
<1>1. TypeInv /\ RunInv /\ HonestInv /\ [Next]_vars => HonestInv'
  BY HonestStep
<1>2. TypeInv /\ RunInv /\ HonestInv /\ [Next]_vars =>
        [Kubectl /\ quiet => \A o \in Objects : Touched(o) => Announced(o)]_vars
  BY ApplyAnnounced, DeleteAnnounced DEF Kubectl
<1>3. Init => HonestInv
  BY DEF Init, HonestInv, WillApply
<1>4. QED
  BY <1>1, <1>2, <1>3, RunInit, RunStep, TypeInit, TypeStep, PTL
     DEF Spec, PlanIsHonest, Touched

=============================================================================

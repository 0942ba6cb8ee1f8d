------------------------------ MODULE Profiles ------------------------------
(***************************************************************************)
(* Several kubeapply_profile resources under one provider.  Terraform walks*)
(* them at the same time: while one module lists namespaces another makes  *)
(* them, and while one waits for its final plan another is already applied.*)
(* They meet in the cluster only.                                          *)
(*                                                                         *)
(* ProfileResource has all the ways of one resource, and makes a plan in   *)
(* one step.  Here a plan is the calls that it consists of, and the rest is*)
(* kept simple: all values are known, sources do not move, the provider has*)
(* its default options and verbose diffs, every kind is discovered, and the*)
(* modules stay in the configuration.                                      *)
(***************************************************************************)
EXTENDS KubectlDiff

CONSTANTS
    Modules,        \* The kubeapply_profile resources.
    Configs,        \* Configurations: the bundle that each module expands to.
    Rank,           \* The place of the id's kind in KindOrder.
    NoState,
    MaxFaults,      \* Bound on failures of kubectl, the API and the provider.
    MaxEdits        \* Bound on changes of the configuration.

States == [resources : AllBundles,
           diff : [changes : SUBSET (Ids \X Texts), deletes : SUBSET Ids,
                   note : BOOLEAN]]

ASSUME ProfilesAssumption ==
    /\ Configs \subseteq [Modules -> AllBundles]
    /\ Rank \in [Ids -> Nat]
    /\ NoState \notin States
    /\ MaxFaults \in Nat
    /\ MaxEdits \in Nat

VARIABLES
    config,         \* The configuration.
    state,          \* What the Terraform state has for each module.
    stage,          \* What Terraform is at.
    job,            \* What the provider is at, for each module.
    calm,           \* Since the run began, did nothing fail or interfere?
    faults,
    edits

vars == <<clusterVars, config, state, stage, job, calm, faults, edits>>

\* A result map: what kubectl diff says, the ids to be deleted, and the note
\* "NO DIFFS FOUND".
NoDiffs == [changes |-> {}, deletes |-> {}, note |-> FALSE]

Jobs == [at : {"list", "make", "planned", "delete", "apply", "done"},
         round : {"plan", "final"}, missing : SUBSET Objects,
         shown : [changes : SUBSET (Ids \X Texts), deletes : SUBSET Ids,
                  note : BOOLEAN],
         todo : SUBSET Ids, failed : BOOLEAN,
         how : {"none", "ok", "error", "rejected"}]

NewJob == [at |-> "list", round |-> "plan", missing |-> {}, shown |-> NoDiffs,
           todo |-> {}, failed |-> FALSE, how |-> "none"]

TypeOK ==
    /\ ClusterTypeOK
    /\ config \in Configs
    /\ state \in [Modules -> States \cup {NoState}]
    /\ stage \in {"rest", "plan", "apply"}
    /\ job \in [Modules -> Jobs]
    /\ calm \in BOOLEAN
    /\ faults \in 0..MaxFaults
    /\ edits \in 0..MaxEdits

Init ==
    /\ ClusterInit
    /\ config \in Configs
    /\ state = [m \in Modules |-> NoState]
    /\ stage = "rest"
    /\ job = [m \in Modules |-> NewJob]
    /\ calm = FALSE
    /\ faults = 0
    /\ edits = 0

Fault ==
    /\ faults < MaxFaults
    /\ faults' = faults + 1
    /\ calm' = FALSE

NoFault == UNCHANGED <<faults, calm>>

-----------------------------------------------------------------------------
(* A run of Terraform.                                                     *)

AllAt(places) == \A m \in Modules : job[m].at \in places

StartRun ==
    /\ stage = "rest"
    /\ stage' = "plan"
    /\ job' = [m \in Modules |-> NewJob]
    /\ calm' = TRUE
    /\ UNCHANGED <<clusterVars, config, state, faults, edits>>

\* Every module has its plan, and it is approved.  The modules with changes
\* get a final plan each, as their turn comes.
Approve ==
    /\ stage = "plan"
    /\ AllAt({"planned", "done"})
    /\ \A m \in Modules : job[m].how # "error"
    /\ stage' = "apply"
    /\ job' = [m \in Modules |->
                 IF job[m].at = "planned"
                 THEN [job[m] EXCEPT !.at = "list", !.round = "final"]
                 ELSE job[m]]
    /\ UNCHANGED <<clusterVars, config, state, calm, faults, edits>>

\* The run is over.  A plan that failed for one module is not applied for any.
EndRun ==
    /\ \/ stage = "apply" /\ AllAt({"done"})
       \/ /\ stage = "plan"
          /\ AllAt({"planned", "done"})
          /\ \E m \in Modules : job[m].how = "error"
    /\ stage' = "rest"
    /\ UNCHANGED <<clusterVars, config, state, job, calm, faults, edits>>

\* All modules are served by one process; Terraform keeps the prior state of
\* those that it was serving.
Crash ==
    /\ stage # "rest"
    /\ Fault
    /\ stage' = "rest"
    /\ job' = [m \in Modules |->
                 IF job[m].at = "done" THEN job[m]
                 ELSE [job[m] EXCEPT !.at = "done", !.how = "error"]]
    /\ UNCHANGED <<clusterVars, config, state, edits>>

-----------------------------------------------------------------------------
(* Customize-diff of one module.                                           *)

At(m, place) == stage # "rest" /\ job[m].at = place

Ended(m, how) == job' = [job EXCEPT ![m].at = "done", ![m].how = how]

\* A call of the API, of kubectl or of git fails before anything is applied.
PlanFails(m) ==
    /\ job[m].at \in {"list", "make"}
    /\ stage # "rest"
    /\ Fault
    /\ Ended(m, "error")
    /\ UNCHANGED <<clusterVars, config, state, stage, edits>>

\* createNamespaces: the namespaces are listed once ...
ListNamespaces(m) ==
    /\ At(m, "list")
    /\ job' = [job EXCEPT
                 ![m].at = "make",
                 ![m].missing = {ns \in NamespacesOf(config[m]) : ~Exists(ns)}]
    /\ NoFault
    /\ UNCHANGED <<clusterVars, config, state, stage, edits>>

\* Mutant of MakeNamespace: "already exists" is an error like any other.
MakeNewNamespace(m) ==
    /\ At(m, "make")
    /\ \E ns \in job[m].missing :
          IF Exists(ns)
          THEN Ended(m, "error") /\ UNCHANGED live
          ELSE /\ live' = [live EXCEPT ![ns] = Bare]
               /\ job' = [job EXCEPT ![m].missing = @ \ {ns}]
    /\ NoFault
    /\ UNCHANGED <<terminating, managed, drifts, config, state, stage, edits>>

\* ... and then made one by one, when another module may have made them.
MakeNamespace(m) ==
    /\ At(m, "make")
    /\ \E ns \in job[m].missing :
          /\ live' = [live EXCEPT ![ns] = IF Exists(ns) THEN @ ELSE Bare]
          /\ job' = [job EXCEPT ![m].missing = @ \ {ns}]
    /\ NoFault
    /\ UNCHANGED <<terminating, managed, drifts, config, state, stage, edits>>

Prior(m) == IF state[m] = NoState THEN Empty ELSE state[m].resources

\* Mutant of Removed: whatever was applied by this provider and is not here.
RemovedByAnyone(m) ==
    {id \in Ids \ IdsOf(config[m]) : ObjectOf[id] \in managed}

\* Mutant of Removed: objects are listed, and not ids.
RemovedObjects(m) ==
    {ObjectOf[id] : id \in IdsOf(Prior(m)) \ IdsOf(config[m])}

\* getResourceChanges.
Removed(m) == IdsOf(Prior(m)) \ IdsOf(config[m])

\* Mutant of Differing: kubectl diff reads what every module has expanded.
DifferingAnywhere(m) ==
    {id \in Ids : \E k \in Modules :
        config[k][id] \notin {Absent, live[ObjectOf[id]]}}

\* kubectl diff: the manifests whose object an apply would change, as far as
\* the differ can see.
Differing(m) ==
    {id \in IdsOf(config[m]) : Shows(live[ObjectOf[id]], config[m][id])}

\* The result map of a customize-diff that gets this far.
Results(m) ==
    LET changes == {<<id, TextOf[live[ObjectOf[id]]][config[m][id]]>>
                        : id \in Differing(m)}
    IN  [changes |-> changes, deletes |-> Removed(m),
         note |-> changes = {} /\ Removed(m) = {} /\ config[m] # Prior(m)]

CanDiff(m) == \A o \in ObjectsOf(config[m]) : Accepts(o)

Diff(m, round) ==
    /\ At(m, "make")
    /\ job[m].missing = {}
    /\ job[m].round = round

\* kubectl diff fails if the API server would turn a manifest down.
DiffFails(m) ==
    /\ \E round \in {"plan", "final"} : Diff(m, round)
    /\ ~CanDiff(m)
    /\ Ended(m, "error")
    /\ NoFault
    /\ UNCHANGED <<clusterVars, config, state, stage, edits>>

\* A plan without changes is left alone.
Plan(m) ==
    /\ Diff(m, "plan")
    /\ CanDiff(m)
    /\ LET unchanged == /\ state[m] # NoState
                        /\ state[m].resources = config[m]
                        /\ state[m].diff = Results(m)
       IN  IF unchanged
           THEN Ended(m, "ok")
           ELSE job' = [job EXCEPT ![m].at = "planned",
                                   ![m].shown = Results(m)]
    /\ NoFault
    /\ UNCHANGED <<clusterVars, config, state, stage, edits>>

\* The final plan, of one module, while others are applied.  Terraform turns
\* it down if it is not the plan that was shown; else Update deletes.
FinalPlan(m) ==
    /\ Diff(m, "final")
    /\ CanDiff(m)
    /\ IF Results(m) # job[m].shown
       THEN Ended(m, "rejected")
       ELSE job' = [job EXCEPT ![m].at = "delete", ![m].todo = Removed(m)]
    /\ NoFault
    /\ UNCHANGED <<clusterVars, config, state, stage, edits>>

-----------------------------------------------------------------------------
(* Create and Update of one module.                                        *)

\* A request took effect.  Its answer may be lost, which is a failure.
Answer(m, failed) ==
    \/ failed = FALSE /\ NoFault
    \/ failed = TRUE /\ Fault

\* Update returns the error of its delete; Terraform saves what was planned.
DeleteFails(m) ==
    /\ Ended(m, "error")
    /\ state' = [state EXCEPT ![m] = [resources |-> config[m],
                                      diff |-> job[m].shown]]

DeleteOne(m) ==
    /\ At(m, "delete")
    /\ \/ \E id \in job[m].todo, failed \in BOOLEAN :
             /\ RequestDelete(ObjectOf[id])
             /\ Answer(m, failed)
             /\ IF failed
                THEN DeleteFails(m)
                ELSE /\ job' = [job EXCEPT ![m].todo = @ \ {id}]
                     /\ UNCHANGED state
       \/ /\ job[m].todo # {}
          /\ Fault
          /\ DeleteFails(m)
          /\ UNCHANGED <<live, terminating, managed>>
    /\ UNCHANGED <<drifts, config, stage, edits>>

\* With all deleted, the bundle is applied; or Update is done if the diff was
\* empty.
BeginApply(m) ==
    /\ At(m, "delete")
    /\ job[m].todo = {}
    /\ IF job[m].shown = NoDiffs
       THEN /\ Ended(m, "ok")
            /\ state' = [state EXCEPT ![m] = [resources |-> config[m],
                                              diff |-> NoDiffs]]
       ELSE /\ job' = [job EXCEPT ![m].at = "apply",
                                  ![m].todo = IdsOf(config[m])]
            /\ UNCHANGED state
    /\ NoFault
    /\ UNCHANGED <<clusterVars, config, stage, edits>>

\* kubectl apply takes the manifests in the order of their kinds.
IsNext(m, id) == \A other \in job[m].todo : Rank[id] <= Rank[other]

Applied(m, id, failed) ==
    job' = [job EXCEPT ![m].todo = @ \ {id}, ![m].failed = @ \/ failed]

ApplyOne(m) ==
    /\ At(m, "apply")
    /\ \E id \in job[m].todo, failed \in BOOLEAN :
          /\ IsNext(m, id)
          /\ Applied(m, id, failed)
          /\ \/ /\ Accepts(ObjectOf[id])
                /\ Put(ObjectOf[id], config[m][id])
                /\ Answer(m, failed)
             \/ /\ failed
                /\ Fault \/ (~Accepts(ObjectOf[id]) /\ NoFault)
                /\ UNCHANGED <<live, terminating, managed>>
    /\ UNCHANGED <<drifts, config, state, stage, edits>>

\* A Create that fails saves nothing, an Update saves what was planned.
ApplyReturns(m) ==
    /\ At(m, "apply")
    /\ job[m].todo = {}
    /\ Ended(m, IF job[m].failed THEN "error" ELSE "ok")
    /\ IF job[m].failed /\ state[m] = NoState
       THEN UNCHANGED state
       ELSE state' = [state EXCEPT ![m] = [resources |-> config[m],
                                           diff |-> NoDiffs]]
    /\ NoFault
    /\ UNCHANGED <<clusterVars, config, stage, edits>>

-----------------------------------------------------------------------------
(* What others do.                                                         *)

EditConfig ==
    /\ stage = "rest"
    /\ edits < MaxEdits
    /\ edits' = edits + 1
    /\ config' \in Configs \ {config}
    /\ calm' = FALSE
    /\ UNCHANGED <<clusterVars, state, stage, job, faults>>

ClusterMoves ==
    /\ Finalize \/ Drift
    /\ calm' = FALSE
    /\ UNCHANGED <<config, state, stage, job, faults, edits>>

Terraform == StartRun \/ Approve \/ EndRun \/ Crash

Customize(m) ==
    \/ PlanFails(m) \/ ListNamespaces(m) \/ MakeNamespace(m)
    \/ DiffFails(m) \/ Plan(m) \/ FinalPlan(m)

Handle(m) == DeleteOne(m) \/ BeginApply(m) \/ ApplyOne(m) \/ ApplyReturns(m)

Next ==
    \/ Terraform
    \/ \E m \in Modules : Customize(m) \/ Handle(m)
    \/ EditConfig \/ ClusterMoves

Spec == Init /\ [][Next]_vars

-----------------------------------------------------------------------------
(* What the modules of a run may expect of each other.                     *)

\* Without failures and with nobody else at work, no module fails: that two of
\* them want the same namespace, and both find it missing, hurts neither.
\* ("already exists" in createNamespaces.)
NoneFails == calm => \A m \in Modules : job[m].how # "error"

\* What one module applies, and the namespaces that it makes, do not change
\* the plan of another: its final plan is the one that was shown.
\* (customize-diff runs again while other modules are applied.)
SamePlan == calm => \A m \in Modules : job[m].how # "rejected"

\* A run that ends well for all modules leaves what each of them expands to in
\* the cluster, up to what no diff shows: no module takes away or overwrites
\* what another has applied.  (Update deletes what its own state lists, and
\* only then applies.)
AllStand ==
    stage = "rest" /\ calm /\ (\A m \in Modules : job[m].how = "ok") =>
        \A m \in Modules :
            /\ state[m] # NoState
            /\ state[m].resources = config[m]
            /\ \A id \in IdsOf(config[m]) :
                  ~Shows(live[ObjectOf[id]], config[m][id])

=============================================================================

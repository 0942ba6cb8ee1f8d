--------------------------- MODULE ProfilesProofs ---------------------------
(***************************************************************************)
(* Theorems about several profile resources in one run of Terraform, for   *)
(* any number of modules, bundles, objects, failures and edits.            *)
(***************************************************************************)
EXTENDS Profiles, KubeProofs, TLAPS

-----------------------------------------------------------------------------
(* Types.                                                                  *)

Diffs == [changes : SUBSET (Ids \X Texts), deletes : SUBSET Ids, note : BOOLEAN]

\* The configuration gives each module a bundle, and so does the state.
LEMMA ConfigType ==
    ASSUME config \in Configs, NEW m \in Modules
    PROVE  config[m] \in AllBundles
BY ProfilesAssumption

\* What the state has for a module.
LEMMA PriorType ==
    ASSUME state \in [Modules -> States \cup {NoState}], NEW m \in Modules
    PROVE  Prior(m) \in AllBundles /\ Removed(m) \subseteq Ids
BY EmptyType DEF Prior, Removed, IdsOf, States

\* A result map has its type.
LEMMA ResultsType ==
    ASSUME TypeOK, NEW m \in Modules
    PROVE  Results(m) \in Diffs
<1>1. ASSUME NEW id \in Ids
      PROVE  TextOf[live[ObjectOf[id]]][config[m][id]] \in Texts
  <2>1. config[m] \in AllBundles
    BY ConfigType DEF TypeOK
  <2>2. live[ObjectOf[id]] \in Content /\ config[m][id] \in Content
    BY <2>1, IdsAssumption DEF TypeOK, ClusterTypeOK, AllBundles
  <2>3. QED
    BY <2>2, TextAssumption
<1>2. {<<id, TextOf[live[ObjectOf[id]]][config[m][id]]>> : id \in Differing(m)}
            \subseteq Ids \X Texts
  BY <1>1 DEF Differing, IdsOf
<1>3. QED
  BY <1>2, PriorType DEF Results, Diffs, TypeOK

\* The results that say nothing have the type of results.
LEMMA NoDiffsType == NoDiffs \in Diffs
BY DEF NoDiffs, Diffs

\* The jobs as they change.
LEMMA JobType ==
    ASSUME NEW j \in Jobs
    PROVE  /\ \A how \in {"none", "ok", "error", "rejected"} :
                 [j EXCEPT !.at = "done", !.how = how] \in Jobs
           /\ [j EXCEPT !.at = "list", !.round = "final"] \in Jobs
           /\ \A missing \in SUBSET Objects :
                 /\ [j EXCEPT !.at = "make", !.missing = missing] \in Jobs
                 /\ [j EXCEPT !.missing = missing] \in Jobs
           /\ \A shown \in Diffs :
                 [j EXCEPT !.at = "planned", !.shown = shown] \in Jobs
           /\ \A todo \in SUBSET Ids :
                 /\ [j EXCEPT !.at = "delete", !.todo = todo] \in Jobs
                 /\ [j EXCEPT !.at = "apply", !.todo = todo] \in Jobs
                 /\ [j EXCEPT !.todo = todo] \in Jobs
                 /\ \A failed \in BOOLEAN :
                       [j EXCEPT !.todo = todo, !.failed = failed] \in Jobs
BY DEF Jobs, Diffs

\* A failure is counted.
LEMMA FaultType ==
    ASSUME faults \in 0..MaxFaults, calm \in BOOLEAN, Fault \/ NoFault
    PROVE  faults' \in 0..MaxFaults /\ calm' \in BOOLEAN
<1>1. calm' \in BOOLEAN
  BY Zenon DEF Fault, NoFault
<1>2. (faults < MaxFaults /\ faults' = faults + 1) \/ faults' = faults
  BY Zenon DEF Fault, NoFault
<1>3. QED
  BY <1>1, <1>2, ProfilesAssumption

\* What a module saves.
LEMMA SavedType ==
    ASSUME TypeOK, NEW m \in Modules, NEW diff \in Diffs,
           state' = [state EXCEPT ![m] = [resources |-> config[m], diff |-> diff]]
    PROVE  state' \in [Modules -> States \cup {NoState}]
BY ConfigType DEF TypeOK, States, Diffs

\* The types hold at the start.
LEMMA TypeInit == Init => TypeOK
<1> SUFFICES ASSUME Init PROVE TypeOK
  OBVIOUS
<1>1. calm \in BOOLEAN
  BY Zenon DEF Init
<1>2. NewJob \in Jobs
  BY NoDiffsType DEF Jobs, NewJob, Diffs
<1>3. ClusterTypeOK
  BY ContentAssumption DEF Init, ClusterInit, ClusterTypeOK, Content
<1>4. job \in [Modules -> Jobs] /\ state \in [Modules -> States \cup {NoState}]
  BY <1>2 DEF Init
<1>5. faults \in 0..MaxFaults /\ edits \in 0..MaxEdits
  BY ProfilesAssumption DEF Init
<1>6. config \in Configs /\ stage \in {"rest", "plan", "apply"}
  BY DEF Init
<1>7. QED
  BY <1>1, <1>3, <1>4, <1>5, <1>6, Zenon DEF TypeOK

\* Planning keeps the types.
LEMMA TypeCustomize ==
    ASSUME TypeOK, NEW m \in Modules, Customize(m)
    PROVE  TypeOK'
<1>1. job[m] \in Jobs
  BY DEF TypeOK
<1>2. CASE PlanFails(m)
  BY <1>1, <1>2, JobType, FaultType
     DEF PlanFails, Ended, clusterVars, TypeOK, ClusterTypeOK
<1>3. CASE ListNamespaces(m)
  <2>1. {ns \in NamespacesOf(config[m]) : ~Exists(ns)} \in SUBSET Objects
    BY IdsAssumption DEF NamespacesOf, ObjectsOf, IdsOf
  <2>2. QED
    BY <1>1, <1>3, <2>1, JobType
       DEF ListNamespaces, NoFault, clusterVars, TypeOK, ClusterTypeOK
<1>4. CASE MakeNamespace(m)
  <2>1. PICK ns \in job[m].missing :
          /\ live' = [live EXCEPT ![ns] = IF Exists(ns) THEN @ ELSE Bare]
          /\ job' = [job EXCEPT ![m].missing = @ \ {ns}]
    BY <1>4 DEF MakeNamespace
  <2>2. live' \in [Objects -> Content]
    BY <2>1, ContentAssumption DEF TypeOK, ClusterTypeOK, Content
  <2>3. job' \in [Modules -> Jobs]
    <3>1. job[m].missing \ {ns} \in SUBSET Objects
      BY <1>1 DEF Jobs
    <3>2. QED
      BY <1>1, <2>1, <3>1, JobType DEF TypeOK
  <2>4. QED
    BY <1>4, <2>2, <2>3 DEF MakeNamespace, NoFault, TypeOK, ClusterTypeOK
<1>5. CASE DiffFails(m)
  BY <1>1, <1>5, JobType
     DEF DiffFails, Ended, NoFault, clusterVars, TypeOK, ClusterTypeOK
<1>6. CASE Plan(m)
  BY <1>1, <1>6, JobType, ResultsType
     DEF Plan, Ended, NoFault, clusterVars, TypeOK, ClusterTypeOK
<1>7. CASE FinalPlan(m)
  <2>1. Removed(m) \in SUBSET Ids
    BY PriorType DEF TypeOK
  <2>2. QED
    BY <1>1, <1>7, <2>1, JobType
       DEF FinalPlan, Ended, NoFault, clusterVars, TypeOK, ClusterTypeOK
<1>8. QED
  BY <1>2, <1>3, <1>4, <1>5, <1>6, <1>7 DEF Customize

\* Deleting and applying keep the types.
LEMMA TypeHandle ==
    ASSUME TypeOK, NEW m \in Modules, Handle(m)
    PROVE  TypeOK'
<1>1. /\ job[m] \in Jobs
      /\ job[m].todo \subseteq Ids
      /\ job[m].shown \in Diffs
      /\ IdsOf(config[m]) \subseteq Ids
  BY DEF TypeOK, Jobs, Diffs, IdsOf
<1>2. CASE DeleteOne(m)
  <2>1. /\ Fault \/ NoFault
        /\ \/ DeleteFails(m)
           \/ /\ \E id \in job[m].todo : job' = [job EXCEPT ![m].todo = @ \ {id}]
              /\ UNCHANGED state
    BY <1>2 DEF DeleteOne, Answer
  <2>2. \/ \E id \in job[m].todo : RequestDelete(ObjectOf[id])
        \/ UNCHANGED <<live, terminating, managed>>
    BY <1>2 DEF DeleteOne
  <2>3. /\ live' \in [Objects -> Content]
        /\ terminating' \subseteq Objects
        /\ managed' \subseteq Objects
    BY <1>1, <2>2, RequestDeleteType, IdsAssumption DEF TypeOK, ClusterTypeOK
  <2>4. /\ job' \in [Modules -> Jobs]
        /\ state' \in [Modules -> States \cup {NoState}]
    <3>1. CASE DeleteFails(m)
      BY <1>1, <3>1, JobType, SavedType DEF DeleteFails, Ended, TypeOK
    <3>2. CASE /\ \E id \in job[m].todo : job' = [job EXCEPT ![m].todo = @ \ {id}]
               /\ UNCHANGED state
      <4>1. PICK id \in job[m].todo : job' = [job EXCEPT ![m].todo = @ \ {id}]
        BY <3>2
      <4>2. [job[m] EXCEPT !.todo = job[m].todo \ {id}] \in Jobs
        BY <1>1, JobType
      <4>3. QED
        BY <3>2, <4>1, <4>2 DEF TypeOK
    <3>3. QED
      BY <2>1, <3>1, <3>2
  <2>5. QED
    BY <1>2, <2>1, <2>3, <2>4, FaultType DEF DeleteOne, TypeOK, ClusterTypeOK
<1>3. CASE BeginApply(m)
  <2>1. job' \in [Modules -> Jobs]
    <3>1. \/ job' = [job EXCEPT ![m].at = "done", ![m].how = "ok"]
          \/ job' = [job EXCEPT ![m].at = "apply",
                               ![m].todo = IdsOf(config[m])]
      BY <1>3, Zenon DEF BeginApply, Ended
    <3>2. /\ [job[m] EXCEPT !.at = "done", !.how = "ok"] \in Jobs
          /\ [job[m] EXCEPT !.at = "apply", !.todo = IdsOf(config[m])] \in Jobs
      BY <1>1, JobType
    <3>3. QED
      BY <3>1, <3>2 DEF TypeOK
  <2>2. state' \in [Modules -> States \cup {NoState}]
    <3>1. \/ UNCHANGED state
          \/ state' = [state EXCEPT ![m] = [resources |-> config[m],
                                            diff |-> NoDiffs]]
      BY <1>3, Zenon DEF BeginApply
    <3>2. QED
      BY <3>1, SavedType, NoDiffsType DEF TypeOK
  <2>3. QED
    <3>1. UNCHANGED <<clusterVars, config, stage, edits, faults, calm>>
      BY <1>3, Zenon DEF BeginApply, NoFault
    <3>2. QED
      BY <2>1, <2>2, <3>1 DEF clusterVars, TypeOK, ClusterTypeOK
<1>4. CASE ApplyOne(m)
  <2>1. PICK id \in job[m].todo, failed \in BOOLEAN :
          /\ Applied(m, id, failed)
          /\ \/ Put(ObjectOf[id], config[m][id])
             \/ UNCHANGED <<live, terminating, managed>>
          /\ Fault \/ NoFault
    BY <1>4 DEF ApplyOne, Answer
  <2>2. ObjectOf[id] \in Objects /\ config[m][id] \in Content
    BY <1>1, ConfigType, IdsAssumption DEF TypeOK, AllBundles
  <2>3. /\ live' \in [Objects -> Content]
        /\ terminating' \subseteq Objects
        /\ managed' \subseteq Objects
    BY <2>1, <2>2, PutType DEF TypeOK, ClusterTypeOK
  <2>4. job' \in [Modules -> Jobs]
    <3>1. job[m].failed \in BOOLEAN
      BY <1>1 DEF Jobs
    <3>2. QED
      BY <1>1, <2>1, <3>1, JobType DEF Applied, TypeOK
  <2>5. QED
    BY <1>4, <2>1, <2>3, <2>4, FaultType DEF ApplyOne, TypeOK, ClusterTypeOK
<1>5. CASE ApplyReturns(m)
  <2>1. /\ job' \in [Modules -> Jobs]
        /\ state' \in [Modules -> States \cup {NoState}]
    BY <1>1, <1>5, JobType, SavedType, NoDiffsType DEF ApplyReturns, Ended, TypeOK
  <2>2. QED
    BY <1>5, <2>1 DEF ApplyReturns, NoFault, clusterVars, TypeOK, ClusterTypeOK
<1>6. QED
  BY <1>2, <1>3, <1>4, <1>5 DEF Handle

\* The cluster keeps its type when others touch it.
LEMMA TypeCluster ==
    ASSUME ClusterTypeOK, Finalize \/ Drift
    PROVE  ClusterTypeOK'
<1>1. CASE Finalize
  BY <1>1, RemoveType DEF Finalize, ClusterTypeOK
<1>2. CASE Drift
  <2>1. PICK o \in Objects :
          \/ \E hash \in Hashes : live' = [live EXCEPT ![o] = hash]
                                  /\ UNCHANGED <<terminating, managed>>
          \/ Remove(o)
    BY <1>2 DEF Drift
  <2>2. drifts' \in 0..MaxDrifts
    BY <1>2, ContentAssumption DEF Drift, ClusterTypeOK
  <2>3. QED
    BY <2>1, <2>2, RemoveType DEF ClusterTypeOK, Content
<1>3. QED
  BY <1>1, <1>2

\* Every step keeps the types.
LEMMA TypeStep == TypeOK /\ [Next]_vars => TypeOK'
<1> SUFFICES ASSUME TypeOK, [Next]_vars PROVE TypeOK'
  OBVIOUS
<1>1. CASE StartRun
  BY <1>1, NoDiffsType
     DEF StartRun, clusterVars, TypeOK, ClusterTypeOK, Jobs, NewJob, Diffs
<1>2. CASE Approve
  BY <1>2, JobType DEF Approve, clusterVars, TypeOK, ClusterTypeOK
<1>3. CASE EndRun
  BY <1>3 DEF EndRun, clusterVars, TypeOK, ClusterTypeOK
<1>4. CASE Crash
  BY <1>4, JobType, FaultType DEF Crash, clusterVars, TypeOK, ClusterTypeOK
<1>5. CASE \E m \in Modules : Customize(m) \/ Handle(m)
  BY <1>5, TypeCustomize, TypeHandle
<1>6. CASE EditConfig
  <2>1. calm' \in BOOLEAN
    BY <1>6, Zenon DEF EditConfig
  <2>2. /\ config' \in Configs
        /\ edits < MaxEdits /\ edits' = edits + 1
        /\ UNCHANGED <<clusterVars, state, stage, job, faults>>
    BY <1>6, Zenon DEF EditConfig
  <2>3. edits' \in 0..MaxEdits
    BY <2>2, ProfilesAssumption DEF TypeOK
  <2>4. QED
    BY <2>1, <2>2, <2>3 DEF clusterVars, TypeOK, ClusterTypeOK
<1>7. CASE ClusterMoves
  BY <1>7, TypeCluster DEF ClusterMoves, TypeOK
<1>8. CASE UNCHANGED vars
  BY <1>8 DEF vars, clusterVars, TypeOK, ClusterTypeOK
<1>9. QED
  BY <1>1, <1>2, <1>3, <1>4, <1>5, <1>6, <1>7, <1>8 DEF Next, Terraform

\* Every variable keeps its type, for any number of modules.
THEOREM TypeCorrect == Spec => []TypeOK
BY TypeInit, TypeStep, PTL DEF Spec

-----------------------------------------------------------------------------
(* What the modules of a run expect of each other.                         *)

\* The bundles of different modules have no object in common, whatever the
\* configuration was and is.
Apart ==
    \A one, two \in Configs, m, k \in Modules :
        m # k => ObjectsOf(one[m]) \cap ObjectsOf(two[k]) = {}

Stands(m) ==
    \A id \in IdsOf(config[m]) : ~Shows(live[ObjectOf[id]], config[m][id])

\* What a module has saved was its bundle at some time; a diff is only saved
\* when it has deletes.
StateInv(m) ==
    state[m] # NoState =>
        /\ \E old \in Configs : state[m].resources = old[m]
        /\ state[m].diff = NoDiffs \/ state[m].diff.deletes # {}

\* What a module has to do is part of its plan.
JobInv(m) ==
    /\ job[m].at \in {"make", "delete", "apply"} => stage # "rest"
    /\ job[m].at = "make" => job[m].missing \subseteq NamespacesOf(config[m])
    /\ job[m].at = "delete" =>
            /\ job[m].todo \subseteq Removed(m)
            /\ job[m].todo \subseteq job[m].shown.deletes
    /\ job[m].at = "apply" => job[m].todo \subseteq IdsOf(config[m])

\* In a calm run the namespaces are there once they have been made ...
ReadyInv(m) ==
    /\ job[m].at = "make" =>
            \A ns \in NamespacesOf(config[m]) : Exists(ns) \/ ns \in job[m].missing
    /\ job[m].at \in {"delete", "apply"} =>
            \A ns \in NamespacesOf(config[m]) : Exists(ns)

\* ... and a plan stays right from the time it is shown to that of the apply.
PlanInv(m) ==
    /\ job[m].at \in {"planned", "delete"} => job[m].shown = Results(m)
    /\ job[m].at \in {"list", "make"} /\ job[m].round = "final" =>
            job[m].shown = Results(m)

\* What is applied stands, during the apply and after it.
StandInv(m) ==
    /\ job[m].at = "apply" =>
            \A id \in IdsOf(config[m]) \ job[m].todo :
                live[ObjectOf[id]] = config[m][id]
    /\ job[m].how = "ok" =>
            /\ job[m].at = "done"
            /\ state[m] # NoState
            /\ state[m].resources = config[m]
            /\ Stands(m)

CalmInv(m) ==
    /\ job[m].how \in {"none", "ok"}
    /\ ~job[m].failed
    /\ ReadyInv(m)
    /\ PlanInv(m)
    /\ StandInv(m)

\* The namespace of no manifest is being deleted.
NamespacesStay == \A id \in Ids : NamespaceOf[ObjectOf[id]] \notin terminating

\* All of it, for one module.
ModuleInv(m) ==
    /\ StateInv(m)
    /\ JobInv(m)
    /\ calm => CalmInv(m)

RunInv ==
    /\ TypeOK
    /\ NamespacesStay
    /\ \A m \in Modules : ModuleInv(m)

\* A step leaves the objects of a module, and its namespaces, as they are.
Untouched(m) ==
    /\ \A id \in IdsOf(config[m]) : live'[ObjectOf[id]] = live[ObjectOf[id]]
    /\ \A ns \in NamespacesOf(config[m]) : Exists(ns) => live'[ns] # Absent

\* A namespace of a bundle is an object, and that of one of its ids.
LEMMA BundleNamespace ==
    ASSUME NEW bundle, NEW ns \in NamespacesOf(bundle)
    PROVE  /\ ns \in Objects
           /\ \E id \in IdsOf(bundle) : id \in Ids /\ ns = NamespaceOf[ObjectOf[id]]
BY IdsAssumption DEF NamespacesOf, ObjectsOf, IdsOf

\* The results of a module depend on nothing but its objects and its state.
LEMMA SameResults ==
    ASSUME NEW m \in Modules, UNCHANGED config, state'[m] = state[m],
           \A id \in IdsOf(config[m]) : live'[ObjectOf[id]] = live[ObjectOf[id]]
    PROVE  /\ Results(m)' = Results(m)
           /\ Removed(m)' = Removed(m)
<1>1. Prior(m)' = Prior(m)
  BY DEF Prior
<1>2. Removed(m)' = Removed(m)
  BY <1>1 DEF Removed
<1>3. Differing(m)' = Differing(m)
  BY DEF Differing, IdsOf, Shows
<1>4. {<<id, TextOf[live'[ObjectOf[id]]][config'[m][id]]>> : id \in Differing(m)'}
        = {<<id, TextOf[live[ObjectOf[id]]][config[m][id]]>> : id \in Differing(m)}
  BY <1>3 DEF Differing
<1>5. QED
  BY <1>1, <1>2, <1>4 DEF Results

\* A module that a step does not touch keeps its invariant.
LEMMA OtherModule ==
    ASSUME NEW m \in Modules, ModuleInv(m), Untouched(m),
           job'[m] = job[m], state'[m] = state[m], UNCHANGED <<config, stage>>,
           calm' => calm
    PROVE  ModuleInv(m)'
<1>1. Results(m)' = Results(m) /\ Removed(m)' = Removed(m)
  BY SameResults DEF Untouched
<1>2. StateInv(m)'
  BY DEF ModuleInv, StateInv
<1>3. JobInv(m)'
  BY <1>1 DEF ModuleInv, JobInv
<1>4. ASSUME calm' PROVE CalmInv(m)'
  <2>1. CalmInv(m)
    BY <1>4, Zenon DEF ModuleInv
  <2>2. ReadyInv(m)'
    BY <2>1 DEF CalmInv, ReadyInv, Untouched, Exists
  <2>3. PlanInv(m)'
    BY <1>1, <2>1 DEF CalmInv, PlanInv
  <2>4. StandInv(m)'
    BY <2>1 DEF CalmInv, StandInv, Stands, Untouched
  <2>5. QED
    BY <2>1, <2>2, <2>3, <2>4 DEF CalmInv
<1>5. QED
  BY <1>2, <1>3, <1>4, Zenon DEF ModuleInv

\* A delete of one module touches no other module.
LEMMA DeleteUntouched ==
    ASSUME RunInv, Apart, NoNamespaceManifests,
           NEW k \in Modules, NEW id \in Removed(k), RequestDelete(ObjectOf[id])
    PROVE  /\ NamespacesStay'
           /\ \A m \in Modules : m # k => Untouched(m)
<1>1. id \in Ids /\ ClusterTypeOK
  BY DEF Removed, IdsOf, RunInv, TypeOK
<1>2. NamespacesStay'
  BY <1>1, RequestDeleteApart DEF NamespacesStay, RunInv
<1>3. ASSUME NEW m \in Modules, m # k PROVE Untouched(m)
  <2>1. PICK old \in Configs : id \in IdsOf(old[k])
    <3>1. state[k] # NoState /\ id \in IdsOf(state[k].resources)
      BY DEF Removed, Prior, IdsOf, Empty
    <3>2. QED
      BY <3>1 DEF RunInv, ModuleInv, StateInv
  <2>2. \A other \in IdsOf(config[m]) : ObjectOf[other] # ObjectOf[id]
    BY <1>3, <2>1 DEF Apart, ObjectsOf, RunInv, TypeOK
  <2>3. \A other \in IdsOf(config[m]) :
            live'[ObjectOf[other]] = live[ObjectOf[other]]
    BY <1>1, <2>2, RequestDeleteApart DEF IdsOf
  <2>4. \A ns \in NamespacesOf(config[m]) : live'[ns] = live[ns]
    BY <1>1, BundleNamespace, RequestDeleteApart
  <2>5. QED
    BY <2>3, <2>4 DEF Untouched, Exists
<1>4. QED
  BY <1>2, <1>3

\* So does an apply, which leaves the namespaces of its own module in place.
LEMMA PutUntouched ==
    ASSUME RunInv, Apart, NoNamespaceManifests,
           NEW k \in Modules, NEW id \in IdsOf(config[k]),
           Put(ObjectOf[id], config[k][id])
    PROVE  /\ NamespacesStay'
           /\ \A m \in Modules : m # k => Untouched(m)
           /\ \A ns \in NamespacesOf(config[k]) : live'[ns] = live[ns]
<1>1. id \in Ids
  BY DEF IdsOf
<1>2. \A m \in Modules : \A ns \in NamespacesOf(config[m]) : live'[ns] = live[ns]
  <2>1. ASSUME NEW m \in Modules, NEW ns \in NamespacesOf(config[m])
        PROVE  live'[ns] = live[ns]
    <3>1. ns \in Objects /\ ns # ObjectOf[id]
      BY <1>1, BundleNamespace DEF NoNamespaceManifests
    <3>2. QED
      BY <3>1 DEF Put, RunInv, TypeOK, ClusterTypeOK
  <2>2. QED
    BY <2>1
<1>3. ASSUME NEW m \in Modules, m # k, NEW other \in IdsOf(config[m])
      PROVE  live'[ObjectOf[other]] = live[ObjectOf[other]]
  <2>1. ObjectOf[other] # ObjectOf[id]
    BY <1>3 DEF Apart, ObjectsOf, RunInv, TypeOK
  <2>2. ObjectOf[other] \in Objects
    BY IdsAssumption DEF IdsOf
  <2>3. QED
    BY <2>1, <2>2 DEF Put, RunInv, TypeOK, ClusterTypeOK
<1>4. NamespacesStay'
  BY DEF Put, NamespacesStay, RunInv
<1>5. QED
  BY <1>2, <1>3, <1>4 DEF Untouched, Exists

\* Making a namespace touches no manifest of any module.
LEMMA MakeUntouched ==
    ASSUME RunInv, NoNamespaceManifests,
           NEW k \in Modules, NEW made \in NamespacesOf(config[k]),
           live' = [live EXCEPT ![made] = IF Exists(made) THEN @ ELSE Bare]
    PROVE  /\ \A m \in Modules : Untouched(m)
           /\ live'[made] # Absent
<1>1. made \in Objects /\ \A id \in Ids : ObjectOf[id] # made
  BY BundleNamespace DEF NoNamespaceManifests
<1>2. live \in [Objects -> Content]
  BY DEF RunInv, TypeOK, ClusterTypeOK
<1>3. live'[made] # Absent
  BY <1>1, <1>2, ContentAssumption DEF Exists
<1>4. ASSUME NEW m \in Modules PROVE Untouched(m)
  <2>1. \A id \in IdsOf(config[m]) :
            ObjectOf[id] \in Objects /\ ObjectOf[id] # made
    BY <1>1, IdsAssumption DEF IdsOf
  <2>2. \A ns \in NamespacesOf(config[m]) : ns \in Objects
    BY BundleNamespace
  <2>3. QED
    BY <1>1, <1>2, <1>3, <2>1, <2>2 DEF Untouched, Exists
<1>5. QED
  BY <1>3, <1>4

\* Nothing happens to the cluster.
LEMMA StillUntouched ==
    ASSUME RunInv, UNCHANGED <<live, terminating>>
    PROVE  NamespacesStay' /\ \A m \in Modules : Untouched(m)
BY DEF RunInv, NamespacesStay, Untouched, Exists

\* A module that is done owes what it has saved, and in a calm run that all
\* went well.
LEMMA DoneInv ==
    ASSUME NEW m \in Modules, job \in [Modules -> Jobs], NEW how, Ended(m, how),
           StateInv(m)',
           calm' => /\ how = "ok" /\ ~job[m].failed
                    /\ state'[m] # NoState
                    /\ state'[m].resources = config'[m]
                    /\ Stands(m)'
    PROVE  ModuleInv(m)'
<1>1. /\ job'[m].at = "done"
      /\ job'[m].how = how
      /\ job'[m].failed = job[m].failed
  BY DEF Ended, Jobs
<1>2. JobInv(m)'
  BY <1>1 DEF JobInv
<1>3. ASSUME calm' PROVE CalmInv(m)'
  BY <1>1, <1>3 DEF CalmInv, ReadyInv, PlanInv, StandInv
<1>4. QED
  BY <1>2, <1>3, Zenon DEF ModuleInv

\* What a step of a module owes: its own invariant, and the peace of the others.
StepInv(k) ==
    /\ ModuleInv(k)'
    /\ NamespacesStay'
    /\ \A m \in Modules : m # k => Untouched(m)

\* A plan that fails has ended a calm run.
LEMMA PlanFailsStep ==
    ASSUME RunInv, NEW m \in Modules, PlanFails(m)
    PROVE  StepInv(m)
<1>1. /\ UNCHANGED <<live, terminating, state, config>>
      /\ Ended(m, "error")
  BY DEF PlanFails, clusterVars
<1>2. ~calm'
  BY Zenon DEF PlanFails, Fault
<1>3. StateInv(m)'
  BY <1>1 DEF RunInv, ModuleInv, StateInv
<1>4. ModuleInv(m)'
  BY <1>1, <1>2, <1>3, DoneInv DEF RunInv, TypeOK
<1>5. QED
  BY <1>1, <1>4, StillUntouched DEF StepInv

\* What a module has listed as missing is all that is missing for it.
LEMMA ListStep ==
    ASSUME RunInv, NEW m \in Modules, ListNamespaces(m)
    PROVE  StepInv(m)
<1>1. /\ UNCHANGED <<live, terminating, state, config, stage>>
      /\ stage # "rest"
      /\ job[m].at = "list"
      /\ job \in [Modules -> Jobs]
      /\ job' = [job EXCEPT
                   ![m].at = "make",
                   ![m].missing = {ns \in NamespacesOf(config[m]) : ~Exists(ns)}]
  BY DEF ListNamespaces, At, clusterVars, RunInv, TypeOK
<1>2. /\ job'[m].at = "make"
      /\ job'[m].missing = {ns \in NamespacesOf(config[m]) : ~Exists(ns)}
      /\ job'[m].round = job[m].round
      /\ job'[m].shown = job[m].shown
      /\ job'[m].how = job[m].how
      /\ job'[m].failed = job[m].failed
  BY <1>1 DEF Jobs
<1>3. Results(m)' = Results(m)
  BY <1>1, SameResults
<1>4. StateInv(m)' /\ JobInv(m)'
  BY <1>1, <1>2 DEF RunInv, ModuleInv, StateInv, JobInv
<1>5. ASSUME calm' PROVE CalmInv(m)'
  <2>1. CalmInv(m)
    BY <1>5, Zenon DEF ListNamespaces, NoFault, RunInv, ModuleInv
  <2>2. ReadyInv(m)'
    BY <1>1, <1>2 DEF ReadyInv, Exists
  <2>3. PlanInv(m)'
    BY <1>1, <1>2, <1>3, <2>1 DEF CalmInv, PlanInv
  <2>4. QED
    BY <1>1, <1>2, <2>1, <2>2, <2>3 DEF CalmInv, StandInv
<1>6. ModuleInv(m)'
  BY <1>4, <1>5, Zenon DEF ModuleInv
<1>7. QED
  BY <1>1, <1>6, StillUntouched DEF StepInv

\* A namespace that a module makes is no longer missing, for it or another.
LEMMA MakeStep ==
    ASSUME RunInv, NoNamespaceManifests, NEW m \in Modules, MakeNamespace(m)
    PROVE  StepInv(m)
<1>1. /\ UNCHANGED <<terminating, state, config, stage>>
      /\ stage # "rest"
      /\ job[m].at = "make"
      /\ job \in [Modules -> Jobs]
  BY DEF MakeNamespace, At, RunInv, TypeOK
<1>2. PICK ns \in job[m].missing :
        /\ live' = [live EXCEPT ![ns] = IF Exists(ns) THEN @ ELSE Bare]
        /\ job' = [job EXCEPT ![m].missing = @ \ {ns}]
  BY DEF MakeNamespace
<1>3. ns \in NamespacesOf(config[m])
  BY <1>1 DEF RunInv, ModuleInv, JobInv
<1>4. (\A k \in Modules : Untouched(k)) /\ live'[ns] # Absent
  BY <1>2, <1>3, MakeUntouched
<1>5. /\ job'[m].at = "make"
      /\ job'[m].missing = job[m].missing \ {ns}
      /\ job'[m].round = job[m].round
      /\ job'[m].shown = job[m].shown
      /\ job'[m].how = job[m].how
      /\ job'[m].failed = job[m].failed
  BY <1>1, <1>2 DEF Jobs
<1>6. Results(m)' = Results(m)
  BY <1>1, <1>4, SameResults DEF Untouched
<1>7. StateInv(m)' /\ JobInv(m)'
  BY <1>1, <1>5 DEF RunInv, ModuleInv, StateInv, JobInv
<1>8. ASSUME calm' PROVE CalmInv(m)'
  <2>1. CalmInv(m)
    BY <1>8, Zenon DEF MakeNamespace, NoFault, RunInv, ModuleInv
  <2>2. ReadyInv(m)'
    BY <1>1, <1>4, <1>5, <2>1 DEF CalmInv, ReadyInv, Untouched, Exists
  <2>3. PlanInv(m)'
    BY <1>1, <1>5, <1>6, <2>1 DEF CalmInv, PlanInv
  <2>4. QED
    BY <1>1, <1>5, <2>1, <2>2, <2>3 DEF CalmInv, StandInv
<1>9. ModuleInv(m)'
  BY <1>7, <1>8, Zenon DEF ModuleInv
<1>10. NamespacesStay'
  BY <1>1 DEF RunInv, NamespacesStay
<1>11. QED
  BY <1>4, <1>9, <1>10 DEF StepInv

\* In a calm run the API server accepts the manifests of a module whose
\* namespaces are there.
LEMMA CalmAccepts ==
    ASSUME RunInv, NEW m \in Modules, NEW id \in IdsOf(config[m]),
           \A ns \in NamespacesOf(config[m]) : Exists(ns)
    PROVE  Accepts(ObjectOf[id])
<1>1. id \in Ids
  BY DEF IdsOf
<1>2. NamespaceOf[ObjectOf[id]] \notin terminating
  BY <1>1 DEF RunInv, NamespacesStay
<1>3. NamespaceOf[ObjectOf[id]] # NoNamespace => Exists(NamespaceOf[ObjectOf[id]])
  BY DEF NamespacesOf, ObjectsOf
<1>4. QED
  BY <1>2, <1>3 DEF Accepts

\* In a calm run kubectl diff finds the namespaces that createNamespaces left.
LEMMA CalmDiffs ==
    ASSUME RunInv, calm, NEW m \in Modules, job[m].at = "make",
           job[m].missing = {}
    PROVE  CanDiff(m) /\ \A ns \in NamespacesOf(config[m]) : Exists(ns)
<1>1. CalmInv(m)
  BY Zenon DEF RunInv, ModuleInv
<1>2. \A ns \in NamespacesOf(config[m]) : Exists(ns)
  BY <1>1 DEF CalmInv, ReadyInv
<1>3. QED
  BY <1>2, CalmAccepts DEF CanDiff, ObjectsOf

\* In a calm run the diff does not fail.
LEMMA DiffFailsStep ==
    ASSUME RunInv, NEW m \in Modules, DiffFails(m)
    PROVE  StepInv(m)
<1>1. /\ UNCHANGED <<live, terminating, state, config>>
      /\ Ended(m, "error")
      /\ job[m].at = "make"
      /\ job[m].missing = {}
      /\ ~CanDiff(m)
  BY DEF DiffFails, Diff, At, clusterVars
<1>2. ~calm'
  <2>1. ~calm
    BY <1>1, CalmDiffs
  <2>2. QED
    BY <2>1, Zenon DEF DiffFails, NoFault
<1>3. StateInv(m)'
  BY <1>1 DEF RunInv, ModuleInv, StateInv
<1>4. ModuleInv(m)'
  BY <1>1, <1>2, <1>3, DoneInv DEF RunInv, TypeOK
<1>5. QED
  BY <1>1, <1>4, StillUntouched DEF StepInv

\* If nothing differs, all that the module has is as it should be.
LEMMA NothingDiffers ==
    ASSUME RunInv, NEW m \in Modules, Results(m).changes = {}
    PROVE  Stands(m)
BY DEF Results, Differing, Stands

\* What a plan shows depends on objects that no other module touches.
LEMMA PlanStep ==
    ASSUME RunInv, NEW m \in Modules, Plan(m)
    PROVE  StepInv(m)
<1>1. /\ UNCHANGED <<live, terminating, state, config, stage>>
      /\ job[m].at = "make"
      /\ job[m].missing = {}
      /\ job \in [Modules -> Jobs]
  BY DEF Plan, Diff, At, clusterVars, RunInv, TypeOK
<1>2. calm' => calm
  BY Zenon DEF Plan, NoFault
<1>3. Results(m)' = Results(m) /\ Stands(m)' = Stands(m)
  BY <1>1, SameResults DEF Stands
<1>4. StateInv(m)'
  BY <1>1 DEF RunInv, ModuleInv, StateInv
<1>5. CASE /\ Ended(m, "ok")
           /\ state[m] # NoState
           /\ state[m].resources = config[m]
           /\ state[m].diff = Results(m)
  <2>1. Results(m).deletes = {}
    BY <1>5 DEF Results, Removed, Prior
  <2>2. Results(m) = NoDiffs
    BY <1>5, <2>1 DEF RunInv, ModuleInv, StateInv
  <2>3. Stands(m)
    BY <2>2, NothingDiffers DEF NoDiffs
  <2>4. calm => ~job[m].failed
    BY Zenon DEF RunInv, ModuleInv, CalmInv
  <2>5. ModuleInv(m)'
    BY <1>1, <1>2, <1>3, <1>4, <1>5, <2>3, <2>4, DoneInv
  <2>6. QED
    BY <1>1, <2>5, StillUntouched DEF StepInv
<1>6. CASE job' = [job EXCEPT ![m].at = "planned", ![m].shown = Results(m)]
  <2>1. /\ job'[m].at = "planned"
        /\ job'[m].shown = Results(m)
        /\ job'[m].how = job[m].how
        /\ job'[m].failed = job[m].failed
    BY <1>1, <1>6 DEF Jobs
  <2>2. JobInv(m)'
    BY <2>1 DEF JobInv
  <2>3. ASSUME calm' PROVE CalmInv(m)'
    <3>1. CalmInv(m)
      BY <1>2, <2>3, Zenon DEF RunInv, ModuleInv
    <3>2. QED
      BY <1>1, <1>3, <2>1, <3>1 DEF CalmInv, ReadyInv, PlanInv, StandInv
  <2>4. ModuleInv(m)'
    BY <1>4, <2>2, <2>3, Zenon DEF ModuleInv
  <2>5. QED
    BY <1>1, <2>4, StillUntouched DEF StepInv
<1>7. QED
  BY <1>5, <1>6, Zenon DEF Plan

\* In a calm run the final plan is the plan that was shown.
LEMMA FinalPlanStep ==
    ASSUME RunInv, NEW m \in Modules, FinalPlan(m)
    PROVE  StepInv(m)
<1>1. /\ UNCHANGED <<live, terminating, state, config, stage>>
      /\ stage # "rest"
      /\ job[m].at = "make"
      /\ job[m].round = "final"
      /\ job[m].missing = {}
      /\ job \in [Modules -> Jobs]
  BY DEF FinalPlan, Diff, At, clusterVars, RunInv, TypeOK
<1>2. calm' => calm
  BY Zenon DEF FinalPlan, NoFault
<1>3. Results(m)' = Results(m) /\ Removed(m)' = Removed(m)
  BY <1>1, SameResults
<1>4. StateInv(m)'
  BY <1>1 DEF RunInv, ModuleInv, StateInv
<1>5. CASE Results(m) # job[m].shown /\ Ended(m, "rejected")
  <2>1. ~calm
    BY <1>1, <1>5, Zenon DEF RunInv, ModuleInv, CalmInv, PlanInv
  <2>2. ~calm'
    BY <1>2, <2>1
  <2>3. ModuleInv(m)'
    BY <1>1, <1>4, <1>5, <2>2, DoneInv
  <2>4. QED
    BY <1>1, <2>3, StillUntouched DEF StepInv
<1>6. CASE /\ Results(m) = job[m].shown
           /\ job' = [job EXCEPT ![m].at = "delete", ![m].todo = Removed(m)]
  <2>1. /\ job'[m].at = "delete"
        /\ job'[m].todo = Removed(m)
        /\ job'[m].shown = Results(m)
        /\ job'[m].how = job[m].how
        /\ job'[m].failed = job[m].failed
    BY <1>1, <1>6 DEF Jobs
  <2>2. JobInv(m)'
    <3>1. Results(m).deletes = Removed(m)
      BY DEF Results
    <3>2. QED
      BY <1>1, <1>3, <2>1, <3>1 DEF JobInv
  <2>3. ASSUME calm' PROVE CalmInv(m)'
    <3>1. CalmInv(m)
      BY <1>2, <2>3, Zenon DEF RunInv, ModuleInv
    <3>2. \A ns \in NamespacesOf(config[m]) : Exists(ns)
      BY <1>1, <1>2, <2>3, CalmDiffs
    <3>3. ReadyInv(m)'
      BY <1>1, <2>1, <3>2 DEF ReadyInv, Exists
    <3>4. QED
      BY <1>1, <1>3, <2>1, <3>1, <3>3 DEF CalmInv, PlanInv, StandInv
  <2>4. ModuleInv(m)'
    BY <1>4, <2>2, <2>3, Zenon DEF ModuleInv
  <2>5. QED
    BY <1>1, <2>4, StillUntouched DEF StepInv
<1>7. QED
  BY <1>5, <1>6, Zenon DEF FinalPlan

\* Update's delete: what the module saves when it fails has its deletes.
LEMMA DeleteStep ==
    ASSUME RunInv, Apart, NoNamespaceManifests, OneIdPerObject,
           NEW m \in Modules, DeleteOne(m)
    PROVE  StepInv(m)
<1>1. /\ UNCHANGED <<config, stage>>
      /\ stage # "rest"
      /\ job[m].at = "delete"
      /\ job \in [Modules -> Jobs]
      /\ state \in [Modules -> States \cup {NoState}]
      /\ config \in Configs
      /\ job[m].todo \subseteq Removed(m)
      /\ job[m].todo \subseteq job[m].shown.deletes
  BY DEF DeleteOne, At, RunInv, TypeOK, ModuleInv, JobInv
<1>2. ASSUME NEW id \in job[m].todo, DeleteFails(m), ~calm',
             NamespacesStay', \A k \in Modules : k # m => Untouched(k)
      PROVE  StepInv(m)
  <2>1. state'[m] = [resources |-> config[m], diff |-> job[m].shown]
    BY <1>1, <1>2 DEF DeleteFails
  <2>2. job[m].shown.deletes # {}
    BY <1>1, <1>2
  <2>3. StateInv(m)'
    BY <1>1, <2>1, <2>2 DEF StateInv
  <2>4. ModuleInv(m)'
    BY <1>1, <1>2, <2>3, DoneInv DEF DeleteFails
  <2>5. QED
    BY <1>2, <2>4 DEF StepInv
<1>3. ASSUME NEW id \in job[m].todo, NEW failed \in BOOLEAN,
             RequestDelete(ObjectOf[id]), Answer(m, failed),
             IF failed
             THEN DeleteFails(m)
             ELSE /\ job' = [job EXCEPT ![m].todo = @ \ {id}]
                  /\ UNCHANGED state
      PROVE  StepInv(m)
  <2>1. NamespacesStay' /\ \A k \in Modules : k # m => Untouched(k)
    BY <1>1, <1>3, DeleteUntouched
  <2>2. CASE failed
    <3>1. ~calm'
      BY <1>3, <2>2, Zenon DEF Answer, Fault
    <3>2. DeleteFails(m)
      BY <1>3, <2>2
    <3>3. QED
      BY <1>2, <2>1, <3>1, <3>2
  <2>3. CASE ~failed
    <3>1. calm' => calm
      BY <1>3, <2>3, Zenon DEF Answer, NoFault
    <3>2. /\ job' = [job EXCEPT ![m].todo = @ \ {id}]
          /\ UNCHANGED state
      BY <1>3, <2>3
    <3>3. /\ job'[m].at = "delete"
          /\ job'[m].todo = job[m].todo \ {id}
          /\ job'[m].shown = job[m].shown
          /\ job'[m].how = job[m].how
          /\ job'[m].failed = job[m].failed
      BY <1>1, <3>2 DEF Jobs
    <3>4. id \in Ids /\ id \notin IdsOf(config[m])
      BY <1>1 DEF Removed, IdsOf
    <3>5. \A other \in IdsOf(config[m]) :
              live'[ObjectOf[other]] = live[ObjectOf[other]]
      BY <1>3, <3>4, RequestDeleteApart DEF OneIdPerObject, IdsOf, RunInv, TypeOK
    <3>6. \A ns \in NamespacesOf(config[m]) : live'[ns] = live[ns]
      BY <1>3, <3>4, BundleNamespace, RequestDeleteApart DEF RunInv, TypeOK
    <3>7. Results(m)' = Results(m) /\ Removed(m)' = Removed(m)
      BY <1>1, <3>2, <3>5, SameResults
    <3>8. StateInv(m)' /\ JobInv(m)'
      BY <1>1, <3>2, <3>3, <3>7 DEF RunInv, ModuleInv, StateInv, JobInv
    <3>9. ASSUME calm' PROVE CalmInv(m)'
      <4>1. CalmInv(m)
        BY <3>1, <3>9, Zenon DEF RunInv, ModuleInv
      <4>2. ReadyInv(m)'
        BY <1>1, <3>3, <3>6, <4>1 DEF CalmInv, ReadyInv, Exists
      <4>3. QED
        BY <1>1, <3>3, <3>7, <4>1, <4>2 DEF CalmInv, PlanInv, StandInv
    <3>10. ModuleInv(m)'
      BY <3>8, <3>9, Zenon DEF ModuleInv
    <3>11. QED
      BY <2>1, <3>10 DEF StepInv
  <2>4. QED
    BY <2>2, <2>3
<1>4. ASSUME job[m].todo # {}, Fault, DeleteFails(m),
             UNCHANGED <<live, terminating, managed>>
      PROVE  StepInv(m)
  <2>1. ~calm'
    BY <1>4, Zenon DEF Fault
  <2>2. NamespacesStay' /\ \A k \in Modules : Untouched(k)
    BY <1>4, StillUntouched
  <2>3. QED
    BY <1>2, <1>4, <2>1, <2>2
<1>5. QED
  BY <1>3, <1>4 DEF DeleteOne

\* With nothing left to delete and an empty diff the bundle stands as it is.
LEMMA BeginApplyStep ==
    ASSUME RunInv, NEW m \in Modules, BeginApply(m)
    PROVE  StepInv(m)
<1>1. /\ UNCHANGED <<live, terminating, config, stage>>
      /\ stage # "rest"
      /\ job[m].at = "delete"
      /\ job \in [Modules -> Jobs]
      /\ state \in [Modules -> States \cup {NoState}]
      /\ config \in Configs
  BY DEF BeginApply, At, clusterVars, RunInv, TypeOK
<1>2. calm' => calm
  BY Zenon DEF BeginApply, NoFault
<1>3. CASE /\ job[m].shown = NoDiffs
           /\ Ended(m, "ok")
           /\ state' = [state EXCEPT ![m] = [resources |-> config[m],
                                             diff |-> NoDiffs]]
  <2>1. state'[m] = [resources |-> config[m], diff |-> NoDiffs]
    BY <1>1, <1>3
  <2>2. state'[m] # NoState
    BY <1>1, <2>1, ProfilesAssumption, ConfigType, NoDiffsType DEF States, Diffs
  <2>3. StateInv(m)'
    BY <1>1, <2>1 DEF StateInv
  <2>4. ASSUME calm PROVE ~job[m].failed /\ Stands(m)'
    <3>1. CalmInv(m)
      BY <2>4, Zenon DEF RunInv, ModuleInv
    <3>2. Results(m) = NoDiffs
      BY <1>1, <1>3, <3>1 DEF CalmInv, PlanInv
    <3>3. Stands(m)
      BY <3>2, NothingDiffers DEF NoDiffs
    <3>4. QED
      BY <1>1, <3>1, <3>3 DEF CalmInv, Stands
  <2>5. ModuleInv(m)'
    BY <1>1, <1>2, <1>3, <2>1, <2>2, <2>3, <2>4, DoneInv
  <2>6. QED
    BY <1>1, <2>5, StillUntouched DEF StepInv
<1>4. CASE /\ job' = [job EXCEPT ![m].at = "apply", ![m].todo = IdsOf(config[m])]
           /\ UNCHANGED state
  <2>1. /\ job'[m].at = "apply"
        /\ job'[m].todo = IdsOf(config[m])
        /\ job'[m].how = job[m].how
        /\ job'[m].failed = job[m].failed
    BY <1>1, <1>4 DEF Jobs
  <2>2. StateInv(m)' /\ JobInv(m)'
    BY <1>1, <1>4, <2>1 DEF RunInv, ModuleInv, StateInv, JobInv
  <2>3. ASSUME calm' PROVE CalmInv(m)'
    <3>1. CalmInv(m)
      BY <1>2, <2>3, Zenon DEF RunInv, ModuleInv
    <3>2. QED
      BY <1>1, <2>1, <3>1 DEF CalmInv, ReadyInv, PlanInv, StandInv, Exists
  <2>4. ModuleInv(m)'
    BY <2>2, <2>3, Zenon DEF ModuleInv
  <2>5. QED
    BY <1>1, <2>4, StillUntouched DEF StepInv
<1>5. QED
  BY <1>3, <1>4, Zenon DEF BeginApply

\* Each request of an apply adds one manifest to those that stand.
LEMMA ApplyStep ==
    ASSUME RunInv, Apart, NoNamespaceManifests, OneIdPerObject,
           NEW m \in Modules, ApplyOne(m)
    PROVE  StepInv(m)
<1>1. /\ UNCHANGED <<config, stage, state>>
      /\ stage # "rest"
      /\ job[m].at = "apply"
      /\ job \in [Modules -> Jobs]
      /\ live \in [Objects -> Content]
      /\ job[m].todo \subseteq IdsOf(config[m])
  BY DEF ApplyOne, At, RunInv, TypeOK, ClusterTypeOK, ModuleInv, JobInv
<1>2. PICK id \in job[m].todo, failed \in BOOLEAN :
        /\ Applied(m, id, failed)
        /\ \/ /\ Put(ObjectOf[id], config[m][id])
              /\ Answer(m, failed)
           \/ /\ failed
              /\ Fault \/ (~Accepts(ObjectOf[id]) /\ NoFault)
              /\ UNCHANGED <<live, terminating, managed>>
  BY DEF ApplyOne
<1>3. /\ job'[m].at = "apply"
      /\ job'[m].todo = job[m].todo \ {id}
      /\ job'[m].how = job[m].how
      /\ job'[m].failed = (job[m].failed \/ failed)
  BY <1>1, <1>2 DEF Applied, Jobs
<1>4. id \in IdsOf(config[m])
  BY <1>1
<1>5. /\ NamespacesStay'
      /\ \A k \in Modules : k # m => Untouched(k)
      /\ \A ns \in NamespacesOf(config[m]) : live'[ns] = live[ns]
  <2>1. CASE Put(ObjectOf[id], config[m][id])
    BY <1>4, <2>1, PutUntouched
  <2>2. CASE UNCHANGED <<live, terminating, managed>>
    BY <2>2, StillUntouched
  <2>3. QED
    BY <1>2, <2>1, <2>2
<1>6. StateInv(m)' /\ JobInv(m)'
  BY <1>1, <1>3 DEF RunInv, ModuleInv, StateInv, JobInv
<1>7. ASSUME calm' PROVE CalmInv(m)'
  <2>1. calm /\ ~failed /\ Put(ObjectOf[id], config[m][id])
    <3>1. CASE Put(ObjectOf[id], config[m][id]) /\ Answer(m, failed)
      BY <1>7, <3>1, Zenon DEF Answer, Fault, NoFault
    <3>2. CASE Fault
      BY <1>7, <3>2, Zenon DEF Fault
    <3>3. CASE ~Accepts(ObjectOf[id]) /\ NoFault
      <4>1. calm
        BY <1>7, <3>3, Zenon DEF NoFault
      <4>2. CalmInv(m)
        BY <4>1, Zenon DEF RunInv, ModuleInv
      <4>3. \A ns \in NamespacesOf(config[m]) : Exists(ns)
        BY <1>1, <4>2 DEF CalmInv, ReadyInv
      <4>4. QED
        BY <1>4, <3>3, <4>3, CalmAccepts
    <3>4. QED
      BY <1>2, <3>1, <3>2, <3>3
  <2>2. CalmInv(m)
    BY <2>1, Zenon DEF RunInv, ModuleInv
  <2>3. ReadyInv(m)'
    BY <1>1, <1>3, <1>5, <2>2 DEF CalmInv, ReadyInv, Exists
  <2>4. ASSUME NEW other \in IdsOf(config[m]) \ (job[m].todo \ {id})
        PROVE  live'[ObjectOf[other]] = config[m][other]
    <3>1. other \in Ids /\ id \in Ids /\ ObjectOf[other] \in Objects
      BY <1>4, <2>4, IdsAssumption DEF IdsOf
    <3>2. CASE other = id
      BY <1>1, <2>1, <3>1, <3>2 DEF Put
    <3>3. CASE other # id
      <4>1. ObjectOf[other] # ObjectOf[id]
        BY <3>1, <3>3 DEF OneIdPerObject
      <4>2. live[ObjectOf[other]] = config[m][other]
        BY <1>1, <2>2, <2>4, <3>3 DEF CalmInv, StandInv
      <4>3. QED
        BY <1>1, <2>1, <3>1, <4>1, <4>2 DEF Put
    <3>4. QED
      BY <3>2, <3>3
  <2>5. QED
    BY <1>1, <1>3, <2>1, <2>2, <2>3, <2>4 DEF CalmInv, PlanInv, StandInv
<1>8. ModuleInv(m)'
  BY <1>6, <1>7, Zenon DEF ModuleInv
<1>9. QED
  BY <1>5, <1>8 DEF StepInv

\* When an apply returns, well and in a calm run, all of the bundle stands.
LEMMA ApplyReturnsStep ==
    ASSUME RunInv, NEW m \in Modules, ApplyReturns(m)
    PROVE  StepInv(m)
<1>1. /\ UNCHANGED <<live, terminating, config>>
      /\ job[m].at = "apply"
      /\ job[m].todo = {}
      /\ job \in [Modules -> Jobs]
      /\ state \in [Modules -> States \cup {NoState}]
      /\ config \in Configs
      /\ Ended(m, IF job[m].failed THEN "error" ELSE "ok")
  BY DEF ApplyReturns, At, clusterVars, RunInv, TypeOK
<1>2. calm' => calm
  BY Zenon DEF ApplyReturns, NoFault
<1>3. \/ UNCHANGED state /\ job[m].failed
      \/ state' = [state EXCEPT ![m] = [resources |-> config[m], diff |-> NoDiffs]]
  BY Zenon DEF ApplyReturns
<1>4. \/ UNCHANGED state /\ job[m].failed
      \/ /\ state'[m] = [resources |-> config[m], diff |-> NoDiffs]
         /\ state'[m] # NoState
  BY <1>1, <1>3, ProfilesAssumption, ConfigType, NoDiffsType DEF States, Diffs
<1>5. StateInv(m)'
  BY <1>1, <1>4 DEF StateInv, RunInv, ModuleInv
<1>6. ASSUME calm PROVE ~job[m].failed /\ Stands(m)'
  <2>1. CalmInv(m)
    BY <1>6, Zenon DEF RunInv, ModuleInv
  <2>2. \A id \in IdsOf(config[m]) : live'[ObjectOf[id]] = config'[m][id]
    BY <1>1, <2>1 DEF CalmInv, StandInv
  <2>3. \A id \in IdsOf(config[m]) : config[m][id] \in Content
    BY <1>1, ConfigType DEF AllBundles, IdsOf
  <2>4. Stands(m)'
    BY <1>1, <2>2, <2>3, TextAssumption DEF Stands, Shows, IdsOf
  <2>5. QED
    BY <2>1, <2>4 DEF CalmInv
<1>7. ModuleInv(m)'
  BY <1>1, <1>2, <1>4, <1>5, <1>6, DoneInv
<1>8. QED
  BY <1>1, <1>7, StillUntouched DEF StepInv

-----------------------------------------------------------------------------

\* A step of one module is no step of another.
LEMMA OneModuleSteps ==
    ASSUME RunInv, NEW m \in Modules, Customize(m) \/ Handle(m),
           NEW k \in Modules, k # m
    PROVE  /\ job'[k] = job[k]
           /\ state'[k] = state[k]
           /\ UNCHANGED <<config, stage>>
           /\ calm' => calm
<1>1. job \in [Modules -> Jobs] /\ state \in [Modules -> States \cup {NoState}]
  BY DEF RunInv, TypeOK
<1>2. calm' => calm
  BY Zenon DEF Customize, Handle, PlanFails, ListNamespaces, MakeNamespace,
     DiffFails, Plan, FinalPlan, DeleteOne, BeginApply, ApplyOne, ApplyReturns,
     Answer, Fault, NoFault
<1>3. CASE Customize(m)
  <2>1. UNCHANGED <<state, config, stage>>
    BY <1>3, Zenon DEF Customize, PlanFails, ListNamespaces, MakeNamespace,
       DiffFails, Plan, FinalPlan
  <2>2. job'[k] = job[k]
    BY <1>1, <1>3 DEF Customize, PlanFails, ListNamespaces, MakeNamespace,
       DiffFails, Plan, FinalPlan, Ended
  <2>3. QED
    BY <1>2, <2>1, <2>2
<1>4. CASE Handle(m)
  <2>1. UNCHANGED <<config, stage>>
    BY <1>4, Zenon DEF Handle, DeleteOne, BeginApply, ApplyOne, ApplyReturns
  <2>2. job'[k] = job[k]
    BY <1>1, <1>4 DEF Handle, DeleteOne, DeleteFails, BeginApply, ApplyOne,
       Applied, ApplyReturns, Ended
  <2>3. state'[k] = state[k]
    BY <1>1, <1>4 DEF Handle, DeleteOne, DeleteFails, BeginApply, ApplyOne,
       ApplyReturns
  <2>4. QED
    BY <1>2, <2>1, <2>2, <2>3
<1>5. QED
  BY <1>3, <1>4

\* Every step of a module keeps the invariant of all of them.
LEMMA ModulesStep ==
    ASSUME RunInv, Apart, NoNamespaceManifests, OneIdPerObject,
           NEW m \in Modules, Customize(m) \/ Handle(m)
    PROVE  RunInv'
<1>1. StepInv(m)
  BY PlanFailsStep, ListStep, MakeStep, DiffFailsStep, PlanStep, FinalPlanStep,
     DeleteStep, BeginApplyStep, ApplyStep, ApplyReturnsStep DEF Customize, Handle
<1>2. TypeOK'
  BY TypeCustomize, TypeHandle DEF RunInv
<1>3. ASSUME NEW k \in Modules, k # m PROVE ModuleInv(k)'
  BY <1>1, <1>3, OneModuleSteps, OtherModule DEF StepInv, RunInv
<1>4. QED
  BY <1>1, <1>2, <1>3 DEF StepInv, RunInv

\* Others only take away, or break the calm.
LEMMA OthersStep ==
    ASSUME RunInv, EditConfig \/ ClusterMoves
    PROVE  RunInv'
<1>1. ~calm'
  BY Zenon DEF EditConfig, ClusterMoves
<1>2. UNCHANGED <<state, job, stage>>
  BY DEF EditConfig, ClusterMoves
<1>3. \A m \in Modules : StateInv(m)'
  BY <1>2 DEF RunInv, ModuleInv, StateInv
<1>4. \A m \in Modules : JobInv(m)'
  <2>1. CASE EditConfig
    BY <1>2, <2>1 DEF EditConfig, RunInv, ModuleInv, JobInv
  <2>2. CASE ClusterMoves
    <3>1. config' = config
      BY <2>2 DEF ClusterMoves
    <3>2. \A m \in Modules : Removed(m)' = Removed(m)
      BY <1>2, <3>1 DEF Removed, Prior
    <3>3. QED
      BY <1>2, <3>1, <3>2 DEF RunInv, ModuleInv, JobInv
  <2>3. QED
    BY <2>1, <2>2
<1>5. NamespacesStay'
  <2>1. terminating' \subseteq terminating
    BY DEF EditConfig, ClusterMoves, Finalize, Drift, Remove, clusterVars
  <2>2. QED
    BY <2>1 DEF RunInv, NamespacesStay
<1>6. TypeOK'
  BY TypeStep DEF RunInv, Next
<1>7. QED
  BY <1>1, <1>3, <1>4, <1>5, <1>6, Zenon DEF RunInv, ModuleInv

\* A run begins calm, with nothing planned; its end changes nothing.
LEMMA TerraformStep ==
    ASSUME RunInv, Terraform
    PROVE  RunInv'
<1>1. TypeOK'
  BY TypeStep DEF RunInv, Next
<1>2. /\ UNCHANGED <<live, terminating, config, state>>
      /\ job \in [Modules -> Jobs]
  BY DEF Terraform, StartRun, Approve, EndRun, Crash, clusterVars, RunInv, TypeOK
<1>3. NamespacesStay' /\ \A m \in Modules : StateInv(m)'
  BY <1>2 DEF RunInv, NamespacesStay, ModuleInv, StateInv
<1>4. \A m \in Modules : Results(m)' = Results(m) /\ Removed(m)' = Removed(m)
  BY <1>2, SameResults
<1>5. ASSUME NEW m \in Modules PROVE ModuleInv(m)'
  <2>1. CASE StartRun
    <3>1. job'[m] = NewJob
      BY <2>1 DEF StartRun
    <3>2. JobInv(m)' /\ CalmInv(m)'
      BY <3>1 DEF NewJob, JobInv, CalmInv, ReadyInv, PlanInv, StandInv
    <3>3. QED
      BY <1>3, <3>2, Zenon DEF ModuleInv
  <2>2. CASE Approve
    <3>1. /\ calm' = calm
          /\ stage' = "apply"
          /\ \/ job'[m] = job[m] /\ job[m].at \in {"planned", "done"}
             \/ /\ job[m].at = "planned"
                /\ job'[m].at = "list"
                /\ job'[m].shown = job[m].shown
                /\ job'[m].how = job[m].how
                /\ job'[m].failed = job[m].failed
      BY <1>2, <2>2 DEF Approve, AllAt, Jobs
    <3>2. JobInv(m)'
      BY <3>1 DEF JobInv
    <3>3. ASSUME calm' PROVE CalmInv(m)'
      <4>1. CalmInv(m)
        BY <3>1, <3>3, Zenon DEF RunInv, ModuleInv
      <4>2. QED
        BY <1>2, <1>4, <3>1, <4>1 DEF CalmInv, ReadyInv, PlanInv, StandInv,
           Stands
    <3>4. QED
      BY <1>3, <3>2, <3>3, Zenon DEF ModuleInv
  <2>3. CASE EndRun
    <3>1. /\ UNCHANGED <<calm, job>>
          /\ job[m].at \in {"planned", "done"}
      BY <2>3 DEF EndRun, AllAt
    <3>2. JobInv(m)'
      BY <3>1 DEF JobInv
    <3>3. ASSUME calm' PROVE CalmInv(m)'
      <4>1. CalmInv(m)
        BY <3>1, <3>3, Zenon DEF RunInv, ModuleInv
      <4>2. QED
        BY <1>2, <1>4, <3>1, <4>1 DEF CalmInv, ReadyInv, PlanInv, StandInv,
           Stands
    <3>4. QED
      BY <1>3, <3>2, <3>3, Zenon DEF ModuleInv
  <2>4. CASE Crash
    <3>1. ~calm'
      BY <2>4, Zenon DEF Crash, Fault
    <3>2. job'[m].at = "done"
      BY <1>2, <2>4 DEF Crash, Jobs
    <3>3. JobInv(m)'
      BY <3>2 DEF JobInv
    <3>4. QED
      BY <1>3, <3>1, <3>3, Zenon DEF ModuleInv
  <2>5. QED
    BY <2>1, <2>2, <2>3, <2>4 DEF Terraform
<1>6. QED
  BY <1>1, <1>3, <1>5 DEF RunInv

\* The invariant holds at the start ...
LEMMA RunInit == Init => RunInv
<1> SUFFICES ASSUME Init PROVE RunInv
  OBVIOUS
<1>1. TypeOK
  BY TypeInit
<1>2. NamespacesStay
  BY DEF Init, ClusterInit, NamespacesStay
<1>3. ASSUME NEW m \in Modules PROVE StateInv(m) /\ JobInv(m)
  BY DEF Init, NewJob, StateInv, JobInv
<1>4. ~calm
  BY Zenon DEF Init
<1>5. QED
  BY <1>1, <1>2, <1>3, <1>4, Zenon DEF RunInv, ModuleInv

\* ... and every step keeps it.
LEMMA RunStep ==
    ASSUME Apart, NoNamespaceManifests, OneIdPerObject, RunInv, [Next]_vars
    PROVE  RunInv'
<1>1. CASE UNCHANGED vars
  <2>1. /\ UNCHANGED <<live, terminating, config, state, stage, job, calm>>
    BY <1>1 DEF vars, clusterVars
  <2>2. TypeOK'
    BY <1>1, TypeStep DEF RunInv
  <2>3. NamespacesStay' /\ \A m \in Modules : Untouched(m)
    BY <2>1, StillUntouched
  <2>4. \A m \in Modules : ModuleInv(m)'
    BY <2>1, <2>3, OtherModule DEF RunInv
  <2>5. QED
    BY <2>2, <2>3, <2>4 DEF RunInv
<1>2. QED
  BY <1>1, TerraformStep, ModulesStep, OthersStep DEF Next

\* However many modules plan and apply at once: without failures and with
\* nobody else at work, none of them fails over a namespace that another one
\* has made.
THEOREM CalmRunsDoNotFail ==
    ASSUME Apart, NoNamespaceManifests, OneIdPerObject
    PROVE  Spec => []NoneFails
<1>1. RunInv /\ [Next]_vars => RunInv'
  BY RunStep
<1>2. RunInv => NoneFails
  BY Zenon DEF RunInv, ModuleInv, CalmInv, NoneFails
<1>3. QED
  BY <1>1, <1>2, RunInit, PTL DEF Spec

\* And none of them has its final plan turned down for what another one does.
THEOREM CalmPlansStand ==
    ASSUME Apart, NoNamespaceManifests, OneIdPerObject
    PROVE  Spec => []SamePlan
<1>1. RunInv /\ [Next]_vars => RunInv'
  BY RunStep
<1>2. RunInv => SamePlan
  BY Zenon DEF RunInv, ModuleInv, CalmInv, SamePlan
<1>3. QED
  BY <1>1, <1>2, RunInit, PTL DEF Spec

\* What all modules have applied stands together at the end of the run.
THEOREM ModulesStandTogether ==
    ASSUME Apart, NoNamespaceManifests, OneIdPerObject
    PROVE  Spec => []AllStand
<1>1. RunInv /\ [Next]_vars => RunInv'
  BY RunStep
<1>2. RunInv => AllStand
  BY Zenon DEF RunInv, ModuleInv, CalmInv, StandInv, Stands, AllStand
<1>3. QED
  BY <1>1, <1>2, RunInit, PTL DEF Spec

=============================================================================

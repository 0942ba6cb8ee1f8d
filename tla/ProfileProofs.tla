--------------------------- MODULE ProfileProofs ---------------------------
(***************************************************************************)
(* Theorems about the profile resource, for every value of the constants   *)
(* that its assumptions admit.                                             *)
(***************************************************************************)
EXTENDS ProfileProperties, KubeProofs, TLAPS

-----------------------------------------------------------------------------
(* Types.                                                                  *)

\* A handler always has a plan to carry out.
TypeInv ==
    /\ TypeOK
    /\ pc # "idle" => plan \in Plans

\* Making namespaces leaves every object with contents.
LEMMA NamespacesType ==
    ASSUME live \in [Objects -> Content], NEW made
    PROVE  WithNamespaces(made) \in [Objects -> Content]
BY ContentAssumption DEF WithNamespaces, Content

\* What the source renders is a bundle.
LEMMA RenderType ==
    ASSUME NEW v \in Versions, NEW x \in Inputs
    PROVE  Render[v][x] \in AllBundles
BY RenderAssumption

\* The ids in a bundle are ids.
LEMMA IdsOfType == ASSUME NEW bundle PROVE IdsOf(bundle) \subseteq Ids
BY DEF IdsOf

\* The objects a bundle names are objects.
LEMMA ObjectsOfType == ASSUME NEW bundle PROVE ObjectsOf(bundle) \subseteq Objects
BY IdsAssumption DEF ObjectsOf, IdsOf

\* What the state lists is a bundle, also when there is no state.
LEMMA PriorType == ASSUME TypeOK PROVE Prior \in AllBundles
BY EmptyType DEF TypeOK, Prior, States

\* The entries of a diff.
LEMMA EntryType ==
    ASSUME NEW what \in {"create", "change", "delete", "remove", "no diffs",
                         "no host", "unknown parameters"},
           NEW id \in Ids
    PROVE  About(what, id) \in Entries /\ Whole(what) \in Entries
BY TextAssumption DEF About, Whole, Entries

\* What an entry says of an object that is to be there.
LEMMA EntryTextType ==
    ASSUME NEW old \in Content, NEW new \in Hashes
    PROVE  EntryText(old, new) \in Texts
BY TextAssumption, RenderAssumption DEF EntryText, Content

\* The structured diff yields entries.
LEMMA DifferencesType ==
    ASSUME NEW bundle \in AllBundles, NEW cluster \in [Objects -> Content]
    PROVE  Differences(bundle, cluster) \subseteq Entries
<1>1. ASSUME NEW id \in IdsOf(bundle)
      PROVE  id \in Ids /\ EntryText(cluster[ObjectOf[id]], bundle[id]) \in Texts
  <2>1. /\ id \in Ids
        /\ bundle[id] \in Hashes
        /\ cluster[ObjectOf[id]] \in Content
    BY IdsAssumption DEF IdsOf, AllBundles, Content
  <2>2. QED
    BY <2>1, EntryTextType
<1>2. ASSUME NEW id \in IdsOf(bundle), NEW what \in {"create", "change"}
      PROVE  [what |-> what, id |-> id,
              text |-> EntryText(cluster[ObjectOf[id]], bundle[id])] \in Entries
  BY <1>1 DEF Entries
<1>3. SUFFICES ASSUME NEW id \in IdsOf(bundle)
               PROVE  [what |-> IF cluster[ObjectOf[id]] = Absent
                                THEN "create" ELSE "change",
                       id |-> id,
                       text |-> EntryText(cluster[ObjectOf[id]], bundle[id])]
                            \in Entries
  BY DEF Differences
<1>4. QED
  BY <1>2

\* What goes is announced by entries.
LEMMA DeletionsType ==
    ASSUME NEW seen
    PROVE  Deletions(seen) \subseteq Entries
<1>1. Removed(Prior, seen) \subseteq Ids
  BY DEF Removed, IdsOf
<1>2. \A id \in Ids : /\ About("delete", id) \in Entries
                      /\ About("remove", id) \in Entries
  BY EntryType
<1>3. QED
  BY <1>1, <1>2 DEF Deletions

\* The results map of customize-diff holds entries.
LEMMA ResultsType ==
    ASSUME NEW bundle \in AllBundles, NEW cluster \in [Objects -> Content], NEW seen
    PROVE  Results(bundle, seen, cluster) \subseteq Entries
<1>1. Whole("no diffs") \in Entries
  BY TextAssumption DEF Whole, Entries
<1>2. QED
  BY <1>1, DifferencesType, DeletionsType DEF Results

\* A customize-diff returns a plan to create or to update.
LEMMA CustomDiffType ==
    ASSUME TypeOK, NEW can, NEW unknown, NEW result \in CustomDiff(can, unknown)
    PROVE  result.plan \in Plans /\ result.plan.op # "destroy"
<1>1. ASSUME NEW reason \in {"no host", "unknown parameters"}
      PROVE  /\ Undetermined(reason).plan \in Plans
             /\ Undetermined(reason).plan.op # "destroy"
  <2>1. Whole(reason) \in Entries
    BY TextAssumption DEF Whole, Entries
  <2>2. QED
    BY <2>1 DEF Undetermined, Plans, TypeOK
<1>2. ASSUME NEW bundle \in AllBundles, NEW seen
      PROVE  /\ Determined(unknown, bundle, seen).plan \in Plans
             /\ Determined(unknown, bundle, seen).plan.op # "destroy"
  <2> DEFINE made == Made(bundle, seen)
             diff == IF ShouldDiff(seen)
                     THEN Results(bundle, seen, WithNamespaces(made))
                     ELSE {}
  <2>1. diff \subseteq Entries
    BY ResultsType, NamespacesType DEF TypeOK, ClusterTypeOK
  <2>2. inputs \in Inputs
    BY DEF TypeOK
  <2> HIDE DEF diff
  <2>3. [op |-> IF st = NoState THEN "create" ELSE "update",
         inputs |-> inputs,
         resources |-> IF unknown = "set" THEN Unknown ELSE bundle,
         diff |-> diff] \in Plans
    BY <2>1, <2>2 DEF Plans
  <2>4. Determined(unknown, bundle, seen).plan =
            [op |-> IF st = NoState THEN "create" ELSE "update",
             inputs |-> inputs,
             resources |-> IF unknown = "set" THEN Unknown ELSE bundle,
             diff |-> diff]
    BY DEF Determined, diff
  <2>5. QED
    BY <2>3, <2>4
<1>3. Render[version][Values(unknown)] \in AllBundles
  BY RenderAssumption, RenderType DEF TypeOK, Values
<1>4. QED
  BY <1>1, <1>2, <1>3 DEF CustomDiff

\* What the end of a run leaves in the variables.
LEMMA EndType ==
    ASSUME TypeInv, NEW how \in {"ok", "error", "rejected"},
           NEW state \in States \cup {NoState}, End(how, state)
    PROVE  /\ st' \in States \cup {NoState}
           /\ plan' \in Plans \cup {NoPlan}
           /\ pc' = "idle"
           /\ call' \in Calls
           /\ outcome' \in {"none", "ok", "error", "rejected"}
           /\ told' \subseteq Objects
           /\ UNCHANGED <<inputs, wanted, version, quiet, edits>>
<1>1. Untracked(state) \subseteq Objects
  BY DEF Untracked, TypeInv, TypeOK, ClusterTypeOK
<1>2. NoCall \in Calls
  BY EmptyType DEF NoCall, Calls
<1>3. QED
  BY <1>1, <1>2 DEF End, TypeInv, TypeOK

\* What is saved after an update is a state.
LEMMA SavedType ==
    ASSUME TypeInv, pc # "idle", NEW diff \in SUBSET Entries
    PROVE  Saved(diff) \in States
BY EmptyType DEF Saved, TypeInv, Plans, States

\* The count of failures stays within its bound.
LEMMA FaultType == ASSUME faults \in 0..MaxFaults, Fault PROVE faults' \in 0..MaxFaults
BY ClientAssumption DEF Fault

\* An apply begins as a call.
LEMMA BeginApplyType ==
    ASSUME NEW bundle \in AllBundles, BeginApply(bundle)
    PROVE  call' \in Calls
BY DEF BeginApply, Calls, IdsOf

\* A delete begins as a call.
LEMMA BeginDeleteType ==
    ASSUME NEW ids \in SUBSET Ids, BeginDelete(ids)
    PROVE  call' \in Calls
BY EmptyType DEF BeginDelete, Calls

\* A call that loses one id, or fails, is still a call.
LEMMA CallType ==
    ASSUME call \in Calls, NEW id
    PROVE  /\ [call EXCEPT !.todo = @ \ {id}] \in Calls
           /\ [call EXCEPT !.todo = @ \ {id}, !.failed = TRUE] \in Calls
           /\ [call EXCEPT !.failed = TRUE] \in Calls
BY DEF Calls

\* The typing invariant holds at the start.
LEMMA TypeInit == Init => TypeInv
BY EmptyType, ContentAssumption, ClientAssumption, OptionAssumption
   DEF Init, ClusterInit, ClientInit, NoCall, Calls, TypeInv, TypeOK,
       ClusterTypeOK, ClientTypeOK, Content, Phases

\* Every step keeps the typing invariant.
LEMMA TypeStep == TypeInv /\ [Next]_vars => TypeInv'
<1> SUFFICES ASSUME TypeInv, [Next]_vars
             PROVE  TypeInv'
  OBVIOUS
<1> USE DEF TypeInv
<1>1. ASSUME NEW can \in CanRuns, NEW unknown \in Unknowns, MakePlan(can, unknown)
      PROVE  TypeInv'
  <2>1. PICK result \in CustomDiff(can, unknown) :
              /\ live' = WithNamespaces(result.made)
              /\ IF NoChange(result.plan)
                 THEN /\ outcome' = "ok"
                      /\ UNCHANGED <<pc, plan>>
                 ELSE /\ pc' = "planned"
                      /\ plan' = result.plan
                      /\ outcome' = "none"
    BY <1>1 DEF MakePlan
  <2>2. result.plan \in Plans
    BY CustomDiffType
  <2>3. live' \in [Objects -> Content]
    BY <2>1, NamespacesType DEF TypeOK, ClusterTypeOK
  <2>4. QED
    BY <1>1, <2>1, <2>2, <2>3
       DEF MakePlan, TypeOK, ClusterTypeOK, ClientTypeOK, clientVars, Phases
<1>2. ASSUME PlanFails PROVE TypeInv'
  <2>1. /\ live' \in [Objects -> Content]
        /\ faults' \in 0..MaxFaults
    BY <1>2, NamespacesType, FaultType
       DEF PlanFails, FailedDiff, TypeOK, ClusterTypeOK, ClientTypeOK
  <2>2. QED
    BY <1>2, <2>1 DEF PlanFails, TypeOK, ClusterTypeOK, ClientTypeOK
<1>3. ASSUME PlanDestroy PROVE TypeInv'
  <2>1. /\ live' \in [Objects -> Content]
        /\ UNCHANGED <<clusterVars, clientVars>>
    BY <1>3 DEF PlanDestroy, clusterVars, TypeOK, ClusterTypeOK
  <2>2. plan' \in Plans \cup {NoPlan} /\ (pc' # "idle" => plan' \in Plans)
    BY <1>3, EmptyType DEF PlanDestroy, Plans, States, TypeOK
  <2>3. QED
    BY <1>3, <2>1, <2>2 DEF PlanDestroy, clusterVars, clientVars, TypeOK,
       ClusterTypeOK, ClientTypeOK, Phases
<1>4. ASSUME Approve PROVE TypeInv'
  <2>1. PICK result \in CustomDiff(TRUE, "nothing") :
              /\ live' = WithNamespaces(result.made)
              /\ plan' = result.plan
              /\ IF plan.op = "create"
                 THEN StartCreate
                 ELSE StartUpdate(Removed(Prior, result.plan.resources))
    BY <1>4 DEF Approve
  <2> DEFINE removed == Removed(Prior, result.plan.resources)
  <2>2. removed \in SUBSET Ids
    BY DEF Removed, IdsOf
  <2>3. live' \in [Objects -> Content] /\ plan' \in Plans
    BY <2>1, NamespacesType, CustomDiffType DEF TypeOK, ClusterTypeOK
  <2> HIDE DEF removed
  <2>4. ASSUME StartUpdate(removed)
        PROVE  call' \in Calls /\ told' \subseteq Objects /\ pc' \in Phases
    <3>1. {ObjectOf[id] : id \in removed} \subseteq Objects
      BY <2>2, IdsAssumption
    <3>2. QED
      BY <2>2, <2>4, <3>1, BeginDeleteType
         DEF StartUpdate, TypeOK, ClientTypeOK, Phases
  <2>5. call' \in Calls /\ told' \subseteq Objects /\ pc' \in Phases
    BY <2>1, <2>4 DEF StartCreate, TypeOK, ClientTypeOK, Phases, removed
  <2>6. QED
    BY <1>4, <2>3, <2>5 DEF Approve, TypeOK, ClusterTypeOK, ClientTypeOK
<1>5. ASSUME NEW can \in CanRuns, Reject(can) PROVE TypeInv'
  <2>1. live' \in [Objects -> Content]
    BY <1>5, NamespacesType DEF Reject, TypeOK, ClusterTypeOK
  <2>2. QED
    BY <1>5, <2>1, EndType
       DEF Reject, TypeOK, ClusterTypeOK, ClientTypeOK, Phases
<1>6. ASSUME FinalPlanFails PROVE TypeInv'
  <2>1. /\ live' \in [Objects -> Content]
        /\ faults' \in 0..MaxFaults
    BY <1>6, NamespacesType, FaultType
       DEF FinalPlanFails, FailedDiff, TypeOK, ClusterTypeOK, ClientTypeOK
  <2>2. QED
    BY <1>6, <2>1, EndType
       DEF FinalPlanFails, TypeOK, ClusterTypeOK, ClientTypeOK, Phases
<1>7. ASSUME Refuse PROVE TypeInv'
  <2>1. Saved(plan.diff) \in States
    BY <1>7, SavedType DEF Refuse, Plans
  <2>2. (IF plan.op = "create" THEN st ELSE Saved(plan.diff)) \in States \cup {NoState}
    BY <2>1 DEF TypeOK
  <2>3. QED
    BY <1>7, <2>2, EndType DEF Refuse, clusterVars, TypeOK, ClusterTypeOK,
       ClientTypeOK, Phases
<1>8. ASSUME Discard PROVE TypeInv'
  BY <1>8, OptionAssumption DEF Discard, clusterVars, clientVars, TypeOK,
     ClusterTypeOK, ClientTypeOK, Phases

<1>9. ASSUME ExpandAndApply PROVE TypeInv'
  <2>1. plan.inputs \in Inputs
    BY <1>9 DEF ExpandAndApply, Plans
  <2>2. call' \in Calls
    BY <1>9, <2>1, RenderType, BeginApplyType DEF ExpandAndApply, TypeOK
  <2>3. QED
    BY <1>9, <2>2 DEF ExpandAndApply, clusterVars, TypeOK, ClusterTypeOK,
       ClientTypeOK, Phases
<1>10. ASSUME SkipApply PROVE TypeInv'
  <2>1. Saved({}) \in States
    BY <1>10, SavedType DEF SkipApply
  <2>2. QED
    BY <1>10, <2>1, EndType DEF SkipApply, clusterVars, TypeOK, ClusterTypeOK,
       ClientTypeOK, Phases
<1>11. ASSUME ExpandFails PROVE TypeInv'
  <2>1. PICK state \in States \cup {NoState} : End("error", state)
    <3>1. pc # "idle" => Saved({}) \in States
      BY SavedType
    <3>2. QED
      BY <1>11, <3>1 DEF ExpandFails, TypeOK
  <2>2. faults' \in 0..MaxFaults
    BY <1>11, FaultType DEF ExpandFails, TypeOK, ClientTypeOK
  <2>3. QED
    BY <1>11, <2>1, <2>2, EndType DEF ExpandFails, clusterVars, TypeOK,
       ClusterTypeOK, ClientTypeOK, Phases
<1>12. ASSUME ApplyReturns PROVE TypeInv'
  <2>1. PICK how \in {"ok", "error"}, state \in States \cup {NoState} :
            End(how, state)
    <3>1. Saved({}) \in States
      BY <1>12, SavedType DEF ApplyReturns
    <3>2. [inputs |-> plan.inputs, diff |-> {}, resources |-> call.bundle]
            \in States
      BY <1>12 DEF ApplyReturns, Plans, States, TypeOK, ClientTypeOK, Calls
    <3>3. QED
      BY <1>12, <3>1, <3>2 DEF ApplyReturns, TypeOK
  <2>2. QED
    BY <1>12, <2>1, EndType DEF ApplyReturns, clusterVars, TypeOK,
       ClusterTypeOK, ClientTypeOK, Phases
<1>13. ASSUME DeleteReturns PROVE TypeInv'
  <2>1. CASE Succeeded("delete")
    <3>1. NoCall \in Calls
      BY EmptyType DEF NoCall, Calls
    <3>2. /\ pc = "deleting"
          /\ pc' = "deleted"
          /\ call' = NoCall
          /\ UNCHANGED <<live, terminating, managed, drifts, faults, inputs,
                         wanted, version, st, plan, outcome, quiet, told, edits>>
      BY <1>13, <2>1 DEF DeleteReturns, Succeeded, Failed, clusterVars
    <3>3. QED
      BY <3>1, <3>2 DEF TypeOK, ClusterTypeOK, ClientTypeOK, Phases
  <2>2. CASE Failed("delete")
    <3>1. Saved(plan.diff) \in States
      BY <1>13, SavedType DEF DeleteReturns, Plans
    <3>2. End("error", Saved(plan.diff))
      BY <1>13, <2>2 DEF DeleteReturns, Succeeded, Failed
    <3>3. QED
      BY <1>13, <3>1, <3>2, EndType DEF DeleteReturns, clusterVars, TypeOK,
         ClusterTypeOK, ClientTypeOK, Phases
  <2>3. QED
    BY <1>13, <2>1, <2>2 DEF DeleteReturns
<1>14. ASSUME NEW can \in CanRuns, Destroy(can) PROVE TypeInv'
  <2>1. CASE End("error", st)
    BY <1>14, <2>1, EndType DEF Destroy, clusterVars, TypeOK, ClusterTypeOK,
       ClientTypeOK, Phases
  <2>2. CASE st' = NoState
    BY <1>14, <2>2, ObjectsOfType, EndType, BeginDeleteType, IdsOfType
       DEF Destroy, clusterVars, TypeOK, ClusterTypeOK, ClientTypeOK, Phases
  <2>3. CASE pc' = "destroying"
    <3>1. /\ pc = "planned"
          /\ BeginDelete(IdsOf(st.resources))
          /\ quiet' = TRUE
          /\ UNCHANGED <<live, terminating, managed, drifts, faults, inputs,
                         wanted, version, st, plan, outcome, told, edits>>
      BY <1>14, <2>3 DEF Destroy, End, clusterVars
    <3>2. call' \in Calls
      BY <3>1, BeginDeleteType, IdsOfType
    <3>3. QED
      BY <2>3, <3>1, <3>2 DEF TypeOK, ClusterTypeOK, ClientTypeOK, Phases
  <2>4. QED
    BY <1>14, <2>1, <2>2, <2>3 DEF Destroy
<1>15. ASSUME DestroyReturns PROVE TypeInv'
  BY <1>15, EndType DEF DestroyReturns, clusterVars, TypeOK, ClusterTypeOK,
     ClientTypeOK, Phases
<1>16. ASSUME Crash PROVE TypeInv'
  BY <1>16, EndType, FaultType DEF Crash, clusterVars, TypeOK, ClusterTypeOK,
     ClientTypeOK, Phases
<1>17. ASSUME Kubectl PROVE TypeInv'
  <2>1. /\ live' \in [Objects -> Content]
        /\ terminating' \subseteq Objects
        /\ managed' \subseteq Objects
        /\ drifts' = drifts
        /\ call' \in Calls
        /\ faults' \in 0..MaxFaults
    <3>1. CASE ApplyOne
      <4>1. PICK id \in call.todo :
              /\ \/ Put(ObjectOf[id], call.bundle[id])
                 \/ UNCHANGED <<live, terminating, managed>>
              /\ \/ call' = [call EXCEPT !.todo = @ \ {id}]
                 \/ call' = [call EXCEPT !.todo = @ \ {id}, !.failed = TRUE]
              /\ UNCHANGED faults \/ Fault
        BY <3>1 DEF ApplyOne, Answer
      <4>2. /\ id \in Ids
            /\ ObjectOf[id] \in Objects
            /\ call.bundle[id] \in Content
        BY <3>1, IdsAssumption DEF TypeOK, ClientTypeOK, Calls, AllBundles
      <4>3. call' \in Calls /\ faults' \in 0..MaxFaults
        BY <4>1, CallType, FaultType DEF TypeOK, ClientTypeOK
      <4>4. /\ live' \in [Objects -> Content]
            /\ terminating' \subseteq Objects
            /\ managed' \subseteq Objects
        BY <4>1, <4>2, PutType DEF TypeOK, ClusterTypeOK
      <4>5. QED
        BY <3>1, <4>3, <4>4 DEF ApplyOne
    <3>2. CASE DeleteOne
      <4>1. ASSUME NEW id \in call.todo, RequestDelete(ObjectOf[id]), Answer(id)
            PROVE  /\ live' \in [Objects -> Content]
                   /\ terminating' \subseteq Objects
                   /\ managed' \subseteq Objects
                   /\ call' \in Calls
                   /\ faults' \in 0..MaxFaults
        <5>1. ObjectOf[id] \in Objects
          BY IdsAssumption DEF TypeOK, ClientTypeOK, Calls
        <5>2. /\ live' \in [Objects -> Content]
              /\ terminating' \subseteq Objects
              /\ managed' \subseteq Objects
          BY <4>1, <5>1, RequestDeleteType DEF TypeOK, ClusterTypeOK
        <5>3. /\ \/ call' = [call EXCEPT !.todo = @ \ {id}]
                 \/ call' = [call EXCEPT !.todo = @ \ {id}, !.failed = TRUE]
              /\ UNCHANGED faults \/ Fault
          BY <4>1 DEF Answer
        <5>4. QED
          BY <5>2, <5>3, CallType, FaultType DEF TypeOK, ClientTypeOK
      <4>2. CASE /\ Fault
                 /\ call' = [call EXCEPT !.failed = TRUE]
                 /\ UNCHANGED <<live, terminating, managed>>
        BY <3>2, <4>2, CallType, FaultType
           DEF DeleteOne, TypeOK, ClusterTypeOK, ClientTypeOK
      <4>3. QED
        BY <3>2, <4>1, <4>2 DEF DeleteOne, TypeOK, ClusterTypeOK
    <3>3. QED
      BY <1>17, <3>1, <3>2 DEF Kubectl
  <2>2. QED
    BY <1>17, <2>1 DEF Kubectl, tfVars, TypeOK, ClusterTypeOK, ClientTypeOK
<1>18. ASSUME EditConfig PROVE TypeInv'
  BY <1>18, OptionAssumption DEF EditConfig, clusterVars, clientVars, TypeOK,
     ClusterTypeOK, ClientTypeOK
<1>19. ASSUME SourceMoves PROVE TypeInv'
  <2>1. version' \in Versions /\ quiet' \in BOOLEAN
    BY <1>19, Zenon DEF SourceMoves
  <2>2. UNCHANGED <<live, terminating, managed, drifts, call, faults, inputs,
                    wanted, st, plan, pc, outcome, told>>
    BY <1>19 DEF SourceMoves, clusterVars, clientVars
  <2>3. edits' \in 0..MaxEdits
    <3>1. edits < MaxEdits /\ edits' = edits + 1
      BY <1>19, Zenon DEF SourceMoves
    <3>2. QED
      BY <3>1, OptionAssumption DEF TypeOK
  <2>4. QED
    BY <2>1, <2>2, <2>3 DEF TypeOK, ClusterTypeOK, ClientTypeOK
<1>20. ASSUME ClusterMoves PROVE TypeInv'
  <2>1. /\ live' \in [Objects -> Content]
        /\ terminating' \subseteq Objects
        /\ managed' \subseteq Objects
        /\ drifts' \in 0..MaxDrifts
    <3>1. CASE Finalize
      BY <3>1, RemoveType DEF Finalize, TypeOK, ClusterTypeOK
    <3>2. CASE Drift
      <4>1. PICK o \in Objects :
              \/ \E hash \in Hashes : live' = [live EXCEPT ![o] = hash]
                                      /\ UNCHANGED <<terminating, managed>>
              \/ Remove(o)
        BY <3>2 DEF Drift
      <4>2. drifts' \in 0..MaxDrifts
        BY <3>2, ContentAssumption DEF Drift, TypeOK, ClusterTypeOK
      <4>3. QED
        BY <4>1, <4>2, RemoveType DEF TypeOK, ClusterTypeOK, Content
    <3>3. QED
      BY <1>20, <3>1, <3>2 DEF ClusterMoves
  <2>2. QED
    BY <1>20, <2>1 DEF ClusterMoves, clientVars, TypeOK, ClusterTypeOK, ClientTypeOK
<1>21. ASSUME UNCHANGED vars PROVE TypeInv'
  BY <1>21 DEF vars, clusterVars, clientVars, tfVars, TypeOK, ClusterTypeOK,
     ClientTypeOK
<1>22. QED
  BY <1>1, <1>2, <1>3, <1>4, <1>5, <1>6, <1>7, <1>8, <1>9, <1>10, <1>11, <1>12,
     <1>13, <1>14, <1>15, <1>16, <1>17, <1>18, <1>19, <1>20, <1>21
     DEF Next, Terraform, Handlers

\* Every variable keeps its type, and a handler always has its plan.
THEOREM TypeCorrect == Spec => []TypeOK
<1>1. TypeInv => TypeOK
  BY DEF TypeInv
<1>2. QED
  BY <1>1, TypeInit, TypeStep, PTL DEF Spec

\* A call only gets on with what it has to do.
LEMMA KubectlTodo ==
    ASSUME TypeInv, Kubectl
    PROVE  /\ call'.op = call.op /\ call'.bundle = call.bundle
           /\ call'.todo \subseteq call.todo
<1>1. call \in Calls
  BY DEF TypeInv, TypeOK, ClientTypeOK
<1>2. \/ \E id \in call.todo :
            \/ call' = [call EXCEPT !.todo = @ \ {id}]
            \/ call' = [call EXCEPT !.todo = @ \ {id}, !.failed = TRUE]
      \/ call' = [call EXCEPT !.failed = TRUE]
  BY DEF Kubectl, ApplyOne, DeleteOne, Answer
<1>3. QED
  BY <1>1, <1>2 DEF Calls

-----------------------------------------------------------------------------
(* No object is lost in silence.                                           *)

\* Every kind is discovered, and the source stays what it is.
AllDiscovered == Discovered = Ids
OneVersion == \A v, w \in Versions : v = w

\* The objects that the provider made and that are there to stay.
Kept == managed \ terminating

ToDo == {ObjectOf[id] : id \in call.todo}

\* Where an object that stays is accounted for, at each point of a run: in the
\* state, in what the user was told, in the bundle that the run will save, or
\* among the deletes still to come.
OrphanInv ==
    /\ \A o \in managed : Exists(o)
    /\ pc \in {"idle", "planned", "creating", "deleted"} => call.op = "none"
    /\ pc \in {"deleting", "destroying"} => call.op = "delete"
    /\ pc \in {"idle", "planned", "creating"} => Kept \subseteq told \cup Tracked(st)
    /\ pc = "planned" => (plan.op = "create" <=> st = NoState)
    /\ pc = "creating" => plan.op = "create" /\ st = NoState
    /\ pc \in {"deleting", "deleted"} =>
            /\ plan.op = "update"
            /\ plan.resources = Render[version][plan.inputs]
    /\ pc = "deleting" =>
            Kept \subseteq told \cup ObjectsOf(plan.resources) \cup ToDo
    /\ pc = "deleted" => Kept \subseteq told \cup ObjectsOf(plan.resources)
    /\ pc = "applying" =>
            /\ call.op = "apply"
            /\ call.todo \subseteq IdsOf(call.bundle)
            /\ Kept \subseteq told \cup ObjectsOf(call.bundle)
            /\ plan.op # "create" => plan.resources = call.bundle
    /\ pc = "destroying" => Kept \subseteq told \cup ToDo

\* What the end of a run does for the objects that stay: an error tells the
\* user of every one that the saved state does not list.
LEMMA EndOrphans ==
    ASSUME NEW how, NEW state, End(how, state),
           \A o \in managed : live'[o] # Absent,
           UNCHANGED <<terminating, managed>>,
           how = "error" \/ Kept \subseteq told \cup Tracked(state)
    PROVE  OrphanInv'
<1>1. Kept' = Kept /\ Tracked(st') = Tracked(state)
  BY DEF Kept, End
<1>2. Kept \subseteq told' \cup Tracked(state)
  BY DEF End, Untracked, Kept
<1>3. /\ pc' = "idle"
      /\ call'.op = "none"
      /\ Tracked(st)' = Tracked(st')
  BY DEF End, NoCall, Tracked
<1>4. QED
  BY <1>1, <1>2, <1>3 DEF OrphanInv, Exists

\* Making namespaces leaves what exists.
LEMMA NamespacesExist ==
    ASSUME NEW made, NEW o \in Objects, Exists(o)
    PROVE  WithNamespaces(made)[o] # Absent
BY ContentAssumption DEF WithNamespaces, Exists

\* Requests, finalizers and other users take objects away from those that stay.
LEMMA RemoveOrphans ==
    ASSUME TypeInv, OrphanInv, NEW o, Remove(o)
    PROVE  /\ Kept' \subseteq Kept
           /\ o \notin Kept'
           /\ \A p \in managed' : live'[p] # Absent
BY DEF Remove, Kept, OrphanInv, Exists, TypeInv, TypeOK, ClusterTypeOK

\* A delete request leaves no object behind that was not there.
LEMMA RequestDeleteOrphans ==
    ASSUME TypeInv, OrphanInv, NEW o \in Objects, RequestDelete(o)
    PROVE  /\ Kept' \subseteq Kept
           /\ o \notin Kept'
           /\ \A p \in managed' : live'[p] # Absent
<1>1. CASE ~Exists(o)
  BY <1>1 DEF RequestDelete, Kept, OrphanInv, Exists
<1>2. CASE Exists(o) /\ Remove(o)
  BY <1>2, RemoveOrphans
<1>3. CASE /\ Exists(o)
           /\ terminating' = terminating \cup {p \in {o} \cup In(o) : Exists(p)}
           /\ UNCHANGED <<live, managed>>
  BY <1>3 DEF Kept, OrphanInv, Exists
<1>4. QED
  BY <1>1, <1>2, <1>3 DEF RequestDelete

\* A bundle that is expanded is what the plan says.
LEMMA FinalPlan ==
    ASSUME NEW result \in CustomDiff(TRUE, "nothing")
    PROVE  /\ result.plan.inputs = inputs
           /\ result.plan.resources = Render[version][inputs]
           /\ result.plan.op = IF st = NoState THEN "create" ELSE "update"
BY DEF CustomDiff, Determined, Values, SeenAs

\* The plan creates if there is no state, and updates if there is one.
LEMMA CustomDiffOp ==
    ASSUME NEW can, NEW unknown, NEW result \in CustomDiff(can, unknown)
    PROVE  result.plan.op = "create" <=> st = NoState
<1>1. \A reason : Undetermined(reason).plan.op = "create" <=> st = NoState
  BY DEF Undetermined
<1>2. \A bundle, seen :
        Determined(unknown, bundle, seen).plan.op = "create" <=> st = NoState
  BY DEF Determined
<1>3. QED
  BY <1>1, <1>2 DEF CustomDiff

\* Nothing is managed at the start.
LEMMA OrphanInit == Init => OrphanInv
BY DEF Init, ClusterInit, ClientInit, NoCall, OrphanInv, Kept, Tracked

\* Planning and editing move nothing, and no run is going on.
LEMMA OrphanPlanning ==
    ASSUME TypeInv, OrphanInv,
           \/ \E can \in CanRuns, unknown \in Unknowns : MakePlan(can, unknown)
           \/ PlanFails \/ PlanDestroy \/ Discard \/ EditConfig
    PROVE  OrphanInv'
<1>1. /\ pc \in {"idle", "planned"}
      /\ pc' \in {"idle", "planned"}
      /\ UNCHANGED <<terminating, managed, call, st, told>>
  BY DEF MakePlan, PlanFails, PlanDestroy, Discard, EditConfig, clusterVars,
     clientVars
<1>2. \A o \in managed : live'[o] # Absent
  BY NamespacesExist DEF MakePlan, PlanFails, FailedDiff, PlanDestroy, Discard,
     EditConfig, clusterVars, OrphanInv, Exists, TypeInv, TypeOK, ClusterTypeOK
<1>3. pc' = "planned" => (plan'.op = "create" <=> st = NoState)
  <2>1. CASE \E can \in CanRuns, unknown \in Unknowns : MakePlan(can, unknown)
    <3>1. PICK can \in CanRuns, unknown \in Unknowns : MakePlan(can, unknown)
      BY <2>1
    <3>2. PICK result \in CustomDiff(can, unknown) :
            pc' = pc \/ plan' = result.plan
      BY <3>1 DEF MakePlan
    <3>3. QED
      BY <3>1, <3>2, CustomDiffOp DEF MakePlan
  <2>2. CASE PlanDestroy
    BY <2>2 DEF PlanDestroy
  <2>3. CASE PlanFails \/ Discard \/ EditConfig
    BY <2>3 DEF PlanFails, Discard, EditConfig
  <2>4. QED
    BY <2>1, <2>2, <2>3
<1>4. QED
  BY <1>1, <1>2, <1>3 DEF OrphanInv, Kept, Exists, Tracked

\* The delete of an update, or of the resource, has all it needs to delete
\* before it.
LEMMA OrphanApprove ==
    ASSUME AllDiscovered, TypeInv, OrphanInv, Approve
    PROVE  OrphanInv'
<1>1. PICK result \in CustomDiff(TRUE, "nothing") :
            /\ live' = WithNamespaces(result.made)
            /\ plan' = result.plan
            /\ IF plan.op = "create"
               THEN StartCreate
               ELSE StartUpdate(Removed(Prior, result.plan.resources))
  BY DEF Approve
<1>2. /\ pc = "planned"
      /\ call.op = "none"
      /\ UNCHANGED <<terminating, managed, st, inputs, version>>
  BY DEF Approve, OrphanInv
<1>3. \A o \in managed : live'[o] # Absent
  BY <1>1, NamespacesExist DEF OrphanInv, Exists, TypeInv, TypeOK, ClusterTypeOK
<1>4. Kept \subseteq told \cup Tracked(st)
  BY <1>2 DEF OrphanInv
<1>5. CASE plan.op = "create"
  <2>1. /\ st = NoState
        /\ plan'.op = "create"
    BY <1>1, <1>2, <1>5, FinalPlan DEF OrphanInv
  <2>2. pc' = "creating" /\ UNCHANGED <<call, told>>
    BY <1>1, <1>5 DEF StartCreate
  <2>3. QED
    BY <1>2, <1>3, <1>4, <2>1, <2>2 DEF OrphanInv, Kept, Exists, Tracked
<1>6. CASE plan.op # "create"
  <2> DEFINE new == result.plan.resources
             removed == Removed(Prior, new)
  <2>1. /\ plan'.op = "update"
        /\ plan'.resources = Render[version'][plan'.inputs]
        /\ plan'.resources = new
    BY <1>1, <1>2, <1>6, FinalPlan DEF OrphanInv
  <2>2. Tracked(st) \subseteq ObjectsOf(new) \cup {ObjectOf[id] : id \in removed}
    BY DEF Tracked, Prior, ObjectsOf, Removed
  <2>3. StartUpdate(removed)
    BY <1>1, <1>6
  <2> HIDE DEF new, removed
  <2>4. CASE removed = {} /\ pc' = "deleted" /\ UNCHANGED <<call, told>>
    BY <1>2, <1>3, <1>4, <2>1, <2>2, <2>4 DEF OrphanInv, Kept, Exists
  <2>5. CASE BeginDelete(removed) /\ pc' = "deleting" /\ UNCHANGED told
    <3>1. removed \subseteq Ids
      BY DEF removed, Removed, IdsOf
    <3>2. call'.op = "delete" /\ call'.todo = removed
      BY <2>5, <3>1 DEF BeginDelete, AllDiscovered
    <3>3. QED
      BY <1>2, <1>3, <1>4, <2>1, <2>2, <2>5, <3>2 DEF OrphanInv, Kept, Exists, ToDo
  <2>6. CASE /\ told' = told \cup {ObjectOf[id] : id \in removed}
             /\ pc' = "deleted"
             /\ UNCHANGED call
    BY <1>2, <1>3, <1>4, <2>1, <2>2, <2>6 DEF OrphanInv, Kept, Exists
  <2>7. QED
    BY <2>3, <2>4, <2>5, <2>6 DEF StartUpdate
<1>7. QED
  BY <1>5, <1>6

\* A destroy takes on every object of the state, or tells the user.
LEMMA OrphanDestroy ==
    ASSUME AllDiscovered, TypeInv, OrphanInv, NEW can, Destroy(can)
    PROVE  OrphanInv'
<1>1. /\ pc = "planned"
      /\ st # NoState
      /\ call.op = "none"
      /\ UNCHANGED <<live, terminating, managed>>
      /\ Kept \subseteq told \cup ObjectsOf(st.resources)
      /\ \A o \in managed : live'[o] # Absent
  BY DEF Destroy, clusterVars, OrphanInv, Tracked, Exists
<1>2. CASE End("error", st)
  BY <1>1, <1>2, EndOrphans
<1>3. CASE /\ st' = NoState
           /\ pc' = "idle"
           /\ told' = told \cup ObjectsOf(st.resources)
           /\ UNCHANGED call
  BY <1>1, <1>3 DEF OrphanInv, Kept, Tracked, Exists
<1>4. CASE /\ BeginDelete(IdsOf(st.resources))
           /\ pc' = "destroying"
           /\ UNCHANGED told
  <2>1. call'.op = "delete" /\ call'.todo = IdsOf(st.resources)
    BY <1>4, IdsOfType DEF BeginDelete, AllDiscovered
  <2>2. QED
    BY <1>1, <1>4, <2>1 DEF OrphanInv, Kept, Exists, ToDo, ObjectsOf
<1>5. QED
  BY <1>2, <1>3, <1>4 DEF Destroy

\* Each request does its part.
LEMMA OrphanKubectl ==
    ASSUME TypeInv, OrphanInv, Kubectl
    PROVE  OrphanInv'
<1>1. /\ UNCHANGED <<version, st, plan, pc, told>>
      /\ call \in Calls
  BY DEF Kubectl, tfVars, TypeInv, TypeOK, ClientTypeOK
<1>2. CASE ApplyOne
  <2>1. pc = "applying"
    BY <1>2 DEF ApplyOne, OrphanInv, TypeInv, TypeOK, Phases
  <2>2. /\ call'.op = "apply"
        /\ call'.bundle = call.bundle
        /\ call'.todo \subseteq call.todo
    BY <1>2, KubectlTodo DEF ApplyOne
  <2>3. PICK id \in call.todo : \/ Put(ObjectOf[id], call.bundle[id])
                                \/ UNCHANGED <<live, terminating, managed>>
    BY <1>2 DEF ApplyOne
  <2>4. id \in IdsOf(call.bundle)
    BY <2>1 DEF OrphanInv
  <2>5. Kept' \subseteq Kept \cup ObjectsOf(call.bundle)
    BY <2>3, <2>4 DEF Put, Kept, ObjectsOf
  <2>6. \A o \in managed' : live'[o] # Absent
    <3>1. CASE UNCHANGED <<live, terminating, managed>>
      BY <3>1 DEF OrphanInv, Exists
    <3>2. CASE Put(ObjectOf[id], call.bundle[id])
      <4>1. /\ call.bundle[id] # Absent
            /\ live \in [Objects -> Content]
            /\ managed \subseteq Objects
        BY <2>4 DEF IdsOf, TypeInv, TypeOK, ClusterTypeOK
      <4>2. ObjectOf[id] \in Objects
        BY <2>4, IdsAssumption DEF IdsOf
      <4>3. QED
        BY <3>2, <4>1, <4>2 DEF Put, OrphanInv, Exists
    <3>3. QED
      BY <2>3, <3>1, <3>2
  <2>7. QED
    BY <1>1, <2>1, <2>2, <2>5, <2>6 DEF OrphanInv, Exists
<1>3. CASE DeleteOne
  <2>1. pc \in {"deleting", "destroying"} /\ call'.op = "delete"
    BY <1>3, KubectlTodo DEF DeleteOne, OrphanInv, TypeInv, TypeOK, Phases
  <2>2. ASSUME NEW id \in call.todo, RequestDelete(ObjectOf[id]), Answer(id)
        PROVE  /\ Kept' \subseteq Kept
               /\ \A o \in managed' : live'[o] # Absent
               /\ Kept' \cap ToDo \subseteq ToDo'
    <3>1. ObjectOf[id] \in Objects
      BY <1>1, IdsAssumption DEF Calls
    <3>2. call'.todo = call.todo \ {id}
      BY <1>1, <2>2 DEF Answer, Calls
    <3>3. QED
      BY <2>2, <3>1, <3>2, RequestDeleteOrphans DEF ToDo
  <2>3. CASE /\ call' = [call EXCEPT !.failed = TRUE]
             /\ UNCHANGED <<live, terminating, managed>>
    <3>1. call'.todo = call.todo
      BY <1>1, <2>3 DEF Calls
    <3>2. QED
      BY <1>1, <2>1, <2>3, <3>1 DEF OrphanInv, Exists, Kept, ToDo
  <2>4. CASE \E id \in call.todo : RequestDelete(ObjectOf[id]) /\ Answer(id)
    BY <1>1, <2>1, <2>2, <2>4 DEF OrphanInv, Exists
  <2>5. QED
    BY <1>3, <2>3, <2>4 DEF DeleteOne
<1>4. QED
  BY <1>2, <1>3 DEF Kubectl

\* A handler that returns has nothing left to account for.
LEMMA OrphanReturns ==
    ASSUME OneVersion, TypeInv, OrphanInv,
           \/ ExpandAndApply \/ SkipApply \/ ExpandFails \/ ApplyReturns
           \/ DeleteReturns \/ DestroyReturns \/ Crash
    PROVE  OrphanInv'
<1>1. /\ UNCHANGED <<live, terminating, managed, version>>
      /\ \A o \in managed : live'[o] # Absent
  BY DEF ExpandAndApply, SkipApply, ExpandFails, ApplyReturns, DeleteReturns,
     DestroyReturns, Crash, End, clusterVars, OrphanInv, Exists
<1>2. ASSUME NEW state, End("error", state) PROVE OrphanInv'
  BY <1>1, <1>2, EndOrphans
<1>3. ASSUME NEW state, End("ok", state), Kept \subseteq told \cup Tracked(state)
      PROVE  OrphanInv'
  BY <1>1, <1>3, EndOrphans
<1>4. CASE ExpandAndApply
  <2> DEFINE bundle == Render[version][plan.inputs]
  <2>1. /\ call'.op = "apply"
        /\ call'.bundle = bundle
        /\ call'.todo = IdsOf(bundle)
        /\ pc' = "applying"
        /\ UNCHANGED <<plan, told>>
    BY <1>4 DEF ExpandAndApply, BeginApply
  <2>2. Kept \subseteq told \cup ObjectsOf(bundle)
    BY <1>4 DEF ExpandAndApply, OrphanInv, Tracked
  <2>3. plan.op # "create" => plan.resources = bundle
    BY <1>4 DEF ExpandAndApply, OrphanInv
  <2> HIDE DEF bundle
  <2>4. QED
    BY <1>1, <2>1, <2>2, <2>3 DEF OrphanInv, Kept, Exists
<1>5. CASE SkipApply
  <2>1. plan.resources \in AllBundles
    BY <1>5, RenderType DEF SkipApply, OrphanInv, TypeInv, TypeOK, Plans
  <2>2. Saved({}) # NoState
    BY <1>5, SavedType, StateAssumption DEF SkipApply
  <2>3. Tracked(Saved({})) = ObjectsOf(plan.resources)
    BY <2>1, <2>2, RenderAssumption DEF Tracked, Saved
  <2>4. End("ok", Saved({})) /\ Kept \subseteq told \cup ObjectsOf(plan.resources)
    BY <1>5 DEF SkipApply, OrphanInv
  <2>5. QED
    BY <1>3, <2>3, <2>4
<1>6. CASE ApplyReturns
  <2> DEFINE created == [inputs |-> plan.inputs, diff |-> {},
                         resources |-> call.bundle]
  <2>1. /\ pc = "applying"
        /\ Kept \subseteq told \cup ObjectsOf(call.bundle)
    BY <1>6 DEF ApplyReturns, OrphanInv
  <2>2. CASE plan.op = "create" /\ End("ok", created)
    <3>1. created \in States
      BY <1>6 DEF ApplyReturns, Plans, States, TypeInv, TypeOK, ClientTypeOK, Calls
    <3>2. Tracked(created) = ObjectsOf(call.bundle)
      BY <3>1, StateAssumption DEF Tracked
    <3>3. QED
      BY <1>3, <2>1, <2>2, <3>2
  <2>3. CASE plan.op # "create" /\ End("ok", Saved({}))
    <3>1. plan.resources = call.bundle /\ call.bundle \in AllBundles
      BY <1>6, <2>3 DEF ApplyReturns, OrphanInv, TypeInv, TypeOK, ClientTypeOK,
         Calls
    <3>2. Saved({}) # NoState
      BY <1>6, SavedType, StateAssumption DEF ApplyReturns
    <3>3. Tracked(Saved({})) = ObjectsOf(call.bundle)
      BY <3>1, <3>2, RenderAssumption DEF Tracked, Saved
    <3>4. QED
      BY <1>3, <2>1, <2>3, <3>3
  <2>4. CASE \E state : End("error", state)
    BY <1>2, <2>4
  <2>5. QED
    BY <1>6, <2>2, <2>3, <2>4 DEF ApplyReturns
<1>7. CASE DeleteReturns
  <2>1. CASE End("error", Saved(plan.diff))
    BY <1>2, <2>1
  <2>2. CASE Succeeded("delete") /\ pc' = "deleted" /\ call' = NoCall
             /\ UNCHANGED <<st, plan, told>>
    <3>1. ToDo = {}
      BY <2>2 DEF Succeeded, Returned, ToDo
    <3>2. QED
      BY <1>1, <1>7, <2>2, <3>1 DEF DeleteReturns, OrphanInv, Kept, Exists, NoCall
  <2>3. QED
    BY <1>7, <2>1, <2>2 DEF DeleteReturns
<1>8. CASE DestroyReturns
  <2>1. CASE Succeeded("delete") /\ End("ok", NoState)
    <3>1. ToDo = {}
      BY <2>1 DEF Succeeded, Returned, ToDo
    <3>2. QED
      BY <1>3, <1>8, <2>1, <3>1 DEF DestroyReturns, OrphanInv
  <2>2. QED
    BY <1>2, <1>8, <2>1 DEF DestroyReturns
<1>9. CASE ExpandFails \/ Crash
  BY <1>2, <1>9 DEF ExpandFails, Crash
<1>10. QED
  BY <1>4, <1>5, <1>6, <1>7, <1>8, <1>9

\* What others do takes away, or leaves alone.
LEMMA OrphanOthers ==
    ASSUME OneVersion, TypeInv, OrphanInv,
           SourceMoves \/ ClusterMoves \/ UNCHANGED vars
    PROVE  OrphanInv'
<1>1. CASE SourceMoves
  BY <1>1, Zenon DEF SourceMoves, OneVersion, TypeInv, TypeOK
<1>2. CASE ClusterMoves
  <2>1. UNCHANGED <<call, version, st, plan, pc, told>>
    BY <1>2 DEF ClusterMoves, clientVars
  <2>2. Kept' \subseteq Kept /\ \A o \in managed' : live'[o] # Absent
    <3>1. CASE Finalize
      BY <3>1, RemoveOrphans DEF Finalize
    <3>2. CASE Drift
      <4>1. PICK o \in Objects :
              \/ \E hash \in Hashes : live' = [live EXCEPT ![o] = hash]
                                      /\ UNCHANGED <<terminating, managed>>
              \/ Remove(o)
        BY <3>2 DEF Drift
      <4>2. CASE \E hash \in Hashes : live' = [live EXCEPT ![o] = hash]
                                      /\ UNCHANGED <<terminating, managed>>
        BY <4>2, ContentAssumption DEF OrphanInv, Exists, Kept, TypeInv, TypeOK,
           ClusterTypeOK
      <4>3. QED
        BY <4>1, <4>2, RemoveOrphans
    <3>3. QED
      BY <1>2, <3>1, <3>2 DEF ClusterMoves
  <2>3. QED
    BY <2>1, <2>2 DEF OrphanInv, Exists, ToDo
<1>3. CASE UNCHANGED vars
  BY <1>3 DEF vars, clusterVars, clientVars, tfVars, OrphanInv, Exists, Kept, ToDo
<1>4. QED
  BY <1>1, <1>2, <1>3

\* Every step accounts for what the provider has made.
LEMMA OrphanStep ==
    ASSUME AllDiscovered, OneVersion, TypeInv, OrphanInv, [Next]_vars
    PROVE  OrphanInv'
<1>1. ASSUME NEW can \in CanRuns, Reject(can) PROVE OrphanInv'
  <2>1. /\ \A o \in managed : live'[o] # Absent
        /\ UNCHANGED <<terminating, managed>>
    BY <1>1, NamespacesExist
       DEF Reject, OrphanInv, Exists, TypeInv, TypeOK, ClusterTypeOK
  <2>2. QED
    BY <1>1, <2>1, EndOrphans DEF Reject, OrphanInv
<1>2. ASSUME FinalPlanFails PROVE OrphanInv'
  <2>1. /\ \A o \in managed : live'[o] # Absent
        /\ UNCHANGED <<terminating, managed>>
    BY <1>2, NamespacesExist
       DEF FinalPlanFails, FailedDiff, OrphanInv, Exists, TypeInv, TypeOK,
           ClusterTypeOK
  <2>2. QED
    BY <1>2, <2>1, EndOrphans DEF FinalPlanFails
<1>3. ASSUME Refuse PROVE OrphanInv'
  <2>1. /\ \A o \in managed : live'[o] # Absent
        /\ UNCHANGED <<terminating, managed>>
    BY <1>3 DEF Refuse, clusterVars, OrphanInv, Exists
  <2>2. QED
    BY <1>3, <2>1, EndOrphans DEF Refuse
<1>4. CASE Terraform
  BY <1>1, <1>2, <1>3, <1>4, OrphanPlanning, OrphanApprove, OrphanDestroy
     DEF Terraform
<1>5. CASE Handlers
  BY <1>5, OrphanReturns, OrphanKubectl DEF Handlers
<1>6. CASE EditConfig \/ SourceMoves \/ ClusterMoves \/ UNCHANGED vars
  BY <1>6, OrphanPlanning, OrphanOthers
<1>7. QED
  BY <1>4, <1>5, <1>6 DEF Next

\* With every kind discovered and a pinned source, no object that the provider
\* made drops out of the Terraform state unless it is being deleted or the
\* user was told.
THEOREM NoOrphanIsSilent ==
    ASSUME AllDiscovered, OneVersion
    PROVE  Spec => []NoSilentOrphan
<1>1. TypeInv /\ OrphanInv /\ [Next]_vars => OrphanInv'
  BY OrphanStep
<1>2. OrphanInv => NoSilentOrphan
  BY DEF OrphanInv, NoSilentOrphan, Untracked, Kept
<1>3. QED
  BY <1>1, <1>2, OrphanInit, TypeInit, TypeStep, PTL DEF Spec

-----------------------------------------------------------------------------
(* The books are kept: the resource implements Ownership.                  *)

\* A step that leaves the objects, the state and the knowledge of the user
\* alone begins a run, goes on with one, or does nothing at all.
LEMMA BooksWork ==
    ASSUME UNCHANGED <<managed, terminating, st, told>>,
           \/ pc' \notin {"idle", "planned"}
           \/ pc' \in {"idle", "planned"} /\ pc \in {"idle", "planned"}
    PROVE  Books!Work \/ UNCHANGED Books!books
BY DEF Books!Work, Books!books, Tracked

\* A run that ends settles the books.
LEMMA BooksSettle ==
    ASSUME NEW how, NEW state, End(how, state), OrphanInv',
           UNCHANGED <<terminating, managed>>
    PROVE  Books!Settle
<1>1. /\ st' = state
      /\ pc' = "idle"
      /\ told \ told' \subseteq Tracked(state)
  BY DEF End
<1>2. Tracked(st)' = Tracked(state)
  BY <1>1 DEF Tracked
<1>3. Kept' \subseteq told' \cup Tracked(st)'
  BY <1>1 DEF OrphanInv
<1>4. QED
  BY <1>1, <1>2, <1>3 DEF Books!Settle, Books!Kept, Kept

\* A request makes an object or takes some away.
LEMMA BooksKubectl ==
    ASSUME TypeInv, OrphanInv, Kubectl
    PROVE  Books!Make \/ Books!Lose
<1>1. /\ UNCHANGED <<st, pc, told>>
      /\ Tracked(st)' = Tracked(st)
      /\ call \in Calls
      /\ call.op # "none"
  BY DEF Kubectl, tfVars, Tracked, TypeInv, TypeOK, ClientTypeOK, ApplyOne,
     DeleteOne
<1>2. pc \notin {"idle", "planned"}
  BY <1>1 DEF OrphanInv
<1>3. ASSUME NEW id \in call.todo, Put(ObjectOf[id], call.bundle[id])
      PROVE  Books!Make \/ Books!Lose
  <2>1. ObjectOf[id] \in Objects
    BY <1>1, IdsAssumption DEF Calls
  <2>2. /\ managed' = managed \cup {ObjectOf[id]}
        /\ terminating' = terminating
    BY <1>3 DEF Put
  <2>3. CASE ObjectOf[id] \in terminating
    BY <1>1, <2>2, <2>3 DEF Books!Lose
  <2>4. CASE ObjectOf[id] \notin terminating
    <3>1. managed' \ terminating' = (managed \ terminating) \cup {ObjectOf[id]}
      BY <2>2, <2>4
    <3>2. QED
      BY <1>1, <1>2, <2>1, <3>1 DEF Books!Make
  <2>5. QED
    BY <2>3, <2>4
<1>4. ASSUME NEW id \in call.todo, RequestDelete(ObjectOf[id])
      PROVE  Books!Lose
  <2>1. ObjectOf[id] \in Objects
    BY <1>1, IdsAssumption DEF Calls
  <2>2. Kept' \subseteq Kept
    BY <1>4, <2>1, RequestDeleteOrphans
  <2>3. QED
    BY <1>1, <2>2 DEF Books!Lose, Kept
<1>5. CASE UNCHANGED <<live, terminating, managed>>
  BY <1>1, <1>5 DEF Books!Lose
<1>6. CASE ApplyOne
  BY <1>3, <1>5, <1>6 DEF ApplyOne
<1>7. CASE DeleteOne
  BY <1>4, <1>5, <1>7 DEF DeleteOne
<1>8. QED
  BY <1>6, <1>7 DEF Kubectl

\* The end of a handler settles the books; its other steps go on with the run.
LEMMA BooksHandlers ==
    ASSUME TypeInv, OrphanInv, OrphanInv', Handlers
    PROVE  [Books!Next]_(Books!books)
<1>1. ASSUME NEW how, NEW state, End(how, state),
             UNCHANGED <<terminating, managed>>
      PROVE  Books!Next
  BY <1>1, BooksSettle DEF Books!Next
<1>2. CASE ExpandAndApply
  BY <1>2, BooksWork DEF ExpandAndApply, clusterVars, Books!Next
<1>3. CASE SkipApply \/ ExpandFails \/ Crash
  BY <1>1, <1>3 DEF SkipApply, ExpandFails, Crash, clusterVars
<1>4. CASE ApplyReturns
  BY <1>1, <1>4 DEF ApplyReturns, clusterVars
<1>5. CASE DeleteReturns
  <2>1. UNCHANGED <<terminating, managed>>
    BY <1>5 DEF DeleteReturns, clusterVars
  <2>2. CASE pc' = "deleted" /\ UNCHANGED <<st, told>>
    BY <2>1, <2>2, BooksWork DEF Books!Next
  <2>3. CASE End("error", Saved(plan.diff))
    BY <1>1, <2>1, <2>3
  <2>4. QED
    BY <1>5, <2>2, <2>3 DEF DeleteReturns
<1>6. CASE DestroyReturns
  BY <1>1, <1>6 DEF DestroyReturns, clusterVars
<1>7. CASE Kubectl
  BY <1>7, BooksKubectl DEF Books!Next
<1>8. QED
  BY <1>2, <1>3, <1>4, <1>5, <1>6, <1>7 DEF Handlers

\* What Terraform does before it calls a handler, and in place of one.
LEMMA BooksTerraform ==
    ASSUME TypeInv, OrphanInv, OrphanInv', Terraform
    PROVE  [Books!Next]_(Books!books)
<1>1. ASSUME NEW how, NEW state, End(how, state),
             UNCHANGED <<terminating, managed>>
      PROVE  Books!Next
  BY <1>1, BooksSettle DEF Books!Next
<1>2. CASE \/ \E can \in CanRuns, unknown \in Unknowns : MakePlan(can, unknown)
           \/ PlanFails \/ PlanDestroy \/ Discard
  <2>1. /\ pc \in {"idle", "planned"}
        /\ pc' \in {"idle", "planned"}
        /\ UNCHANGED <<terminating, managed, st, told>>
    BY <1>2 DEF MakePlan, PlanFails, PlanDestroy, Discard, clusterVars
  <2>2. QED
    BY <2>1, BooksWork DEF Books!Next
<1>3. ASSUME NEW can \in CanRuns, Reject(can) PROVE Books!Next
  BY <1>1, <1>3 DEF Reject
<1>4. CASE FinalPlanFails \/ Refuse
  BY <1>1, <1>4 DEF FinalPlanFails, Refuse, clusterVars
<1>5. CASE Approve
  <2>1. /\ pc' \in {"creating", "deleting", "deleted"}
        /\ UNCHANGED <<terminating, managed, st>>
        /\ told \subseteq told'
    BY <1>5 DEF Approve, StartCreate, StartUpdate
  <2>2. QED
    BY <2>1 DEF Books!Next, Books!Work, Tracked
<1>6. ASSUME NEW can \in CanRuns, Destroy(can)
      PROVE  [Books!Next]_(Books!books)
  <2>1. UNCHANGED <<terminating, managed>> /\ pc = "planned"
    BY <1>6 DEF Destroy, clusterVars
  <2>2. CASE End("error", st)
    BY <1>1, <2>1, <2>2
  <2>3. CASE /\ st' = NoState
             /\ pc' = "idle"
             /\ told' = told \cup ObjectsOf(st.resources)
    <3>1. Kept' \subseteq told' \cup Tracked(st)'
      BY <2>3 DEF OrphanInv
    <3>2. QED
      BY <2>1, <2>3, <3>1 DEF Books!Next, Books!Settle, Books!Kept, Kept
  <2>4. CASE pc' = "destroying" /\ UNCHANGED <<st, told>>
    BY <2>1, <2>4, BooksWork DEF Books!Next
  <2>5. QED
    BY <1>6, <2>2, <2>3, <2>4 DEF Destroy
<1>7. QED
  BY <1>2, <1>3, <1>4, <1>5, <1>6 DEF Terraform

\* What others do takes objects away at most.
LEMMA BooksOthers ==
    ASSUME TypeInv, OrphanInv,
           EditConfig \/ SourceMoves \/ ClusterMoves \/ UNCHANGED vars
    PROVE  [Books!Next]_(Books!books)
<1>1. CASE EditConfig \/ SourceMoves \/ UNCHANGED vars
  <2>1. UNCHANGED <<terminating, managed, st, told, pc>>
    <3>1. CASE EditConfig
      BY <3>1 DEF EditConfig, clusterVars
    <3>2. CASE SourceMoves
      BY <3>2, Zenon DEF SourceMoves, clusterVars
    <3>3. CASE UNCHANGED vars
      BY <3>3 DEF vars, clusterVars, tfVars
    <3>4. QED
      BY <1>1, <3>1, <3>2, <3>3
  <2>2. QED
    BY <2>1 DEF Books!books, Tracked
<1>2. CASE ClusterMoves
  <2>1. UNCHANGED <<st, pc, told>>
    BY <1>2 DEF ClusterMoves
  <2>2. Kept' \subseteq Kept
    <3>1. CASE Finalize
      BY <3>1, RemoveOrphans DEF Finalize
    <3>2. CASE Drift
      <4>1. PICK o \in Objects :
              UNCHANGED <<terminating, managed>> \/ Remove(o)
        BY <3>2 DEF Drift
      <4>2. QED
        BY <4>1, RemoveOrphans DEF Kept
    <3>3. QED
      BY <1>2, <3>1, <3>2 DEF ClusterMoves
  <2>3. QED
    BY <2>1, <2>2 DEF Books!Next, Books!Lose, Kept, Tracked
<1>3. QED
  BY <1>1, <1>2

\* With every kind discovered and a pinned source, the profile resource
\* implements Ownership: its initial states are those of an empty book, and
\* each of its steps is a step of the book keeper or none.
THEOREM ProfileKeepsBooks ==
    ASSUME AllDiscovered, OneVersion
    PROVE  Spec => KeepsBooks
<1>1. Init => Books!Init
  BY DEF Init, ClusterInit, Tracked, Books!Init
<1>2. TypeInv /\ OrphanInv /\ [Next]_vars => OrphanInv'
  BY OrphanStep
<1>3. TypeInv /\ OrphanInv /\ OrphanInv' /\ [Next]_vars
        => [Books!Next]_(Books!books)
  BY BooksHandlers, BooksTerraform, BooksOthers DEF Next
<1>4. QED
  BY <1>1, <1>2, <1>3, OrphanInit, TypeInit, TypeStep, PTL
     DEF Spec, KeepsBooks, Books!Spec

=============================================================================

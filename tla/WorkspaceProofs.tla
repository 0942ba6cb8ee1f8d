-------------------------- MODULE WorkspaceProofs --------------------------
(***************************************************************************)
(* Theorems about Workspace, for any number of processes and modules, any  *)
(* sources and any times.  The code takes for granted that the clock tells *)
(* the expands of a process apart, and the theorem about files assumes it; *)
(* that a process may be outlived by the threshold of the sweep is part of *)
(* the properties.                                                         *)
(***************************************************************************)
EXTENDS Workspace, TLAPS

Procs == [phase : {"new", "sweeping", "ready", "serving", "ended"},
          started : 0..MaxTime, configured : 0..MaxTime,
          tosweep : SUBSET Runs, missed : SUBSET Runs]
Dirs == [exists : BOOLEAN, kubeconfig : BOOLEAN, expanded : BOOLEAN,
         mtime : 0..MaxTime]
Jobs == [pc : {"idle", "copying", "expanded", "used", "failed"},
         stamp : Stamps \cup {NoStamp}, tocopy : SUBSET AllFiles,
         seen : SUBSET AllFiles, applied : SUBSET AllFiles]

-----------------------------------------------------------------------------
(* Types.                                                                  *)

\* The types of the values that an action replaces another by.
LEMMA ValueTypes ==
    ASSUME clock \in 0..MaxTime
    PROVE  /\ NoDir \in Dirs
           /\ \A k \in BOOLEAN : FreshDir(k) \in Dirs
           /\ NoJob \in Jobs
           /\ \A m \in Modules : SourceOf[m] \subseteq AllFiles
           /\ \A r, s : FilesIn(r, s) \subseteq AllFiles
<1>1. 0 \in 0..MaxTime
  BY WorkspaceAssumption
<1>2. NoDir \in Dirs
  BY <1>1 DEF NoDir, Dirs
<1>3. \A k \in BOOLEAN : FreshDir(k) \in Dirs
  BY DEF FreshDir, Dirs
<1>4. NoJob \in Jobs
  BY DEF NoJob, Jobs
<1>5. \A m \in Modules : SourceOf[m] \subseteq AllFiles
  BY DEF AllFiles
<1>6. \A r, s : FilesIn(r, s) \subseteq AllFiles
  BY DEF FilesIn
<1> QED
  BY <1>2, <1>3, <1>4, <1>5, <1>6

\* Processes as they change.
LEMMA ProcType ==
    ASSUME NEW p \in Procs
    PROVE  /\ \A started \in 0..MaxTime, swept \in SUBSET Runs :
                 [p EXCEPT !.phase = "sweeping", !.started = started,
                           !.tosweep = swept] \in Procs
           /\ \A swept \in SUBSET Runs : [p EXCEPT !.tosweep = swept] \in Procs
           /\ \A swept \in SUBSET Runs, missed \in SUBSET Runs :
                 [p EXCEPT !.tosweep = swept, !.missed = missed] \in Procs
           /\ \A phase \in {"ready", "ended"} : [p EXCEPT !.phase = phase] \in Procs
           /\ \A configured \in 0..MaxTime :
                 [p EXCEPT !.phase = "serving", !.configured = configured] \in Procs
BY DEF Procs

\* Jobs as they change.
LEMMA JobType ==
    ASSUME NEW j \in Jobs
    PROVE  /\ \A s \in Stamps, todo \in SUBSET AllFiles :
                 [NoJob EXCEPT !.pc = "copying", !.stamp = s, !.tocopy = todo] \in Jobs
           /\ \A todo \in SUBSET AllFiles : [j EXCEPT !.tocopy = todo] \in Jobs
           /\ [j EXCEPT !.pc = "failed"] \in Jobs
           /\ \A pc \in {"expanded", "failed"}, found \in SUBSET AllFiles :
                 [j EXCEPT !.pc = pc, !.seen = found] \in Jobs
           /\ \A found \in SUBSET AllFiles :
                 [j EXCEPT !.pc = "used", !.applied = found] \in Jobs
BY DEF Jobs, NoJob

\* Only one module's job is replaced.
LEMMA OneJob ==
    ASSUME job \in [Runs -> [Modules -> Jobs]], NEW r \in Runs, NEW m \in Modules,
           NEW j \in Jobs, job' = [job EXCEPT ![r][m] = j]
    PROVE  /\ job' \in [Runs -> [Modules -> Jobs]]
           /\ job'[r][m] = j
           /\ \A q \in Runs, k \in Modules : <<q, k>> # <<r, m>> => job'[q][k] = job[q][k]
OBVIOUS

\* What the step of a module does to its job.
ModuleStep(r, m, j) ==
    /\ proc[r].phase = "serving"
    /\ j \in Jobs
    /\ job' = [job EXCEPT ![r][m] = j]

\* The types hold at the start.
LEMMA TypeInit == Init => TypeOK
<1> SUFFICES ASSUME Init PROVE TypeOK
  OBVIOUS
<1>1. clock \in 0..MaxTime /\ faults \in 0..MaxFaults
  BY WorkspaceAssumption DEF Init
<1>2. NoDir \in Dirs /\ NoJob \in Jobs
  BY <1>1, ValueTypes
<1>3. proc \in [Runs -> Procs]
  BY <1>1 DEF Init, Procs
<1>4. dir \in [Runs -> Dirs] /\ job \in [Runs -> [Modules -> Jobs]]
  BY <1>2 DEF Init
<1>5. files \subseteq Runs \X Stamps \X AllFiles /\ used \in [Runs -> SUBSET Stamps]
  BY DEF Init
<1> QED
  BY <1>1, <1>3, <1>4, <1>5 DEF TypeOK, Procs, Dirs, Jobs

\* Every step of a process's own life keeps the types.
LEMMA TypeProcess ==
    ASSUME TypeOK, NEW r \in Runs,
           StartSweep(r) \/ SweepOne(r) \/ EndSweep(r) \/ Configure(r) \/ Exit(r)
    PROVE  TypeOK'
<1>1. /\ clock \in 0..MaxTime /\ faults \in 0..MaxFaults
      /\ proc \in [Runs -> Procs] /\ dir \in [Runs -> Dirs]
      /\ job \in [Runs -> [Modules -> Jobs]]
      /\ files \subseteq Runs \X Stamps \X AllFiles
      /\ used \in [Runs -> SUBSET Stamps]
  BY DEF TypeOK, Procs, Dirs, Jobs
<1>2. Fault => faults' \in 0..MaxFaults
  BY <1>1, WorkspaceAssumption DEF Fault
<1>3. CASE StartSweep(r)
  <2>1. proc' \in [Runs -> Procs]
    <3>1. {q \in Runs : dir[q].exists} \in SUBSET Runs /\ proc[r] \in Procs
      BY <1>1
    <3> QED
      BY <1>1, <1>3, <3>1, ProcType DEF StartSweep
  <2> QED
    BY <1>1, <1>3, <2>1 DEF StartSweep, TypeOK, Procs, Dirs, Jobs
<1>4. CASE SweepOne(r)
  <2>1. proc' \in [Runs -> Procs]
    <3>1. PICK q \in proc[r].tosweep :
            \/ proc' = [proc EXCEPT ![r].tosweep = @ \ {q}]
            \/ proc' = [proc EXCEPT ![r].tosweep = @ \ {q},
                                    ![r].missed = @ \cup {q}]
      BY <1>4 DEF SweepOne
    <3>2. /\ proc[r] \in Procs
          /\ proc[r].tosweep \ {q} \in SUBSET Runs
          /\ proc[r].missed \cup {q} \in SUBSET Runs
      BY <1>1 DEF Procs
    <3>3. CASE proc' = [proc EXCEPT ![r].tosweep = @ \ {q}]
      BY <1>1, <3>2, <3>3, ProcType
    <3>4. CASE proc' = [proc EXCEPT ![r].tosweep = @ \ {q},
                                    ![r].missed = @ \cup {q}]
      <4>1. [proc[r] EXCEPT !.tosweep = @ \ {q}, !.missed = @ \cup {q}] \in Procs
        BY <3>2, ProcType
      <4> QED
        BY <1>1, <3>4, <4>1
    <3> QED
      BY <3>1, <3>3, <3>4
  <2>2. dir' \in [Runs -> Dirs]
    BY <1>1, <1>4, ValueTypes DEF SweepOne
  <2>3. files' \subseteq files
    BY <1>4 DEF SweepOne
  <2>4. faults' \in 0..MaxFaults /\ UNCHANGED <<clock, job, used>>
    BY <1>1, <1>2, <1>4 DEF SweepOne
  <2> QED
    BY <1>1, <2>1, <2>2, <2>3, <2>4 DEF TypeOK, Procs, Dirs, Jobs
<1>5. CASE EndSweep(r)
  <2>1. proc' \in [Runs -> Procs]
    BY <1>1, <1>5, ProcType DEF EndSweep
  <2> QED
    BY <1>1, <1>5, <2>1 DEF EndSweep, TypeOK, Procs, Dirs, Jobs
<1>6. CASE Configure(r)
  <2>1. proc' \in [Runs -> Procs]
    <3>1. proc[r] \in Procs
      BY <1>1
    <3>2. CASE proc' = [proc EXCEPT ![r].phase = "serving", ![r].configured = clock]
      <4>1. [proc[r] EXCEPT !.phase = "serving", !.configured = clock] \in Procs
        BY <1>1, <3>1, ProcType
      <4> QED
        BY <1>1, <3>2, <4>1
    <3>3. CASE proc' = [proc EXCEPT ![r].phase = "ended"]
      BY <1>1, <3>1, <3>3, ProcType
    <3> QED
      BY <1>6, <3>2, <3>3 DEF Configure
  <2>2. dir' \in [Runs -> Dirs]
    BY <1>1, <1>6, ValueTypes DEF Configure
  <2>3. faults' \in 0..MaxFaults /\ UNCHANGED <<clock, files, job, used>>
    BY <1>1, <1>2, <1>6 DEF Configure
  <2> QED
    BY <1>1, <2>1, <2>2, <2>3 DEF TypeOK, Procs, Dirs, Jobs
<1>7. CASE Exit(r)
  <2>1. proc' \in [Runs -> Procs]
    BY <1>1, <1>7, ProcType DEF Exit
  <2>2. job' \in [Runs -> [Modules -> Jobs]]
    BY <1>1, <1>7, ValueTypes DEF Exit
  <2>3. used' \in [Runs -> SUBSET Stamps] /\ UNCHANGED <<clock, dir, files, faults>>
    BY <1>1, <1>7 DEF Exit
  <2> QED
    BY <1>1, <2>1, <2>2, <2>3 DEF TypeOK, Procs, Dirs, Jobs
<1> QED
  BY <1>3, <1>4, <1>5, <1>6, <1>7

\* What kubectl makes of an expanded module.
Used(r, m) == IF dir[r].kubeconfig THEN FilesIn(r, job[r][m].stamp) ELSE {}

\* What each step of a module makes of its job.
LEMMA Steps ==
    ASSUME TypeOK, NEW r \in Runs, NEW m \in Modules
    PROVE  /\ StartExpand(r, m) =>
                 \E s \in Stamps :
                    /\ MayUse(r, s)
                    /\ used' = [used EXCEPT ![r] = @ \cup {s}]
                    /\ ModuleStep(r, m, [NoJob EXCEPT !.pc = "copying", !.stamp = s,
                                                      !.tocopy = SourceOf[m]])
           /\ CopyOne(r, m) =>
                 \/ \E f \in job[r][m].tocopy :
                       /\ f \in AllFiles
                       /\ files' = files \cup {<<r, job[r][m].stamp, f>>}
                       /\ ModuleStep(r, m, [job[r][m] EXCEPT !.tocopy = @ \ {f}])
                 \/ /\ UNCHANGED files
                    /\ ModuleStep(r, m, [job[r][m] EXCEPT !.pc = "failed"])
           /\ List(r, m) =>
                 \E pc \in {"expanded", "failed"} :
                    ModuleStep(r, m, [job[r][m] EXCEPT
                        !.pc = pc, !.seen = FilesIn(r, job[r][m].stamp)])
           /\ UseExpanded(r, m) =>
                 ModuleStep(r, m, [job[r][m] EXCEPT
                        !.pc = "used", !.applied = Used(r, m)])
           /\ CleanExpanded(r, m) => ModuleStep(r, m, NoJob)
<1>1. /\ job[r][m] \in Jobs
      /\ SourceOf[m] \in SUBSET AllFiles
      /\ FilesIn(r, job[r][m].stamp) \in SUBSET AllFiles
      /\ job[r][m].tocopy \in SUBSET AllFiles
      /\ NoJob \in Jobs
  BY ValueTypes DEF TypeOK, Jobs
<1>2. ASSUME StartExpand(r, m)
      PROVE  \E s \in Stamps :
                    /\ MayUse(r, s)
                    /\ used' = [used EXCEPT ![r] = @ \cup {s}]
                    /\ ModuleStep(r, m, [NoJob EXCEPT !.pc = "copying", !.stamp = s,
                                                      !.tocopy = SourceOf[m]])
  <2>1. PICK s \in Stamps :
            /\ MayUse(r, s)
            /\ used' = [used EXCEPT ![r] = @ \cup {s}]
            /\ job' = [job EXCEPT ![r][m] = [NoJob EXCEPT
                         !.pc = "copying", !.stamp = s, !.tocopy = SourceOf[m]]]
    BY <1>2 DEF StartExpand, ExpandedDir
  <2>2. [NoJob EXCEPT !.pc = "copying", !.stamp = s, !.tocopy = SourceOf[m]] \in Jobs
    BY <1>1, JobType
  <2> QED
    BY <1>2, <2>1, <2>2 DEF StartExpand, ModuleStep
<1>3. ASSUME CopyOne(r, m)
      PROVE  \/ \E f \in job[r][m].tocopy :
                    /\ f \in AllFiles
                    /\ files' = files \cup {<<r, job[r][m].stamp, f>>}
                    /\ ModuleStep(r, m, [job[r][m] EXCEPT !.tocopy = @ \ {f}])
             \/ /\ UNCHANGED files
                /\ ModuleStep(r, m, [job[r][m] EXCEPT !.pc = "failed"])
  <2>1. PICK f \in job[r][m].tocopy :
            \/ /\ files' = files \cup {<<r, job[r][m].stamp, f>>}
               /\ job' = [job EXCEPT ![r][m] = [job[r][m] EXCEPT !.tocopy = @ \ {f}]]
            \/ /\ UNCHANGED files
               /\ job' = [job EXCEPT ![r][m] = [job[r][m] EXCEPT !.pc = "failed"]]
    BY <1>3 DEF CopyOne
  <2>2. job[r][m].tocopy \ {f} \in SUBSET AllFiles /\ f \in AllFiles
    BY <1>1
  <2>3. /\ [job[r][m] EXCEPT !.tocopy = @ \ {f}] \in Jobs
        /\ [job[r][m] EXCEPT !.pc = "failed"] \in Jobs
    BY <1>1, <2>2, JobType
  <2> QED
    BY <1>3, <2>1, <2>2, <2>3 DEF CopyOne, ModuleStep
<1>4. ASSUME List(r, m)
      PROVE  \E pc \in {"expanded", "failed"} :
                    ModuleStep(r, m, [job[r][m] EXCEPT
                        !.pc = pc, !.seen = FilesIn(r, job[r][m].stamp)])
  <2>1. PICK pc \in {"expanded", "failed"} :
            job' = [job EXCEPT ![r][m] = [job[r][m] EXCEPT
                        !.pc = pc, !.seen = FilesIn(r, job[r][m].stamp)]]
    BY <1>4 DEF List
  <2>2. [job[r][m] EXCEPT !.pc = pc, !.seen = FilesIn(r, job[r][m].stamp)] \in Jobs
    BY <1>1, JobType
  <2> QED
    BY <1>4, <2>1, <2>2 DEF List, ModuleStep
<1>5. ASSUME UseExpanded(r, m)
      PROVE  ModuleStep(r, m, [job[r][m] EXCEPT
                    !.pc = "used", !.applied = Used(r, m)])
  <2>1. job' = [job EXCEPT ![r][m] = [job[r][m] EXCEPT
                    !.pc = "used", !.applied = Used(r, m)]]
    BY <1>5 DEF UseExpanded, Used
  <2>2. Used(r, m) \in SUBSET AllFiles
    BY <1>1 DEF Used
  <2>3. [job[r][m] EXCEPT !.pc = "used", !.applied = Used(r, m)] \in Jobs
    BY <1>1, <2>2, JobType
  <2> QED
    BY <1>5, <2>1, <2>3 DEF UseExpanded, ModuleStep
<1>6. CleanExpanded(r, m) => ModuleStep(r, m, NoJob)
  BY <1>1 DEF CleanExpanded, ModuleStep
<1> QED
  BY <1>2, <1>3, <1>4, <1>5, <1>6

\* The same, field by field.
LEMMA Fields ==
    ASSUME TypeOK, NEW r \in Runs, NEW m \in Modules,
           \/ StartExpand(r, m) \/ CopyOne(r, m) \/ List(r, m)
           \/ UseExpanded(r, m) \/ CleanExpanded(r, m)
    PROVE  /\ proc[r].phase = "serving"
           /\ job' \in [Runs -> [Modules -> Jobs]]
           /\ \A q \in Runs, k \in Modules : <<q, k>> # <<r, m>> => job'[q][k] = job[q][k]
           /\ StartExpand(r, m) =>
                 /\ job'[r][m].pc = "copying"
                 /\ job'[r][m].tocopy = SourceOf[m]
                 /\ job'[r][m].stamp \in Stamps
                 /\ MayUse(r, job'[r][m].stamp)
                 /\ used' = [used EXCEPT ![r] = @ \cup {job'[r][m].stamp}]
           /\ CopyOne(r, m) =>
                 \/ /\ job'[r][m].pc = "copying"
                    /\ job'[r][m].stamp = job[r][m].stamp
                    /\ \E f \in job[r][m].tocopy :
                          /\ f \in AllFiles
                          /\ job'[r][m].tocopy = job[r][m].tocopy \ {f}
                          /\ files' = files \cup {<<r, job[r][m].stamp, f>>}
                 \/ job'[r][m].pc = "failed" /\ UNCHANGED files
           /\ List(r, m) =>
                 /\ job'[r][m].pc \in {"expanded", "failed"}
                 /\ job'[r][m].stamp = job[r][m].stamp
                 /\ job'[r][m].tocopy = job[r][m].tocopy
                 /\ job'[r][m].seen = FilesIn(r, job[r][m].stamp)
           /\ UseExpanded(r, m) =>
                 /\ job'[r][m].pc = "used"
                 /\ job'[r][m].stamp = job[r][m].stamp
                 /\ job'[r][m].tocopy = job[r][m].tocopy
                 /\ job'[r][m].seen = job[r][m].seen
                 /\ job'[r][m].applied = Used(r, m)
           /\ CleanExpanded(r, m) => job'[r][m] = NoJob
<1> DEFINE old == job[r][m]
           found == FilesIn(r, job[r][m].stamp)
           Others == \A q \in Runs, k \in Modules :
                        <<q, k>> # <<r, m>> => job'[q][k] = job[q][k]
<1>1. job \in [Runs -> [Modules -> Jobs]] /\ old \in Jobs
  BY DEF TypeOK, Jobs
<1>2. ASSUME NEW j, ModuleStep(r, m, j)
      PROVE  /\ proc[r].phase = "serving" /\ job' \in [Runs -> [Modules -> Jobs]]
             /\ Others /\ job'[r][m] = j
  BY <1>1, <1>2, OneJob DEF ModuleStep
<1>3. ASSUME StartExpand(r, m)
      PROVE  \E s \in Stamps :
                /\ MayUse(r, s)
                /\ used' = [used EXCEPT ![r] = @ \cup {s}]
                /\ ModuleStep(r, m, job'[r][m])
                /\ job'[r][m].pc = "copying"
                /\ job'[r][m].stamp = s
                /\ job'[r][m].tocopy = SourceOf[m]
  <2>1. PICK s \in Stamps :
            /\ MayUse(r, s)
            /\ used' = [used EXCEPT ![r] = @ \cup {s}]
            /\ ModuleStep(r, m, [NoJob EXCEPT !.pc = "copying", !.stamp = s,
                                              !.tocopy = SourceOf[m]])
    BY <1>3, Steps
  <2>2. job'[r][m] = [NoJob EXCEPT !.pc = "copying", !.stamp = s,
                                   !.tocopy = SourceOf[m]]
    BY <1>2, <2>1
  <2>3. /\ job'[r][m].pc = "copying"
        /\ job'[r][m].stamp = s
        /\ job'[r][m].tocopy = SourceOf[m]
    BY <2>2 DEF NoJob
  <2> QED
    BY <2>1, <2>2, <2>3
<1>4. ASSUME CopyOne(r, m)
      PROVE  /\ ModuleStep(r, m, job'[r][m])
             /\ \/ /\ job'[r][m].pc = "copying"
                   /\ job'[r][m].stamp = job[r][m].stamp
                   /\ \E f \in job[r][m].tocopy :
                         /\ f \in AllFiles
                         /\ job'[r][m].tocopy = job[r][m].tocopy \ {f}
                         /\ files' = files \cup {<<r, job[r][m].stamp, f>>}
                \/ job'[r][m].pc = "failed" /\ UNCHANGED files
  <2>1. CASE /\ UNCHANGED files
             /\ ModuleStep(r, m, [old EXCEPT !.pc = "failed"])
    <3>1. job'[r][m] = [old EXCEPT !.pc = "failed"]
      BY <1>2, <2>1
    <3>2. job'[r][m].pc = "failed"
      BY <1>1, <3>1 DEF Jobs
    <3> QED
      BY <2>1, <3>1, <3>2
  <2>2. ASSUME NEW f \in old.tocopy,
               f \in AllFiles,
               files' = files \cup {<<r, old.stamp, f>>},
               ModuleStep(r, m, [old EXCEPT !.tocopy = @ \ {f}])
        PROVE  /\ ModuleStep(r, m, job'[r][m])
               /\ job'[r][m].pc = "copying"
               /\ job'[r][m].stamp = old.stamp
               /\ job'[r][m].tocopy = old.tocopy \ {f}
    <3>1. job'[r][m] = [old EXCEPT !.tocopy = @ \ {f}]
      BY <1>2, <2>2
    <3>2. old.pc = "copying"
      BY <1>4 DEF CopyOne
    <3>3. /\ job'[r][m].pc = "copying"
          /\ job'[r][m].stamp = old.stamp
          /\ job'[r][m].tocopy = old.tocopy \ {f}
      BY <1>1, <3>1, <3>2 DEF Jobs
    <3> QED
      BY <2>2, <3>1, <3>3
  <2> QED
    BY <1>4, <2>1, <2>2, Steps
<1>5. ASSUME List(r, m)
      PROVE  /\ ModuleStep(r, m, job'[r][m])
             /\ job'[r][m].pc \in {"expanded", "failed"}
             /\ job'[r][m].stamp = old.stamp
             /\ job'[r][m].tocopy = old.tocopy
             /\ job'[r][m].seen = found
  <2>1. PICK pc \in {"expanded", "failed"} :
            ModuleStep(r, m, [old EXCEPT !.pc = pc, !.seen = found])
    BY <1>5, Steps
  <2>2. job'[r][m] = [old EXCEPT !.pc = pc, !.seen = found]
    BY <1>2, <2>1
  <2>3. /\ job'[r][m].pc = pc
        /\ job'[r][m].stamp = old.stamp
        /\ job'[r][m].tocopy = old.tocopy
        /\ job'[r][m].seen = found
    <3> HIDE DEF found
    <3> QED
      BY <1>1, <2>2 DEF Jobs
  <2> QED
    BY <2>1, <2>2, <2>3
<1>6. ASSUME UseExpanded(r, m)
      PROVE  /\ ModuleStep(r, m, job'[r][m])
             /\ job'[r][m].pc = "used"
             /\ job'[r][m].stamp = job[r][m].stamp
             /\ job'[r][m].tocopy = job[r][m].tocopy
             /\ job'[r][m].seen = old.seen
             /\ job'[r][m].applied = Used(r, m)
  <2>1. ModuleStep(r, m, [old EXCEPT !.pc = "used", !.applied = Used(r, m)])
    BY <1>6, Steps
  <2>2. job'[r][m] = [old EXCEPT !.pc = "used", !.applied = Used(r, m)]
    BY <1>2, <2>1
  <2>3. /\ job'[r][m].pc = "used"
        /\ job'[r][m].stamp = old.stamp
        /\ job'[r][m].tocopy = old.tocopy
        /\ job'[r][m].seen = old.seen
        /\ job'[r][m].applied = Used(r, m)
    BY <1>1, <2>2 DEF Jobs
  <2> QED
    BY <2>1, <2>2, <2>3
<1>7. CleanExpanded(r, m) => ModuleStep(r, m, NoJob) /\ job'[r][m] = NoJob
  BY <1>2, Steps
<1>8. \E j : ModuleStep(r, m, j)
  BY <1>3, <1>4, <1>5, <1>6, <1>7
<1> QED
  BY <1>2, <1>3, <1>4, <1>5, <1>6, <1>7, <1>8

\* Types, and that a module that copies has a stamp.
TypeInv ==
    /\ TypeOK
    /\ \A r \in Runs, m \in Modules :
          job[r][m].pc = "copying" => job[r][m].stamp \in Stamps

\* Every step of a module keeps the types.
LEMMA TypeModule ==
    ASSUME TypeInv, NEW r \in Runs, NEW m \in Modules,
           \/ StartExpand(r, m) \/ CopyOne(r, m) \/ List(r, m)
           \/ UseExpanded(r, m) \/ CleanExpanded(r, m)
    PROVE  TypeInv'
<1>1. /\ clock \in 0..MaxTime /\ faults \in 0..MaxFaults
      /\ proc \in [Runs -> Procs] /\ dir \in [Runs -> Dirs]
      /\ job \in [Runs -> [Modules -> Jobs]]
      /\ files \subseteq Runs \X Stamps \X AllFiles
      /\ used \in [Runs -> SUBSET Stamps]
      /\ job[r][m] \in Jobs
  BY DEF TypeInv, TypeOK, Procs, Dirs, Jobs
<1>2. job'[r][m].pc = "copying" => job'[r][m].stamp \in Stamps
  <2>1. CASE CopyOne(r, m)
    <3>1. job[r][m].stamp \in Stamps
      BY <2>1 DEF CopyOne, TypeInv
    <3> QED
      BY <2>1, <3>1, Fields DEF TypeInv
  <2> QED
    BY <2>1, Fields DEF TypeInv, NoJob
<1>3. /\ job' \in [Runs -> [Modules -> Jobs]]
      /\ \A q \in Runs, k \in Modules :
            job'[q][k].pc = "copying" => job'[q][k].stamp \in Stamps
  BY <1>2, Fields DEF TypeInv
<1>4. dir' \in [Runs -> Dirs]
  <2>1. CASE StartExpand(r, m)
    <3>1. \/ UNCHANGED dir
          \/ dir' = [dir EXCEPT ![r].exists = TRUE, ![r].expanded = TRUE,
                                ![r].mtime = clock]
      BY <2>1 DEF StartExpand
    <3>2. [dir[r] EXCEPT !.exists = TRUE, !.expanded = TRUE, !.mtime = clock] \in Dirs
      BY <1>1 DEF Dirs
    <3> QED
      BY <1>1, <3>1, <3>2
  <2> QED
    BY <1>1, <2>1 DEF CopyOne, List, UseExpanded, CleanExpanded
<1>5. files' \subseteq Runs \X Stamps \X AllFiles
  <2>1. CASE CopyOne(r, m)
    <3>1. job[r][m].stamp \in Stamps /\ job[r][m].tocopy \subseteq AllFiles
      BY <1>1, <2>1 DEF CopyOne, TypeInv, Jobs
    <3> QED
      BY <1>1, <2>1, <3>1 DEF CopyOne
  <2> QED
    BY <1>1, <2>1 DEF StartExpand, List, UseExpanded, CleanExpanded
<1>6. used' \in [Runs -> SUBSET Stamps]
  <2>1. CASE StartExpand(r, m)
    <3>1. PICK s \in Stamps : used' = [used EXCEPT ![r] = @ \cup {s}]
      BY <2>1 DEF StartExpand
    <3> QED
      BY <1>1, <3>1
  <2> QED
    BY <1>1, <2>1 DEF CopyOne, List, UseExpanded, CleanExpanded
<1>7. faults' \in 0..MaxFaults
  <2>1. CASE CopyOne(r, m)
    <3>1. UNCHANGED faults \/ Fault
      BY <2>1 DEF CopyOne
    <3> QED
      BY <1>1, <3>1, WorkspaceAssumption DEF Fault
  <2> QED
    BY <1>1, <2>1 DEF StartExpand, List, UseExpanded, CleanExpanded
<1>8. UNCHANGED <<clock, proc>>
  BY DEF StartExpand, CopyOne, List, UseExpanded, CleanExpanded
<1> QED
  BY <1>1, <1>3, <1>4, <1>5, <1>6, <1>7, <1>8 DEF TypeInv, TypeOK, Procs, Dirs, Jobs

\* Every step keeps the types.
LEMMA TypeStep == TypeInv /\ [Next]_vars => TypeInv'
<1> SUFFICES ASSUME TypeInv, [Next]_vars PROVE TypeInv'
  OBVIOUS
<1>1. CASE \E r \in Runs : \/ StartSweep(r) \/ SweepOne(r) \/ EndSweep(r)
                           \/ Configure(r) \/ Exit(r)
  <2>1. PICK r \in Runs : \/ StartSweep(r) \/ SweepOne(r) \/ EndSweep(r)
                          \/ Configure(r) \/ Exit(r)
    BY <1>1
  <2>2. TypeOK'
    BY <2>1, TypeProcess DEF TypeInv
  <2>3. \/ UNCHANGED job
        \/ job' = [job EXCEPT ![r] = [m \in Modules |-> NoJob]]
    BY <2>1 DEF StartSweep, SweepOne, EndSweep, Configure, Exit
  <2>4. \A q \in Runs, m \in Modules :
            job'[q][m].pc = "copying" => job'[q][m].stamp \in Stamps
    <3>1. CASE UNCHANGED job
      BY <3>1 DEF TypeInv
    <3>2. CASE job' = [job EXCEPT ![r] = [m \in Modules |-> NoJob]]
      <4>1. NoJob.pc # "copying"
        BY DEF NoJob
      <4>2. job \in [Runs -> [Modules -> Jobs]]
        BY DEF TypeInv, TypeOK, Jobs
      <4>3. \A q \in Runs, m \in Modules :
                job'[q][m] = IF q = r THEN NoJob ELSE job[q][m]
        BY <3>2, <4>2
      <4> QED
        BY <4>1, <4>3 DEF TypeInv
    <3> QED
      BY <2>3, <3>1, <3>2
  <2> QED
    BY <2>2, <2>4 DEF TypeInv
<1>2. CASE \E r \in Runs, m \in Modules :
              \/ StartExpand(r, m) \/ CopyOne(r, m) \/ List(r, m)
              \/ UseExpanded(r, m) \/ CleanExpanded(r, m)
  BY <1>2, TypeModule
<1>3. CASE Tick
  BY <1>3, WorkspaceAssumption DEF Tick, TypeInv, TypeOK
<1>4. CASE UNCHANGED vars
  BY <1>4 DEF vars, TypeInv, TypeOK
<1> QED
  BY <1>1, <1>2, <1>3, <1>4 DEF Next

\* The types hold at the start, stamps included.
LEMMA TypeInvInit == Init => TypeInv
BY TypeInit DEF Init, TypeInv, NoJob

\* Every state has its type, for any number of processes, modules and files.
THEOREM TypeCorrect == Spec => []TypeOK
<1>1. TypeInv => TypeOK
  BY DEF TypeInv
<1> QED
  BY <1>1, TypeInvInit, TypeStep, PTL DEF Spec

-----------------------------------------------------------------------------
(* The sweep: what it must leave, and what it must take.                   *)

ModuleActs(r, m) ==
    \/ StartExpand(r, m) \/ CopyOne(r, m) \/ List(r, m)
    \/ UseExpanded(r, m) \/ CleanExpanded(r, m)

\* The sweep of a process started in the past.  A process that serves, and is
\* not outlived, has its directory with its kubeconfig, which is not older than
\* the process's configuration.
ServeInv(r) ==
    /\ proc[r].started <= clock
    /\ proc[r].phase = "serving" => proc[r].configured <= clock
    /\ proc[r].phase = "serving" /\ ~Outlived(r) =>
          /\ dir[r].exists /\ dir[r].kubeconfig
          /\ proc[r].configured <= dir[r].mtime

\* What a process has not got rid of while, and after, it sweeps.
JunkInv(r) ==
    proc[r].phase \in {"sweeping", "ready", "serving"} =>
        \A q \in Runs \ proc[r].missed :
            dir[q].exists =>
                \/ proc[r].phase = "sweeping" /\ q \in proc[r].tosweep
                \/ dir[q].mtime + Threshold >= proc[r].started

SweepInv ==
    /\ TypeInv
    /\ \A r \in Runs : ServeInv(r) /\ JunkInv(r)

\* Times are numbers.
LEMMA Times ==
    ASSUME TypeOK
    PROVE  /\ clock \in Nat /\ Threshold \in Nat
           /\ \A q \in Runs : /\ proc[q].started \in Nat
                              /\ proc[q].configured \in Nat
                              /\ dir[q].mtime \in Nat
           /\ proc \in [Runs -> Procs] /\ dir \in [Runs -> Dirs]
           /\ \A q \in Runs : proc[q] \in Procs /\ dir[q] \in Dirs
<1>1. proc \in [Runs -> Procs] /\ dir \in [Runs -> Dirs] /\ clock \in 0..MaxTime
  BY DEF TypeOK, Procs, Dirs
<1>2. \A q \in Runs : /\ proc[q].started \in Nat
                      /\ proc[q].configured \in Nat
                      /\ dir[q].mtime \in Nat
  BY <1>1, WorkspaceAssumption DEF Procs, Dirs
<1> QED
  BY <1>1, <1>2, WorkspaceAssumption

\* What a process serves with is not junk to the sweep of another, unless it is
\* outlived.
LEMMA ServingIsNoJunk ==
    ASSUME TypeOK, NEW r \in Runs, NEW q \in Runs,
           ServeInv(q), proc[q].phase = "serving", ~Outlived(q)
    PROVE  ~IsJunk(r, q)
BY Times DEF ServeInv, IsJunk, Outlived

\* A step of a module leaves the processes alone, and the directories but for
\* the time of its own.
LEMMA ModuleFrame ==
    ASSUME TypeOK, NEW r \in Runs, NEW m \in Modules, ModuleActs(r, m)
    PROVE  /\ UNCHANGED <<clock, proc>>
           /\ proc[r].phase = "serving"
           /\ \A q \in Runs :
                 \/ dir'[q] = dir[q]
                 \/ /\ q = r
                    /\ dir'[q].exists
                    /\ dir'[q].kubeconfig = dir[q].kubeconfig
                    /\ dir'[q].mtime = clock
<1>1. CASE StartExpand(r, m)
  <2>1. \/ UNCHANGED dir
        \/ dir' = [dir EXCEPT ![r].exists = TRUE, ![r].expanded = TRUE,
                              ![r].mtime = clock]
    BY <1>1 DEF StartExpand
  <2>2. CASE dir' = [dir EXCEPT ![r].exists = TRUE, ![r].expanded = TRUE,
                                ![r].mtime = clock]
    BY <1>1, <2>2, Times DEF StartExpand, Dirs
  <2> QED
    BY <1>1, <2>1, <2>2 DEF StartExpand
<1> QED
  BY <1>1 DEF ModuleActs, CopyOne, List, UseExpanded, CleanExpanded

\* What a step of a process's own life does to a process ...
LEMMA ProcessFrame ==
    ASSUME TypeOK, NEW r \in Runs,
           StartSweep(r) \/ SweepOne(r) \/ EndSweep(r) \/ Configure(r) \/ Exit(r)
    PROVE  /\ UNCHANGED clock
           /\ \A q \in Runs : q # r => proc'[q] = proc[q]
           /\ proc'[r].configured = proc[r].configured \/ Configure(r)
           /\ StartSweep(r) \/ proc'[r].started = proc[r].started
           /\ StartSweep(r) => /\ proc'[r].phase = "sweeping"
                               /\ proc'[r].started = clock
                               /\ proc'[r].tosweep = {q \in Runs : dir[q].exists}
           /\ SweepOne(r) => /\ proc[r].phase = "sweeping"
                             /\ proc'[r].phase = "sweeping"
           /\ EndSweep(r) => /\ proc[r].phase = "sweeping"
                             /\ proc'[r].phase = "ready"
                             /\ proc[r].tosweep = {}
                             /\ proc'[r].missed = proc[r].missed
           /\ Configure(r) =>
                 /\ proc[r].phase = "ready"
                 /\ proc'[r].missed = proc[r].missed
                 /\ \/ /\ proc'[r].phase = "serving"
                       /\ proc'[r].configured = clock
                       /\ dir' = [dir EXCEPT ![r] = FreshDir(TRUE)]
                    \/ /\ proc'[r].phase = "ended"
                       /\ dir' = [dir EXCEPT ![r] = FreshDir(FALSE)]
           /\ Exit(r) => proc'[r].phase = "ended"
           /\ StartSweep(r) \/ EndSweep(r) \/ Exit(r) => UNCHANGED dir
<1>1. proc[r] \in Procs /\ proc \in [Runs -> Procs]
  BY Times
<1> DEFINE Alone == /\ UNCHANGED clock
                    /\ \A q \in Runs : q # r => proc'[q] = proc[q]
                    /\ proc'[r].configured = proc[r].configured \/ Configure(r)
                    /\ StartSweep(r) \/ proc'[r].started = proc[r].started
<1>2. ASSUME StartSweep(r)
      PROVE  /\ Alone /\ UNCHANGED dir
             /\ proc'[r].phase = "sweeping"
             /\ proc'[r].started = clock
             /\ proc'[r].tosweep = {q \in Runs : dir[q].exists}
  BY <1>1, <1>2 DEF StartSweep, Procs
<1>3. ASSUME SweepOne(r)
      PROVE  Alone /\ proc[r].phase = "sweeping" /\ proc'[r].phase = "sweeping"
  <2>1. PICK q \in proc[r].tosweep :
          \/ proc' = [proc EXCEPT ![r].tosweep = @ \ {q}]
          \/ proc' = [proc EXCEPT ![r].tosweep = @ \ {q},
                                  ![r].missed = @ \cup {q}]
    BY <1>3 DEF SweepOne
  <2>2. /\ \A p \in Runs : p # r => proc'[p] = proc[p]
        /\ proc'[r].configured = proc[r].configured
        /\ proc'[r].started = proc[r].started
        /\ proc'[r].phase = proc[r].phase
    BY <1>1, <2>1 DEF Procs
  <2> QED
    BY <1>3, <2>2 DEF SweepOne
<1>4. ASSUME EndSweep(r)
      PROVE  /\ Alone /\ UNCHANGED dir
             /\ proc[r].phase = "sweeping"
             /\ proc'[r].phase = "ready"
             /\ proc[r].tosweep = {}
             /\ proc'[r].missed = proc[r].missed
  BY <1>1, <1>4 DEF EndSweep, Procs
<1>5. ASSUME Configure(r)
      PROVE  /\ Alone
             /\ proc[r].phase = "ready"
             /\ proc'[r].missed = proc[r].missed
             /\ \/ /\ proc'[r].phase = "serving"
                   /\ proc'[r].configured = clock
                   /\ dir' = [dir EXCEPT ![r] = FreshDir(TRUE)]
                \/ /\ proc'[r].phase = "ended"
                   /\ dir' = [dir EXCEPT ![r] = FreshDir(FALSE)]
  <2>1. \/ /\ proc' = [proc EXCEPT ![r].phase = "serving", ![r].configured = clock]
           /\ dir' = [dir EXCEPT ![r] = FreshDir(TRUE)]
        \/ /\ proc' = [proc EXCEPT ![r].phase = "ended"]
           /\ dir' = [dir EXCEPT ![r] = FreshDir(FALSE)]
    BY <1>5 DEF Configure
  <2>2. CASE /\ proc' = [proc EXCEPT ![r].phase = "serving", ![r].configured = clock]
             /\ dir' = [dir EXCEPT ![r] = FreshDir(TRUE)]
    <3>1. proc'[r] = [proc[r] EXCEPT !.phase = "serving", !.configured = clock]
      BY <1>1, <2>2
    <3>2. /\ proc'[r].phase = "serving" /\ proc'[r].configured = clock
          /\ proc'[r].started = proc[r].started /\ proc'[r].missed = proc[r].missed
      BY <1>1, <3>1 DEF Procs
    <3> QED
      BY <1>1, <1>5, <2>2, <3>2 DEF Configure
  <2>3. CASE /\ proc' = [proc EXCEPT ![r].phase = "ended"]
             /\ dir' = [dir EXCEPT ![r] = FreshDir(FALSE)]
    <3>1. proc'[r] = [proc[r] EXCEPT !.phase = "ended"]
      BY <1>1, <2>3
    <3>2. /\ proc'[r].phase = "ended" /\ proc'[r].configured = proc[r].configured
          /\ proc'[r].started = proc[r].started /\ proc'[r].missed = proc[r].missed
      BY <1>1, <3>1 DEF Procs
    <3> QED
      BY <1>1, <1>5, <2>3, <3>2 DEF Configure
  <2> QED
    BY <2>1, <2>2, <2>3
<1>6. ASSUME Exit(r)
      PROVE  Alone /\ UNCHANGED dir /\ proc'[r].phase = "ended"
  BY <1>1, <1>6 DEF Exit, Procs
<1> QED
  BY <1>2, <1>3, <1>4, <1>5, <1>6

\* ... and what one step of a sweep does to a directory.
LEMMA SweepFrame ==
    ASSUME TypeOK, NEW r \in Runs, SweepOne(r)
    PROVE  \E q \in proc[r].tosweep :
              /\ proc'[r].tosweep = proc[r].tosweep \ {q}
              /\ proc[r].missed \subseteq proc'[r].missed
              /\ \A p \in Runs : p # q => dir'[p] = dir[p]
              /\ \/ dir'[q] = dir[q] /\ UNCHANGED files
                 \/ /\ IsJunk(r, q) /\ ~dir'[q].exists
                    /\ files' = {f \in files : f[1] # q}
              /\ dir'[q].exists /\ q \notin proc'[r].missed => ~IsJunk(r, q)
<1>1. /\ proc[r] \in Procs /\ proc \in [Runs -> Procs] /\ dir \in [Runs -> Dirs]
      /\ proc[r].tosweep \subseteq Runs
  BY Times DEF Procs
<1>2. PICK q \in proc[r].tosweep :
          \/ /\ ~(dir[q].exists /\ IsJunk(r, q))
             /\ proc' = [proc EXCEPT ![r].tosweep = @ \ {q}]
             /\ UNCHANGED <<dir, files>>
          \/ /\ IsJunk(r, q)
             /\ proc' = [proc EXCEPT ![r].tosweep = @ \ {q}]
             /\ dir' = [dir EXCEPT ![q] = NoDir]
             /\ files' = {f \in files : f[1] # q}
          \/ /\ proc' = [proc EXCEPT ![r].tosweep = @ \ {q},
                                     ![r].missed = @ \cup {q}]
             /\ UNCHANGED <<dir, files>>
  BY DEF SweepOne
<1>3. /\ proc'[r].tosweep = proc[r].tosweep \ {q}
      /\ proc[r].missed \subseteq proc'[r].missed
  BY <1>1, <1>2 DEF Procs
<1>4. dir' = [dir EXCEPT ![q] = NoDir] => ~dir'[q].exists
  BY <1>1 DEF NoDir
<1>5. proc' = [proc EXCEPT ![r].tosweep = @ \ {q}, ![r].missed = @ \cup {q}]
        => q \in proc'[r].missed
  BY <1>1 DEF Procs
<1> QED
  BY <1>1, <1>2, <1>3, <1>4, <1>5

\* A process that is outlived stays so: none starts twice, and while it serves
\* it is not configured again.
LEMMA OutlivedStays ==
    ASSUME TypeOK, \A q \in Runs : proc[q].started <= clock,
           NEW r \in Runs, Outlived(r),
           proc'[r].configured = proc[r].configured,
           \A q \in Runs : proc'[q].started = proc[q].started
                              \/ proc'[q].started = clock
    PROVE  Outlived(r)'
<1>1. PICK q \in Runs : proc[q].started > proc[r].configured + Threshold
  BY DEF Outlived
<1>2. proc'[q].started >= proc[q].started
  BY Times
<1>3. proc'[q].started > proc'[r].configured + Threshold
  <2>1. proc'[q].started \in Nat
    BY Times
  <2> QED
    BY <1>1, <1>2, <2>1, Times
<1> QED
  BY <1>3 DEF Outlived

\* A step of a module keeps what the sweep relies on.
LEMMA SweepInvModule ==
    ASSUME SweepInv, NEW r \in Runs, NEW m \in Modules, ModuleActs(r, m)
    PROVE  \A q \in Runs : ServeInv(q)' /\ JunkInv(q)'
<1>1. TypeOK /\ \A q \in Runs : ServeInv(q) /\ JunkInv(q)
  BY DEF SweepInv, TypeInv
<1>2. ASSUME NEW q \in Runs PROVE ServeInv(q)'
  <2>1. UNCHANGED <<clock, proc>> /\ (Outlived(q)' <=> Outlived(q))
    BY <1>1, ModuleFrame DEF Outlived
  <2>2. \/ dir'[q] = dir[q]
        \/ /\ dir'[q].exists
           /\ dir'[q].kubeconfig = dir[q].kubeconfig
           /\ dir'[q].mtime = clock
    BY <1>1, ModuleFrame
  <2> QED
    BY <1>1, <2>1, <2>2 DEF ServeInv
<1>3. ASSUME NEW q \in Runs PROVE JunkInv(q)'
  <2>1. /\ UNCHANGED proc
        /\ \A p \in Runs : dir'[p] = dir[p] \/ (p = r /\ dir'[p].mtime = clock)
    BY <1>1, ModuleFrame
  <2>2. clock + Threshold >= proc[q].started
    BY <1>1, Times DEF ServeInv
  <2>3. ASSUME NEW p \in Runs, proc[q].phase = "serving",
               dir'[p].exists, p \notin proc[q].missed
        PROVE  dir'[p].mtime + Threshold >= proc[q].started
    BY <1>1, <2>1, <2>2, <2>3 DEF JunkInv
  <2>4. ASSUME NEW p \in Runs, p = r, proc[q].phase \in {"sweeping", "ready"}
        PROVE  dir'[p] = dir[p] \/ dir'[p].mtime + Threshold >= proc[q].started
    BY <2>1, <2>2
  <2> QED
    BY <1>1, <2>1, <2>2, <2>3, <2>4 DEF JunkInv
<1> QED
  BY <1>2, <1>3

\* A step of a process's own life keeps it too.
LEMMA SweepInvProcess ==
    ASSUME SweepInv, NEW r \in Runs,
           StartSweep(r) \/ SweepOne(r) \/ EndSweep(r) \/ Configure(r) \/ Exit(r)
    PROVE  \A q \in Runs : ServeInv(q)' /\ JunkInv(q)'
<1>1. TypeOK /\ \A q \in Runs : ServeInv(q) /\ JunkInv(q)
  BY DEF SweepInv, TypeInv
<1>2. dir \in [Runs -> Dirs]
  BY <1>1, Times
<1>6. ASSUME NEW q \in Runs, Outlived(q), proc'[q].configured = proc[q].configured
      PROVE  Outlived(q)'
  <2>1. \A p \in Runs : proc'[p].started = proc[p].started \/ proc'[p].started = clock
    BY <1>1, ProcessFrame
  <2> QED
    BY <1>1, <1>6, <2>1, OutlivedStays DEF ServeInv
<1>3. CASE StartSweep(r) \/ EndSweep(r) \/ Exit(r)
  <2>1. UNCHANGED <<clock, dir>> /\ \A q \in Runs : q # r => proc'[q] = proc[q]
    BY <1>1, <1>3, ProcessFrame
  <2>2. ServeInv(r)'
    <3>1. proc'[r].started \in {clock, proc[r].started}
      BY <1>1, <1>3, ProcessFrame
    <3>2. proc'[r].phase # "serving"
      BY <1>1, <1>3, ProcessFrame
    <3> QED
      BY <1>1, <2>1, <3>1, <3>2, Times DEF ServeInv
  <2>3. JunkInv(r)'
    BY <1>1, <1>3, <2>1, ProcessFrame DEF JunkInv
  <2>4. ASSUME NEW q \in Runs, q # r PROVE ServeInv(q)'
    <3>1. Outlived(q) => Outlived(q)'
      BY <1>6, <2>1, <2>4
    <3> QED
      BY <1>1, <2>1, <2>4, <3>1 DEF ServeInv
  <2>5. ASSUME NEW q \in Runs, q # r PROVE JunkInv(q)'
    BY <1>1, <2>1, <2>5 DEF JunkInv
  <2> QED
    BY <2>2, <2>3, <2>4, <2>5
<1>4. CASE SweepOne(r)
  <2>1. PICK d \in proc[r].tosweep :
              /\ proc'[r].tosweep = proc[r].tosweep \ {d}
              /\ proc[r].missed \subseteq proc'[r].missed
              /\ \A p \in Runs : p # d => dir'[p] = dir[p]
              /\ dir'[d] = dir[d] \/ (IsJunk(r, d) /\ ~dir'[d].exists)
              /\ dir'[d].exists /\ d \notin proc'[r].missed => ~IsJunk(r, d)
    BY <1>1, <1>4, SweepFrame
  <2>2. /\ UNCHANGED clock /\ d \in Runs
        /\ proc[r].phase = "sweeping" /\ proc'[r].phase = "sweeping"
        /\ proc'[r].started = proc[r].started
        /\ \A q \in Runs : q # r => proc'[q] = proc[q]
    <3>1. proc[r] \in Procs
      BY <1>1, Times
    <3> QED
      BY <1>1, <1>4, <3>1, <2>1, ProcessFrame DEF SweepOne, StartSweep, Procs
  <2>3. proc[d].phase = "serving" /\ ~Outlived(d) => dir'[d] = dir[d]
    BY <1>1, <2>1, <2>2, ServingIsNoJunk
  <2>4. \A q \in Runs : dir'[q] = dir[q] \/ ~dir'[q].exists
    BY <2>1
  <2>5. ASSUME NEW q \in Runs PROVE ServeInv(q)'
    <3>1. Outlived(q) <=> Outlived(q)'
      <4>1. /\ proc'[q].configured = proc[q].configured
            /\ \A p \in Runs : proc'[p].started = proc[p].started
        BY <1>1, <1>4, <2>2, ProcessFrame DEF Configure
      <4> QED
        BY <4>1 DEF Outlived
    <3>2. /\ proc'[q].configured = proc[q].configured
          /\ proc'[q].started = proc[q].started
          /\ proc'[q].phase = proc[q].phase
      BY <1>1, <1>4, <2>2, ProcessFrame DEF Configure
    <3>3. proc[q].phase = "serving" /\ ~Outlived(q) => dir'[q] = dir[q]
      BY <2>1, <2>3
    <3> QED
      BY <1>1, <2>2, <3>1, <3>2, <3>3 DEF ServeInv
  <2>6. ASSUME NEW q \in Runs, q # r PROVE JunkInv(q)'
    BY <1>1, <2>2, <2>4, <2>6 DEF JunkInv
  <2>7. JunkInv(r)'
    <3>1. ASSUME NEW q \in Runs \ proc'[r].missed, dir'[q].exists
          PROVE  \/ q \in proc'[r].tosweep
                 \/ dir'[q].mtime + Threshold >= proc'[r].started
      <4>1. CASE q = d
        <5>1. ~IsJunk(r, q) /\ dir'[q] = dir[q]
          BY <2>1, <3>1, <4>1
        <5> QED
          BY <1>1, <2>2, <5>1, Times DEF IsJunk
      <4>2. CASE q # d
        BY <1>1, <2>1, <2>2, <3>1, <4>2 DEF JunkInv
      <4> QED
        BY <4>1, <4>2
    <3> QED
      BY <2>2, <3>1 DEF JunkInv
  <2> QED
    BY <2>5, <2>6, <2>7
<1>5. CASE Configure(r)
  <2>1. /\ UNCHANGED clock
        /\ proc[r].phase = "ready" /\ ~StartSweep(r)
        /\ \A q \in Runs : q # r => proc'[q] = proc[q]
    BY <1>1, <1>5, ProcessFrame DEF Configure, StartSweep
  <2>2. PICK k \in BOOLEAN : /\ dir' = [dir EXCEPT ![r] = FreshDir(k)]
                             /\ k = (proc'[r].phase = "serving")
    BY <1>1, <1>5, ProcessFrame
  <2>3. /\ dir'[r].exists /\ dir'[r].mtime = clock
        /\ dir'[r].kubeconfig = k
        /\ \A q \in Runs : q # r => dir'[q] = dir[q]
    BY <1>2, <2>2 DEF FreshDir
  <2>4. /\ proc'[r].started = proc[r].started
        /\ proc'[r].missed = proc[r].missed
        /\ proc'[r].phase = "ended" \/ (/\ proc'[r].phase = "serving"
                                        /\ proc'[r].configured = clock)
    BY <1>1, <1>5, <2>1, ProcessFrame
  <2>5. ServeInv(r)'
    <3>1. proc'[r].started <= clock
      BY <1>1, <2>4, Times DEF ServeInv
    <3>2. proc'[r].phase = "serving" =>
              dir'[r].kubeconfig /\ proc'[r].configured = clock
      BY <2>2, <2>3, <2>4
    <3>3. clock <= clock
      BY <1>1, Times
    <3> QED
      BY <2>1, <2>3, <3>1, <3>2, <3>3 DEF ServeInv
  <2>6. ASSUME NEW q \in Runs, q # r PROVE ServeInv(q)'
    <3>1. Outlived(q) => Outlived(q)'
      BY <1>6, <2>1, <2>6
    <3> QED
      BY <1>1, <2>1, <2>3, <2>6, <3>1 DEF ServeInv
  <2>7. ASSUME NEW q \in Runs PROVE JunkInv(q)'
    <3>1. /\ clock + Threshold >= proc'[q].started
          /\ proc'[q].started = proc[q].started
          /\ proc'[q].missed = proc[q].missed
      BY <1>1, <2>1, <2>4, Times DEF ServeInv
    <3>2. ASSUME NEW p \in Runs \ proc'[q].missed, dir'[p].exists,
                 proc'[q].phase \in {"sweeping", "ready", "serving"}
          PROVE  \/ proc'[q].phase = "sweeping" /\ p \in proc'[q].tosweep
                 \/ dir'[p].mtime + Threshold >= proc'[q].started
      <4>1. CASE p = r
        BY <2>3, <3>1, <4>1
      <4>2. CASE p # r /\ q = r
        BY <1>1, <2>1, <2>3, <2>4, <3>1, <3>2, <4>2 DEF JunkInv
      <4>3. CASE p # r /\ q # r
        BY <1>1, <2>1, <2>3, <3>1, <3>2, <4>3 DEF JunkInv
      <4> QED
        BY <4>1, <4>2, <4>3
    <3> QED
      BY <3>2 DEF JunkInv
  <2> QED
    BY <2>5, <2>6, <2>7
<1> QED
  BY <1>3, <1>4, <1>5

\* The invariant of the sweep is inductive.
LEMMA SweepInvInductive ==
    /\ Init => SweepInv
    /\ SweepInv /\ [Next]_vars => SweepInv'
<1>1. Init => SweepInv
  BY TypeInvInit, WorkspaceAssumption DEF Init, SweepInv, ServeInv, JunkInv, NoDir
<1>2. SweepInv /\ [Next]_vars => SweepInv'
  <2> SUFFICES ASSUME SweepInv, [Next]_vars PROVE SweepInv'
    OBVIOUS
  <2>1. TypeInv'
    BY TypeStep DEF SweepInv
  <2>2. CASE \E r \in Runs : \/ StartSweep(r) \/ SweepOne(r) \/ EndSweep(r)
                             \/ Configure(r) \/ Exit(r)
    BY <2>1, <2>2, SweepInvProcess DEF SweepInv
  <2>3. CASE \E r \in Runs, m \in Modules : ModuleActs(r, m)
    BY <2>1, <2>3, SweepInvModule DEF SweepInv
  <2>4. CASE Tick
    <3>1. ASSUME NEW q \in Runs PROVE ServeInv(q)' /\ JunkInv(q)'
      <4>1. UNCHANGED <<proc, dir>> /\ clock' = clock + 1
        BY <2>4 DEF Tick
      <4>2. /\ TypeOK /\ ServeInv(q) /\ JunkInv(q)
            /\ Outlived(q)' <=> Outlived(q)
        BY <4>1 DEF SweepInv, TypeInv, Outlived
      <4>3. ServeInv(q)'
        BY <4>1, <4>2, Times DEF ServeInv
      <4> QED
        BY <4>1, <4>2, <4>3 DEF JunkInv
    <3> QED
      BY <2>1, <3>1 DEF SweepInv
  <2>5. CASE UNCHANGED vars
    <3>1. UNCHANGED <<proc, dir, clock>> /\ \A q \in Runs : Outlived(q)' <=> Outlived(q)
      BY <2>5 DEF vars, Outlived
    <3> QED
      BY <2>1, <3>1 DEF SweepInv, ServeInv, JunkInv
  <2> QED
    BY <2>2, <2>3, <2>4, <2>5 DEF Next, ModuleActs
<1> QED
  BY <1>1, <1>2

\* However processes overlap, and for as long as they serve, none loses the
\* kubeconfig it serves with before another starts more than the threshold
\* after it was configured (KubeconfigKept).
THEOREM KubeconfigStays == Spec => []KubeconfigKept
<1>1. SweepInv => KubeconfigKept
  BY DEF SweepInv, ServeInv, KubeconfigKept
<1> QED
  BY <1>1, SweepInvInductive, PTL DEF Spec

\* A sweep leaves no junk but what it could not remove (JunkIsSwept).
THEOREM SweepIsThorough == Spec => []JunkIsSwept
<1>1. SweepInv => JunkIsSwept
  BY DEF SweepInv, JunkInv, JunkIsSwept
<1> QED
  BY <1>1, SweepInvInductive, PTL DEF Spec

-----------------------------------------------------------------------------
(* The files of a module are its own.                                      *)

Busy(r, m) == job[r][m].pc \in {"copying", "expanded", "used"}

\* A module that is expanded, or being so, has a stamp that its process has
\* drawn; until its process is outlived it has, of its files, those that are
\* copied.
JobInv(r, m) ==
    /\ job[r][m].stamp \in used[r]
    /\ job[r][m].tocopy \subseteq SourceOf[m]
    /\ job[r][m].pc # "copying" => job[r][m].tocopy = {}
    /\ ~Outlived(r) =>
          /\ FilesIn(r, job[r][m].stamp) = SourceOf[m] \ job[r][m].tocopy
          /\ job[r][m].pc # "copying" => job[r][m].seen = SourceOf[m]
          /\ job[r][m].pc = "used" => job[r][m].applied = SourceOf[m]

\* A process has no files before it serves and none under a stamp that it has
\* not drawn; only a process that serves has modules at work, with stamps of
\* their own.
FileInv(r) ==
    /\ proc[r].phase \in {"new", "sweeping", "ready"} =>
          \A s \in Stamps : FilesIn(r, s) = {}
    /\ proc[r].phase = "serving" =>
          \A s \in Stamps \ used[r] : FilesIn(r, s) = {}
    /\ proc[r].phase # "serving" => \A m \in Modules : job[r][m].pc = "idle"
    /\ \A m \in Modules : Busy(r, m) => JobInv(r, m)
    /\ \A m, k \in Modules : m # k /\ Busy(r, m) /\ Busy(r, k) =>
                                job[r][m].stamp # job[r][k].stamp

OwnInv == SweepInv /\ \A r \in Runs : FileInv(r)

\* What a process sees of its files is all that matters to it.
LEMMA FilesSame ==
    ASSUME NEW q \in Runs, FileInv(q), job'[q] = job[q], used'[q] = used[q],
           used[q] \subseteq Stamps,
           proc'[q].phase = proc[q].phase, Outlived(q) => Outlived(q)',
           \A s \in Stamps : FilesIn(q, s)' = FilesIn(q, s)
    PROVE  FileInv(q)'
<1>1. \A m \in Modules : Busy(q, m)' = Busy(q, m)
  BY DEF Busy
<1>2. \A m \in Modules : JobInv(q, m) => JobInv(q, m)'
  <2> SUFFICES ASSUME NEW m \in Modules, JobInv(q, m) PROVE JobInv(q, m)'
    OBVIOUS
  <2>1. FilesIn(q, job[q][m].stamp)' = FilesIn(q, job[q][m].stamp)
    <3>1. job[q][m].stamp \in Stamps
      BY DEF JobInv
    <3> QED
      BY <3>1 DEF FilesIn
  <2> QED
    BY <2>1 DEF JobInv
<1> QED
  BY <1>1, <1>2 DEF FileInv, Busy

\* The files of one process are changed by its own modules, by the sweep of
\* its directory, and by nothing else.
LEMMA FilesOfOthers ==
    ASSUME TypeOK, NEW r \in Runs, NEW m \in Modules, ModuleActs(r, m), NEW q \in Runs, q # r
    PROVE  \A s \in Stamps : FilesIn(q, s)' = FilesIn(q, s)
<1>1. CASE CopyOne(r, m)
  <2>1. UNCHANGED files \/ \E f : files' = files \cup {<<r, job[r][m].stamp, f>>}
    BY <1>1 DEF CopyOne
  <2> QED
    BY <2>1 DEF FilesIn
<1>2. CASE CleanExpanded(r, m)
  BY <1>2 DEF CleanExpanded, FilesIn
<1>3. CASE UNCHANGED files
  BY <1>3 DEF FilesIn
<1> QED
  BY <1>1, <1>2, <1>3 DEF ModuleActs, StartExpand, List, UseExpanded

\* ... and a module touches files of its own stamp only.
LEMMA FilesOfStamp ==
    ASSUME TypeOK, NEW r \in Runs, NEW m \in Modules, ModuleActs(r, m), NEW s,
           s # job[r][m].stamp \/ StartExpand(r, m)
    PROVE  FilesIn(r, s)' = FilesIn(r, s)
<1>1. CASE CopyOne(r, m) /\ s # job[r][m].stamp
  <2>1. UNCHANGED files \/ \E f : files' = files \cup {<<r, job[r][m].stamp, f>>}
    BY <1>1 DEF CopyOne
  <2> QED
    BY <1>1, <2>1 DEF FilesIn
<1>2. CASE CleanExpanded(r, m) /\ s # job[r][m].stamp
  BY <1>2 DEF CleanExpanded, FilesIn
<1>3. CASE UNCHANGED files
  BY <1>3 DEF FilesIn
<1> QED
  BY <1>1, <1>2, <1>3 DEF ModuleActs, StartExpand, List, UseExpanded

\* A module that is left alone, with its files, is still as it should be.
LEMMA JobSame ==
    ASSUME NEW r \in Runs, NEW k \in Modules, JobInv(r, k), job'[r][k] = job[r][k],
           UNCHANGED proc,
           used[r] \subseteq used'[r],
           \A s : s = job[r][k].stamp => FilesIn(r, s)' = FilesIn(r, s)
    PROVE  JobInv(r, k)'
<1>1. \A s : s = job[r][k].stamp =>
          {f \in AllFiles : <<r, s, f>> \in files'} = {f \in AllFiles : <<r, s, f>> \in files}
  BY DEF FilesIn
<1> QED
  BY <1>1 DEF JobInv, FilesIn, Outlived

\* The module that takes the step is as it should be afterwards.
LEMMA JobStep ==
    ASSUME UniqueStamps, TypeOK, NEW r \in Runs, NEW m \in Modules, ModuleActs(r, m),
           ServeInv(r), FileInv(r), used[r] \subseteq Stamps, Busy(r, m)'
    PROVE  /\ JobInv(r, m)'
           /\ \/ /\ StartExpand(r, m)
                 /\ job'[r][m].stamp \notin used[r]
              \/ Busy(r, m) /\ job'[r][m].stamp = job[r][m].stamp
           /\ used[r] \subseteq used'[r]
<1>1. /\ proc[r].phase = "serving" /\ used \in [Runs -> SUBSET Stamps]
      /\ job[r][m] \in Jobs /\ SourceOf[m] \subseteq AllFiles
      /\ Outlived(r)' <=> Outlived(r)
  BY Fields, ValueTypes, ModuleFrame DEF ModuleActs, TypeOK, Jobs, Outlived
<1>2. CASE StartExpand(r, m)
  <2> DEFINE new == job'[r][m]
  <2>1. /\ new.pc = "copying" /\ new.tocopy = SourceOf[m]
        /\ new.stamp \in Stamps /\ new.stamp \notin used[r]
        /\ used'[r] = used[r] \cup {new.stamp}
    BY <1>1, <1>2, Fields DEF MayUse
  <2>2. \A s \in Stamps \ used[r] : {f \in AllFiles : <<r, s, f>> \in files'} = {}
    BY <1>1, <1>2 DEF FileInv, FilesIn, StartExpand
  <2> QED
    BY <1>1, <1>2, <2>1, <2>2 DEF JobInv, FilesIn
<1>3. CASE CopyOne(r, m)
  <2>1. job[r][m].pc = "copying" /\ UNCHANGED used /\ Busy(r, m)
    BY <1>3 DEF CopyOne, Busy
  <2>2. JobInv(r, m)
    BY <2>1 DEF FileInv
  <2>3. PICK f \in job[r][m].tocopy :
              /\ f \in AllFiles
              /\ job'[r][m].pc = "copying"
              /\ job'[r][m].stamp = job[r][m].stamp
              /\ job'[r][m].tocopy = job[r][m].tocopy \ {f}
              /\ files' = files \cup {<<r, job[r][m].stamp, f>>}
    BY <1>3, Fields DEF Busy
  <2>4. {g \in AllFiles : <<r, job[r][m].stamp, g>> \in files'} =
           {g \in AllFiles : <<r, job[r][m].stamp, g>> \in files} \cup {f}
    BY <2>3
  <2> QED
    BY <1>1, <2>1, <2>2, <2>3, <2>4 DEF JobInv, FilesIn
<1>4. CASE List(r, m)
  <2>1. /\ job[r][m].pc = "copying" /\ job[r][m].tocopy = {} /\ Busy(r, m)
        /\ UNCHANGED <<used, files>>
    BY <1>4 DEF List, Busy
  <2>2. JobInv(r, m)
    BY <2>1 DEF FileInv
  <2>3. /\ job'[r][m].pc = "expanded"
        /\ job'[r][m].stamp = job[r][m].stamp
        /\ job'[r][m].tocopy = job[r][m].tocopy
        /\ job'[r][m].seen = FilesIn(r, job[r][m].stamp)
    BY <1>4, Fields DEF Busy
  <2> QED
    BY <1>1, <2>1, <2>2, <2>3 DEF JobInv, FilesIn
<1>5. CASE UseExpanded(r, m)
  <2>1. job[r][m].pc = "expanded" /\ Busy(r, m) /\ UNCHANGED <<used, files>>
    BY <1>5 DEF UseExpanded, Busy
  <2>2. JobInv(r, m)
    BY <2>1 DEF FileInv
  <2>3. /\ job'[r][m].pc = "used"
        /\ job'[r][m].stamp = job[r][m].stamp
        /\ job'[r][m].tocopy = job[r][m].tocopy
        /\ job'[r][m].seen = job[r][m].seen
        /\ job'[r][m].applied = Used(r, m)
    BY <1>5, Fields
  <2>4. ~Outlived(r) => Used(r, m) = FilesIn(r, job[r][m].stamp)
    BY <1>1 DEF ServeInv, Used
  <2> QED
    BY <1>1, <2>1, <2>2, <2>3, <2>4 DEF JobInv, FilesIn
<1>6. CASE CleanExpanded(r, m)
  BY <1>6, Fields DEF Busy, NoJob
<1> QED
  BY <1>2, <1>3, <1>4, <1>5, <1>6 DEF ModuleActs

\* A step of a module keeps the files of its process in order.
LEMMA FileInvModule ==
    ASSUME UniqueStamps, TypeOK, NEW r \in Runs, NEW m \in Modules, ModuleActs(r, m),
           ServeInv(r), FileInv(r)
    PROVE  FileInv(r)'
<1>1. /\ used \in [Runs -> SUBSET Stamps] /\ used[r] \subseteq Stamps
      /\ proc[r].phase = "serving" /\ UNCHANGED proc
      /\ \A k \in Modules : k # m => job'[r][k] = job[r][k]
  BY Fields, ModuleFrame DEF ModuleActs, TypeOK
<1>2. used[r] \subseteq used'[r]
  BY <1>1 DEF ModuleActs, StartExpand, CopyOne, List, UseExpanded, CleanExpanded
<1>3. StartExpand(r, m) \/ (Busy(r, m) /\ JobInv(r, m))
  BY DEF ModuleActs, CopyOne, List, UseExpanded, CleanExpanded, Busy, FileInv
<1>4. \A s \in Stamps \ used'[r] : FilesIn(r, s)' = {}
  BY <1>1, <1>2, <1>3, FilesOfStamp DEF FileInv, JobInv
<1>5. ASSUME NEW k \in Modules, k # m, Busy(r, k)
      PROVE  JobInv(r, k)'
  <2>1. JobInv(r, k)
    BY <1>5 DEF FileInv
  <2>2. StartExpand(r, m) \/ job[r][k].stamp # job[r][m].stamp
    BY <1>3, <1>5 DEF FileInv
  <2>3. \A s : s = job[r][k].stamp => FilesIn(r, s)' = FilesIn(r, s)
    BY <2>2, FilesOfStamp
  <2> QED
    BY <1>1, <1>2, <1>5, <2>1, <2>3, JobSame
<1>6. Busy(r, m)' => /\ JobInv(r, m)'
                     /\ \/ job'[r][m].stamp \notin used[r]
                        \/ Busy(r, m) /\ job'[r][m].stamp = job[r][m].stamp
  BY <1>1, JobStep
<1>7. \A k \in Modules : k # m => Busy(r, k)' = Busy(r, k)
  BY <1>1 DEF Busy
<1>8. \A k \in Modules : Busy(r, k)' => JobInv(r, k)'
  BY <1>5, <1>6, <1>7
<1>9. ASSUME NEW k \in Modules, k # m, Busy(r, k)', Busy(r, m)'
      PROVE  job'[r][k].stamp # job'[r][m].stamp
  <2>1. Busy(r, k) /\ job'[r][k] = job[r][k] /\ job[r][k].stamp \in used[r]
    BY <1>1, <1>7, <1>9 DEF FileInv, JobInv
  <2> QED
    BY <1>6, <1>9, <2>1 DEF FileInv
<1>10. \A h, k \in Modules : h # k /\ Busy(r, h)' /\ Busy(r, k)' =>
            job'[r][h].stamp # job'[r][k].stamp
  <2>1. ASSUME NEW h \in Modules, NEW k \in Modules, h # k, h # m, k # m,
               Busy(r, h)', Busy(r, k)'
        PROVE  job'[r][h].stamp # job'[r][k].stamp
    BY <1>1, <1>7, <2>1 DEF FileInv
  <2> QED
    BY <1>9, <2>1
<1> QED
  BY <1>1, <1>4, <1>8, <1>10 DEF FileInv, Busy

\* The life of a process keeps its files, and those of others, in order.
LEMMA FileInvProcess ==
    ASSUME OwnInv, NEW r \in Runs,
           StartSweep(r) \/ SweepOne(r) \/ EndSweep(r) \/ Configure(r) \/ Exit(r)
    PROVE  \A q \in Runs : FileInv(q)'
<1>1. /\ TypeOK /\ \A q \in Runs : ServeInv(q) /\ FileInv(q)
      /\ used \in [Runs -> SUBSET Stamps] /\ job \in [Runs -> [Modules -> Jobs]]
      /\ \A q \in Runs : used[q] \subseteq Stamps
  BY DEF OwnInv, SweepInv, TypeInv, TypeOK, Jobs
<1>2. \A q \in Runs : q # r => proc'[q] = proc[q]
  BY <1>1, ProcessFrame
<1>7. ASSUME NEW q \in Runs, Outlived(q), proc'[q].configured = proc[q].configured
      PROVE  Outlived(q)'
  <2>1. \A p \in Runs : proc'[p].started = proc[p].started \/ proc'[p].started = clock
    BY <1>1, ProcessFrame
  <2> QED
    BY <1>1, <1>7, <2>1, OutlivedStays DEF ServeInv
<1>3. CASE StartSweep(r) \/ EndSweep(r)
  <2>1. UNCHANGED <<files, job, used>>
    BY <1>3 DEF StartSweep, EndSweep
  <2>2. \A q \in Runs, s \in Stamps : FilesIn(q, s)' = FilesIn(q, s)
    BY <2>1 DEF FilesIn
  <2>3. ASSUME NEW q \in Runs, q # r PROVE FileInv(q)'
    BY <1>1, <1>2, <1>7, <2>1, <2>2, <2>3, FilesSame
  <2>4. /\ proc[r].phase \in {"new", "sweeping"}
        /\ proc'[r].phase \in {"sweeping", "ready"}
    BY <1>1, <1>3, ProcessFrame DEF StartSweep, EndSweep
  <2>5. \A m \in Modules : Busy(r, m)' = FALSE
    BY <1>1, <2>1, <2>4 DEF Busy, FileInv
  <2>6. FileInv(r)'
    BY <1>1, <2>1, <2>2, <2>4, <2>5 DEF FileInv
  <2> QED
    BY <2>3, <2>6
<1>4. CASE SweepOne(r)
  <2>1. /\ UNCHANGED <<job, used>>
        /\ proc[r].phase = "sweeping" /\ proc'[r].phase = "sweeping"
    BY <1>1, <1>4, ProcessFrame DEF SweepOne
  <2>2. PICK d \in proc[r].tosweep :
            UNCHANGED files \/ (IsJunk(r, d) /\ files' = {f \in files : f[1] # d})
    BY <1>1, <1>4, SweepFrame
  <2>3. d \in Runs
    BY <1>1, <2>2, Times DEF Procs
  <2>4. ASSUME NEW q \in Runs, q # d \/ UNCHANGED files PROVE FileInv(q)'
    <3>1. \A s \in Stamps : FilesIn(q, s)' = FilesIn(q, s)
      BY <2>2, <2>4 DEF FilesIn
    <3>2. /\ proc'[q].phase = proc[q].phase
          /\ proc'[q].configured = proc[q].configured
      BY <1>1, <1>2, <1>4, <2>1, ProcessFrame DEF Configure
    <3> QED
      BY <1>1, <1>7, <2>1, <3>1, <3>2, FilesSame
  <2>5. ASSUME IsJunk(r, d), files' = {f \in files : f[1] # d} PROVE FileInv(d)'
    <3>1. /\ proc'[d].phase = proc[d].phase
          /\ proc'[d].configured = proc[d].configured
      BY <1>1, <1>2, <1>4, <2>1, <2>3, ProcessFrame DEF Configure
    <3>2. \A s \in Stamps : FilesIn(d, s)' = {}
      BY <2>5 DEF FilesIn
    <3>3. CASE proc[d].phase # "serving"
      <4>1. \A m \in Modules : Busy(d, m)' = FALSE
        BY <1>1, <2>1, <2>3, <3>3 DEF Busy, FileInv
      <4> QED
        BY <1>1, <2>1, <2>3, <3>1, <3>2, <3>3, <4>1 DEF FileInv
    <3>4. CASE proc[d].phase = "serving"
      <4>1. Outlived(d)'
        BY <1>1, <1>7, <2>3, <2>5, <3>1, <3>4, ServingIsNoJunk
      <4>2. job' = job /\ used' = used
        BY <2>1
      <4>3. ASSUME NEW m \in Modules
            PROVE  (Busy(d, m)' <=> Busy(d, m)) /\ (JobInv(d, m) => JobInv(d, m)')
        BY <4>1, <4>2 DEF Busy, JobInv
      <4>4. \A m \in Modules : Busy(d, m)' => JobInv(d, m)'
        BY <1>1, <2>3, <4>3 DEF FileInv
      <4> QED
        BY <1>1, <2>3, <3>1, <3>2, <3>4, <4>2, <4>3, <4>4 DEF FileInv
    <3> QED
      BY <3>3, <3>4
  <2> QED
    BY <2>2, <2>3, <2>4, <2>5
<1>5. CASE Configure(r)
  <2>1. UNCHANGED <<files, job, used>> /\ proc[r].phase = "ready"
    BY <1>5 DEF Configure
  <2>2. \A q \in Runs, s \in Stamps : FilesIn(q, s)' = FilesIn(q, s)
    BY <2>1 DEF FilesIn
  <2>3. ASSUME NEW q \in Runs, q # r PROVE FileInv(q)'
    BY <1>1, <1>2, <1>7, <2>1, <2>2, <2>3, FilesSame
  <2>4. proc'[r].phase \in {"serving", "ended"}
    BY <1>1, <1>5, ProcessFrame
  <2>5. \A m \in Modules : Busy(r, m)' = FALSE
    BY <1>1, <2>1 DEF Busy, FileInv
  <2>6. \A s \in Stamps : FilesIn(r, s)' = {}
    BY <1>1, <2>1, <2>2 DEF FileInv
  <2>7. FileInv(r)'
    BY <1>1, <2>1, <2>4, <2>5, <2>6 DEF FileInv
  <2> QED
    BY <2>3, <2>7
<1>6. CASE Exit(r)
  <2>1. /\ UNCHANGED files
        /\ job' = [job EXCEPT ![r] = [m \in Modules |-> NoJob]]
        /\ used' = [used EXCEPT ![r] = {}]
        /\ proc'[r].phase = "ended"
    BY <1>1, <1>6, ProcessFrame DEF Exit
  <2>2. \A q \in Runs, s \in Stamps : FilesIn(q, s)' = FilesIn(q, s)
    BY <2>1 DEF FilesIn
  <2>3. ASSUME NEW q \in Runs, q # r PROVE FileInv(q)'
    <3>1. job'[q] = job[q] /\ used'[q] = used[q]
      BY <1>1, <2>1, <2>3
    <3> QED
      BY <1>1, <1>2, <1>7, <2>2, <2>3, <3>1, FilesSame
  <2>4. \A m \in Modules : job'[r][m].pc = "idle"
    BY <1>1, <2>1 DEF NoJob
  <2>5. FileInv(r)'
    BY <2>1, <2>4 DEF FileInv, Busy
  <2> QED
    BY <2>3, <2>5
<1> QED
  BY <1>3, <1>4, <1>5, <1>6

\* Everything together is inductive.
LEMMA OwnInvInductive ==
    ASSUME UniqueStamps
    PROVE  /\ Init => OwnInv
           /\ OwnInv /\ [Next]_vars => OwnInv'
<1>1. Init => OwnInv
  <2> SUFFICES ASSUME Init PROVE OwnInv
    OBVIOUS
  <2>1. ASSUME NEW r \in Runs PROVE FileInv(r)
    <3>1. \A m \in Modules : job[r][m].pc = "idle"
      BY DEF Init, NoJob
    <3> QED
      BY <3>1 DEF Init, FileInv, FilesIn, Busy
  <2> QED
    BY <2>1, SweepInvInductive DEF OwnInv
<1>2. OwnInv /\ [Next]_vars => OwnInv'
  <2> SUFFICES ASSUME OwnInv, [Next]_vars PROVE OwnInv'
    OBVIOUS
  <2>1. SweepInv'
    BY SweepInvInductive DEF OwnInv
  <2>2. /\ TypeOK /\ \A q \in Runs : FileInv(q)
        /\ \A q \in Runs : used[q] \subseteq Stamps /\ ServeInv(q)
    BY DEF OwnInv, SweepInv, TypeInv, TypeOK
  <2>3. CASE \E r \in Runs : \/ StartSweep(r) \/ SweepOne(r) \/ EndSweep(r)
                             \/ Configure(r) \/ Exit(r)
    BY <2>1, <2>3, FileInvProcess DEF OwnInv
  <2>4. CASE \E r \in Runs, m \in Modules : ModuleActs(r, m)
    <3>1. PICK r \in Runs, m \in Modules : ModuleActs(r, m)
      BY <2>4
    <3>2. FileInv(r)'
      BY <2>2, <3>1, FileInvModule
    <3>3. ASSUME NEW q \in Runs, q # r PROVE FileInv(q)'
      <4>1. job \in [Runs -> [Modules -> Jobs]] /\ job' \in [Runs -> [Modules -> Jobs]]
        BY <2>2, <3>1, Fields DEF ModuleActs, TypeOK, Jobs
      <4>2. \A k \in Modules : job'[q][k] = job[q][k]
        BY <2>2, <3>1, <3>3, Fields DEF ModuleActs
      <4>3. job'[q] = job[q]
        <5>1. /\ job[q] = [k \in Modules |-> job[q][k]]
              /\ job'[q] = [k \in Modules |-> job'[q][k]]
          BY <4>1
        <5> QED
          BY <4>2, <5>1
      <4>4. used'[q] = used[q] /\ proc'[q] = proc[q]
        <5>1. used \in [Runs -> SUBSET Stamps]
          BY <2>2 DEF TypeOK
        <5> QED
          BY <2>2, <3>1, <3>3, <5>1, ModuleFrame
             DEF ModuleActs, StartExpand, CopyOne, List, UseExpanded, CleanExpanded
      <4>5. Outlived(q)' <=> Outlived(q)
        BY <2>2, <3>1, ModuleFrame DEF Outlived
      <4> QED
        BY <2>2, <3>1, <3>3, <4>3, <4>4, <4>5, FilesOfOthers, FilesSame
    <3> QED
      BY <2>1, <3>2, <3>3 DEF OwnInv
  <2>5. CASE Tick \/ UNCHANGED vars
    <3>1. UNCHANGED <<proc, files, job, used>>
      BY <2>5 DEF Tick, vars
    <3>2. \A q \in Runs, s \in Stamps : FilesIn(q, s)' = FilesIn(q, s)
      BY <3>1 DEF FilesIn
    <3>3. ASSUME NEW q \in Runs PROVE FileInv(q)'
      <4>1. Outlived(q)' <=> Outlived(q)
        BY <3>1 DEF Outlived
      <4> QED
        BY <2>2, <3>1, <3>2, <4>1, FilesSame
    <3> QED
      BY <2>1, <3>3 DEF OwnInv
  <2> QED
    BY <2>3, <2>4, <2>5 DEF Next, ModuleActs
<1> QED
  BY <1>1, <1>2

\* However modules and processes overlap, a module is planned from and applied
\* with exactly its own files until its process is outlived, as long as the
\* clock tells the expands of a process apart (OwnFilesOnly).
THEOREM FilesAreOwn ==
    ASSUME UniqueStamps PROVE Spec => []OwnFilesOnly
<1>1. OwnInv => OwnFilesOnly
  BY DEF OwnInv, FileInv, Busy, JobInv, OwnFilesOnly
<1> QED
  BY <1>1, OwnInvInductive, PTL DEF Spec

=============================================================================

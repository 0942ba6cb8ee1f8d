----------------------------- MODULE Workspace -----------------------------
(***************************************************************************)
(* The files that provider processes keep on a machine: main.go sweeps the *)
(* temporary directories of earlier runs when a process starts,            *)
(* providerConfigure makes one directory for the process and writes its    *)
(* kubeconfig there, and every expand of a module fills a directory of its *)
(* own under it, named for the time in nanoseconds.                        *)
(*                                                                         *)
(* Terraform runs the modules of a process concurrently, and processes     *)
(* (runs on the same machine) overlap.  A process that ends, well or not,  *)
(* leaves its directory to the sweep of a later one.  The directory's      *)
(* modification time is what the sweep looks at; it is set when the        *)
(* kubeconfig is written and when the first expand makes "expanded", and   *)
(* by nothing after that: to the sweep of a process that starts more than  *)
(* the threshold later, a directory in use looks like one left behind.     *)
(***************************************************************************)
EXTENDS Naturals, FiniteSets

CONSTANTS
    Runs,           \* Provider processes; each has one directory.
    Modules,        \* Modules that a process handles.
    SourceOf,       \* The files in the source of each module.
    Stamps,         \* What time.Now().UnixNano() may return, and ...
    NoStamp,        \* ... what a module has before its first expand.
    UniqueStamps,   \* Does the clock tell any two expands apart?
    Threshold,      \* Age at which a directory is swept (one hour).
    MaxTime,        \* Bound on the clock.
    MaxFaults       \* Bound on failures.

ASSUME WorkspaceAssumption ==
    /\ UniqueStamps \in BOOLEAN
    /\ {Threshold, MaxTime, MaxFaults} \subseteq Nat

VARIABLES
    clock,
    proc,           \* Each process: where it stands, and its sweep.
    dir,            \* Each process's directory.
    files,          \* The expanded files: <<run, stamp, file>>.
    job,            \* What each process does for each module.
    used,           \* The stamps that each process has used.
    faults

vars == <<clock, proc, dir, files, job, used, faults>>

AllFiles == UNION {SourceOf[m] : m \in Modules}

TypeOK ==
    /\ clock \in 0..MaxTime
    /\ proc \in [Runs -> [phase : {"new", "sweeping", "ready", "serving", "ended"},
                          started : 0..MaxTime, configured : 0..MaxTime,
                          tosweep : SUBSET Runs, missed : SUBSET Runs]]
    /\ dir \in [Runs -> [exists : BOOLEAN, kubeconfig : BOOLEAN,
                         expanded : BOOLEAN, mtime : 0..MaxTime]]
    /\ files \subseteq Runs \X Stamps \X AllFiles
    /\ job \in [Runs -> [Modules ->
                 [pc : {"idle", "copying", "expanded", "used", "failed"},
                  stamp : Stamps \cup {NoStamp}, tocopy : SUBSET AllFiles,
                  seen : SUBSET AllFiles, applied : SUBSET AllFiles]]]
    /\ used \in [Runs -> SUBSET Stamps]
    /\ faults \in 0..MaxFaults

NoDir == [exists |-> FALSE, kubeconfig |-> FALSE, expanded |-> FALSE, mtime |-> 0]
NoJob == [pc |-> "idle", stamp |-> NoStamp, tocopy |-> {}, seen |-> {},
          applied |-> {}]

Init ==
    /\ clock = 0
    /\ proc = [r \in Runs |-> [phase |-> "new", started |-> 0, configured |-> 0,
                               tosweep |-> {}, missed |-> {}]]
    /\ dir = [r \in Runs |-> NoDir]
    /\ files = {}
    /\ job = [r \in Runs |-> [m \in Modules |-> NoJob]]
    /\ used = [r \in Runs |-> {}]
    /\ faults = 0

Fault ==
    /\ faults < MaxFaults
    /\ faults' = faults + 1

-----------------------------------------------------------------------------
(* The start of a process: runProvider.                                    *)

\* The threshold is taken from the clock and the directories are listed.
StartSweep(r) ==
    /\ proc[r].phase = "new"
    /\ proc' = [proc EXCEPT ![r].phase = "sweeping",
                            ![r].started = clock,
                            ![r].tosweep = {q \in Runs : dir[q].exists}]
    /\ UNCHANGED <<clock, dir, files, job, used, faults>>

\* Mutants of IsJunk: the comparison is the wrong way round; whatever is older
\* than the process is junk.
IsFresh(r, q) == dir[q].mtime + Threshold >= proc[r].started
IsOlder(r, q) == dir[q].mtime <= proc[r].started

\* info.ModTime().Before(threshold)
IsJunk(r, q) == dir[q].mtime + Threshold < proc[r].started

\* One directory: it is kept, or removed with all in it, or a failure is
\* logged and the sweep goes on.
SweepOne(r) ==
    /\ proc[r].phase = "sweeping"
    /\ \E q \in proc[r].tosweep :
          \/ /\ ~(dir[q].exists /\ IsJunk(r, q))
             /\ proc' = [proc EXCEPT ![r].tosweep = @ \ {q}]
             /\ UNCHANGED <<dir, files, faults>>
          \/ /\ dir[q].exists /\ IsJunk(r, q)
             /\ proc' = [proc EXCEPT ![r].tosweep = @ \ {q}]
             /\ dir' = [dir EXCEPT ![q] = NoDir]
             /\ files' = {f \in files : f[1] # q}
             /\ UNCHANGED faults
          \/ /\ Fault
             /\ proc' = [proc EXCEPT ![r].tosweep = @ \ {q},
                                     ![r].missed = @ \cup {q}]
             /\ UNCHANGED <<dir, files>>
    /\ UNCHANGED <<clock, job, used>>

EndSweep(r) ==
    /\ proc[r].phase = "sweeping"
    /\ proc[r].tosweep = {}
    /\ proc' = [proc EXCEPT ![r].phase = "ready"]
    /\ UNCHANGED <<clock, dir, files, job, used, faults>>

\* The directory of a process, with its kubeconfig or without.
FreshDir(kubeconfig) ==
    [exists |-> TRUE, kubeconfig |-> kubeconfig, expanded |-> FALSE,
     mtime |-> clock]

\* providerConfigure: TempDir gives a new name, and the kubeconfig is written.
\* A failure after that leaves the directory, and a provider of no use.
Configure(r) ==
    /\ proc[r].phase = "ready"
    /\ \/ /\ dir' = [dir EXCEPT ![r] = FreshDir(TRUE)]
          /\ proc' = [proc EXCEPT ![r].phase = "serving", ![r].configured = clock]
          /\ UNCHANGED faults
       \/ /\ Fault
          /\ dir' = [dir EXCEPT ![r] = FreshDir(FALSE)]
          /\ proc' = [proc EXCEPT ![r].phase = "ended"]
    /\ UNCHANGED <<clock, files, job, used>>

\* Terraform ends, or dies: what the process knew is gone, its files stay.
Exit(r) ==
    /\ proc[r].phase \in {"ready", "serving"}
    /\ proc' = [proc EXCEPT ![r].phase = "ended"]
    /\ job' = [job EXCEPT ![r] = [m \in Modules |-> NoJob]]
    /\ used' = [used EXCEPT ![r] = {}]
    /\ UNCHANGED <<clock, dir, files, faults>>

-----------------------------------------------------------------------------
(* A module: expand, what uses the result, and cleanExpanded.              *)

FilesIn(r, stamp) == {f \in AllFiles : <<r, stamp, f>> \in files}

\* Mutant of ExpandedDir: all expands of a process share a directory.
SharedDir(stamp) == NoStamp

\* The name of a directory for an expand, under that of its process.
ExpandedDir(stamp) == stamp

MayUse(r, stamp) == UniqueStamps => stamp \notin used[r]

\* MkdirAll makes what is missing, the process's directory included.
StartExpand(r, m) ==
    /\ proc[r].phase = "serving"
    /\ job[r][m].pc = "idle"
    /\ \E stamp \in Stamps :
          /\ MayUse(r, stamp)
          /\ job' = [job EXCEPT ![r][m] = [NoJob EXCEPT !.pc = "copying",
                                                        !.stamp = ExpandedDir(stamp),
                                                        !.tocopy = SourceOf[m]]]
          /\ used' = [used EXCEPT ![r] = @ \cup {stamp}]
    /\ dir' = IF dir[r].exists /\ dir[r].expanded
              THEN dir
              ELSE [dir EXCEPT ![r].exists = TRUE, ![r].expanded = TRUE,
                               ![r].mtime = clock]
    /\ UNCHANGED <<clock, proc, files, faults>>

\* RecursiveCopy.  A failed expand returns before it has arranged for the
\* directory to be removed.  Once the directory of the process has been swept,
\* which a missing kubeconfig shows, the copy fails where its own directory is
\* gone; where a folder of the source, or another module, has made the way
\* there again, it may go on with less than it had.
CopyOne(r, m) ==
    /\ proc[r].phase = "serving"
    /\ job[r][m].pc = "copying"
    /\ \E f \in job[r][m].tocopy :
          \/ /\ dir[r].exists
             /\ files' = files \cup {<<r, job[r][m].stamp, f>>}
             /\ job' = [job EXCEPT ![r][m] =
                          [@ EXCEPT !.tocopy = job[r][m].tocopy \ {f}]]
             /\ UNCHANGED faults
          \/ /\ Fault \/ (~dir[r].kubeconfig /\ UNCHANGED faults)
             /\ job' = [job EXCEPT ![r][m] = [@ EXCEPT !.pc = "failed"]]
             /\ UNCHANGED files
    /\ UNCHANGED <<clock, proc, dir, used>>

\* GetManifests on the directory: the resources of the plan.  It fails if the
\* directory has been swept and is not there.
List(r, m) ==
    /\ proc[r].phase = "serving"
    /\ job[r][m].pc = "copying"
    /\ job[r][m].tocopy = {}
    /\ \E pc \in {"expanded", "failed"} :
          /\ pc = "expanded" => dir[r].exists
          /\ pc = "failed" => ~dir[r].kubeconfig
          /\ job' = [job EXCEPT ![r][m] =
                       [@ EXCEPT !.pc = pc, !.seen = FilesIn(r, job[r][m].stamp)]]
    /\ UNCHANGED <<clock, proc, dir, files, used, faults>>

\* kubectl, on the directory as it is by then; without the kubeconfig it gets
\* nowhere.
UseExpanded(r, m) ==
    /\ proc[r].phase = "serving"
    /\ job[r][m].pc = "expanded"
    /\ LET found == IF dir[r].kubeconfig THEN FilesIn(r, job[r][m].stamp) ELSE {}
       IN  job' = [job EXCEPT ![r][m] = [@ EXCEPT !.pc = "used", !.applied = found]]
    /\ UNCHANGED <<clock, proc, dir, files, used, faults>>

\* Mutant of CleanExpanded: takes away what the other modules expanded too.
CleanAll(r, m) ==
    /\ proc[r].phase = "serving"
    /\ job[r][m].pc = "used"
    /\ files' = {f \in files : f[1] # r}
    /\ job' = [job EXCEPT ![r][m] = NoJob]
    /\ UNCHANGED <<clock, proc, dir, used, faults>>

\* The deferred clean-up; the module may be expanded again (the plan, the
\* final plan and the apply each do so).
CleanExpanded(r, m) ==
    /\ proc[r].phase = "serving"
    /\ job[r][m].pc = "used"
    /\ files' = {f \in files : ~(f[1] = r /\ f[2] = job[r][m].stamp)}
    /\ job' = [job EXCEPT ![r][m] = NoJob]
    /\ UNCHANGED <<clock, proc, dir, used, faults>>

-----------------------------------------------------------------------------

Tick ==
    /\ clock < MaxTime
    /\ clock' = clock + 1
    /\ UNCHANGED <<proc, dir, files, job, used, faults>>

Next ==
    \/ \E r \in Runs :
          \/ StartSweep(r) \/ SweepOne(r) \/ EndSweep(r)
          \/ Configure(r) \/ Exit(r)
          \/ \E m \in Modules :
                \/ StartExpand(r, m) \/ CopyOne(r, m) \/ List(r, m)
                \/ UseExpanded(r, m) \/ CleanExpanded(r, m)
    \/ Tick

Spec == Init /\ [][Next]_vars

-----------------------------------------------------------------------------
(* Properties.                                                             *)

\* Some process has started more than the threshold after r was configured.
Outlived(r) == \E q \in Runs : proc[q].started > proc[r].configured + Threshold

\* A module is planned from, and kubectl is given, exactly the files of its
\* own source: nothing of a module that is expanded at the same time, and
\* nothing missing because another process, or the clean-up of another
\* module, took it away; unless a process has started so late that it takes
\* this one's directory for junk.  (expand, cleanExpanded, RecursiveCopy,
\* runProvider.)
OwnFilesOnly ==
    \A r \in Runs, m \in Modules : ~Outlived(r) =>
        /\ job[r][m].pc \in {"expanded", "used"} => job[r][m].seen = SourceOf[m]
        /\ job[r][m].pc = "used" => job[r][m].applied = SourceOf[m]

\* A process that serves keeps the kubeconfig that its kubectl calls name,
\* whichever processes sweep and for as long as they take, until one starts
\* more than the threshold after it was configured.  (runProvider,
\* providerConfigure.)
KubeconfigKept ==
    \A r \in Runs : proc[r].phase = "serving" /\ ~Outlived(r) =>
        dir[r].exists /\ dir[r].kubeconfig

\* Only junk is swept: a process that serves keeps its directory and its
\* kubeconfig, however long it serves.  (The comment of runProvider, on what
\* its sweep is for; the age of a directory does not tell whether it is junk.)
OnlyJunkIsSwept ==
    \A r \in Runs : proc[r].phase = "serving" => dir[r].exists /\ dir[r].kubeconfig

\* The disk does not fill up: once a process has swept, every directory that
\* was older than the threshold when it started is gone, save those it could
\* not remove.  (runProvider, and its comment.)
JunkIsSwept ==
    \A r \in Runs : proc[r].phase \in {"ready", "serving"} =>
        \A q \in Runs \ proc[r].missed :
            dir[q].exists => dir[q].mtime + Threshold >= proc[r].started

=============================================================================

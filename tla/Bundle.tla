------------------------------- MODULE Bundle -------------------------------
(***************************************************************************)
(* The way of one bundle from its source to the cluster: the templates     *)
(* are expanded in place, file by file (pkg/util/template.go), the         *)
(* expanded directory is read by the provider and, for the diff, by        *)
(* kubectl itself, removed ids are deleted, and the manifests are applied  *)
(* in the order of their kinds.  The provider (provider_context.go,        *)
(* ordered_client.go) and the debugging tool kaexpand (cmd/kaexpand) share *)
(* this way; kaexpand keeps no state, deletes nothing, and may expand into *)
(* the directory of an earlier run.                                        *)
(*                                                                         *)
(* A file is what it holds: the texts that went into it and the documents  *)
(* it is cut into.  The directory is flat.  Requests that fail, others who *)
(* change the cluster, the namespaces that a plan makes and the second     *)
(* expand before an apply are the subject of ProfileResource.              *)
(***************************************************************************)
EXTENDS Manifests, Functions

CONSTANTS
    Sources,        \* The contents that a source may have.
    Needs,          \* Pairs of kinds: an object of the second uses the first.
    MaxRuns         \* Bound on the number of runs.

\* A source maps names to [text, docs, reads]: the documents of a file and,
\* for a template, the files it includes by fileContents or configMapEntry.
\* Every file of a source expands to a name of its own.
Output(f) == [f EXCEPT !.tpl = FALSE]
ASSUME SourceAssumption ==
    /\ \A source \in Sources :
           /\ IsFiniteSet(DOMAIN source) /\ DOMAIN source \subseteq FileNames
           /\ \A f, g \in DOMAIN source : Output(f) = Output(g) => f = g
           /\ \A f \in DOMAIN source :
                  source[f].docs \in Seq(ToSet(source[f].docs))
           /\ \A f \in DOMAIN source : ~f.tpl => source[f].reads = {}
    /\ Needs \subseteq (STRING \X STRING)
    /\ MaxRuns \in Nat

VARIABLES
    phase,          \* Where the run is.
    tool,           \* Whose run it is: the provider's or kaexpand's.
    noDiff,         \* no_diff is set for the resource.
    source,         \* What was fetched.
    dir,            \* The directory it is expanded in.
    queue,          \* Templates that the walk has yet to visit.
    manifests,      \* What GetManifests has returned.
    shown,          \* Documents that the diff was made of.
    created,        \* The resource is in Terraform's state.
    saved,          \* resources in that state: contents by id.
    doomed,         \* Ids still to be deleted.
    asked,          \* Requests to delete, with the manifest each is for.
    todo,           \* Indices of manifests still to be applied.
    applied,        \* Manifests that kubectl has come to, in order.
    trouble,        \* kubectl apply failed on one of them.
    cluster,        \* What was applied last to each object.
    runs            \* How many runs there were.

walkVars == <<source, dir, queue>>
stateVars == <<created, saved, doomed, asked>>
applyVars == <<todo, applied, trouble>>
vars == <<phase, tool, noDiff, walkVars, manifests, shown, stateVars,
          applyVars, cluster, runs>>

\* One function on top of another, and one value put on top of a function.
Over(top, f) == [x \in DOMAIN top \cup DOMAIN f |->
                    IF x \in DOMAIN top THEN top[x] ELSE f[x]]
Put(x, value, f) == Over([y \in {x} |-> value], f)

Phases == {"idle", "walk", "expanded", "planned", "delete", "apply"}

\* The map from ids to contents; of two manifests with one id the last stays.
Resources(read) ==
    [id \in {ManifestId(read[i].doc) : i \in DOMAIN read} |->
        read[SelectLastInSeq(read, LAMBDA m : ManifestId(m.doc) = id)]]

Init ==
    /\ phase = "idle" /\ tool = "provider" /\ noDiff = FALSE
    /\ source = <<>> /\ dir = <<>> /\ queue = <<>>
    /\ manifests = <<>> /\ shown = {}
    /\ created = FALSE /\ saved = <<>> /\ doomed = {} /\ asked = {}
    /\ todo = {} /\ applied = <<>> /\ trouble = FALSE
    /\ cluster = <<>> /\ runs = 0

-----------------------------------------------------------------------------
(* Fetching and expanding.                                                 *)

\* A file as it comes from the source.
Fetched(src) == [f \in DOMAIN src |->
    [docs |-> src[f].docs, reads |-> src[f].reads, holds |-> {src[f].text}]]

\* The walk lists the directory before it visits the first file.
Templates(files) == Listing({f \in DOMAIN files : f.tpl})

Begins(who, files) ==
    /\ phase = "idle"
    /\ runs < MaxRuns
    /\ runs' = runs + 1
    /\ tool' = who
    /\ dir' = files
    /\ queue' = Templates(files)
    /\ phase' = "walk"
    /\ manifests' = <<>> /\ shown' = {} /\ asked' = {}
    /\ todo' = {} /\ applied' = <<>> /\ trouble' = FALSE
    /\ UNCHANGED <<created, saved, doomed, cluster>>

\* The provider makes a new directory for each expand.
StartProvider ==
    \E src \in Sources :
        /\ source' = src
        /\ noDiff' \in BOOLEAN
        /\ Begins("provider", Fetched(src))

\* kaexpand makes a temporary one, or takes that of its --output option with
\* all that an earlier run has left there.
StartKaexpand ==
    \E src \in Sources :
        /\ source' = src
        /\ noDiff' = FALSE
        /\ \/ Begins("kaexpand", Fetched(src))
           \/ tool = "kaexpand" /\ Begins("kaexpand", Over(Fetched(src), dir))

\* An included file has to be there, and is executed without the functions
\* that include others.
Includes(files, f) ==
    \A g \in files[f].reads : g \in DOMAIN files /\ files[g].reads = {}

Rendered(files, f) ==
    [docs |-> files[f].docs, reads |-> {},
     holds |-> files[f].holds \cup UNION {files[g].holds : g \in files[f].reads}]

\* os.Create makes the output, empty, before the template is executed.
Created == [docs |-> <<>>, reads |-> {}, holds |-> {}]

\* Mutant of ExpandOne: the template stays in the directory.
ExpandBeside ==
    /\ phase = "walk"
    /\ queue # <<>>
    /\ LET f == Head(queue)
           opened == Put(Output(f), Created, dir)
       IN  /\ Includes(opened, f)
           /\ dir' = Put(Output(f), Rendered(opened, f), dir)
           /\ queue' = Tail(queue)
    /\ UNCHANGED <<phase, tool, noDiff, source, manifests, shown, stateVars,
                   applyVars, cluster, runs>>

\* The template goes once it has been expanded.  Any may fail, for want of a
\* parameter; its output has been opened by then.
ExpandOne ==
    /\ phase = "walk"
    /\ queue # <<>>
    /\ LET f == Head(queue)
           opened == Put(Output(f), Created, dir)
           written == Put(Output(f), Rendered(opened, f), dir)
       IN  \/ /\ Includes(opened, f)
              /\ dir' = Restrict(written, DOMAIN written \ {f})
              /\ queue' = Tail(queue)
              /\ UNCHANGED phase
           \/ /\ dir' = opened
              /\ queue' = <<>>
              /\ phase' = "idle"
    /\ UNCHANGED <<tool, noDiff, source, manifests, shown, stateVars,
                   applyVars, cluster, runs>>

Expanded ==
    /\ phase = "walk"
    /\ queue = <<>>
    /\ manifests' = GetManifests(dir)
    /\ phase' = "expanded"
    /\ UNCHANGED <<tool, noDiff, walkVars, shown, stateVars, applyVars,
                   cluster, runs>>

-----------------------------------------------------------------------------
(* Planning.                                                               *)

\* A diff that fails fails the plan, and ends kaexpand.
Diff ==
    /\ phase = "expanded"
    /\ IF noDiff
       THEN phase' = "planned" /\ UNCHANGED shown
       ELSE \/ /\ KubectlAccepts(dir)
               /\ shown' = KubectlShows(dir)
               /\ phase' = "planned"
            \/ phase' = "idle" /\ UNCHANGED shown
    /\ UNCHANGED <<tool, noDiff, walkVars, manifests, stateVars, applyVars,
                   cluster, runs>>

\* Terraform asks before it applies, kaexpand by util.Confirm.
Refuse ==
    /\ phase = "planned"
    /\ phase' = "idle"
    /\ UNCHANGED <<tool, noDiff, walkVars, manifests, shown, stateVars,
                   applyVars, cluster, runs>>

Confirm ==
    /\ phase = "planned"
    /\ tool = "kaexpand"
    /\ phase' = "apply"
    /\ todo' = DOMAIN manifests
    /\ UNCHANGED <<tool, noDiff, walkVars, manifests, shown, stateVars,
                   applied, trouble, cluster, runs>>

\* Create and Update; there is nothing to delete for the former.
Update ==
    /\ phase = "planned"
    /\ tool = "provider"
    /\ phase' = "delete"
    /\ doomed' = DOMAIN saved \ DOMAIN Resources(manifests)
    /\ todo' = DOMAIN manifests
    /\ UNCHANGED <<tool, noDiff, walkVars, manifests, shown, created,
                   saved, asked, applied, trouble, cluster, runs>>

-----------------------------------------------------------------------------
(* Applying.                                                               *)

\* One id to delete: a kind that discovery did not list is skipped; an object
\* that is not there is no error; a request that kubectl refuses ends Update,
\* which has saved the new resources by then.
Request(id) ==
    LET c == IdComponents(id)
    IN  {[resource |-> r.resource, sub |-> r.sub, ns |-> c.ns, name |-> c.name]
            : r \in ResourceOf(c.kind)}

DeleteOne ==
    /\ phase = "delete"
    /\ \E id \in doomed :
          /\ asked' = asked \cup {[request |-> r, for |-> saved[id].doc]
                                    : r \in Request(id)}
          /\ IF \E r \in Request(id) : Refused(r)
             THEN /\ phase' = "idle"
                  /\ saved' = Resources(manifests)
                  /\ doomed' = {}
                  /\ UNCHANGED cluster
             ELSE /\ doomed' = doomed \ {id}
                  /\ cluster' = Restrict(cluster, DOMAIN cluster \
                                    {ObjectAsked(r) : r \in Request(id)})
                  /\ UNCHANGED <<phase, saved>>
    /\ UNCHANGED <<tool, noDiff, walkVars, manifests, shown, created, applyVars,
                   runs>>

Deleted ==
    /\ phase = "delete"
    /\ doomed = {}
    /\ phase' = "apply"
    /\ UNCHANGED <<tool, noDiff, walkVars, manifests, shown, stateVars,
                   applyVars, cluster, runs>>

\* The numbered files of Apply: none that sorts later goes before i.  The
\* sort is not stable, so manifests that tie may come in any order.
IsNext(i) ==
    \A j \in todo : ~Less(manifests[j].doc, manifests[i].doc)

\* kubectl goes on past a manifest that it cannot apply.
ApplyOne ==
    /\ phase = "apply"
    /\ \E i \in todo :
          /\ IsNext(i)
          /\ todo' = todo \ {i}
          /\ applied' = Append(applied, manifests[i])
          /\ \/ /\ IsListed(manifests[i].doc)
                /\ cluster' = Put(ObjectNamed(manifests[i].doc), manifests[i],
                                  cluster)
                /\ UNCHANGED trouble
             \/ trouble' = TRUE /\ UNCHANGED cluster
    /\ UNCHANGED <<phase, tool, noDiff, walkVars, manifests, shown, stateVars,
                   runs>>

\* A Create that fails saves nothing, an Update saves what was planned.
Save ==
    /\ phase = "apply"
    /\ todo = {}
    /\ tool = "provider"
    /\ phase' = "idle"
    /\ IF trouble /\ ~created
       THEN UNCHANGED <<created, saved>>
       ELSE created' = TRUE /\ saved' = Resources(manifests)
    /\ UNCHANGED <<tool, noDiff, walkVars, manifests, shown, doomed, asked,
                   applyVars, cluster, runs>>

\* kaexpand ends the same way whether its apply has failed or not.
Return ==
    /\ phase = "apply"
    /\ todo = {}
    /\ tool = "kaexpand"
    /\ phase' = "idle"
    /\ UNCHANGED <<tool, noDiff, walkVars, manifests, shown, stateVars,
                   applyVars, cluster, runs>>

Next ==
    \/ StartProvider \/ StartKaexpand \/ ExpandOne \/ Expanded \/ Diff
    \/ Refuse \/ Confirm \/ Update \/ DeleteOne \/ Deleted \/ ApplyOne
    \/ Save \/ Return

Spec == Init /\ [][Next]_vars

-----------------------------------------------------------------------------
(* Properties.                                                             *)

Stands == [doc : {d \in UNION {ToSet(source[f].docs) : f \in DOMAIN source} :
                     IsManifest(d)},
           holds : SUBSET {source[f].text : f \in DOMAIN source}]

\* Types.  What GetManifests returns are manifests, and once the walk is over
\* no template is left in the directory.
TypeOK ==
    /\ phase \in Phases
    /\ tool \in {"provider", "kaexpand"}
    /\ {noDiff, created, trouble} \subseteq BOOLEAN
    /\ tool = "provider" => ToSet(manifests) \subseteq Stands
    /\ shown \in SUBSET KubectlReads(dir)
    /\ phase \in Phases \ {"idle", "walk"} => \A f \in DOMAIN dir : ~f.tpl
    /\ doomed \subseteq DOMAIN saved
    /\ todo \subseteq DOMAIN manifests
    /\ runs \in 0..MaxRuns

\* What the diff was made of is what kubectl apply has come to by the end, no
\* document more or less: the plan is of the same documents as the apply,
\* though kubectl reads the directory for the one and GetManifests for the
\* other (ordered_client.go:74-107, 171-173).
DiffShowsWhatIsApplied ==
    (phase = "apply" /\ todo = {} /\ ~noDiff) => ToSet(applied) = shown

\* No manifest is applied before another of the bundle that it needs
\* (SortManifests; Needs is stated apart from KindOrder).
NeededFirst ==
    \A i, j \in DOMAIN applied :
        i < j => <<applied[j].doc.kind, applied[i].doc.kind>> \notin Needs

\* A request to delete that kubectl serves reaches the object of the manifest
\* that was removed and no other: what the id is read back to, the resource
\* that the kind is looked up as and what kubectl makes of the two come out
\* where they began (ordered_client.go:232-271).
DeletesReachTheirObject ==
    \A a \in asked :
        ~Refused(a.request) => ObjectAsked(a.request) = ObjectNamed(a.for)

\* No request to delete is one that kubectl does not even send: the provider
\* "will delete resources from the Kubernetes API if they're removed"
\* (docs/index.md:106-107).
DeletesAreServed == \A a \in asked : ~Refused(a.request)

\* The file of the source that a name leads to: an include may name another
\* template by its own name or by the name that it expands to.
Resolve(src, g) == IF g \in DOMAIN src THEN g ELSE [g EXCEPT !.tpl = TRUE]
FilesRead(src, h) == {Resolve(src, g) : g \in src[h].reads} \cap DOMAIN src

\* The files that f comes to include: the least set with f that has, with a
\* file, all that it reads.
Reached(src, f) ==
    {g \in DOMAIN src :
        \A S \in SUBSET DOMAIN src :
            (f \in S /\ \A h \in S : FilesRead(src, h) \subseteq S) => g \in S}

\* The texts that a file of the source is meant to hold, whatever the order of
\* the walk.
Meant(src, f) == {src[g].text : g \in Reached(src, f)}

MeantManifests(src) ==
    UNION {{[doc |-> d, holds |-> Meant(src, f)]
                : d \in {e \in ToSet(src[f].docs) : IsManifest(e)}}
            : f \in {g \in DOMAIN src : g.ext = "yaml"}}

Ends == phase = "apply" /\ phase' = "idle" /\ tool = "provider" /\ ~trouble

\* When a run of the provider has gone well, each manifest of the source, in
\* the form that its templates give it, is what its object was set to last;
\* and of the manifests of the state before, those that are not in the
\* source any more are gone.
ClusterFollowsSource ==
    [][Ends =>
        /\ \A m \in MeantManifests(source) :
               /\ ObjectNamed(m.doc) \in DOMAIN cluster
               /\ cluster[ObjectNamed(m.doc)] = m
        /\ \A id \in DOMAIN saved :
               LET gone == ObjectNamed(saved[id].doc)
               IN  (\A m \in MeantManifests(source) : ObjectNamed(m.doc) # gone)
                   => gone \notin DOMAIN cluster]_vars

=============================================================================

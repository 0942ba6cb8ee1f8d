# terraform-provider-kubeapply in TLA+

Specifications of the kubeapply Terraform provider: what its one resource,
`kubeapply_profile`, does to a Kubernetes cluster and to the Terraform state
while runs fail, answers get lost, sources move and other people touch the
cluster; what several modules of one provider do to each other; how a source of
templates becomes manifests, ids and requests; how the diffs that a plan shows
are found; and the files that concurrent modules and overlapping processes
share.  TLC checks small instances, TLAPS proves twenty-seven theorems for all of
them.

Paths below are relative to `src/`.

## 1. Inventory

| Component | State | Operations | Talks to |
|---|---|---|---|
| Resource handlers, `pkg/provider/resource_profile.go`, `resource_data.go` | the Terraform state of the resource: inputs, `resources` (id to hash), `diff` | customize-diff, Create, Update, Delete; Read does nothing | called by Terraform; calls the provider context |
| Provider context, `provider_context.go` | options, client, temporary directory | expand, shouldDiff, diff, apply, delete, createNamespaces, cleanExpanded | git, templates, cluster client, API client |
| Ordered client, `pkg/cluster/kube/ordered_client.go` | none; temporary files of one call | Apply (one `kubectl apply` over numbered files), Delete (one `kubectl delete` per id), Diff | kubectl |
| Manifests, `pkg/cluster/kube/manifests.go` | none | GetManifests, SortManifests, ids and back | file system |
| Discovery, `pkg/cluster/kube/resources.go` | none | getApiResources | API server |
| Templates, `util/template.go` | the directory it walks | ApplyTemplate, in place, with includes | file system |
| `cmd/kaexpand` | an output directory that may be an old one | expand, diff, confirm, apply | templates, ordered client |
| Structured diff, `pkg/cluster/diff/diff.go`, `cmd/kadiff` | two directories | DiffKube | called by `kubectl diff` |
| Process and files, `main.go`, `provider.go`, `kubeconfig.go`, `source.go`, `util/paths.go` | `kubeapply_*` directories | sweep at start, providerConfigure, expand, clean-up | other processes on the machine |
| Commands, `util/cmd.go`, `util/git.go` | pipes, two goroutines | RunCmdWithPrinters, CloneRepo | git, kubectl |
| Result sorting, `cluster/sort.go`; display, `cluster/apply`, `format.go`; fakes | none | | |

What makes it hard:

* **Two owners of the truth.** The provider never reads the cluster back.  The
  state lists what was applied, or what would have been: Update leaves the
  planned `resources` in the state even when its apply fails, Create saves
  nothing when it fails, and a crash keeps what was there before.
* **Non-atomic requests.** An apply is one request per object and goes on past
  failures; a delete is one per id and stops at the first.  Neither waits for
  finalizers.  A request may take effect and its answer be lost.
* **Everything is done twice.** customize-diff runs for the plan and again before
  the apply, and Terraform insists on the same result; the apply expands the
  source once more and uses whatever it finds.
* **Modules at the same time.** Terraform plans and applies the modules of a provider
  concurrently: one has its final plan made while another is half applied.
* **Unknown values.** Host, parameters or set values may be unknown while planning;
  placeholders then stand for them.
* **A plan with side effects.** Planning creates namespaces.
* **Ids are not objects.** Changes are found by comparing ids that contain the api
  version; deletes cut the id at its dots and name a resource, a namespace and a name.
* **In-place expansion.** Templates are replaced while the directory is walked, and
  include one another under names that exist before or after.
* **Diffs with a blind spot.** The provider knows the cluster only by what `kubectl diff`
  prints, and the external differ it gives to kubectl, kadiff, compares lines cut off at 256
  characters.  An empty diff is taken for a cluster that needs nothing.
* **Shared files.** Modules run concurrently in one process and processes overlap on
  one machine; nobody is told when a process ends, and a directory in use ages like one left
  behind.

What makes each part correct: a run that ends well leaves the cluster as configured;
the provider touches only what the approved plan said; what it made is tracked,
deleted, or reported; retries converge; modules do not disturb each other; the
expansion means the same whatever the order of the walk; what is diffed is what is
applied; a request reaches the object it is for; kadiff hides no change of a line within its limit and invents
none; a module uses its own files, and all of them.

`PROJECT.json` lists the components with what is left out of each, and the hazards
with their lines and the properties that look after them.

## 2. Modules

    KubeCluster <- KubectlDiff <- OrderedClient <- ProfileResource <- ProfileProperties
    (external)     (what a diff   (kubectl calls)  (handlers under      |  INSTANCE
                    shows)                          Terraform)          v
                       |                                            Ownership (abstract)
                       +- Profiles <- MCProfiles
                                   <- ProfilesProofs

    ProfileProperties <- MCProfile (TLC), <- ProfileProofs <- PlanProofs (TLAPS)
    KubeProofs: lemmas on KubeCluster for ProfileProofs and ProfilesProofs

    Manifests <- Bundle <- MCBundle
    (pure)              <- BundleProofs <- FollowProofs

    StructuredDiff <- MCStructuredDiff, <- StructuredDiffProofs
    Workspace      <- MCWorkspace,      <- WorkspaceProofs

Each arrow is EXTENDS.  KubeCluster, OrderedClient and ProfileResource share one cluster
and one call in progress, and split the variables by who owns them; Profiles composes
several resources over the same KubeCluster.

**KubeCluster** (external).  `live` gives each object its contents, abstracted to the
hash of the manifest last applied; `terminating` holds deleted objects that wait for
finalizers; `managed` remembers which objects an apply of the provider has set (an
observation, read by properties only).  A namespace is an object; removing it removes
what lives in it; one that is terminating takes no new objects.  `Drift` is another
user.

**KubectlDiff**.  The text of the entry for an object, `TextOf[old][new]`, is any function of
its old and new contents that gives nothing (`NoText`) for equal contents and something for
an object that is on one side only: `Shows(old, new)` says whether there is an entry.  Two
contents may differ and not show (a change past the columns that getFileLines keeps), and two
changes may read the same (the text is cut off at MaxSize).  That the text is a function of
the contents is assumed; SteadyPlan rests on it.  Everything that the provider learns of the cluster goes
through `Shows` and `TextOf`, and every property that speaks of differences says whether it
means those that show (`InSync`, `PlanIsHonest`, `RetriesConverge`, `AllStand`) or all
(`LeavesNothingStale`, which fails).

**OrderedClient**.  `call` is the Apply or Delete in progress with the ids it has still
to do.  `ApplyOne` takes the ids in order of `Rank` (SortManifests), any order among
equals, and goes on after a refusal; `DeleteOne` takes them in any order (a Go map) and
stops at a failure; `BeginDelete` drops the ids whose kind is not `Discovered`.  Either
request may fail before it has done anything, or after (`Answer`).

**ProfileResource**.  The phases of one Terraform run:

| Phase `pc` | Code that runs next |
|---|---|
| `idle` | `MakePlan`, `PlanFails`: resourceProfileCustomDiff; `PlanDestroy` |
| `planned` | `Approve`: customize-diff again, Terraform's consistency check, then the head of Create or Update; or `Reject`, `FinalPlanFails`, `Refuse` (no host), `Discard`; `Destroy`: resourceProfileDelete |
| `deleting` | `DeleteOne` requests of Update, then `DeleteReturns` |
| `creating`, `deleted` | `ExpandAndApply`, `ExpandFails`; `SkipApply` if Update's diff is empty |
| `applying` | `ApplyOne` requests, then `ApplyReturns` |
| `destroying` | `DeleteOne` requests, then `DestroyReturns` |

`CustomDiff` is the set of results that resourceProfileCustomDiff may return: its three
early branches (no host, unknown parameters, unknown set values), shouldDiff, the
namespaces it makes, the structured diff, the entries for what will be deleted and the
"NO DIFFS FOUND" entry.  There is an entry for each object whose change shows, with the text
that KubectlDiff gives it; that of a new object is only a number of lines (`LinesIn`) unless
`verbose_diffs` is set.  `told` is an observation:
objects that a warning or the error of a run has told the user to look after.  `quiet`
says that nobody else has acted since the last customize-diff.

What is assumed of Terraform and kubectl (marked external in the map):

* the final plan must agree with the approved one on every value that was known, for
  providers built on this SDK too;
* Create with an error saves nothing; Update with an error saves the planned values as
  the handler changed them, without the unknown ones; Delete with an error, or a dead
  provider, keeps the prior state;
* an unknown map reads back through the SDK as empty or as its prior value: the model
  allows both, so no property rests on either;
* kubectl apply goes on past a manifest that fails and reports the failure at its end;
  kubectl diff is a server-side dry run and fails where the apply would be refused.

**Ownership** is the abstract specification of the resource: books (`owned`), what was
made and stays (`made`), what the user was told (`told`), and whether a run is at work.
It knows no bundles, ids or requests; a run settles its books once, at its end, and then
`made` is within `owned` and `told`.  `ProfileProperties` gives the refinement mapping:
`owned` is what the state's manifests name, `made` is `managed` without what terminates,
`busy` is a phase of a handler.  `KeepsBooks` says that every behaviour of
ProfileResource is one of Ownership.

**Profiles**.  Any number of resources under one provider.  What one resource does in all
its ways is ProfileResource's subject; here a plan is cut into the calls it consists of
(`ListNamespaces`, one `MakeNamespace` each, `Plan` or `FinalPlan`), and the calls of the
modules interleave, in the plan and in the apply, where each module goes through
`list`, `make`, `delete` and `apply` on its own.  All values are known and every kind is
discovered; `calm` says that since the run began nothing failed and nobody else acted.

**Manifests** holds the pure parts of `pkg/cluster/kube`.  Text is a sequence of words, in
which `.` and `/` are words: `ManifestId` and `IdComponents` put ids together and cut them
as the code does.  `GetManifests` reads the places of a directory (a file and the number of a
document in it) in the order of the walk, keeps `.yaml` files and skips documents that are
empty or no manifests; `Less` is the comparison of
SortManifests, which is not stable; `ResourceOf` is the map of Delete from kinds to resource
names, in which the last entry of the list wins; `ObjectAsked` and `Refused` are what
kubectl makes of a request (external).

**Bundle** takes a source to the cluster: `StartProvider` or `StartKaexpand`, `ExpandOne` (the
walk of ApplyTemplate over the directory, a template at a time, and its failures), `Expanded`
(GetManifests), `Diff` (made by kubectl from the directory itself).  The provider goes on
with `Update`, `DeleteOne`, `Deleted`, `ApplyOne` in sorted order and `Save`; kaexpand with
`Confirm` or `Refuse`, `ApplyOne` and `Return`.  A file is the texts that went into it and the
documents it is cut into, so that a template that included another too early is told from
one that is right: `Meant` is what one ought to hold, its own text and those of all the files
that it reaches through includes.

**StructuredDiff**.  Files are sequences of lines, lines sequences of tokens, three of
which stand for what getFileLines looks at (`  managedFields:`, a list item of the
metadata, deeper indentation).  `ReadLine` is the body of its loop, `ReadUpTo` the loop, `Hash`
what is compared first (the joined lines; SHA-1 is taken to tell them apart), `EvalDiffs` what
is reported.  DiffKube takes the names in order and one
step each; a file that cannot be scanned ends it with an error.

**Workspace**.  Processes start, sweep, are configured, serve and end; each has a
directory with a modification time, a kubeconfig and one directory per expand (a provider
given `config_path` writes no kubeconfig and has none to lose; it is not modelled).  Modules
of a process interleave at the steps that touch files: copying each file, listing, using
and cleaning.  A directory that is swept in use is made anew by the next expand, without the
kubeconfig, and an expand that is under way in it may fail or go on with less than it had: which
of the two, and with which files, is left open, as no property asks for more of a process that has
lost its kubeconfig.

## 3. Properties and runs

| Property | Says |
|---|---|
| `InSync` | a run that ends well, with nobody else acting, leaves the state as configured, and the cluster too, as far as a diff can show |
| `LeavesNothingStale` | ... and to the letter (violated: `long_line`) |
| `NoSilentOrphan` | what the provider made is in the state, terminating, or the user was told |
| `KeepsBooks` | ProfileResource implements Ownership |
| `NamespacesReady` | each manifest still to be applied finds its namespace or has it before it in the order |
| `DeletesOnlyRemoved` | the deletes of an update leave the objects of the new bundle alone |
| `PlanIsHonest` | while nobody else acts, the provider makes no change that a diff can show, and no delete, but those that the approved plan said |
| `SteadyPlan` | while nobody else acts, Terraform never turns down the final plan |
| `RetriesConverge` | once edits, drift and failures stop, running Terraform again and again makes the cluster as configured for good, as far as a diff can show |
| `NoneFails` | in a calm run no module makes another fail, whoever makes the namespaces they share |
| `SamePlan` | in a calm run no module's final plan is turned down for what the others applied |
| `AllStand` | a calm run that ends well for all modules leaves the bundle of each in the cluster, as far as a diff can show |
| `DiffShowsWhatIsApplied` | the documents that kubectl diff read are those that kubectl apply came to |
| `NeededFirst` | no manifest is applied before one that it needs |
| `DeletesReachTheirObject` | a served request to delete is for the object of the manifest whose id was removed |
| `ClusterFollowsSource` | after a provider run that went well each object is what its templates mean, and what left the source is gone |
| `NoSpuriousDiff`, `LineChangeReported`, `CompleteOrFailed` | kadiff reports no managed fields, misses no change of one visible line, returns no partial result |
| `OwnFilesOnly`, `KubeconfigKept` | modules use their own files and all of them, and a serving process keeps its kubeconfig, until a process starts more than the threshold after it was configured |
| `OnlyJunkIsSwept` | ... and for as long as it serves (violated: `long_run`) |
| `JunkIsSwept` | old directories go |

Passing runs:

| Run | Instance and bounds | Shows |
|---|---|---|
| `default` | two manifests of different rank, one in a namespace; five configurations (both manifests, other contents, contents that differ where no diff looks, either one alone); default options; 1 drift, 2 failures, 2 edits; 630 thousand states | the six safety properties and the refinement of Ownership |
| `unknowns` | `allow_deletes` and `auto_create_namespaces` off, terse diffs; unknown host, parameters and set values; 2 drifts, 1 failure, 2 edits; 715 thousand states | placeholders never reach the cluster, no plan is broken silently, nothing is deleted and the user hears of what stays |
| `liveness` | two versions of the source, four of the configurations; 1 drift, 1 failure, 2 edits; 385 thousand states | convergence |
| `profiles` | two modules, each with an object in one namespace, one with a cluster-scoped object that its next configuration drops; one whose contents change where no diff looks; 1 drift, 1 failure, 1 edit; 217 thousand states | modules do not disturb each other |
| `bundle` | six sources: templates that include forwards, backwards, under old and new names; documents that are no manifests; dots in groups and names; a version bump; a kind not listed.  Three runs of the provider or kaexpand in any mix; 147 thousand states | the way from source to cluster |
| `structured_diff` | two names, twelve files each or none; lines at, above and far above the limits | the diff properties |
| `workspace` | two processes, two modules, two stamps, three instants, 1 failure; 1.2 million states | the file properties |

Why the bounds are enough to be interesting: two manifests are the least for an apply
that is half done, for an order, and for one to be removed while the other stays.  Two
edits allow a change and its withdrawal while a failed run lies between, two failures let
the repair fail as well, one drift may fall between any two steps.  In `profiles` both modules find the
shared namespace missing in one run and race to make it; the edit makes one module delete while the
other applies.  In `bundle` the second run updates what the first made, and the third may find a used
directory or a state with removed ids.  In `structured_diff`
the limits are 3 and 5 tokens so that lines of 1, 3, 4 and 6 tokens are on each side of
both.  In `workspace` the threshold is one tick, so a directory may be fresh, at the
threshold, or beyond, and a process may be outlived.  (A fourth instant, with 5.3 million states,
shows nothing else.)  `Workspace` stops when processes have ended, `StructuredDiff`
when it returns and `Bundle` after `MaxRuns` runs: only these switch the deadlock check off.

The `workspace` run makes one assumption that the code does not enforce, as a constant:
`UniqueStamps` (no two expands of a process at one value of UnixNano).  Without it
`OwnFilesOnly` fails.  That a process may serve for longer than an hour is not assumed away:
`Outlived` is the exception in the two properties, and `long_run` shows that it is needed.

Fairness (`liveness` only): a user or CI job keeps running Terraform and approves its
plans, handlers and requests go on, finalizers end.  Nothing is assumed of failures, drift
and edits, which are bounded, so that they stop.  Weak fairness is enough: no two of the
fair actions disable one another for ever.  `Crash`, `Discard`, `Drift` and `SourceMoves`
have none.

Violations, each a disagreement between the code and what it says of itself (quotations
in `PROJECT.json`):

* `set_unknown`: with unknown set values `resources` is planned as unknown, in order to
  avoid an inconsistent final plan, but `diff` is not.
* `long_line`: an edit past column 256 of a line, then an update that fails before its
  apply.  The planned resources are saved, kadiff takes the old and the new object for equal, and
  this run and every later one ends well with the old object in the cluster.
* `long_run`: the sweep takes the directory of a process that has served for longer than an
  hour for junk, its kubeconfig with it.
* `moved`: a manifest moves from one module to another; the first deletes the object after
  the second has applied it, in a run without failures.
* `subresource`: discovery lists `deployments/status` behind `deployments` with the same
  kind, Delete looks the kind up as the last of them, and kubectl refuses the request.  That
  discovery lists subresources this way, and that kubectl refuses a name with a slash beside
  another argument, are facts about Kubernetes that the model takes as given
  (`MCApiResources`, `Refused`).

Two more disagreements have no run: with `force_diffs` off (`ForceDiffs = FALSE`) a failed apply is
never tried again, since the diff hangs on resources that the failed run has saved, and `InSync`
fails; the mutant of `InSync` in `default` is this option.  And where two ids name one object (a
new api version of a manifest) the update deletes the object it is about to apply, and
`DeletesOnlyRemoved` fails.

## 4. Proofs

Every theorem is for all values of the constants that the modules' assumptions admit:
any number of ids, objects, modules, processes, files and options.  `KubeProofs` has the
lemmas on requests that two of the proof modules share.

**ProfileProofs**

* `TypeCorrect`: `Spec => []TypeOK`.  Inductive invariant `TypeInv`: the types, and that
  outside `idle` there is a plan (without it a handler could carry out `NoPlan`).
* `NoOrphanIsSilent`: `Spec => []NoSilentOrphan`, if every kind is discovered
  (`AllDiscovered`: the ids that Delete skips are forgotten without a word) and the source
  does not move (`OneVersion`: Update does not save what it applied, so a source that moves
  after the final plan leaves objects the state does not list).  Invariant `OrphanInv`: at
  each phase, the objects that stay are covered by `told`, by the state, or by what the
  handler has still to delete or has in hand to save.
* `ProfileKeepsBooks`: `Spec => KeepsBooks` under the same two assumptions: the initial
  state maps to one of Ownership, and every step to `Work`, `Make`, `Lose`, `Settle` or a
  stutter.  That `Settle` leaves the books kept is where `OrphanInv` comes in.

**PlanProofs**, on top of it: what a run of Terraform promises.  Its invariant `RunInv` says how
the plan, the phase and the call hang together: the plan is that of the configuration, the
bundle in hand is one that the source rendered, the one it renders still while nobody else
acts, and a call has no more to do than its phase says.  Each theorem adds what its property
needs:

* `GoodRunsLeaveAllInSync`: `Spec => []InSync`, if `force_diffs` is set, `no_diff` is not, and
  no bundle names an object twice (`OneIdPerBundle`), whatever diffs do not show.  `SyncInv`: an
  empty diff means that the cluster holds the bundle as far as a diff can show, an apply has set what it is done with, and the diff that a failed
  run leaves in the state is one that no plan without changes can have.  The last is why a
  failed apply is tried again, and what `force_diffs` is needed for.
* `StaleOnlyWhereDiffsAreBlind`: `Spec => []LeavesNothingStale`, under the same assumptions and if
  every difference shows.  The run `long_line` shows what happens otherwise.
* `PlansAreHonest`: `Spec => PlanIsHonest`, if no two ids name one object (`OneIdPerObject`), no
  manifest is that of a namespace in which objects live (`NamespacesApart`) and `no_diff` is not
  set.  `HonestInv`: whatever is still to be applied would change nothing that shows or has its
  entry, with the text that its change gives, in the approved plan, and so has whatever is to be deleted.
  Removing a namespace takes along what the plan does not name, hence `NamespacesApart`.
* `PlansAreSteady`: `Spec => SteadyPlan`, if all values are known (`AllKnown`; the run `set_unknown`
  shows what happens otherwise).  `SteadyInv`: while nobody else acts the plan that waits
  is the one that customize-diff would make again, although the first has made namespaces.
* `AppliesFindTheirNamespaces`: `Spec => []NamespacesReady`, if no two ids name one object, a bundle
  with a manifest in a namespace does not lack that namespace's manifest if there is one
  (`KeepsNamespaces`), and `no_diff` is not set (with it no plan makes namespaces).
  `ReadyInv`: when nobody else has acted, the API server accepts all that is to be applied.
  A diff could not have been made otherwise.
* `UpdateDeletesOnlyRemoved`: `Spec => DeletesOnlyRemoved` under `OneIdPerObject` and `KeepsNamespaces`.
  Both are needed: a new api version makes two ids of one object, and a namespace's removal takes
  what lives in it.  What is still to be deleted is disjoint from the planned bundle, which
  getResourceChanges establishes and each request preserves.

**ProfilesProofs**: `TypeCorrect`; and under `Apart` (in no two configurations do bundles of
different modules name one object), `NoNamespaceManifests` and `OneIdPerObject`:
`CalmRunsDoNotFail` (`NoneFails`), `CalmPlansStand` (`SamePlan`), `ModulesStandTogether`
(`AllStand`).  All three rest on one invariant, `RunInv`, which says of every module of a
calm run that the namespaces of its bundle stay once they are there, that what its plan
showed still holds of the cluster, and that what it has applied stands.  The run `moved` shows
that `Apart` is needed.

**BundleProofs** starts from the operators of `Manifests`: an enumeration of a finite set in an
order has each member once and in order (`InOrderLists`), the places of a directory are ordered
by the walk (`PlacesAreOrdered`), and so GetManifests returns each manifest of the `.yaml` files
once and nothing else (`ManifestsAreRead`).  Then:

* `IdsReadBack`: an id of a well-formed document is cut into the parts it was made of, dots in
  group and name included.
* `RequestsReachTheirObject`: a request that is not refused is for the object of the manifest, if
  a resource name and the document's kind each belong to one group (`OneResource`, `OneGroup`).
  Where two groups list a kind of one name, the lookup of Delete can mean the other one.
* `BundleTypes`: `Spec => []TypeOK`, for all sources.  Inductive invariant `BundleInv`: the queue of
  the walk has exactly the templates that are left, the manifests are those of the expanded
  directory, the diff is made of what kubectl finds there, every saved manifest is one of some
  source under its own id, and what is applied and what is left make up the manifests.
* `DiffsShowWhatIsApplied`: `Spec => []DiffShowsWhatIsApplied`, if no `.yml` or `.json` file of a source
  has a manifest (`KubectlReadsNoMore`): kubectl diff reads these files and GetManifests does not.
* `DeletesReach`: `Spec => []DeletesReachTheirObject`, if the documents of the sources are well
  formed and of one group (`SourcesAreWellFormed`), and `OneResource`.
* `NeedsComeFirst`: `Spec => []NeededFirst`, if `KindOrder` puts the kind of what is needed first.

**FollowProofs**: `SourceIsFollowed` (`Spec => ClusterFollowsSource`), from the source to the cluster,
under the assumptions of `DeletesReach` and if no source has two manifests of one object
(`OneManifestPerObject`; the last one applied would stand, and the sort is not stable).
`FollowInv` has four parts.  `HoldsInv`: each file of the directory is one of the source as it was
fetched, or what a template is meant to become, and none is lost; that an include finds the right
text before and after its target was expanded is `HoldsExpandOne`, with `Meant` as the least set
that is closed under includes.  `ListedInv`: the cluster has kinds that discovery lists, so that
no delete passes over them.  `GoneInv`: what is in the state, and neither to be deleted nor in the
new bundle, has no object.  `StandsInv`: what was applied stands.

**StructuredDiffProofs**, for any number of files of any length, whatever tokens they are made of:

* `DiffsAreNotSpurious`: `Spec => []NoSpuriousDiff`.  The heart is `LoopKeepsOwn`: by induction over
  the lines, the loop is inside the managed fields exactly at a line of theirs, and has kept each
  other line, trimmed, at its place.
* `LineChangesAreReported`: `Spec => []LineChangeReported`.  `JoinedApart`: texts that differ in one
  line differ when joined, whatever the lengths of the two lines.
* `ComparesAllOrFails`: `Spec => []CompleteOrFailed`, without assumptions.  `ComparedInv`: what lies behind the
  comparison was read in full and has its results.

**WorkspaceProofs**: `TypeCorrect`; `SweepIsThorough` (`JunkIsSwept`) and `KubeconfigStays`
(`KubeconfigKept`), without assumptions; `FilesAreOwn` (`OwnFilesOnly`) if `UniqueStamps`.
`SweepInv` relates the times: a sweep started in the past, and the directory of a process that
serves is no older than its configuration, so that no sweep can take it for junk unless it started
more than the threshold later; and then the process is outlived, and stays so (`OutlivedStays`).
`OwnInv` adds that stamps in use are drawn and differ, and that the files under a stamp are the
source without what is still to be copied, until the process is outlived.

Every invariant and every action property of the passing runs, and the refinement of `Ownership`,
is stated by one of these theorems; the runs show them, and TLC has checked the inductive
invariants, on small instances.  Only model-checked: `RetriesConverge`, which needs fairness.

Two forms serve the proofs.  Recursion is over numbers (`ReadUpTo`, `JoinedUpTo`); that
the functions so defined exist is proved in `RecursionIsThere`, by counting up, since the
library's induction theorems cannot be instantiated.  Orders (`Listing`, `GetManifests`, `Own`) count
the members that come before one, instead of sorting, and functions are joined by `Over` and
`Put`, which the provers see through.

## 5. What is not modelled

* `util/cmd.go`'s streamed output: nothing asks for it; the provider and kaexpand both take
  the way of `runKubectlOutput`.  A git clone is a command that succeeds or fails.
* `cluster/sort.go`, `cluster/apply`, the tables and the wording of diffs: display; a plan keeps its
  results in a map.
* What text/template renders: a text stands for itself.  Included directories of
  `configMapEntries` are not listed.
* Two documents with one id in one source, and two files that expand to one name: which wins
  depends on an unstable sort or on names, and neither is right.  The sources of the runs have none
  of the first, and `SourceAssumption` excludes the second.
* Manifests in files ending in `.yml` or `.json`: kubectl diff would show them and nothing applies
  them.  The model has the rule for each; the sources of the run have such files without manifests.
* In `Bundle`: failing requests, other users, namespaces made by a plan and the second expand before an
  apply, which are in `ProfileResource`.  In `Profiles`: unknown values and options, likewise.
* List kinds without metadata (`manifests.go:141`): the program crashes on the first.
* The short-lived directories of one kubectl or git call: their names are random.
* The provider's schema and the test doubles.

Next: the theorems on concurrent modules for bundles that hold the namespaces they live in
(`KeepsNamespaces` for `NoNamespaceManifests`), and `NoOrphanIsSilent` where the source moves only
while no run is at work.

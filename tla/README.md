# Verification of the pipeline-trigger-operator

TLA+ models, TLC runs and TLAPS proofs of the operator's core: the reconciler
that turns new revisions of a Flux GitRepository, a Flux ImagePolicy or a forge
PullRequest into Tekton PipelineRuns, and keeps the status of the
PipelineTrigger that asked for them.

Source paths below are relative to the repository root.

## 1. Inventory

| Part | Where | State it keeps | Operations |
|---|---|---|---|
| Reconciler | `internal/controller/pipelinetrigger_controller.go` | none of its own: the queue, the informer caches, the locals of one `Reconcile` | `Reconcile`, `validateReferences`, the three watch handlers |
| Run starter | `pkg/source/start_runs.go` | the prepared runs, the status before the advance | `StartPipelineRuns`, `slotEligibleForCreate`, `retryAfterSpecEdit`, `isPermanentCreateError`, `createFailedCondition`, `findExistingRun` |
| Run views | `pkg/source/pipelinerun_cache.go`, `pkg/source/start_runs.go` | the informer cache of runs, the list of one reconcile | `ListPipelineRuns`, `findLiveRun`, the cache transform |
| GitRepository subscriber | `pkg/source/gitrepository_provider.go` | `status.gitRepository` (one slot) | `CalculateCurrentState`, `GetLatestEvent`, `CreatePipelineRunResource`, `SetCurrentPipelineRunName`, `SettleFailedRun`, `SetCurrentPipelineRunStatus`, `ManageError` |
| ImagePolicy subscriber | `pkg/source/imagepolicy_provider.go` | `status.imagePolicy` (one slot) | the same |
| PullRequest subscriber | `pkg/source/pullrequest_provider.go` | `status.branches` (one slot per open branch) | the same |
| Status slots | `api/v1alpha1/*_types.go` | revision, name of the latest run, `Details`, conditions keyed by type | `AddOrReplaceCondition`, `GetLastCondition`, `Equals`, `GenerateDetails` |
| Source labels | `api/v1alpha1/labels.go`, `*_types.go` | none | `SanitizeLabelValue`, `GenerateNamePrefix` and the label builders of the three kinds |
| Template and parameters | `api/v1alpha1/pipelinetrigger_types.go` | the objects of one reconcile | `CreatePipelineRunResource`, `CreatePipelineRunResourceForBranch`, `createParams`, `StartPipelineRun` |
| Watches and predicates | `pkg/predicate`, `SetupWithManager` | the informers' old and new object | which updates queue which triggers |
| Second cluster | `cmd/main.go`, `controller:207-218`, the `CalculateCurrentState` of each subscriber | a second client | "is it running over there?" |
| Managed credentials | `pkg/credentials/types.go`, `pipelinetrigger_types.go:461-524` | a credential of another controller | `GetManagedCredential`, `ApplyManagedCredentialToPipelineRun` |
| Metrics, manager start-up, generated code | `pkg/`, `cmd/main.go`, `config/`, `charts/` | configuration | see `PROJECT.json` |

### How the parts interact

`Reconcile` is one long sequence of reads and writes with no transaction around
it: read the trigger (informer), check references (API server), list runs
(informer), ask the subscriber whether a run for the source is there already,
advance the status to the latest event of the source, prepare a run for every
slot that is eligible, and then for each prepared run: adopt one that is listed,
else adopt one the API server knows, else create one; settle the slot if any of
this fails; patch the status; record the results of the named runs; patch the
status again. Any error before the starts goes through `ManageError`, which
patches an `Error` onto the slots and requeues.

Between any two of these calls the source may move, a user may edit the spec,
Tekton may move a run, a pruner may delete one, an informer may or may not catch
up, a call may fail (or, for a create, fail *and* land), and the manager may
restart.

### What makes it hard

- Two informers that lag independently: the run of the last reconcile and the
  status that names it may each be missing.
- The status is advanced *before* the create, so the create that fails has to
  roll back exactly its own slot.
- Permanent and transient failures are settled differently, and a rejected slot
  is woken up by an edit of the spec only.
- A poll of the forge that failed looks like a PullRequest without branches.
- Nothing resynchronises: an event that a predicate filters is gone.
- Two status patches of one object, the second with the resource version of the
  first.
- All runs of a reconcile start as one template, and a create writes into the
  object it is given.
- Labels are the identity of a run, and are made of strings other people choose.
- Two managers that may not share anything ask each other what is running, and
  count a failed question as "no".

Every one of these is a line of `hazards` in `PROJECT.json`, with the property
that would catch it.

### What makes each part correct

| Part | Properties |
|---|---|
| Run starter, run views | never two runs for one revision of one trigger (`AtMostOneRun`); a revision whose run was pruned is not built again (`BuiltOnce`); one step touches one slot (`OneSlotPerStep`) |
| Subscribers, slots | no slot looks started without a run or an Error (`NoStrandedSlot`); a slot names a run of its own revision (`NamedRunIsOfRevision`); branches do not share a run (`RunOfOneBranch`); the result is shown (`ResultShown`); nothing is started without an artifact (`NoRunWithoutArtifact`) |
| Reconciler, watches | every revision the source rests on is built or reported (`EveryRevisionHandled`), or at least answered by an Error (`EveryRevisionAnswered`); a rejection overtaken by an edit is tried again (`RetriedAfterEdit`); creates are not replayed for ever (`NoCreateStorm`); triggers wait only for their own runs (`SuppressedByOwnRun`); a resolver reference is harmless (`ResolverTolerated`); what a status says is true of the runs, and every build is the only one in force (`ImplementsLedger`) |
| Source labels | no run is refused for its labels or name (`RunsAccepted`); different branches stay different (`RunOfOneBranch`) |
| Template, credentials | each run carries its own params and labels (`RunsAreOwn`) and one credential, once (`CredentialWhole`); no object is sent twice (`SentClean`); a fixed name delays but loses nobody (`EveryBranchBuilt`) |
| Second cluster | no revision is left to the other by both (`NothingSlips`, `BuiltSomewhere`); who learns of a revision later yields (`LateClusterYields`) |

## 2. The modules

```
Slots ── PipelineRuns ──┬── SingleSlotSource ───┐                              BuildLedger (abstract)
                        └── PullRequestSource ──┴── SourceSubscriber                │ INSTANCE
                                                          │                         │
                                                          └────────────────── Reconciler ── MCReconciler
                                                                                    │
                                              SourceLabels ────────────────── LabelledRuns ── MCLabelledRuns

RunTemplate ── MCRunTemplate              DualCluster ── MCDualCluster

Proofs: SubscriberProofs ── ReconcilerProofs ── LedgerProofs ── StepProofs ──┐
                                                         LabelProofs ── LabelledProofs
        TemplateProofs     DualProofs
```

| Module | Models | Correspondence |
|---|---|---|
| `Slots` | the three status structures as one `Slot`; conditions; eligibility | `AddOrReplaceCondition` replaces by type as the Go map does; `last` is what `GetLastCondition` finds; `details` says whether `Details` is non-empty, which is all the code asks of it; `LabelsOf` stands for the label builders |
| `PipelineRuns` | runs, their phases, the ways to look for one | `runs[i]` is what never changes (owner, labels, pipeline); a *view* is a map from run to phase: `phase` is the API server, `cachedPhase` the informer, `list` what one reconcile listed |
| `SingleSlotSource` | GitRepository and ImagePolicy subscribers | one operator per method, from a status to a status; the two kinds differ where `Kind` is tested |
| `PullRequestSource` | PullRequest subscriber | the same, on a function from open branches to slots |
| `SourceSubscriber` | the `SourceSubscriber` interface and the source predicates | dispatch on the kind; `SourceEventPasses` |
| `Reconciler` | `Reconcile`, `StartPipelineRuns`, informers, queue, users, Tekton, crashes | one action per stretch between two API calls, see below |
| `BuildLedger` | what the operator promises, without caches, queue, retries or crashes | builds ever started; per trigger a claim for each reference, written only when it is true |
| `SourceLabels` | `labels.go` and the label builders | strings are sequences of code points: the rules are about characters, cuts and ends; the hash is a constant function |
| `LabelledRuns` | the reconciler over those labels | `LabelsOf` must be what `SourceLabels` makes of references and revisions that are strings |
| `RunTemplate` | the run objects of one reconcile, the managed credential | `memory` maps a place (the template, or the object of a key) to what is in it, so that aliasing is visible |
| `DualCluster` | two managers, each with a source object and an API server | one action per stretch between two calls; the other cluster is read whole, by its API server |
| `MCReconciler`, `MCLabelledRuns`, `MCRunTemplate`, `MCDualCluster` | instances | constants only |
| the `Proofs` modules | lemmas on the operators; theorems of the specifications | section 5 |

### Control points of `Reconcile`

| `pc` | Actions | Code |
|---|---|---|
| `idle` | `StartChecked`, `StartRefused`, `StartUnsupported`, `StartBlind` | `Get`, `IsValid`, `validateReferences`, template group, `ListPipelineRuns` |
| `state` | `CalculateState`, `PanicInState` | `CalculateCurrentState`; an error of it is logged and counts as "not running"; a panic is recovered and requeued |
| `event` | `Advance`, `AdvanceFails` | `statusBeforeAdvance`, `GetLatestEvent`, `CreatePipelineRunResource` |
| `start` | `Adopt`, `NoneFound`, `LookupFails`, `PatchAdvance` | loop of `StartPipelineRuns`, first status patch |
| `create` | `Created`, `CreateRejected`, `CreateFails` | `Create` and the switch on its error |
| `finish` | `Finish` | `SetCurrentPipelineRunStatus`, second status patch, result |

The prepared runs come out of a Go map: `prs` is a set and they are settled in
any order. `NoneFound` and `Created` are separate so that others move between
the live lookup and the create. `Finish` conflicts when the generation moved
since the first patch: the object of that patch is reused.

The worker's variables are locals of the Go function. `Return` clears them, a
`Crash` loses them.

The environment is `DeliverRuns`, `DeliverSource`, `DeliverTrigger` (informers
with their predicates), `SourceChanges`, `EditSpec`, `TektonStarts`,
`TektonFinishes`, `RunPruned` and `Crash`. `PROJECT.json` maps every definition
to its lines.

### The ledger

`Reconciler` ends with a refinement mapping: a build is a run without its
pipeline, `open` until Tekton ends it, `over` until it is pruned, then `gone`;
the claim of a slot is its revision, the run it names, whether the slot is still
due (it has no condition) and whether it is excused (it has an Error). A create
is a `Start`, which is allowed only while the trigger has no build of these
labels in force; each status patch, the merge patch of `ManageError` included, is
a `Report`, which is allowed only if everything it says is true: a build that is
named exists, is the trigger's own and is of the revision. Caches, queue and
worker are not seen.

### Abstractions

- A reference (repository, image, branch) is a key; a commit or a version is a
  revision; the set of a run's source labels is one value `LabelsOf(key,
  revision)`.
- A parameter is static, dynamic (needs `Details`), broken (names a field no
  source has) or an array: a value that is not a string, which the single-slot
  subscribers note and refuse and the PullRequest subscriber ignores.
- A spec is its pipeline reference, its params, how the checks end and the labels
  whose runs the API server refuses for good.
- An apply patch of the status, by the only writer of it, replaces the status.
- Backoff is not timed: a requeued trigger may run at once or much later.
- Informers may skip from one state to a much later one. For runs this is a
  coalesced burst of updates, each of which passes or does not pass the predicate
  in the code; `OwnersOfChangedRuns` queues the owner when any of them would.
- The informers of sources and triggers compare the last delivered object with
  the current one.
- `DualCluster` builds on `AtMostOneRun`: the runs of a trigger on one cluster are
  a map from labels to phases. There is one trigger per cluster, it is not
  edited and its status is read fresh. The list of runs on the own cluster is any
  subset of those that carry the `tekton.dev/pipeline` label, as the cache lags;
  the list from the other cluster is exact. `late` and `calm` are history
  variables that no guard reads. Other owners' runs, which the count in
  `CalculateCurrentState` would take for the trigger's own, are finding 2.
- `RunTemplate` has no crash and no edit of the template, which `Reconciler` has;
  the status is the set of keys whose slot names a run; static params, which are
  the same in every run, are left out. A branch that is rejected for good is left
  out too.

## 3. The runs

The runs of the reconciler use one namespace and one source object. `Lagging`
says which caches may be stale; both, unless said otherwise. `CHECK_DEADLOCK
FALSE` is needed because the budgets of faults, edits and source changes run out
and a system whose revisions are all built really rests.

| Run | Instance | Checks | Shows |
|---|---|---|---|
| `git` | GitRepository, revisions r1, r2 and none; static, dynamic, broken, array and refused specs; 1 fault (`create`, `landed`, `patch`), 1 source change, 2 runs; fair | `TypeOK`, `AtMostOneRun`, `NoStrandedSlot`, `NamedRunIsOfRevision`, `ImplementsLedger`, `EveryRevisionHandled`, `NoCreateStorm` | the create protocol over stale caches: safe, and it ends |
| `image` | ImagePolicy, r1, two triggers on one source with pipelines p and q; 1 fault (`state`, `landed`), 1 crash | `AtMostOneRun`, `NamedRunIsOfRevision`, `SuppressedByOwnRun`, `ImplementsLedger` | triggers with pipelines of their own do not disturb each other, nor does a crash |
| `pull` | `LabelledRuns`: branches `_fix/a-` and `_fix/a_`, 1 commit, one branch may be refused; labels of 8 characters with a hash of 3; 1 fault (`create`, `landed`), 1 source change; fair | `AtMostOneRun`, `NoStrandedSlot`, `RunOfOneBranch`, `RunsAccepted`, `OneSlotPerStep`, `EveryRevisionHandled`, `ResultShown`, `NoCreateStorm` | failures stay on their branch, awkward names are no obstacle, a stale copy of the trigger hides no result for good |
| `pull_faults` | 1 branch, r1, r2, templates that name a resolver, with broken or dynamic params, or with dynamic ones and refused, 1 edit, 1 source change, runs that never resolve; 1 fault, in every call but `create`; fair | `NoStrandedSlot`, `NamedRunIsOfRevision`, `ImplementsLedger`, `EveryRevisionAnswered` | `ManageError` and its patch, retries whose `Details` are gone, patches that are lost or conflict: a commit may go without a run, but not without an Error |
| `pull_result` | 1 branch, r1, specs good, rejected, missing pipeline, unsupported, 1 edit, 3 source changes, pruning; trigger cache up to date; 1 fault (`create`, `list`, `live`); fair | `BuiltOnce`, `ResultShown`, `EveryRevisionHandled`, `RetriedAfterEdit`, `NoCreateStorm` | empty polls, pruned runs, edits and results |
| `dual` | two clusters, two branches of which a GitRepository holds one and a PullRequest one or both, one cluster refuses one of them; 1 fault or restart, 1 move of the forge; fair | `TypeOK`, `NothingSlips`, `LateClusterYields`, `BuiltSomewhere` | the question asked of the other cluster loses nothing |
| `template` | three branches, a template with a fixed name, a prefix or neither, perhaps copied from a run of one of the branches; a credential that is absent, not ready or ready; 1 fault; fair | `TypeOK`, `RunsAreOwn`, `SentClean`, `CredentialWhole`, `EveryBranchBuilt` | runs that are built from one template are independent |
| `failed_retry` | GitRepository, rejected spec, 1 edit, 1 transient create failure; fair | `RetriedAfterEdit` violated | finding 1 |
| `shared_pipeline` | GitRepository, two triggers with one pipeline | `SuppressedByOwnRun` violated | finding 2 |
| `resolver_reference` | PullRequest, a resolver reference | `ResolverTolerated` violated | finding 3 |
| `lost_artifact` | GitRepository that loses its artifact | `NoRunWithoutArtifact` violated | finding 4 |
| `label_collision` | `LabelledRuns`: branches `f/b` and `f-b` at one commit | `RunOfOneBranch` violated | finding 5 |

### Why the bounds are enough

Every hazard needs few actors. A duplicate needs two runs of one revision; a
stranded slot needs one failed create; a run on the wrong commit needs two
revisions; a branch that harms another needs two branches; a lost retry needs
one edit and one failure; a branch that both clusters leave to each other needs
two branches, one of them there already; objects that alias need two branches,
and a third shows that the second does not repair the first. One fault in each
run is enough to reach every failure path, and since the fault is drawn at any
call, the runs cover each path from each state; a crash and a fault together
(`image`) cover a failure of the recovery. Every invariant of a passing run, and the
refinement, is proved for all values of the bounds, some under stated hypotheses
(section 5). Two runs
(`MaxRuns = 2`) allow for the duplicate that must not be and for a run of each of
two revisions. Labels of 8 characters with a hash of 3 are the code's 63 and 8 in
small: the names of `pull` are longer than what is left for them, end badly where
they are cut and are spelled alike.

### Fairness

`FairSpec` assumes

- strong fairness of `StartReconcile(t)`: controller-runtime's work queue is
  first in, first out per trigger and one worker serves it; a trigger that is
  queued again and again is dequeued again and again whenever the worker is free;
- weak fairness of `ContinueReconcile`: an API call returns, with or without an
  error; a reconcile does not block;
- weak fairness of each informer: a watch delivers, or is re-listed;
- weak fairness of Tekton for each run: a run that was created is started and
  ends.

Users, the forge, pruners and crashes owe nothing, and nothing is assumed of
failures except that their number is bounded: `EveryRevisionHandled` is about
the time after the last failure, and says `<>[]` of the revision the source
rests on.

`DualCluster!FairSpec` assumes of each cluster that its worker is served and goes
on, that its source is polled and that Tekton takes the runs it is given.
`RunTemplate!FairSpec` assumes that the worker is served and goes on, and that a
run is deleted in the end, which is up to whoever prunes runs: without a pruner, a
fixed name means one run for ever. Forge, credential and faults owe nothing.

`EveryRevisionAnswered` is weaker than `EveryRevisionHandled` in one respect: an
Error is enough even where the template is sound, as the code does not retry
every failure. It is what remains true when a reconcile error replaces a
rejection or a retry finds `Details` empty, which `EveryRevisionHandled` is not
checked with. A template that names a resolver is excepted (finding 3).

`ResultShown` is checked with an up-to-date trigger cache, edits and pruning in
`pull_result`, and with a stale one in `pull`. Both are PullRequests, and neither
records a reconcile error before a result. With a stale trigger cache it is
violated for a GitRepository; see section 4.

## 4. Findings

1. **A retry that fails transiently is lost** (`failed_retry`).
   `SettleFailedRun` (`pkg/source/gitrepository_provider.go:250`,
   `imagepolicy_provider.go:227`) restores the slot of before and replaces its
   Error by a generic one. If that Error was the rejection that made the slot
   eligible, it is not eligible any more.
2. **Two triggers on one source and one pipeline suppress each other**
   (`shared_pipeline`). `CalculateCurrentState` does not look at the owner
   (`gitrepository_provider.go:102`, `imagepolicy_provider.go:94`).
3. **A resolver reference panics** (`resolver_reference`) in the PullRequest and
   ImagePolicy subscribers (`pullrequest_provider.go:114`,
   `imagepolicy_provider.go:93`): `pipelineRef.name` is converted unchecked.
4. **A lost artifact starts a run** (`lost_artifact`): `Details` of an empty
   artifact is the JSON of an empty object, not the empty string
   (`gitrepository_provider.go:222`).
5. **A slash and a dash make one branch** (`label_collision`).
   `rewriteBranchName` (`api/v1alpha1/branch_types.go:77`) replaces the slashes
   before `SanitizeLabelValue` looks, so that the hash which should keep modified
   names apart is not added: `f/b` and `f-b` at one commit share one run.

Met while modelling, described by the hazards and without a run of their own:

- `ManageError` between a rejection and the edit of the spec replaces the
  rejection (`gitrepository_provider.go:353`); the edit is then not answered by a
  create, and the Error stays.
- The `Details` of a branch are emptied after its run was prepared, so the retry
  of a rejected branch with dynamic params cannot fill them in
  (`pullrequest_provider.go:288`). `RetriedAfterEdit` is therefore checked with
  static params and without reconcile errors (`pull_result`), and
  `EveryRevisionAnswered` with both (`pull_faults`).
- A GitRepository trigger whose cache lags writes a status without the name of
  the run over the one that has it: `CalculateCurrentState` says that the run is
  there, so it is neither adopted nor named again, and its result is never shown
  (`controller:277`, `controller:289`). A PullRequest adopts it.
- When a create was rejected for good and both status patches fail, nothing is
  recorded and nothing queues the trigger (`controller:281`). One failed patch is
  made good by the other, which `pull_faults` checks.
- Both clusters build a revision that reaches them at the same time: each asks
  before the other has created its run. `cmd/main.go:74` says that the second
  cluster "will ensure there is only one pipelinerun in a 2 cluster setup";
  `LateClusterYields` is what the code does ensure. A source that moves between
  the question and `GetLatestEvent` (`gitrepository_provider.go:141`) has the same
  effect.
- A credential that cannot be read costs a run its service account and secret, for
  which it is never made again (`controller:242`).
- The repository of an image is not among its labels
  (`api/v1alpha1/imagepolicy_types.go:43`), though `Equals` compares it.
- `isStateIdentical` compares the status of the last condition only: a failed
  run after a reconcile error looks identical and its result is dropped
  (`pullrequest_provider.go:377`).
- Params that cannot be unmarshalled are refused by the single-slot subscribers and
  ignored by the PullRequest subscriber (`pullrequest_provider.go:318`).

## 5. Proofs

| Theorem | States | Inductive invariant |
|---|---|---|
| `TypeCorrect` | `Spec => []TypeOK` | `TypeOK` and the typing lemmas of `SubscriberProofs`, one per operator and kind |
| `OneRunPerRevision` | `Spec => []AtMostOneRun` | `OneRunInv` |
| `NoSlotStranded` | `Spec => []NoStrandedSlot` | `StrandInv` |
| `RunOfTheRevision` | `Spec => []NamedRunIsOfRevision` | `NamingInv` |
| `RunOfItsBranch` | `[]RunOfOneBranch`, if labels tell references and revisions apart | from `RunOfTheRevision` |
| `LedgerImplemented` | `Spec => ImplementsLedger` | the three above, together |
| `PromisesKept` | `[](Ledger!OneInForce /\ Ledger!AllTruthful)` | `LedgerInv` of the abstract ledger, through the refinement |
| `OneSlotAtATime` | `Spec => OneSlotPerStep`, if labels tell references apart | `PreparedForKey` |
| `WaitsForOwnRun` | `Spec => SuppressedByOwnRun`, if pipelines are not shared | `SpecInv`, `NamingInv` |
| `BuiltOnceUnpruned` | `Spec => []BuiltOnce`, without a pruner | `OneRunInv`: nothing is ever gone |
| `BuiltOncePruned` | `[]BuiltOnce` with a pruner, under the conditions below | `HistInv`, `OnceInv` |
| `SanitizedIsValid`, `SanitizedStaysDistinct`, `PrefixIsValid` | what `SourceLabels` makes of any string | none: lemmas on strings |
| `RunsAreAccepted` | `Spec => []RunsAccepted` in `LabelledRuns` | `PreparedForSlot` of `NamingInv` |
| `BranchesKeptApart` | `[]RunOfOneBranch` and `OneSlotPerStep` in `LabelledRuns`, as far as hashes differ | from `RunOfItsBranch` and `OneSlotAtATime` |
| `DualTypeCorrect` | `Spec => []TypeOK` in `DualCluster` | `TypeOK` |
| `NoRevisionSlips` | `Spec => []NothingSlips` | `SlipInv` |
| `LateYields` | `Spec => []LateClusterYields` | `LateInv` |
| `TemplateTypeCorrect` | `Spec => []TypeOK` in `RunTemplate` | `TemplateInv` |
| `RunsOfTheirOwn`, `NothingSentTwice`, `CredentialsWhole` | `[]RunsAreOwn`, `[]SentClean`, `[]CredentialWhole` | `TemplateInv` |

Those of the reconciler hold for any number of triggers, keys, revisions, runs
and budgets, for each kind of source, any labels and any set of faults; those of
`DualCluster` for any number of branches, revisions, faults and moves; those of
`RunTemplate` for any templates, credentials and branches. Assumptions, each
evaluated by TLC in a run: `SlotsAssumption` (the null branch and the missing
revision are not ordinary ones, labels are labels), `PipelineRunsAssumption` (a
resolver is not a pipeline), `KindAssumption` (a single-slot kind has one key),
`ReconcilerAssumption`, `SourceLabelsAssumption` (there is room for more than the
hash; a hash is made of hexadecimal digits), `LabelledRunsAssumption` (the labels
are those of `SourceLabels`), `DualAssumption` (there are two clusters) and
`TemplateAssumption` (a stored template is not a run).

**Type correctness** is inductive as stated. `TypeOK` includes one fact that is
more than a type: a run's phase is `absent` exactly until it is created.

**`AtMostOneRun`** is not inductive: a create from a reconcile that overlooked a
run would break it. `OneRunInv` adds what `findLiveRun` established: while the
worker is at `create`, no existing run of the trigger carries the labels of the
run in `creating`. It is established by `NoneFound`, which looks at the API
server and not at a cache; it is kept because only this worker creates runs of
the trigger, and a deleted run does not come back. `InOrder` says where the
locals are non-empty: `creating` at `create` only and then with one element,
`prs` at `start` and `create` only. The proof uses neither the caches nor the
status: this is why the result does not depend on how stale they are.

**`NoStrandedSlot`** is about the stored status, but what is stored comes from
the worker's copy, which comes from the cache, which comes from the store; and
the copy *is* stranded between the advance and the end of the starts.
`StrandInv` therefore says of the stored, the cached and the saved statuses that
every slot is accounted for, and of the copy that it is accounted for except in
the slots that `prs` and `creating` still have to settle. `PatchAdvance` needs
`prs = {}`, and `InOrder` gives `creating = {}`. The interesting leaf is
`SettleFailedRun`: both ways of settling leave an Error on the slot they touch
and touch no other one.

**`NamedRunIsOfRevision`** is about stored slots. `NamingInv` says the same of the
cached status, of the worker's copy and of the snapshot it rolls back to, since
each is stored in the end; that the caches have seen only runs that exist; and
that a prepared run has the labels of the slot it was prepared for, so that the
name which comes back ends up where the labels say. The leaf that matters is
`GetLatestEvent`: a slot that takes a new revision is a new slot, which names
nothing.

**`LedgerImplemented`** maps every action to `Start`, `Ends`, `Removed`, `Report`
or a stutter. `Start` needs `OneRunInv`, a `Report` that is true needs `StrandInv`
(a claim without a build is due or excused) and `NamingInv` (a claim with a build
is true of it); this is why it comes last.

**`PromisesKept`** is proved of the ledger alone, where it takes four short steps,
and carried over by `LedgerImplemented`. `Start` is the only step that could put a
second build in force, and its guard forbids that; a claim stays true as builds only
gain entries and never change owner or labels.

**`OneSlotPerStep`.** A run finds its slot by its labels and not by a key, so this
is a statement about labels: `LabelsTellReferences` says that no two references a
trigger tracks ever have equal labels. The reference `null`, which the PullRequest
poll invents, counts among them; a single-slot source has one reference only, and
`PreparedForKey` says that its runs are prepared for that one. Labels do collide for
some branches (run `label_collision`), and nothing is claimed of those.

**`SuppressedByOwnRun`.** `CalculateCurrentState` compares labels and the pipeline
and never the owner. `SpecInv` says that a run has the pipeline of a spec of its
owner, whichever stale copy of the spec it was made from; `PipelinesNotShared`
then gives the owner. Where two triggers do share a pipeline the property is
violated (run `shared_pipeline`); a run made by a resolver has no pipeline to
compare, so the resolver's name is excluded too.

**`BuiltOnce`** says more than `AtMostOneRun`: deleted runs count. Without a pruner
both are the same. With one, the live lookup finds nothing of a deleted run and
what protects the revision is the slot, which still holds it. `OnceInv` says that
this memory is never lost: every revision built that the source has not given up is
in the stored slot, and that slot is one from which no start is due; the copy of a
running reconcile, its snapshot and the prepared runs agree with it. The
hypotheses name the ways in which the memory is lost; in instances like that of
`pull_result`, widened by one of them at a time (not kept as runs), TLC finds
`BuiltOnce` violated without each:
`StartsRecorded` (a start is written by the same reconcile: no restart and no failed
patch between the create and `PatchAdvance`), `"triggers" \notin Lagging` (it is
read back), `"landed" \notin Faults` (a create that took effect is not reported as
failed) and `SourceMovesOn` (the source never returns to a revision of a reference
that it gave up; polls that bring nothing do not count). The last is stated
with two history variables, `known` and `given`, that record what the source held
and restrict nothing else. The run `pull_result` is an instance of the hypotheses.

**`BranchesKeptApart`** replaces the hypothesis on labels by two on their parts:
`HashesTell` (of the strings that have to be changed no two have one hash, and none
is changed into another string of the instance) and `NamesTell` (no two branches
differ in nothing but slashes and dashes, no two images in nothing but the path in
front of the name). The instance of the run `pull` satisfies both; that of
`label_collision` violates `NamesTell`, which is the finding of that run.

**The labels.** What is left after the cut and the trim starts and ends with a
letter or a digit, or is nothing; in both cases the hash can follow, and the sum of
the lengths is within the limit. Two modified values with different hashes differ
in one of their last characters.

**`NothingSlips`** compares two clusters at rest, but they come to rest at
different times. `SlipInv` says that what a cluster recorded was built somewhere
or is refused here, and so is what its worker has settled; and that a trigger
that is not queued is up to date: the worker asks about the source as it is, or
prepares what the source holds, or is idle and all the source holds was built
somewhere or is refused here. Counting works because a cluster has one run per
revision: as many runs as branches are a run of each branch.

**`LateClusterYields`.** `LateInv`: as long as a revision is late at a calm
cluster, everything the source holds runs on the other one, and the worker here is
idle or asks about just that source. So it gets the answer that sends it home.

**`RunTemplate`.** `TemplateInv`: the template keeps its params and is never
decorated, stored or sent; each prepared run has its own place, with its own
params and labels and a credential that is whole or absent.

Only model-checked: the liveness properties (`EveryRevisionHandled`,
`EveryRevisionAnswered`, `NoCreateStorm`, `ResultShown`, `RetriedAfterEdit`, `BuiltSomewhere`,
`EveryBranchBuilt`), which are outside what TLAPS proves. `BuiltOnce` under other
combinations of faults, and the two-cluster and template models beyond the
properties listed, rest on the runs. Proofs are about a recursive definition
nowhere: there is none in the project.

## 6. Not modelled

- **Metrics**, generated code and manifests: see `PROJECT.json`.
- **The managed credential's controller**: another project; its result is any
  stored credential that changes at any time.
- **Field ownership of server-side apply.** `ManageError` writes with a merge
  patch (modelled as one) under another field manager than the apply patches of
  `Reconcile`. What it wrote, the branch `null` included, is therefore not removed
  by an apply that leaves it out; in the model an apply replaces the status.
- **A create that lands after the live lookup of the retry.** The API server
  applies or drops a create before it answers. A later one defeats any lookup.
- **Deletion of a trigger**: its runs are garbage-collected, nothing reconciles.
- **A fixed `metadata.name`** is in `RunTemplate` and not in `Reconciler`, whose
  runs have generated names.
- **A poll without branches on two clusters** and **a resolver reference on two
  clusters**: they are in `Reconciler` and end a reconcile before the other
  cluster matters.
- **Two leaders at once**, resync periods, ties of timestamps within a second in
  `GetLastCondition`, the trimming of cached runs (it keeps the fields that are
  read), JSON paths, texts of parameters and messages.
- A run cancelled through its spec counts as failed.
- **Two unchecked conversions.** A GitRepository or ImagePolicy template without
  `spec` panics (`gitrepository_provider.go:194`), and so would a run condition
  without a reason or a message (`pullrequest_provider.go:437`, `:438`); the final
  conditions Tekton writes have both.
- **Two runs of one revision on the other cluster**, or a second trigger there: the
  code counts pairs of branch and run, `DualCluster` has one run per revision.
- The `ParamsUnmarshalFailed` note that the PullRequest subscriber leaves on the
  GitRepository slot of a PullRequest trigger: nobody reads it.

## 7. Plan

The order is the order of importance: the protocol that creates runs first, as
everything else rests on it.

1. `Slots`, `PipelineRuns`: data and its operators. Done.
2. `SingleSlotSource`, `PullRequestSource`, `SourceSubscriber`: the subscribers.
   Done.
3. `Reconciler`, `MCReconciler`: the composition. Done.
4. `SubscriberProofs`, `ReconcilerProofs`: types, one run per revision, no
   stranded slot. Done.
5. `BuildLedger`, the refinement and its proof, `NamedRunIsOfRevision`. Done.
6. `SourceLabels` and `LabelledRuns`, with proofs for any string. Done.
7. `DualCluster` and its proofs. Done.
8. `RunTemplate`: aliasing, credentials, fixed names, and its proofs. Done.
9. `StepProofs`: one slot at a time, no wait for the run of another trigger, built
   once with and without a pruner; `PromisesKept`, `BranchesKeptApart`. Done.
10. Not written: `StatusOwnership`, apply and merge patches of two field managers on one
    status, and which properties of the slots survive the leftovers.
11. Not written: the cache transform; a third run and a second crash in the larger instances;
    a PullRequest of which the two clusters see different polls.

## 8. Running it

`tlc -config MCGit.cfg MCReconciler` and so on for each configuration
(`PROJECT.json` names the module of each), and `tlapm` on each `Proofs` module.
The passing runs take from ten seconds to about two minutes each on two workers;
the largest has 1.9 million states.

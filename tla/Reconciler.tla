----------------------------- MODULE Reconciler -----------------------------
(***************************************************************************)
(* The reconciler of PipelineTriggers: one worker takes triggers off the   *)
(* queue, reads its caches, starts the runs the source calls for and       *)
(* writes the status back, while users, Tekton, the forge and the          *)
(* informers move on between any two of its calls.                         *)
(*                                                                         *)
(* All triggers watch one source object of one Kind.  The worker's         *)
(* variables (pc, cur, pt, ...) are its local ones: a crash loses them.    *)
(***************************************************************************)
EXTENDS SourceSubscriber, Sequences

CONSTANTS
  Specs,             \* Specs[t]: the specs users write for trigger t
  Faults,            \* which API calls may fail
  MaxFaults,         \* bound: calls that fail
  MaxCrashes,        \* bound: restarts of the manager
  MaxSourceChanges,  \* bound: updates of the source object
  MaxGeneration,     \* bound: edits of one spec, plus one
  Outcomes,          \* how Tekton may end a run
  Pruning,           \* are finished runs deleted?
  Lagging            \* which caches may be stale: "triggers", "runs"

\* "invalid": IsValid or the namespace rule refuses it, "missing": its pipeline
\* is not there, "unsupported": its template is not a tekton.dev one.
\* "refused": the labels of the runs that the API server or an admission webhook
\* refuses for good.
TriggerSpec == [check: {"ok", "invalid", "missing", "unsupported"},
                pipeline: PipelineRefs,
                params: {"static", "dynamic", "broken", "array"},
                refused: SUBSET Labels]

FaultKinds == {"references", "list", "state", "event", "live", "rejectlive",
               "create", "landed", "patch"}

ASSUME ReconcilerAssumption ==
  /\ Specs \in [Triggers -> SUBSET TriggerSpec]
  /\ Faults \subseteq FaultKinds
  /\ Lagging \subseteq {"triggers", "runs"}
  /\ Outcomes \subseteq {"unresolved", "succeeded", "failed"}
  /\ Pruning \in BOOLEAN
  /\ MaxFaults \in Nat
  /\ MaxCrashes \in Nat
  /\ MaxSourceChanges \in Nat
  /\ MaxGeneration \in Nat \ {0}

VARIABLES
  \* the cluster
  runs,           \* the PipelineRuns ever created, in creation order
  phase,          \* their phases at the API server
  source,         \* the source object
  trigger,        \* the stored PipelineTriggers: generation, spec, status
  \* the manager's informers and queue
  cachedPhase, cachedSource, cachedTrigger, queue,
  \* the worker, in the middle of a reconcile unless pc = "idle"
  pc,
  cur,            \* the trigger it reconciles
  pt,             \* its copy of the trigger, the status of which it changes
  list,           \* the runs it listed from the cache
  before,         \* statusBeforeAdvance
  prs,            \* prepared runs that are not settled yet
  creating,       \* the prepared run, as a set, it is about to create
  transientErr,   \* a create failed transiently
  patched,        \* generation at the first status patch, 0 if none succeeded
  \* the budgets left
  faults, crashes, changes

clusterVars == <<runs, phase, source, trigger>>
cacheVars   == <<cachedPhase, cachedSource, cachedTrigger, queue>>
localVars   == <<cur, pt, list, before, prs, creating, transientErr, patched>>
budgetVars  == <<faults, crashes, changes>>
vars == <<clusterVars, cacheVars, pc, localVars, budgetVars>>

-----------------------------------------------------------------------------
NoRunsListed == [i \in RunIds |-> "absent"]

\* No trigger: what the worker holds while it is idle.
BlankTrigger == [generation |-> 0, status |-> EmptyStatus,
                 spec |-> [check |-> "invalid", pipeline |-> Resolver,
                           params |-> "static", refused |-> {}]]

Init ==
  /\ runs = <<>>
  /\ phase = NoRunsListed
  /\ source \in SourceStates
  /\ \E written \in [Triggers -> UNION {Specs[t] : t \in Triggers}] :
       /\ \A t \in Triggers : written[t] \in Specs[t]
       /\ trigger = [t \in Triggers |-> [generation |-> 1, spec |-> written[t],
                                        status |-> EmptyStatus]]
  \* The manager starts: caches are synced and every trigger is queued.
  /\ cachedPhase = phase /\ cachedSource = source /\ cachedTrigger = trigger
  /\ queue = Triggers
  /\ pc = "idle" /\ cur \in Triggers /\ pt = BlankTrigger /\ list = NoRunsListed
  /\ before = EmptyStatus /\ prs = {} /\ creating = {}
  /\ transientErr = FALSE /\ patched = 0
  /\ faults = MaxFaults /\ crashes = MaxCrashes /\ changes = MaxSourceChanges

-----------------------------------------------------------------------------
(* What the calls of the worker read and how they end.                     *)

TriggerRead(t) == IF "triggers" \in Lagging THEN cachedTrigger[t] ELSE trigger[t]

RunsRead == IF "runs" \in Lagging THEN cachedPhase ELSE phase

\* GitRepositories and ImagePolicies are read through the dynamic client, that
\* is from the API server; a PullRequest comes from the informer.
SourceRead == IF IsPullRequest THEN cachedSource ELSE source

\* A call of this kind fails, and takes one of the failures left.
Fails(kind) == kind \in Faults /\ faults > 0 /\ faults' = faults - 1

\* The reconcile returns; q is the queue it leaves, with the trigger in it when
\* the result asks for a requeue (the backoff is not timed here).
Return(q) ==
  /\ pc' = "idle"
  /\ queue' = q
  /\ pt' = BlankTrigger /\ list' = NoRunsListed /\ before' = EmptyStatus
  /\ prs' = {} /\ creating' = {} /\ transientErr' = FALSE /\ patched' = 0

\* ManageError: patch an Error onto the slots and requeue, whether or not the
\* patch went through.  "spent" failures led here, the patch may be another.
ManageError(t, read, spent) ==
  /\ faults >= spent
  /\ \/ /\ trigger' = [trigger EXCEPT ![t].status =
                         ErrorPatch(@, read.status, read.generation)]
        /\ faults' = faults - spent
     \/ /\ "patch" \in Faults /\ faults > spent
        /\ faults' = faults - spent - 1
        /\ UNCHANGED trigger
  /\ Return(queue \union {t})

-----------------------------------------------------------------------------
(* Reconcile, from the Get of the trigger to the list of runs.             *)

Dequeue(t) == pc = "idle" /\ t \in queue /\ cur' = t

StartChecked(t) ==
  /\ Dequeue(t)
  /\ TriggerRead(t).spec.check = "ok"
  /\ queue' = queue \ {t}
  /\ pc' = "state"
  /\ pt' = TriggerRead(t)
  /\ list' = RunsRead
  /\ UNCHANGED <<clusterVars, cachedPhase, cachedSource, cachedTrigger, before,
                 prs, creating, transientErr, patched, budgetVars>>

\* Refused by IsValid or the namespace rule, or naming a source or a pipeline
\* that the API server does not have, or fails to return.
StartRefused(t) ==
  /\ Dequeue(t)
  /\ LET read == TriggerRead(t)
     IN  \/ read.spec.check \in {"invalid", "missing"} /\ ManageError(t, read, 0)
         \/ /\ read.spec.check \in {"ok", "missing"} /\ "references" \in Faults
            /\ ManageError(t, read, 1)
  /\ UNCHANGED <<runs, phase, source, cachedPhase, cachedSource, cachedTrigger,
                 crashes, changes>>

\* A template of another group is reported by an event and left alone.
StartUnsupported(t) ==
  /\ Dequeue(t)
  /\ TriggerRead(t).spec.check = "unsupported"
  /\ Return(queue \ {t})
  /\ UNCHANGED <<clusterVars, cachedPhase, cachedSource, cachedTrigger,
                 budgetVars>>

\* Fail closed: without the list of runs nothing is created.
StartBlind(t) ==
  /\ Dequeue(t)
  /\ TriggerRead(t).spec.check = "ok"
  /\ Fails("list")
  /\ Return(queue)
  /\ UNCHANGED <<clusterVars, cachedPhase, cachedSource, cachedTrigger,
                 crashes, changes>>

-----------------------------------------------------------------------------
(* Reconcile, from the current state to the prepared runs.                 *)

\* A run for the source is there already, or not.  An error is only logged, and
\* then counts as "not running".
CalculateState ==
  /\ pc = "state"
  /\ \/ /\ ~StatePanics(SourceRead, pt.spec.pipeline)
        /\ pc' = IF CalculateCurrentState(SourceRead, runs, list, pt.spec.pipeline)
                   THEN "finish" ELSE "event"
        /\ UNCHANGED faults
     \/ Fails("state") /\ pc' = "event"
  /\ UNCHANGED <<clusterVars, cacheVars, localVars, crashes, changes>>

\* The panic is recovered by the controller, which requeues.
PanicInState ==
  /\ pc = "state"
  /\ StatePanics(SourceRead, pt.spec.pipeline)
  /\ Return(queue \union {cur})
  /\ UNCHANGED <<clusterVars, cachedPhase, cachedSource, cachedTrigger, cur,
                 budgetVars>>

\* Snapshot the status, advance it to the source and prepare the runs.
Advance ==
  /\ pc = "event"
  /\ pc' = "start"
  /\ before' = pt.status
  /\ LET latest == GetLatestEvent(pt.status, SourceRead)
     IN  /\ prs' = RunsToStart(latest, pt.generation, pt.spec.params)
         /\ pt' = [pt EXCEPT !.status =
                     Announce(latest, pt.generation, pt.spec.params)]
  /\ UNCHANGED <<clusterVars, cacheVars, cur, list, creating, transientErr,
                 patched, budgetVars>>

AdvanceFails ==
  /\ pc = "event"
  /\ "event" \in Faults
  /\ ManageError(cur, pt, 1)
  /\ UNCHANGED <<runs, phase, source, cachedPhase, cachedSource, cachedTrigger,
                 cur, crashes, changes>>
-----------------------------------------------------------------------------
(* StartPipelineRuns, one prepared run at a time and in any order: the runs *)
(* come out of a map.                                                       *)

SetRunName(pr, run) ==
  pt' = [pt EXCEPT !.status = SetCurrentPipelineRunName(@, pr.labels, run)]

\* Mutant: a permanent failure is retried like a transient one.
SettleForRetry(pr, permanent) ==
  /\ pt' = [pt EXCEPT !.status =
              SettleFailedRun(@, before, pr.labels, pt.generation, FALSE)]
  /\ transientErr' = TRUE

Settle(pr, permanent) ==
  /\ pt' = [pt EXCEPT !.status =
              SettleFailedRun(@, before, pr.labels, pt.generation, permanent)]
  /\ transientErr' = (transientErr \/ ~permanent)

OwnedInList(pr) == OwnedRuns(runs, list, cur, pr.labels)

\* Mutant: the list is believed.
OwnedLiveUnasked(pr) == {}

OwnedLive(pr) == OwnedRuns(runs, phase, cur, pr.labels)

\* Mutant: a run that exists is left alone and its name is not written down.
AdoptUnnamed(pr) ==
  /\ pc = "start" /\ pr \in prs
  /\ OwnedInList(pr) # {} \/ OwnedLive(pr) # {}
  /\ prs' = prs \ {pr}
  /\ UNCHANGED <<clusterVars, cacheVars, pc, cur, pt, list, before, creating,
                 transientErr, patched, budgetVars>>

\* The run exists: in the list of the reconcile or, failing that, at the API
\* server, which is asked right before a create.
Adopt(pr) ==
  /\ pc = "start" /\ pr \in prs
  /\ \E run \in IF OwnedInList(pr) # {} THEN FindExistingRun(OwnedInList(pr), list)
                                       ELSE FindExistingRun(OwnedLive(pr), phase) :
       SetRunName(pr, run)
  /\ prs' = prs \ {pr}
  /\ UNCHANGED <<clusterVars, cacheVars, pc, cur, list, before, creating,
                 transientErr, patched, budgetVars>>

\* No run of this trigger carries the labels: go and create one.
NoneFound(pr) ==
  /\ pc = "start" /\ pr \in prs
  /\ OwnedInList(pr) = {} /\ OwnedLive(pr) = {}
  /\ pc' = "create"
  /\ creating' = {pr}
  /\ prs' = prs \ {pr}
  /\ UNCHANGED <<clusterVars, cacheVars, cur, pt, list, before, transientErr,
                 patched, budgetVars>>

\* The live lookup fails, closed: the slot is settled like a failed create.
LookupFails(pr) ==
  /\ pc = "start" /\ pr \in prs
  /\ OwnedInList(pr) = {}
  /\ \/ Fails("live") /\ Settle(pr, FALSE)
     \/ Fails("rejectlive") /\ Settle(pr, TRUE)
  /\ prs' = prs \ {pr}
  /\ UNCHANGED <<clusterVars, cacheVars, pc, cur, list, before, creating,
                 patched, crashes, changes>>

\* The API server stores a new run of the trigger.
Store(pr) ==
  /\ Len(runs) < MaxRuns
  /\ runs' = Append(runs, [owner |-> cur, labels |-> pr.labels,
                           pipeline |-> pt.spec.pipeline])
  /\ phase' = [phase EXCEPT ![Len(runs) + 1] = "created"]

Created(pr) ==
  /\ pc = "create" /\ pr \in creating /\ pr.labels \notin pt.spec.refused
  /\ Store(pr)
  /\ SetRunName(pr, Len(runs) + 1)
  /\ pc' = "start" /\ creating' = {}
  /\ UNCHANGED <<source, trigger, cacheVars, cur, list, before, prs,
                 transientErr, patched, budgetVars>>

\* Invalid or BadRequest: the object itself is refused.
CreateRejected(pr) ==
  /\ pc = "create" /\ pr \in creating /\ pr.labels \in pt.spec.refused
  /\ Settle(pr, TRUE)
  /\ pc' = "start" /\ creating' = {}
  /\ UNCHANGED <<clusterVars, cacheVars, cur, list, before, prs, patched,
                 budgetVars>>

\* Any other error.  A create that timed out may have landed all the same.
CreateFails(pr) ==
  /\ pc = "create" /\ pr \in creating
  /\ \/ Fails("create") /\ UNCHANGED <<runs, phase>>
     \/ Fails("landed") /\ pr.labels \notin pt.spec.refused /\ Store(pr)
  /\ Settle(pr, FALSE)
  /\ pc' = "start" /\ creating' = {}
  /\ UNCHANGED <<source, trigger, cacheVars, cur, list, before, prs, patched,
                 crashes, changes>>

-----------------------------------------------------------------------------
(* Writing the status back.  An apply patch by the only writer of these     *)
(* fields replaces the stored status.                                       *)

\* First status patch, after the runs were started.  Its failure is an event.
PatchAdvance ==
  /\ pc = "start" /\ prs = {}
  /\ \/ /\ trigger' = [trigger EXCEPT ![cur].status = pt.status]
        /\ patched' = trigger[cur].generation
        /\ UNCHANGED faults
     \/ Fails("patch") /\ UNCHANGED <<trigger, patched>>
  /\ pc' = "finish"
  /\ UNCHANGED <<runs, phase, source, cacheVars, cur, pt, list, before, prs,
                 creating, transientErr, crashes, changes>>

\* The object of the first patch is reused, so the second one carries the
\* resource version that came back: it conflicts when the trigger was edited.
Conflict == patched # 0 /\ patched # trigger[cur].generation

\* Mutant: a failed create is not requeued.
RequeueNever == queue

\* A create that failed transiently is tried again.
Requeue == IF transientErr THEN queue \union {cur} ELSE queue

\* Record the results of the named runs and patch the status.
Finish ==
  /\ pc = "finish"
  /\ \/ /\ ~Conflict
        /\ trigger' = [trigger EXCEPT ![cur].status =
             SetCurrentPipelineRunStatus(pt.status, list, pt.generation)]
        /\ UNCHANGED faults
     \/ Conflict /\ UNCHANGED <<trigger, faults>>
     \/ Fails("patch") /\ UNCHANGED trigger
  /\ Return(Requeue)
  /\ UNCHANGED <<runs, phase, source, cachedPhase, cachedSource, cachedTrigger,
                 cur, crashes, changes>>

-----------------------------------------------------------------------------
(* Informers.                                                               *)

\* A deletion is no event, nor is the arrival of a run; a change of its
\* conditions queues the owner.  The watch delivers every version in turn, so a
\* run that reaches the cache with conditions arrived and changed.
OwnersOfChangedRuns ==
  {runs[i].owner : i \in {i \in RunIds :
     Existing(phase[i]) /\ RunStatus(phase[i]) # RunStatus(cachedPhase[i])}}

DeliverRuns ==
  /\ cachedPhase # phase
  /\ cachedPhase' = phase
  /\ queue' = queue \union OwnersOfChangedRuns
  /\ UNCHANGED <<clusterVars, cachedSource, cachedTrigger, pc, localVars,
                 budgetVars>>

DeliverSource ==
  /\ cachedSource # source
  /\ cachedSource' = source
  /\ queue' = IF SourceEventPasses(cachedSource, source) THEN Triggers ELSE queue
  /\ UNCHANGED <<clusterVars, cachedPhase, cachedTrigger, pc, localVars,
                 budgetVars>>

\* Mutant: only the creation of a trigger is an event.
TriggerCreationPasses(old, new) == old.generation = 0

\* A status patch does not change the generation and queues nothing.
TriggerEventPasses(old, new) == old.generation # new.generation

DeliverTrigger(t) ==
  /\ cachedTrigger[t] # trigger[t]
  /\ cachedTrigger' = [cachedTrigger EXCEPT ![t] = trigger[t]]
  /\ queue' = IF TriggerEventPasses(cachedTrigger[t], trigger[t])
                THEN queue \union {t} ELSE queue
  /\ UNCHANGED <<clusterVars, cachedPhase, cachedSource, pc, localVars,
                 budgetVars>>

-----------------------------------------------------------------------------
(* Everybody else.                                                          *)

SourceChanges ==
  /\ changes > 0
  /\ changes' = changes - 1
  /\ source' \in SourceStates \ {source}
  /\ UNCHANGED <<runs, phase, trigger, cacheVars, pc, localVars, faults, crashes>>

EditSpec(t) ==
  /\ trigger[t].generation < MaxGeneration
  /\ \E spec \in Specs[t] \ {trigger[t].spec} :
       trigger' = [trigger EXCEPT ![t].generation = @ + 1, ![t].spec = spec]
  /\ UNCHANGED <<runs, phase, source, cacheVars, pc, localVars, budgetVars>>

RunMoves(i, from, to) ==
  /\ phase[i] \in from
  /\ phase' = [phase EXCEPT ![i] = to]
  /\ UNCHANGED <<runs, source, trigger, cacheVars, pc, localVars, budgetVars>>

\* Tekton labels a run and starts it, or cannot resolve its pipeline.
TektonStarts(i) ==
  \E to \in {"running"} \union (Outcomes \intersect {"unresolved"}) :
    RunMoves(i, {"created"}, to)

TektonFinishes(i) ==
  \E to \in Outcomes \ {"unresolved"} : RunMoves(i, {"running"}, to)

\* A user or a pruner deletes a finished run.
RunPruned(i) ==
  Pruning /\ RunMoves(i, {"succeeded", "failed", "unresolved"}, "pruned")

\* The manager restarts, anywhere in a reconcile: caches are listed afresh and
\* every trigger is queued.
Crash ==
  /\ crashes > 0
  /\ crashes' = crashes - 1
  /\ cachedPhase' = phase /\ cachedSource' = source /\ cachedTrigger' = trigger
  /\ Return(Triggers)
  /\ UNCHANGED <<clusterVars, cur, faults, changes>>

-----------------------------------------------------------------------------
StartReconcile(t) == \/ StartChecked(t) \/ StartRefused(t)
                     \/ StartUnsupported(t) \/ StartBlind(t)

ContinueReconcile ==
  \/ CalculateState \/ PanicInState
  \/ Advance \/ AdvanceFails
  \/ \E pr \in prs : Adopt(pr) \/ NoneFound(pr) \/ LookupFails(pr)
  \/ \E pr \in creating : Created(pr) \/ CreateRejected(pr) \/ CreateFails(pr)
  \/ PatchAdvance \/ Finish

Deliver == DeliverRuns \/ DeliverSource \/ \E t \in Triggers : DeliverTrigger(t)

Tekton(i) == TektonStarts(i) \/ TektonFinishes(i)

Next ==
  \/ \E t \in Triggers : StartReconcile(t)
  \/ ContinueReconcile
  \/ Deliver
  \/ \E i \in RunIds : Tekton(i) \/ RunPruned(i)
  \/ SourceChanges \/ \E t \in Triggers : EditSpec(t)
  \/ Crash

Spec == Init /\ [][Next]_vars

\* The queue is served in order, every API call returns, watches deliver and
\* Tekton runs what it is given.  Users, pruners and crashes owe nothing.
Fairness ==
  /\ \A t \in Triggers : SF_vars(StartReconcile(t)) /\ WF_vars(DeliverTrigger(t))
  /\ WF_vars(ContinueReconcile)
  /\ WF_vars(DeliverRuns) /\ WF_vars(DeliverSource)
  /\ \A i \in RunIds : WF_vars(Tekton(i))

FairSpec == Spec /\ Fairness
-----------------------------------------------------------------------------
(* Properties.                                                              *)

IsTrigger(t) ==
  /\ DOMAIN t = {"generation", "spec", "status"}
  /\ t = [generation |-> t.generation, spec |-> t.spec, status |-> t.status]
  /\ t.generation \in Nat /\ t.spec \in TriggerSpec /\ IsStatus(t.status)

\* The phase of a run is "absent" exactly until it is created.
ClusterTyped ==
  /\ runs \in Seq(Run) /\ Len(runs) <= MaxRuns
  /\ phase \in [RunIds -> Phases]
  /\ \A i \in RunIds : phase[i] = "absent" <=> i > Len(runs)
  /\ source \in SourceStates
  /\ DOMAIN trigger = Triggers /\ \A t \in Triggers : IsTrigger(trigger[t])

ManagerTyped ==
  /\ cachedPhase \in [RunIds -> Phases]
  /\ cachedSource \in SourceStates
  /\ DOMAIN cachedTrigger = Triggers
  /\ \A t \in Triggers : IsTrigger(cachedTrigger[t])
  /\ queue \subseteq Triggers

WorkerTyped ==
  /\ pc \in {"idle", "state", "event", "start", "create", "finish"}
  /\ cur \in Triggers
  /\ IsTrigger(pt)
  /\ list \in [RunIds -> Phases]
  /\ IsStatus(before)
  /\ prs \subseteq PreparedRun
  /\ creating \subseteq PreparedRun
  /\ transientErr \in BOOLEAN
  /\ patched \in Nat

BudgetTyped == faults \in Nat /\ crashes \in Nat /\ changes \in Nat

\* Every variable has its type.
TypeOK == ClusterTyped /\ ManagerTyped /\ WorkerTyped /\ BudgetTyped

\* A trigger never has two runs for one source revision at the API server,
\* however stale its caches, however often it crashed or was told that a create
\* that landed had failed (StartPipelineRuns, findLiveRun).
AtMostOneRun ==
  \A i, j \in RunIds :
    /\ Existing(phase[i]) /\ Existing(phase[j])
    /\ runs[i].owner = runs[j].owner /\ runs[i].labels = runs[j].labels
    => i = j

\* No stored slot is stranded: one that looked started but was not would never
\* get its run, until its source moved on (statusBeforeAdvance in Reconcile).
NoStrandedSlot ==
  \A t \in Triggers : \A k \in DOMAIN trigger[t].status :
    Accounted(trigger[t].status[k])

\* The run a stored slot names was made by this trigger for the revision of the
\* slot: the result of one revision is never shown on another one
\* (SettleFailedRun clears LatestPipelineRun for this).
NamedRunIsOfRevision ==
  \A t \in Triggers : \A k \in DOMAIN trigger[t].status :
    LET slot == trigger[t].status[k]
    IN  slot.run # NoRun =>
          /\ slot.run <= Len(runs)
          /\ runs[slot.run].owner = t
          /\ runs[slot.run].labels = LabelsOf(k, slot.revision)

\* Branches do not share a run: each is built with its own parameters, whatever
\* their names have in common (SanitizeLabelValue, GenerateBranchLabelsAsHash).
RunOfOneBranch ==
  \A t \in Triggers : \A j, k \in DOMAIN trigger[t].status :
    trigger[t].status[j].run = trigger[t].status[k].run =>
      j = k \/ trigger[t].status[j].run = NoRun

\* A revision that was built is not built again when its run is gone from the
\* cluster, however many polls came back empty in between (GetLatestEvent of the
\* PullRequest subscriber).
BuiltOnce ==
  \A i, j \in 1..Len(runs) :
    runs[i].owner = runs[j].owner /\ runs[i].labels = runs[j].labels => i = j

\* One run is started, adopted or settled at a time, and nothing but its own
\* slot changes: a failure of one branch costs no other branch its progress
\* (StartPipelineRuns, SettleFailedRun).
OneSlotPerStep ==
  [][\A pr \in prs \union creating :
       pc' = "start" /\ pr \notin prs' \union creating' =>
         \A k \in DOMAIN pt.status \ {pr.key} :
           k \in DOMAIN pt'.status /\ pt'.status[k] = pt.status[k]]_vars

\* A trigger waits for no run but its own: another trigger on the same source
\* does not keep it from building (findExistingRun, CalculateCurrentState).
SuppressedByOwnRun ==
  [][pc = "state" /\ pc' = "finish" =>
       \E i \in 1..Len(runs) : Existing(list[i]) /\ runs[i].owner = cur]_vars

\* A pipeline named by a resolver is none of the operator's business: it never
\* looks for the name of one (existsPipelineResource, CalculateCurrentState).
ResolverTolerated == pc = "state" => ~StatePanics(SourceRead, pt.spec.pipeline)

\* A source without an artifact starts nothing (evaluatePipelineParams...).
NoRunWithoutArtifact ==
  \A i \in 1..Len(runs) : \A k \in Keys : runs[i].labels # LabelsOf(k, NoRevision)

\* Which revisions are to be built: those of the source, of a usable spec.
Wanted(t) ==
  IF trigger[t].spec.check = "ok"
    THEN {k \in DOMAIN source : source[k] # NoRevision}
    ELSE {}

BuiltFor(t, k) ==
  \E i \in 1..Len(runs) : runs[i].owner = t /\ runs[i].labels = LabelsOf(k, source[k])

Buildable(t, k) ==
  /\ trigger[t].spec.params # "broken"
  /\ trigger[t].spec.params = "array" => IsPullRequest
  /\ LabelsOf(k, source[k]) \notin trigger[t].spec.refused

ReportedFor(t, k) ==
  /\ k \in DOMAIN trigger[t].status
  /\ trigger[t].status[k].revision = source[k]
  /\ \E c \in trigger[t].status[k].conditions : c.type = "Error"

\* Once the source rests, every revision it holds got its run, or an Error if
\* the template cannot make one: nothing is forgotten after stale reads, failed
\* calls and crashes.
EveryRevisionHandled ==
  \A t \in Triggers :
    <>[](\A k \in Wanted(t) :
           BuiltFor(t, k) \/ (~Buildable(t, k) /\ ReportedFor(t, k)))

\* Once the source rests, every revision it holds has a run or an Error, whatever
\* calls failed and edits raced: a rejection, or a retry that can never succeed,
\* leaves a trace even if a status patch is lost or refused.  A template that
\* names a resolver is excepted: it panics before anything is recorded.
EveryRevisionAnswered ==
  \A t \in Triggers :
    <>[](trigger[t].spec.pipeline # Resolver =>
           \A k \in Wanted(t) : BuiltFor(t, k) \/ ReportedFor(t, k))

\* Once the source rests the reconciler does too: no failure makes it replay
\* creates for ever.
NoCreateStorm == <>[](pc # "create")

\* A rejection that an edit of the spec has overtaken is tried again: a run is
\* made, or the rejection is recorded anew, unless the slot has moved on
\* (slotEligibleForCreate, createFailedCondition).
Retriable(t, k) ==
  /\ k \in Wanted(t) /\ k \in DOMAIN trigger[t].status
  /\ trigger[t].status[k].revision = source[k]

RejectedNow(t, k) ==
  \E c \in trigger[t].status[k].conditions :
    c.reason = "CreateRejected" /\ c.generation = trigger[t].generation

RetriedAfterEdit ==
  \A t \in Triggers, k \in Keys :
    Retriable(t, k) /\ RetryAfterSpecEdit(trigger[t].status[k].conditions,
                                         trigger[t].generation)
      ~> (Retriable(t, k) => BuiltFor(t, k) \/ RejectedNow(t, k))

\* The result of the run of the current revision ends up on its slot, although a
\* reconcile may write an older copy of the status over a newer one, and the
\* trigger is queued only by changes (SetCurrentPipelineRunStatus).
ResultShown ==
  \A t \in Triggers, i \in RunIds :
    <>[](i <= Len(runs) /\ phase[i] \in {"succeeded", "failed"}
         /\ runs[i].owner = t =>
           \A k \in Wanted(t) : runs[i].labels = LabelsOf(k, source[k]) =>
             /\ k \in DOMAIN trigger[t].status
             /\ \E c \in trigger[t].status[k].conditions :
                  c.type = "Success" /\ c.status = RunStatus(phase[i]))
-----------------------------------------------------------------------------
(* The ledger this keeps: what is said of a reference is what its stored    *)
(* slot says, and a build is a run without its pipeline.                    *)

BuildState(p) ==
  CASE p = "pruned"                -> "gone"
    [] p \in {"created", "running"} -> "open"
    [] OTHER                       -> "over"

LedgerBuild(i) ==
  [owner |-> runs[i].owner, labels |-> runs[i].labels,
   state |-> BuildState(phase[i])]

LedgerClaim(slot) ==
  [revision |-> slot.revision, build |-> slot.run,
   due |-> slot.conditions = {},
   excused |-> \E c \in slot.conditions : c.type = "Error"]

LedgerClaims(status) == [k \in DOMAIN status |-> LedgerClaim(status[k])]

Builds == [i \in 1..Len(runs) |-> LedgerBuild(i)]

Claims == [t \in Triggers |-> LedgerClaims(trigger[t].status)]

Ledger == INSTANCE BuildLedger WITH builds <- Builds, claims <- Claims

\* The reconciler implements the ledger: a step of it starts a build of which
\* there is none, ends or removes one, writes true claims of one trigger, or is
\* not seen (Reconcile, StartPipelineRuns, SettleFailedRun, ManageError).
ImplementsLedger == Ledger!Spec
=============================================================================

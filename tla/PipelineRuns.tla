---------------------------- MODULE PipelineRuns ----------------------------
(***************************************************************************)
(* PipelineRuns as the operator sees them.  What never changes after the   *)
(* create (owner, source labels, pipeline) is kept apart from the phase,   *)
(* which Tekton moves; the API server, the informer cache and the list one *)
(* reconcile holds are each a map from run to phase.                       *)
(***************************************************************************)
EXTENDS Slots

CONSTANTS
  Triggers,   \* PipelineTriggers of the namespace
  Pipelines,  \* names of Tekton Pipelines
  Resolver    \* a pipelineRef that names a resolver instead of a pipeline

ASSUME PipelineRunsAssumption == Resolver \notin Pipelines

PipelineRefs == Pipelines \union {Resolver}

Run == [owner: Triggers, labels: Labels, pipeline: PipelineRefs]

\* A run that is about to be made for a reference, at one of its revisions.
PreparedRun ==
  {[key |-> k, labels |-> LabelsOf(k, r)] : k \in AllKeys, r \in AnyRevision}

\* "created": Tekton has not seen the run, which has no status and no
\* tekton.dev/pipeline label.  "unresolved": Tekton failed the run before it
\* resolved its pipeline.  "absent": not created, "pruned": deleted.
Phases == {"absent", "created", "running", "succeeded", "failed",
           "unresolved", "pruned"}

Existing(phase) == phase \notin {"absent", "pruned"}

HasPipelineLabel(phase) == phase \in {"running", "succeeded", "failed"}

\* status.conditions[Succeeded].status of a run, "none" before Tekton sets it.
RunStatus(phase) ==
  CASE phase = "succeeded"                 -> "True"
    [] phase \in {"failed", "unresolved"}  -> "False"
    [] phase = "running"                   -> "Unknown"
    [] OTHER                               -> "none"

\* A run that failed before executing anything is no real result.
IsUnusableRun(phase) == phase = "unresolved"

-----------------------------------------------------------------------------
\* Mutant: any run of the trigger, whatever its revision.
OwnedRunsOfAnyRevision(runs, phases, trigger, labels) ==
  {i \in RunIds : Existing(phases[i]) /\ runs[i].owner = trigger}

\* Mutant: a run of any trigger, the owner is not looked at.
OwnedRunsOfAnyone(runs, phases, trigger, labels) ==
  {i \in RunIds : Existing(phases[i]) /\ runs[i].labels = labels}

\* Runs of one trigger that carry the given source labels.
OwnedRuns(runs, phases, trigger, labels) ==
  {i \in RunIds : /\ Existing(phases[i])
                  /\ runs[i].owner = trigger
                  /\ runs[i].labels = labels}

\* Usable runs first, then the newest; run ids follow creation order.
BetterRun(phases, a, b) ==
  IF IsUnusableRun(phases[a]) # IsUnusableRun(phases[b])
    THEN ~IsUnusableRun(phases[a])
    ELSE a > b

\* The one run to adopt of those that match, as a set.
FindExistingRun(matches, phases) ==
  {i \in matches : \A j \in matches \ {i} : BetterRun(phases, i, j)}

\* Mutant: the pipeline is not looked at.
SomeRunHasSourceLabels(runs, phases, labels, pipeline) ==
  \E i \in RunIds : Existing(phases[i]) /\ runs[i].labels = labels

\* Does some run of the list, whoever owns it, carry these source labels and
\* this tekton.dev/pipeline label?  A resolver reference asks for no pipeline.
SomeRunHasLabels(runs, phases, labels, pipeline) ==
  \E i \in RunIds : /\ Existing(phases[i])
                    /\ runs[i].labels = labels
                    /\ \/ pipeline = Resolver
                       \/ /\ HasPipelineLabel(phases[i])
                          /\ runs[i].pipeline = pipeline
=============================================================================

------------------------------- MODULE Slots -------------------------------
(***************************************************************************)
(* The status of a PipelineTrigger.  A trigger tracks one slot per source  *)
(* reference: exactly one for a GitRepository or an ImagePolicy, one per   *)
(* open branch for a PullRequest.  A slot records the revision it last     *)
(* saw, the PipelineRun it last named and the conditions of that revision. *)
(***************************************************************************)
EXTENDS Integers

CONSTANTS
  Keys,        \* the references a source can have: {repo}, or branch names
  NullBranch,  \* the branch "null" that ManageError invents for a PullRequest
  Revisions,   \* commits or image versions
  NoRevision,  \* a source that resolved no artifact yet, an empty commit
  Labels,      \* values of the pipeline.jquad.rocks/* labels of a run
  LabelsOf(_, _),  \* the labels the source's builder makes of key and revision
  MaxRuns      \* bound: PipelineRuns ever created

AllKeys == Keys \union {NullBranch}

AnyRevision == Revisions \union {NoRevision}

ASSUME SlotsAssumption ==
  /\ NullBranch \notin Keys
  /\ NoRevision \notin Revisions
  /\ \A k \in AllKeys, r \in AnyRevision : LabelsOf(k, r) \in Labels
  /\ MaxRuns \in Nat

RunIds == 1..MaxRuns

NoRun == 0

-----------------------------------------------------------------------------
(* Conditions.                                                             *)

ConditionTypes == {"Unknown", "Error", "Success", "InProgress", "False"}

ConditionStatuses == {"True", "False", "Unknown"}

Reasons == {"Unknown", "Failed", "CreateRejected", "Succeded", "RunFailed",
            "InProgress", "ParamsUnmarshalFailed"}

\* Generations are not bounded here: a generation of 0 is an unset one.
Condition == [type: ConditionTypes, status: ConditionStatuses,
              reason: Reasons, generation: Nat]

\* The run was prepared and its creation is about to be attempted.
UnknownCondition(g) ==
  [type |-> "Unknown", status |-> "Unknown", reason |-> "Unknown",
   generation |-> g]

\* The generic reconcile error, of ManageError, of a failed parameter and of a
\* transient create failure.
ErrorCondition(g) ==
  [type |-> "Error", status |-> "False", reason |-> "Failed", generation |-> g]

\* The create was rejected for good, at generation g.
CreateFailedCondition(g) ==
  [type |-> "Error", status |-> "False", reason |-> "CreateRejected",
   generation |-> g]

\* The run has no status yet: an entry of the odd type "False".
UnmarshalFailedCondition ==
  [type |-> "False", status |-> "False", reason |-> "ParamsUnmarshalFailed",
   generation |-> 0]

\* Mutant: the type and the status of the run's condition are copied.
RunConditionCopied(runStatus, g) ==
  [type |-> "Succeeded", status |-> runStatus, reason |-> "Succeded",
   generation |-> g]

\* What the status "True", "False" or "Unknown" of a run's condition becomes.
RunCondition(runStatus, g) ==
  IF runStatus \in {"True", "False"}
    THEN [type |-> "Success", status |-> runStatus, generation |-> g,
          reason |-> IF runStatus = "True" THEN "Succeded" ELSE "RunFailed"]
    ELSE [type |-> "InProgress", status |-> "Unknown", generation |-> g,
          reason |-> "InProgress"]

-----------------------------------------------------------------------------
(* Slots.  "last" is the status of the condition GetLastCondition returns, *)
(* the one written last; "details" says whether Details is not empty.      *)

Slot == [revision: AnyRevision, run: RunIds \union {NoRun}, details: BOOLEAN,
         conditions: SUBSET Condition, last: ConditionStatuses \union {"none"}]

NewSlot(revision, details) ==
  [revision |-> revision, run |-> NoRun, details |-> details,
   conditions |-> {}, last |-> "none"]

\* Conditions are a map keyed by type: a new one replaces its namesake.
AddOrReplaceCondition(slot, c) ==
  [slot EXCEPT !.conditions = {d \in @ : d.type # c.type} \union {c},
               !.last = c.status]

ClearConditions(slot) == [slot EXCEPT !.conditions = {}, !.last = "none"]

SetRun(slot, run) == [slot EXCEPT !.run = run]

\* A rejection recorded at an older generation: the spec was edited since.
RetryAfterSpecEdit(conditions, generation) ==
  \E c \in conditions : /\ c.type = "Error"
                        /\ c.reason = "CreateRejected"
                        /\ c.generation < generation

\* Mutant: no retry after an edit of the spec.
SlotEligibleForCreateOnce(conditions, generation) == conditions = {}

SlotEligibleForCreate(conditions, generation) ==
  \/ conditions = {}
  \/ RetryAfterSpecEdit(conditions, generation)

\* A slot that no reconcile starts a run for says why: it names a run or carries
\* an Error.
Accounted(slot) ==
  \/ slot.conditions = {}
  \/ slot.run # NoRun
  \/ \E c \in slot.conditions : c.type = "Error"

\* The slot keeps its revision, so that it is not seen as new, names no run
\* and carries nothing but the rejection.
RejectedSlot(slot, generation) ==
  AddOrReplaceCondition(SetRun(ClearConditions(slot), NoRun),
                        CreateFailedCondition(generation))
=============================================================================

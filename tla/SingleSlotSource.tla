-------------------------- MODULE SingleSlotSource --------------------------
(***************************************************************************)
(* The GitRepository and ImagePolicy subscribers.  Both keep one slot and  *)
(* read their source from the API server; they differ in what they require *)
(* of the slot's details before they fill in the parameters, and in what   *)
(* they do with a template that has no pipelineRef.name.                   *)
(*                                                                         *)
(* "source" maps the one key to the revision of the Flux object, or to     *)
(* NoRevision while it has no artifact.                                    *)
(***************************************************************************)
EXTENDS PipelineRuns

CONSTANT Kind

ASSUME KindAssumption ==
  /\ Kind \in {"GitRepository", "ImagePolicy", "PullRequest"}
  /\ Kind # "PullRequest" => \E k \in Keys : Keys = {k}

\* An ImagePolicy template without pipelineRef.name panics; for a GitRepository
\* the name is looked up safely.
SingleStatePanics(pipeline) == Kind = "ImagePolicy" /\ pipeline = Resolver

\* Is a run for the source's revision already there?
SingleCurrentState(source, runs, list, pipeline) ==
  \E k \in Keys : SomeRunHasLabels(runs, list, LabelsOf(k, source[k]), pipeline)

SingleLatestEvent(status, source) ==
  [k \in Keys |-> IF status[k].revision = source[k]
                    THEN status[k]
                    ELSE NewSlot(source[k], TRUE)]

\* Can the template's params be filled in?  "broken" names a field no source
\* has, "array" has a value that is not a string; a slot without an artifact has
\* no field at all.  A GitRepository also refuses a slot that never saw one.
SingleParamsCorrect(slot, params) ==
  /\ params \notin {"broken", "array"}
  /\ params = "dynamic" => slot.details /\ slot.revision # NoRevision
  /\ Kind = "GitRepository" => slot.details

SinglePrepares(slot, generation, params) ==
  /\ SlotEligibleForCreate(slot.conditions, generation)
  /\ SingleParamsCorrect(slot, params)

\* The prepared runs, at most one, and the slot that announces it.
SingleRunsToStart(status, generation, params) ==
  {[key |-> k, labels |-> LabelsOf(k, status[k].revision)] :
     k \in {k \in Keys : SinglePrepares(status[k], generation, params)}}

\* Params that are not strings are noted on the slot before the Error.
SingleAnnounce(status, generation, params) ==
  [k \in Keys |->
     LET retried == IF RetryAfterSpecEdit(status[k].conditions, generation)
                      THEN ClearConditions(status[k])
                      ELSE status[k]
         base    == IF params = "array"
                      THEN AddOrReplaceCondition(retried, UnmarshalFailedCondition)
                      ELSE retried
     IN  IF SlotEligibleForCreate(status[k].conditions, generation)
           THEN AddOrReplaceCondition(base,
                  IF SinglePrepares(status[k], generation, params)
                    THEN UnknownCondition(generation)
                    ELSE ErrorCondition(generation))
           ELSE status[k]]

\* Mutant: a transient failure keeps the new revision, announced as pending.
SingleSettleFailedRunInPlace(status, before, generation, permanent) ==
  [k \in Keys |-> IF permanent THEN RejectedSlot(status[k], generation)
                                ELSE status[k]]

\* Permanent: the new revision stays, rejected.  Transient: the slot of before,
\* with an Error on top of whatever it carried.
SingleSettleFailedRun(status, before, generation, permanent) ==
  [k \in Keys |->
     IF permanent
       THEN RejectedSlot(status[k], generation)
       ELSE AddOrReplaceCondition(before[k], ErrorCondition(generation))]

SingleSetRunName(status, run) == [k \in Keys |-> SetRun(status[k], run)]

\* The result of the named run, if the list holds it.
SingleSetRunStatus(status, list, generation) ==
  [k \in Keys |->
     IF status[k].run = NoRun \/ ~Existing(list[status[k].run])
       THEN status[k]
       ELSE LET found == RunStatus(list[status[k].run])
            IN  AddOrReplaceCondition(status[k],
                  IF found = "none" THEN UnmarshalFailedCondition
                                    ELSE RunCondition(found, generation))]

\* ManageError: the merge patch of an Error on the slot the reconcile read.  It
\* replaces the whole list of conditions of the stored slot and nothing else.
SingleErrorPatch(stored, read, generation) ==
  [k \in Keys |->
     LET failed == AddOrReplaceCondition(read[k], ErrorCondition(generation))
     IN  [stored[k] EXCEPT !.conditions = failed.conditions,
                           !.last = failed.last]]
=============================================================================

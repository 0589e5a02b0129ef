------------------------- MODULE PullRequestSource --------------------------
(***************************************************************************)
(* The PullRequest subscriber.  The source is the informer's copy of a     *)
(* PullRequest: a map from open branches to commits, empty when a poll of  *)
(* the forge brought nothing.  The status has a slot per tracked branch.   *)
(***************************************************************************)
EXTENDS PipelineRuns

\* A branch makes the subscriber read pipelineRef.name without a check.
PullStatePanics(source, pipeline) == DOMAIN source # {} /\ pipeline = Resolver

\* Mutant: an empty poll closes every branch.
PullLatestEventUnguarded(status, source) ==
  [k \in DOMAIN source |->
     IF k \in DOMAIN status /\ status[k].revision = source[k]
       THEN status[k] ELSE NewSlot(source[k], TRUE)]

\* Mutant: a moved branch keeps the name of the run of its previous commit.
PullLatestEventKeepingRun(status, source) ==
  IF DOMAIN source = {} THEN status
  ELSE [k \in DOMAIN source |->
          CASE k \notin DOMAIN status -> NewSlot(source[k], TRUE)
            [] status[k].revision = source[k] -> status[k]
            [] OTHER -> SetRun(NewSlot(source[k], TRUE), status[k].run)]

\* The poll's commits over the known branches.  A slot is replaced when its
\* commit moved and dropped when its branch closed; an empty poll is ignored.
PullLatestEvent(status, source) ==
  IF DOMAIN source = {}
    THEN status
    ELSE [k \in DOMAIN source |->
            IF k \in DOMAIN status /\ status[k].revision = source[k]
              THEN status[k]
              ELSE NewSlot(source[k], TRUE)]

\* Details are emptied once a run was prepared, so a dynamic parameter can be
\* filled in only the first time.  That "array" params are not strings is
\* ignored: they pass for static ones.
PullParamsCorrect(slot, params) ==
  /\ params # "broken"
  /\ params = "dynamic" => slot.details

PullPrepares(slot, generation, params) ==
  /\ SlotEligibleForCreate(slot.conditions, generation)
  /\ PullParamsCorrect(slot, params)

PullRunsToStart(status, generation, params) ==
  {[key |-> k, labels |-> LabelsOf(k, status[k].revision)] :
     k \in {k \in DOMAIN status : PullPrepares(status[k], generation, params)}}

\* Mutant: params that cannot be filled in leave the branch as it is.
PullAnnounceUnreported(status, generation, params) ==
  [k \in DOMAIN status |->
     IF PullPrepares(status[k], generation, params)
       THEN AddOrReplaceCondition([status[k] EXCEPT !.details = FALSE],
                                  UnknownCondition(generation))
       ELSE status[k]]

PullAnnounce(status, generation, params) ==
  [k \in DOMAIN status |->
     LET retried == IF RetryAfterSpecEdit(status[k].conditions, generation)
                      THEN ClearConditions(status[k])
                      ELSE status[k]
         base    == [retried EXCEPT !.details = FALSE]
     IN  IF SlotEligibleForCreate(status[k].conditions, generation)
           THEN AddOrReplaceCondition(base,
                  IF PullPrepares(status[k], generation, params)
                    THEN UnknownCondition(generation)
                    ELSE ErrorCondition(generation))
           ELSE status[k]]

\* The branches a run stands for: those whose labels it carries.
BranchesOfRun(status, labels) ==
  {k \in DOMAIN status : LabelsOf(k, status[k].revision) = labels}

\* Mutant: any failure restores the whole status.
PullSettleFailedRunWhole(status, before, labels, generation, permanent) == before

\* Mutant: a transient failure keeps the new commit, announced as pending.
PullSettleFailedRunInPlace(status, before, labels, generation, permanent) ==
  [k \in DOMAIN status |->
     IF permanent /\ k \in BranchesOfRun(status, labels)
       THEN RejectedSlot(status[k], generation) ELSE status[k]]

\* Permanent: the branches of the run are rejected.  Transient: they are what
\* they were before the reconcile, untracked if they were not tracked.
PullSettleFailedRun(status, before, labels, generation, permanent) ==
  LET failed == BranchesOfRun(status, labels)
      kept   == IF permanent THEN DOMAIN status
                             ELSE DOMAIN status \ (failed \ DOMAIN before)
  IN  [k \in kept |->
         IF k \notin failed THEN status[k]
         ELSE IF permanent THEN RejectedSlot(status[k], generation)
         ELSE before[k]]

\* Mutant: every branch names the run.
PullSetRunNameEverywhere(status, labels, run) ==
  [k \in DOMAIN status |-> SetRun(status[k], run)]

PullSetRunName(status, labels, run) ==
  [k \in DOMAIN status |->
     IF k \in BranchesOfRun(status, labels) THEN SetRun(status[k], run)
                                            ELSE status[k]]

\* Mutant: every finished run counts as reported.
IsStateFinished(runStatus, slot) == runStatus \in {"True", "False"}

\* Only a finished run is compared with the last condition of the branch.
IsStateIdentical(runStatus, slot) ==
  runStatus \in {"True", "False"} /\ slot.last = runStatus

\* A run without a status changes nothing here: the subscriber notes that on
\* the GitRepository slot, which a PullRequest trigger never reads.
PullSetRunStatus(status, list, generation) ==
  [k \in DOMAIN status |->
     IF status[k].run = NoRun \/ ~Existing(list[status[k].run])
       THEN status[k]
       ELSE LET found == RunStatus(list[status[k].run])
            IN  IF found = "none" \/ IsStateIdentical(found, status[k])
                  THEN status[k]
                  ELSE AddOrReplaceCondition(status[k],
                                             RunCondition(found, generation))]

\* ManageError: an Error on every branch read, or on the invented branch when
\* there is none.  The API server refuses the patch when it would make a branch
\* out of conditions alone, that is when a branch read is no longer stored.
PullErrorPatchAccepted(stored, read) ==
  DOMAIN read \subseteq DOMAIN stored

\* Mutant: only a branch without conditions gets the Error.
PullErrorPatchFirst(stored, read, generation) ==
  [k \in DOMAIN stored |->
     IF k \notin DOMAIN read THEN stored[k]
     ELSE LET failed == IF read[k].conditions = {}
                          THEN AddOrReplaceCondition(read[k],
                                                     ErrorCondition(generation))
                          ELSE read[k]
          IN  [stored[k] EXCEPT !.conditions = failed.conditions,
                                !.last = failed.last]]

PullErrorPatch(stored, read, generation) ==
  LET failed == IF DOMAIN read = {}
                  THEN [k \in {NullBranch} |-> NewSlot(NoRevision, FALSE)]
                  ELSE read
      patched(k) == AddOrReplaceCondition(failed[k], ErrorCondition(generation))
  IN  [k \in DOMAIN stored \union DOMAIN failed |->
         IF k \notin DOMAIN failed THEN stored[k]
         ELSE IF k \notin DOMAIN stored THEN patched(k)
         ELSE [stored[k] EXCEPT !.conditions = patched(k).conditions,
                                !.last = patched(k).last]]
=============================================================================

-------------------------- MODULE SourceSubscriber --------------------------
(***************************************************************************)
(* The SourceSubscriber interface: what the reconciler asks of a source,   *)
(* dispatched on the kind the trigger's spec names.                        *)
(***************************************************************************)
EXTENDS SingleSlotSource, PullRequestSource

IsPullRequest == Kind = "PullRequest"

\* The status of a trigger maps the references it tracks to their slots.
IsStatus(status) ==
  /\ IF IsPullRequest THEN DOMAIN status \subseteq AllKeys ELSE DOMAIN status = Keys
  /\ status \in [DOMAIN status -> Slot]

\* The status of a trigger that was never reconciled.
EmptyStatus ==
  IF IsPullRequest THEN [k \in {} |-> NewSlot(NoRevision, FALSE)]
                   ELSE [k \in Keys |-> NewSlot(NoRevision, FALSE)]

\* What a source object can hold.  A branch always has a commit; only a
\* GitRepository or an ImagePolicy can be without an artifact.
SourceStates ==
  IF IsPullRequest
    THEN UNION {[open -> Revisions] : open \in SUBSET Keys}
    ELSE [Keys -> AnyRevision]

\* Mutant: only the first artifact passes.
SourceEventPassesOnce(old, new) ==
  \/ Kind # "GitRepository"
  \/ \E k \in Keys : old[k] = NoRevision /\ new[k] # NoRevision

\* Does the watch of the source's kind let this update through?  A lost
\* artifact is not a new revision; the other kinds report any change.
SourceEventPasses(old, new) ==
  \/ Kind # "GitRepository"
  \/ \E k \in Keys : new[k] # NoRevision /\ new[k] # old[k]

StatePanics(source, pipeline) ==
  IF IsPullRequest THEN PullStatePanics(source, pipeline)
                   ELSE SingleStatePanics(pipeline)

\* "running": a PullRequest never reports it for its own cluster.
CalculateCurrentState(source, runs, list, pipeline) ==
  IF IsPullRequest THEN FALSE
                   ELSE SingleCurrentState(source, runs, list, pipeline)

GetLatestEvent(status, source) ==
  IF IsPullRequest THEN PullLatestEvent(status, source)
                   ELSE SingleLatestEvent(status, source)

RunsToStart(status, generation, params) ==
  IF IsPullRequest THEN PullRunsToStart(status, generation, params)
                   ELSE SingleRunsToStart(status, generation, params)

Announce(status, generation, params) ==
  IF IsPullRequest THEN PullAnnounce(status, generation, params)
                   ELSE SingleAnnounce(status, generation, params)

SettleFailedRun(status, before, labels, generation, permanent) ==
  IF IsPullRequest
    THEN PullSettleFailedRun(status, before, labels, generation, permanent)
    ELSE SingleSettleFailedRun(status, before, generation, permanent)

SetCurrentPipelineRunName(status, labels, run) ==
  IF IsPullRequest THEN PullSetRunName(status, labels, run)
                   ELSE SingleSetRunName(status, run)

SetCurrentPipelineRunStatus(status, list, generation) ==
  IF IsPullRequest THEN PullSetRunStatus(status, list, generation)
                   ELSE SingleSetRunStatus(status, list, generation)

\* The stored status after ManageError, unchanged when the patch is refused.
ErrorPatch(stored, read, generation) ==
  IF ~IsPullRequest THEN SingleErrorPatch(stored, read, generation)
  ELSE IF PullErrorPatchAccepted(stored, read)
    THEN PullErrorPatch(stored, read, generation)
  ELSE stored
=============================================================================

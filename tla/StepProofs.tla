----------------------------- MODULE StepProofs -----------------------------
(***************************************************************************)
(* Proofs about what the reconciler never does: change the slot of another *)
(* branch, wait for the run of another trigger, build a revision again.    *)
(***************************************************************************)
EXTENDS LedgerProofs

-----------------------------------------------------------------------------
(* One slot at a time.  The labels of a run have to tell the references     *)
(* apart (LabelsTellReferences), as the slot of a run is found by them.     *)

\* A run is prepared for a reference the source can have.
PreparedForKey == ~IsPullRequest => \A pr \in Waiting : pr.key \in Keys

LEMMA PreparedForKeyInvariant == Spec => []PreparedForKey
<1>1. Init => PreparedForKey
  BY DEF Init, PreparedForKey, Waiting
<1>2. TypeOK /\ InOrder /\ PreparedForKey /\ [Next]_vars => PreparedForKey'
  <2> SUFFICES ASSUME TypeOK, InOrder, PreparedForKey, [Next]_vars
               PROVE  PreparedForKey'
    OBVIOUS
  <2>1. ASSUME Waiting' \subseteq Waiting PROVE PreparedForKey'
    BY <2>1 DEF PreparedForKey, IsPullRequest
  <2>2. ASSUME NEW t \in Triggers, StartReconcile(t) PROVE Waiting' \subseteq Waiting
    BY <2>2
    DEF StartReconcile, StartChecked, StartRefused, StartUnsupported, StartBlind,
        ManageError, Return, Waiting
  <2>3. CASE PanicInState \/ AdvanceFails \/ Finish \/ Crash
    BY <2>1, <2>3 DEF PanicInState, AdvanceFails, ManageError, Finish, Crash,
                      Return, Waiting
  <2>4. CASE Advance
    <3> DEFINE latest == GetLatestEvent(pt.status, SourceRead)
    <3>1. Waiting' = RunsToStart(latest, pt.generation, pt.spec.params)
      BY <2>4 DEF Advance, InOrder, Waiting
    <3>2. ~IsPullRequest => \A pr \in Waiting' : pr.key \in Keys
      BY <3>1 DEF RunsToStart, SingleRunsToStart
    <3> QED BY <3>2 DEF PreparedForKey, IsPullRequest
  <2>5. CASE \E pr \in prs : Adopt(pr) \/ NoneFound(pr) \/ LookupFails(pr)
    BY <2>1, <2>5 DEF Adopt, NoneFound, LookupFails, Waiting
  <2>6. CASE \E pr \in creating : Created(pr) \/ CreateRejected(pr) \/ CreateFails(pr)
    BY <2>1, <2>6 DEF Created, CreateRejected, CreateFails, Waiting
  <2>7. CASE \/ CalculateState \/ PatchAdvance
             \/ Deliver \/ SourceChanges \/ \E t \in Triggers : EditSpec(t)
             \/ \E i \in RunIds : Tekton(i) \/ RunPruned(i)
             \/ UNCHANGED vars
    BY <2>1, <2>7
    DEF CalculateState, PatchAdvance, Deliver, DeliverRuns, DeliverSource,
        DeliverTrigger, SourceChanges, EditSpec, Tekton, TektonStarts,
        TektonFinishes, RunPruned, RunMoves, vars, localVars, Waiting
  <2> QED BY <2>1, <2>2, <2>3, <2>4, <2>5, <2>6, <2>7 DEF Next, ContinueReconcile
<1> QED BY <1>1, <1>2, TypeCorrect, AlwaysInOrder, PTL DEF Spec

\* The slots that SetCurrentPipelineRunName and SettleFailedRun leave alone.
LEMMA OtherSlotsKept ==
  ASSUME LabelsTellReferences, TypeOK, PreparedForKey, NEW pr \in Waiting,
         \/ \E run \in RunIds : SetRunName(pr, run)
         \/ \E permanent \in BOOLEAN : Settle(pr, permanent),
         NEW k \in DOMAIN pt.status \ {pr.key}
  PROVE  k \in DOMAIN pt'.status /\ pt'.status[k] = pt.status[k]
<1>1. /\ IsTrigger(pt) /\ IsStatus(pt.status) /\ IsStatus(before)
      /\ pt.generation \in Nat
  BY DEF TypeOK, WorkerTyped, IsTrigger
<1>2. IsPullRequest
  <2>1. ~IsPullRequest => pr.key = k
    BY <1>1, KindAssumption DEF PreparedForKey, IsPullRequest, IsStatus
  <2> QED BY <2>1
<1>3. /\ k \in Tracked /\ pt.status[k].revision \in AnyRevision
      /\ pr.key \in Tracked
      /\ \E r \in AnyRevision : pr.labels = LabelsOf(pr.key, r)
  BY <1>1, <1>2 DEF IsStatus, Tracked, Slot, TypeOK, WorkerTyped, PreparedRun, Waiting
<1>4. k \notin BranchesOfRun(pt.status, pr.labels)
  BY <1>3 DEF BranchesOfRun, LabelsTellReferences
<1>5. ASSUME NEW run \in RunIds, SetRunName(pr, run)
      PROVE  k \in DOMAIN pt'.status /\ pt'.status[k] = pt.status[k]
  <2> DEFINE named == SetCurrentPipelineRunName(pt.status, pr.labels, run)
  <2>1. k \in DOMAIN named /\ named[k] = pt.status[k]
    BY <1>2, <1>4 DEF SetCurrentPipelineRunName, PullSetRunName
  <2>2. IsStatus(named)
    BY <1>1, SetRunNameTyped
  <2>3. pt'.status = named
    BY <1>1, <1>5, <2>2, TriggerTyped DEF SetRunName
  <2> QED BY <2>1, <2>3
<1>6. ASSUME NEW permanent \in BOOLEAN, Settle(pr, permanent)
      PROVE  k \in DOMAIN pt'.status /\ pt'.status[k] = pt.status[k]
  <2> DEFINE settled == SettleFailedRun(pt.status, before, pr.labels,
                                        pt.generation, permanent)
  <2>1. k \in DOMAIN settled /\ settled[k] = pt.status[k]
    BY <1>2, <1>4 DEF SettleFailedRun, PullSettleFailedRun
  <2>2. IsStatus(settled)
    BY <1>1, SettleTyped
  <2>3. pt'.status = settled
    BY <1>1, <1>6, <2>2, TriggerTyped DEF Settle
  <2> QED BY <2>1, <2>3
<1> QED BY <1>5, <1>6

\* The prepared run that a step has done with is the one it named or settled.
LEMMA StepSettlesOne ==
  ASSUME TypeOK, InOrder, [Next]_vars, NEW pr \in Waiting, pc' = "start",
         pr \notin Waiting'
  PROVE  \/ \E run \in RunIds : SetRunName(pr, run)
         \/ \E permanent \in BOOLEAN : Settle(pr, permanent)
<1>1. pc \in {"start", "create"}
  BY DEF InOrder, Waiting
<1>2. ASSUME NEW t \in Triggers, StartReconcile(t) PROVE FALSE
  BY <1>1, <1>2 DEF StartReconcile, StartChecked, StartRefused,
                    StartUnsupported, StartBlind, Dequeue
<1>3. CASE CalculateState \/ PanicInState \/ Advance \/ AdvanceFails
           \/ PatchAdvance \/ Finish \/ Crash
  BY <1>1, <1>3 DEF CalculateState, PanicInState, Advance, AdvanceFails,
                    PatchAdvance, Finish, Crash, Return
<1>4. CASE \E other \in prs : Adopt(other) \/ NoneFound(other) \/ LookupFails(other)
  <2>1. PICK other \in prs : Adopt(other) \/ LookupFails(other)
    BY <1>4 DEF NoneFound
  <2>2. prs' = prs \ {other} /\ creating' = creating
    BY <2>1 DEF Adopt, LookupFails
  <2>3. other = pr
    BY <2>2 DEF Waiting
  <2>4. CASE Adopt(pr)
    BY <2>4, AdoptedTyped DEF Adopt, OwnedInList, OwnedLive
  <2>5. CASE LookupFails(pr)
    BY <2>5 DEF LookupFails
  <2> QED BY <2>1, <2>3, <2>4, <2>5
<1>5. CASE \E other \in creating :
             Created(other) \/ CreateRejected(other) \/ CreateFails(other)
  <2>1. PICK other \in creating :
          Created(other) \/ CreateRejected(other) \/ CreateFails(other)
    BY <1>5
  <2>2. prs' = prs
    BY <2>1 DEF Created, CreateRejected, CreateFails
  <2>3. other = pr
    BY <2>1, <2>2 DEF Waiting, InOrder, Created, CreateRejected, CreateFails
  <2>4. CASE Created(pr)
    <3>1. Len(runs) + 1 \in RunIds
      BY <2>4, SlotsAssumption DEF Created, Store, TypeOK, ClusterTyped, RunIds
    <3> QED BY <2>4, <3>1 DEF Created
  <2>5. CASE CreateRejected(pr) \/ CreateFails(pr)
    BY <2>5 DEF CreateRejected, CreateFails
  <2> QED BY <2>1, <2>3, <2>4, <2>5
<1>6. CASE \/ Deliver \/ SourceChanges \/ \E t \in Triggers : EditSpec(t)
           \/ \E i \in RunIds : Tekton(i) \/ RunPruned(i)
           \/ UNCHANGED vars
  BY <1>6
  DEF Deliver, DeliverRuns, DeliverSource, DeliverTrigger, SourceChanges,
      EditSpec, Tekton, TektonStarts, TektonFinishes, RunPruned, RunMoves,
      vars, localVars, Waiting
<1> QED BY <1>2, <1>3, <1>4, <1>5, <1>6 DEF Next, ContinueReconcile

\* Naming or settling a run costs no other branch its progress.
THEOREM OneSlotAtATime ==
  ASSUME LabelsTellReferences
  PROVE  Spec => OneSlotPerStep
<1> DEFINE Step == \A pr \in prs \union creating :
                     pc' = "start" /\ pr \notin prs' \union creating' =>
                       \A k \in DOMAIN pt.status \ {pr.key} :
                         k \in DOMAIN pt'.status /\ pt'.status[k] = pt.status[k]
<1>1. TypeOK /\ InOrder /\ PreparedForKey /\ [Next]_vars => Step
  BY StepSettlesOne, OtherSlotsKept DEF Waiting
<1> QED BY <1>1, TypeCorrect, AlwaysInOrder, PreparedForKeyInvariant, PTL
        DEF Spec, OneSlotPerStep

-----------------------------------------------------------------------------
(* A trigger waits for no run but its own.  CalculateCurrentState looks at  *)
(* the labels of a run and at its pipeline, never at its owner: what keeps  *)
(* triggers apart is that each uses pipelines of its own.                   *)

PipelinesNotShared ==
  /\ \A t, u \in Triggers : \A s \in Specs[t], r \in Specs[u] :
       s.pipeline = r.pipeline => t = u
  /\ \A t \in Triggers : \A s \in Specs[t] : s.pipeline # Resolver

\* A run has the pipeline of a spec of its owner.
OfItsSpecs(run) == \E s \in Specs[run.owner] : run.pipeline = s.pipeline

\* Whatever copy of a spec is acted on, it is one that was written for its trigger.
SpecInv ==
  /\ \A t \in Triggers : /\ trigger[t].spec \in Specs[t]
                         /\ cachedTrigger[t].spec \in Specs[t]
  /\ pc # "idle" => pt.spec \in Specs[cur]
  /\ \A i \in 1..Len(runs) : OfItsSpecs(runs[i])

\* A write of the status leaves the specs alone.
LEMMA StatusKeepsSpec ==
  ASSUME TypeOK, NEW t \in Triggers, NEW status,
         trigger' = [trigger EXCEPT ![t].status = status] \/ UNCHANGED trigger
  PROVE  \A u \in Triggers : trigger'[u].spec = trigger[u].spec
BY DEF TypeOK, ClusterTyped, IsTrigger

LEMMA StoreKeepsSpecs ==
  ASSUME TypeOK, SpecInv, pc # "idle", NEW pr, Store(pr)
  PROVE  \A i \in 1..Len(runs') : OfItsSpecs(runs'[i])
<1> DEFINE made == [owner |-> cur, labels |-> pr.labels, pipeline |-> pt.spec.pipeline]
<1>1. /\ runs \in Seq(Run) /\ Len(runs) \in Nat /\ runs' = Append(runs, made)
  BY DEF Store, TypeOK, ClusterTyped
<1>2. OfItsSpecs(made)
  BY DEF SpecInv, OfItsSpecs
<1>3. ASSUME NEW i \in 1..Len(runs') PROVE OfItsSpecs(runs'[i])
  <2>1. CASE i = Len(runs) + 1
    BY <1>1, <1>2, <2>1
  <2>2. CASE i \in 1..Len(runs)
    BY <1>1, <2>2 DEF SpecInv
  <2> QED BY <1>1, <2>1, <2>2
<1> QED BY <1>3

LEMMA StepKeepsSpecs ==
  ASSUME TypeOK, InOrder, SpecInv, [Next]_vars
  PROVE  SpecInv'
<1>1. ASSUME NEW t \in Triggers, StartReconcile(t) PROVE SpecInv'
  <2>1. TriggerRead(t).spec \in Specs[t] /\ cur' = t
    BY <1>1 DEF SpecInv, TriggerRead, StartReconcile, StartChecked, StartRefused,
                StartUnsupported, StartBlind, Dequeue
  <2>2. CASE StartChecked(t)
    BY <2>1, <2>2 DEF StartChecked, clusterVars, SpecInv
  <2>3. CASE StartRefused(t)
    <3>1. \A u \in Triggers : trigger'[u].spec = trigger[u].spec
      BY <2>3, StatusKeepsSpec DEF StartRefused, ManageError
    <3>2. pc' = "idle" /\ UNCHANGED <<runs, cachedTrigger>>
      BY <2>3 DEF StartRefused, ManageError, Return
    <3> QED BY <3>1, <3>2 DEF SpecInv
  <2>4. CASE StartUnsupported(t) \/ StartBlind(t)
    BY <2>4 DEF StartUnsupported, StartBlind, Return, clusterVars, SpecInv
  <2> QED BY <1>1, <2>2, <2>3, <2>4 DEF StartReconcile
<1>2. CASE PanicInState \/ Crash
  BY <1>2 DEF PanicInState, Crash, Return, clusterVars, SpecInv
<1>3. CASE AdvanceFails \/ Finish
  <2>1. \A u \in Triggers : trigger'[u].spec = trigger[u].spec
    BY <1>3, StatusKeepsSpec DEF AdvanceFails, ManageError, Finish, TypeOK, WorkerTyped
  <2> QED BY <1>3, <2>1 DEF AdvanceFails, ManageError, Finish, Return, SpecInv
<1>4. CASE PatchAdvance
  <2>1. \A u \in Triggers : trigger'[u].spec = trigger[u].spec
    BY <1>4, StatusKeepsSpec DEF PatchAdvance, TypeOK, WorkerTyped
  <2> QED BY <1>4, <2>1 DEF PatchAdvance, cacheVars, SpecInv
<1>5. CASE CalculateState
  BY <1>5 DEF CalculateState, clusterVars, cacheVars, localVars, SpecInv
<1>6. ASSUME UNCHANGED <<trigger, cachedTrigger, cur>>, pt'.spec = pt.spec,
             pc # "idle", UNCHANGED runs \/ \E pr : Store(pr)
      PROVE  SpecInv'
  <2>1. \A i \in 1..Len(runs') : OfItsSpecs(runs'[i])
    BY <1>6, StoreKeepsSpecs DEF SpecInv
  <2> QED BY <1>6, <2>1 DEF SpecInv
<1>7. CASE Advance
  BY <1>6, <1>7 DEF Advance, clusterVars, cacheVars, TypeOK, WorkerTyped, IsTrigger
<1>8. CASE \E pr \in prs : Adopt(pr) \/ NoneFound(pr) \/ LookupFails(pr)
  BY <1>6, <1>8 DEF Adopt, NoneFound, LookupFails, SetRunName, Settle,
                    clusterVars, cacheVars, TypeOK, WorkerTyped, IsTrigger
<1>9. CASE \E pr \in creating : Created(pr) \/ CreateRejected(pr) \/ CreateFails(pr)
  BY <1>6, <1>9 DEF Created, CreateRejected, CreateFails, SetRunName, Settle,
                    clusterVars, cacheVars, TypeOK, WorkerTyped, IsTrigger
<1>10. CASE DeliverRuns \/ DeliverSource \/ SourceChanges
            \/ \E i \in RunIds : Tekton(i) \/ RunPruned(i)
  BY <1>10
  DEF DeliverRuns, DeliverSource, SourceChanges, Tekton, TektonStarts,
      TektonFinishes, RunPruned, RunMoves, clusterVars, cacheVars, localVars,
      SpecInv
<1>11. CASE \E t \in Triggers : DeliverTrigger(t)
  BY <1>11 DEF DeliverTrigger, clusterVars, localVars, SpecInv, TypeOK, ManagerTyped
<1>12. CASE \E t \in Triggers : EditSpec(t)
  <2>1. PICK t \in Triggers : \E spec \in Specs[t] :
          /\ trigger' = [trigger EXCEPT ![t].generation = @ + 1, ![t].spec = spec]
          /\ UNCHANGED <<runs, cachedTrigger, pc, cur, pt>>
    BY <1>12 DEF EditSpec, cacheVars, localVars
  <2>2. \A u \in Triggers : trigger'[u].spec \in Specs[u]
    BY <2>1 DEF SpecInv, TypeOK, ClusterTyped, IsTrigger
  <2> QED BY <2>1, <2>2 DEF SpecInv
<1>13. CASE UNCHANGED vars
  BY <1>13 DEF vars, clusterVars, cacheVars, localVars, SpecInv
<1> QED BY <1>1, <1>2, <1>3, <1>4, <1>5, <1>7, <1>8, <1>9, <1>10, <1>11, <1>12,
           <1>13 DEF Next, ContinueReconcile, Deliver

LEMMA SpecInvariant == Spec => []SpecInv
<1>1. Init => SpecInv
  BY DEF Init, SpecInv
<1> QED BY <1>1, StepKeepsSpecs, TypeCorrect, AlwaysInOrder, PTL DEF Spec

\* The run for which a reconcile has nothing to start is one of its trigger, if
\* no two triggers use one pipeline and none leaves the choice to a resolver.
THEOREM WaitsForOwnRun ==
  ASSUME PipelinesNotShared
  PROVE  Spec => SuppressedByOwnRun
<1> DEFINE Step == pc = "state" /\ pc' = "finish" =>
                     \E i \in 1..Len(runs) : Existing(list[i]) /\ runs[i].owner = cur
<1>1. TypeOK /\ InOrder /\ NamingInv /\ SpecInv /\ [Next]_vars => Step
  <2> SUFFICES ASSUME TypeOK, InOrder, NamingInv, SpecInv, [Next]_vars,
                      pc = "state", pc' = "finish"
               PROVE  \E i \in 1..Len(runs) :
                        Existing(list[i]) /\ runs[i].owner = cur
    OBVIOUS
  <2>1. CalculateState
    BY DEF Next, ContinueReconcile, StartReconcile, StartChecked, StartRefused,
           StartUnsupported, StartBlind, Dequeue, PanicInState, Advance,
           AdvanceFails, Adopt, NoneFound, LookupFails, Created, CreateRejected,
           CreateFails, PatchAdvance, Finish, Return, Deliver, DeliverRuns,
           DeliverSource, DeliverTrigger, SourceChanges, EditSpec, Tekton,
           TektonStarts, TektonFinishes, RunPruned, RunMoves, Crash, vars
  <2>2. CalculateCurrentState(SourceRead, runs, list, pt.spec.pipeline)
    BY <2>1 DEF CalculateState
  <2>3. PICK i \in RunIds : /\ Existing(list[i])
                            /\ \/ pt.spec.pipeline = Resolver
                               \/ runs[i].pipeline = pt.spec.pipeline
    BY <2>2 DEF CalculateCurrentState, SingleCurrentState, SomeRunHasLabels
  <2>4. i \in 1..Len(runs)
    BY <2>3 DEF NamingInv, Seen, RunIds
  <2>5. runs[i].owner \in Triggers /\ cur \in Triggers
    <3>1. runs[i] \in Run
      BY <2>4 DEF TypeOK, ClusterTyped
    <3> QED BY <3>1 DEF Run, TypeOK, WorkerTyped
  <2>6. pt.spec \in Specs[cur] /\ OfItsSpecs(runs[i])
    BY <2>4 DEF SpecInv
  <2>7. runs[i].owner = cur
    BY <2>3, <2>5, <2>6 DEF PipelinesNotShared, OfItsSpecs
  <2> QED BY <2>3, <2>4, <2>7
<1> QED BY <1>1, TypeCorrect, AlwaysInOrder, NamingInvariant, SpecInvariant, PTL
        DEF Spec, SuppressedByOwnRun

-----------------------------------------------------------------------------
(* Built once.  As long as nothing is deleted this is OneRunPerRevision.    *)

\* Without a pruner a revision is built once, whatever fails and wherever the
\* manager crashes.
THEOREM BuiltOnceUnpruned ==
  ASSUME ~Pruning
  PROVE  Spec => []BuiltOnce
<1> DEFINE Inv == \A i \in RunIds : phase[i] # "pruned"
<1>1. Init => Inv
  BY DEF Init, NoRunsListed
<1>2. TypeOK /\ Inv /\ [Next]_vars => Inv'
  <2> SUFFICES ASSUME TypeOK, Inv, [Next]_vars PROVE Inv'
    OBVIOUS
  <2>1. CASE UNCHANGED phase
    BY <2>1
  <2>2. ASSUME NEW pr, Store(pr) PROVE Inv'
    BY <2>2 DEF Store, TypeOK, ClusterTyped
  <2>3. CASE \E pr \in creating : Created(pr) \/ CreateRejected(pr) \/ CreateFails(pr)
    BY <2>1, <2>2, <2>3 DEF Created, CreateRejected, CreateFails, clusterVars
  <2>4. CASE \E i \in RunIds : Tekton(i) \/ RunPruned(i)
    BY <2>4, ReconcilerAssumption
    DEF Tekton, TektonStarts, TektonFinishes, RunPruned, RunMoves, TypeOK,
        ClusterTyped
  <2>5. CASE \/ \E t \in Triggers : StartReconcile(t)
             \/ CalculateState \/ PanicInState \/ Advance \/ AdvanceFails
             \/ \E pr \in prs : Adopt(pr) \/ NoneFound(pr) \/ LookupFails(pr)
             \/ PatchAdvance \/ Finish
             \/ Deliver \/ SourceChanges \/ \E t \in Triggers : EditSpec(t)
             \/ Crash \/ UNCHANGED vars
    BY <2>1, <2>5
    DEF StartReconcile, StartChecked, StartRefused, StartUnsupported, StartBlind,
        CalculateState, PanicInState, Advance, AdvanceFails, Adopt, NoneFound,
        LookupFails, PatchAdvance, Finish, Deliver, DeliverRuns, DeliverSource,
        DeliverTrigger, SourceChanges, EditSpec, Crash, vars, clusterVars
  <2> QED BY <2>3, <2>4, <2>5 DEF Next, ContinueReconcile
<1>3. TypeOK /\ Inv /\ AtMostOneRun => BuiltOnce
  <2> SUFFICES ASSUME TypeOK, Inv, NEW i \in 1..Len(runs)
               PROVE  i \in RunIds /\ Existing(phase[i])
    BY DEF AtMostOneRun, BuiltOnce
  <2> QED BY SlotsAssumption DEF TypeOK, ClusterTyped, RunIds, Existing
<1> QED BY <1>1, <1>2, <1>3, TypeCorrect, OneRunPerRevision, PTL DEF Spec

-----------------------------------------------------------------------------
(* Built once, with a pruner.  The live lookup does not find a run that is  *)
(* gone: what keeps its revision from being built again is the slot, which  *)
(* is quiet for as long as the source stays at the revision.  known and     *)
(* given are history variables: what the source last was when it was read   *)
(* not to be empty, and what it has been at and left.                       *)

VARIABLES known, given

\* The references and revisions of a status, a source or a source's copy.
Pairs(held) == {<<k, held[k]>> : k \in DOMAIN held}

HistoryStep ==
  /\ known' = IF DOMAIN SourceRead' = {} THEN known ELSE SourceRead'
  /\ given' = given \union (Pairs(known) \ Pairs(known'))
  /\ Pairs(known') \intersect given' = {}

\* The source never goes back to a revision of a reference that it gave up.
\* Polls that brought nothing do not count.
SourceMovesOn ==
  known = SourceRead /\ given = {} /\ [][HistoryStep]_<<SourceRead, known, given>>

Starting == pc \in {"start", "create"}

\* A reconcile that starts runs writes what it started: the manager is not
\* restarted in between, and the patch goes through.
Recorded == Starting /\ ~Starting' => trigger'[cur].status = pt.status

StartsRecorded == [][Recorded]_vars

LabelsTellApart ==
  \A j, k \in Tracked, r, s \in AnyRevision :
    LabelsOf(j, r) = LabelsOf(k, s) => j = k /\ r = s

\* Every revision the operator may have been told of.
Told == given \union Pairs(known)

\* The references and revisions for which trigger t has built, gone runs included.
BuiltOf(t, rs) ==
  {held \in Tracked \X AnyRevision :
     \E i \in 1..Len(rs) : MadeFor(i, t, LabelsOf(held[1], held[2]), rs)}

\* A slot no edit of the spec makes a run for.
Quiet(slot) ==
  slot.conditions # {} /\ \A c \in slot.conditions : c.reason # "CreateRejected"

\* What was built is on a quiet slot, or will not come back.
Remembers(status, built, gone) ==
  \A k \in Tracked, r \in AnyRevision : <<k, r>> \in built =>
    IF k \in DOMAIN status /\ status[k].revision = r
      THEN Quiet(status[k]) ELSE <<k, r>> \in gone

\* A slot that may have a run started was made of something the source was at.
Noted(status, told) ==
  \A k \in DOMAIN status : <<k, status[k].revision>> \in told \/ Quiet(status[k])

-----------------------------------------------------------------------------
(* What the operations of a subscriber do to that memory.                   *)

\* No slot is lost, moved or made less quiet.
Grown(status, new) ==
  /\ \A k \in DOMAIN status :
       /\ k \in DOMAIN new /\ new[k].revision = status[k].revision
       /\ Quiet(status[k]) => Quiet(new[k])
  /\ \A k \in DOMAIN new \ DOMAIN status : Quiet(new[k])

LEMMA GrownRemembers ==
  ASSUME NEW status, NEW new, Grown(status, new), NEW built, NEW gone, NEW told
  PROVE  /\ Remembers(status, built, gone) => Remembers(new, built, gone)
         /\ Noted(status, told) => Noted(new, told)
BY DEF Grown, Remembers, Noted

LEMMA MemoryLasts ==
  ASSUME NEW status, NEW built, NEW gone, NEW later, gone \subseteq later
  PROVE  /\ Remembers(status, built, gone) => Remembers(status, built, later)
         /\ Noted(status, gone) => Noted(status, later)
BY DEF Remembers, Noted

\* Any condition but a rejection leaves a quiet slot quiet, and makes a blank
\* one quiet.
LEMMA ConditionKeepsQuiet ==
  ASSUME NEW slot \in Slot, NEW c \in Condition, c.reason # "CreateRejected",
         Quiet(slot) \/ slot.conditions = {}
  PROVE  Quiet(AddOrReplaceCondition(slot, c))
<1>1. AddOrReplaceCondition(slot, c).conditions
        = {d \in slot.conditions : d.type # c.type} \union {c}
  BY DEF AddOrReplaceCondition, Slot
<1> QED BY <1>1 DEF Quiet

\* A reconcile that failed read what was stored.
LEMMA ErrorPatchGrows ==
  ASSUME NEW status, IsStatus(status), NEW g \in Nat
  PROVE  Grown(status, ErrorPatch(status, status, g))
<1> DEFINE errored == ErrorPatch(status, status, g)
           e == ErrorCondition(g)
           blank == NewSlot(NoRevision, FALSE)
<1>1. e \in Condition /\ e.reason = "Failed"
  BY ConditionsTyped DEF ErrorCondition
<1>2. blank \in Slot /\ blank.conditions = {}
  BY NewSlotTyped DEF AnyRevision
<1>3. \A k \in DOMAIN status : status[k] \in Slot
  BY DEF IsStatus
<1>4. ASSUME NEW k \in DOMAIN status
      PROVE  LET new == [status[k] EXCEPT
                           !.conditions = AddOrReplaceCondition(status[k], e).conditions,
                           !.last = AddOrReplaceCondition(status[k], e).last]
             IN  /\ new.revision = status[k].revision
                 /\ Quiet(status[k]) => Quiet(new)
  <2> DEFINE added == AddOrReplaceCondition(status[k], e)
             new == [status[k] EXCEPT !.conditions = added.conditions,
                                      !.last = added.last]
  <2>1. new.revision = status[k].revision /\ new.conditions = added.conditions
    BY <1>3 DEF Slot
  <2>2. Quiet(status[k]) => Quiet(added)
    BY <1>1, <1>3, ConditionKeepsQuiet
  <2> QED BY <2>1, <2>2 DEF Quiet
<1>5. CASE ~IsPullRequest
  <2>1. DOMAIN status = Keys /\ errored = SingleErrorPatch(status, status, g)
    BY <1>5 DEF IsStatus, ErrorPatch
  <2> QED BY <1>4, <2>1 DEF SingleErrorPatch, Grown
<1>6. CASE IsPullRequest
  <2>1. errored = PullErrorPatch(status, status, g)
    BY <1>6 DEF ErrorPatch, PullErrorPatchAccepted
  <2>2. CASE DOMAIN status = {}
    <3>1. \A k \in DOMAIN errored : errored[k] = AddOrReplaceCondition(blank, e)
      BY <2>1, <2>2 DEF PullErrorPatch
    <3>2. Quiet(AddOrReplaceCondition(blank, e))
      BY <1>1, <1>2, ConditionKeepsQuiet
    <3> QED BY <2>2, <3>1, <3>2 DEF Grown
  <2>3. CASE DOMAIN status # {}
    BY <1>4, <2>1, <2>3 DEF PullErrorPatch, Grown
  <2> QED BY <2>2, <2>3
<1> QED BY <1>5, <1>6

LEMMA SetRunStatusGrows ==
  ASSUME NEW status, IsStatus(status), NEW phases, NEW g \in Nat
  PROVE  Grown(status, SetCurrentPipelineRunStatus(status, phases, g))
<1> DEFINE shown == SetCurrentPipelineRunStatus(status, phases, g)
<1>1. \A k \in DOMAIN status : status[k] \in Slot
  BY DEF IsStatus
<1>2. \A found : /\ RunCondition(found, g) \in Condition
                 /\ RunCondition(found, g).reason # "CreateRejected"
  BY ConditionsTyped DEF RunCondition
<1>3. /\ UnmarshalFailedCondition \in Condition
      /\ UnmarshalFailedCondition.reason # "CreateRejected"
  BY ConditionsTyped DEF UnmarshalFailedCondition
<1>4. DOMAIN shown = DOMAIN status
  BY DEF SetCurrentPipelineRunStatus, PullSetRunStatus, SingleSetRunStatus, IsStatus
<1>5. ASSUME NEW k \in DOMAIN status
      PROVE  \/ shown[k] = status[k]
             \/ \E c \in Condition : /\ c.reason # "CreateRejected"
                                     /\ shown[k] = AddOrReplaceCondition(status[k], c)
  <2>1. CASE IsPullRequest
    BY <1>2, <1>5, <2>1 DEF SetCurrentPipelineRunStatus, PullSetRunStatus
  <2>2. CASE ~IsPullRequest
    BY <1>2, <1>3, <1>5, <2>2
    DEF SetCurrentPipelineRunStatus, SingleSetRunStatus, IsStatus
  <2> QED BY <2>1, <2>2
<1>6. ASSUME NEW k \in DOMAIN status
      PROVE  /\ shown[k].revision = status[k].revision
             /\ Quiet(status[k]) => Quiet(shown[k])
  BY <1>1, <1>5, <1>6, AddOrReplaceTyped, ConditionKeepsQuiet
<1> QED BY <1>4, <1>6 DEF Grown

LEMMA SetRunNameGrows ==
  ASSUME NEW status, IsStatus(status), NEW labels, NEW run \in RunIds
  PROVE  Grown(status, SetCurrentPipelineRunName(status, labels, run))
<1> DEFINE named == SetCurrentPipelineRunName(status, labels, run)
<1>1. \A k \in DOMAIN status : status[k] \in Slot
  BY DEF IsStatus
<1>2. DOMAIN named = DOMAIN status
  BY DEF SetCurrentPipelineRunName, PullSetRunName, SingleSetRunName, IsStatus
<1>3. ASSUME NEW k \in DOMAIN status
      PROVE  named[k] = status[k] \/ named[k] = SetRun(status[k], run)
  BY <1>3 DEF SetCurrentPipelineRunName, PullSetRunName, SingleSetRunName, IsStatus
<1>4. ASSUME NEW k \in DOMAIN status
      PROVE  /\ SetRun(status[k], run).revision = status[k].revision
             /\ SetRun(status[k], run).conditions = status[k].conditions
  BY <1>1 DEF SetRun, Slot
<1> QED BY <1>2, <1>3, <1>4 DEF Grown, Quiet

\* The runs that are prepared are for slots that were not quiet, and now are.
LEMMA AnnounceGrows ==
  ASSUME NEW status, IsStatus(status), NEW g \in Nat, NEW params
  PROVE  LET announced == Announce(status, g, params)
         IN  /\ Grown(status, announced)
             /\ \A pr \in RunsToStart(status, g, params) :
                  /\ pr.key \in DOMAIN status
                  /\ pr.labels = LabelsOf(pr.key, status[pr.key].revision)
                  /\ ~Quiet(status[pr.key]) /\ Quiet(announced[pr.key])
<1> DEFINE announced == Announce(status, g, params)
           prepared == RunsToStart(status, g, params)
           retried(k) == IF RetryAfterSpecEdit(status[k].conditions, g)
                           THEN ClearConditions(status[k]) ELSE status[k]
           emptied(k) == [retried(k) EXCEPT !.details = FALSE]
           noted(k) == AddOrReplaceCondition(retried(k), UnmarshalFailedCondition)
           eligible(k) == SlotEligibleForCreate(status[k].conditions, g)
<1>1. \A k \in DOMAIN status : status[k] \in Slot
  BY DEF IsStatus
<1>2. /\ UnknownCondition(g) \in Condition /\ ErrorCondition(g) \in Condition
      /\ UnknownCondition(g).reason = "Unknown" /\ ErrorCondition(g).reason = "Failed"
      /\ UnmarshalFailedCondition \in Condition
      /\ UnmarshalFailedCondition.reason # "CreateRejected"
  BY ConditionsTyped
  DEF UnknownCondition, ErrorCondition, UnmarshalFailedCondition
<1>3. DOMAIN announced = DOMAIN status
  BY DEF Announce, PullAnnounce, SingleAnnounce, IsStatus
<1>4. ASSUME NEW k \in DOMAIN status
      PROVE  \/ ~eligible(k) /\ announced[k] = status[k]
             \/ /\ eligible(k)
                /\ \E base \in {retried(k), emptied(k), noted(k)} :
                     \E c \in {UnknownCondition(g), ErrorCondition(g)} :
                       announced[k] = AddOrReplaceCondition(base, c)
  <2>1. CASE IsPullRequest
    BY <1>4, <2>1 DEF Announce, PullAnnounce
  <2>2. CASE ~IsPullRequest
    BY <1>4, <2>2 DEF Announce, SingleAnnounce, IsStatus
  <2> QED BY <2>1, <2>2
<1>5. ASSUME NEW k \in DOMAIN status, eligible(k)
      PROVE  /\ ~Quiet(status[k]) /\ Quiet(announced[k])
             /\ announced[k].revision = status[k].revision
  <2>1. /\ retried(k) \in Slot /\ retried(k).conditions = {}
        /\ retried(k).revision = status[k].revision
    BY <1>1, <1>5, ClearTyped
    DEF SlotEligibleForCreate, ClearConditions, Slot
  <2>2. /\ emptied(k) \in Slot /\ emptied(k).conditions = {}
        /\ emptied(k).revision = status[k].revision
    BY <2>1 DEF Slot
  <2>3. /\ noted(k) \in Slot /\ Quiet(noted(k))
        /\ noted(k).revision = status[k].revision
    BY <1>2, <2>1, AddOrReplaceTyped, ConditionKeepsQuiet
  <2>4. PICK base \in {retried(k), emptied(k), noted(k)},
             c \in {UnknownCondition(g), ErrorCondition(g)} :
               announced[k] = AddOrReplaceCondition(base, c)
    BY <1>4, <1>5
  <2>5. Quiet(announced[k]) /\ announced[k].revision = status[k].revision
    <3>1. /\ base \in Slot /\ base.revision = status[k].revision
          /\ Quiet(base) \/ base.conditions = {}
      BY <2>1, <2>2, <2>4, <2>3
    <3>2. c \in Condition /\ c.reason # "CreateRejected"
      BY <1>2, <2>4
    <3>3. Quiet(AddOrReplaceCondition(base, c))
      BY <3>1, <3>2, ConditionKeepsQuiet
    <3>4. AddOrReplaceCondition(base, c).revision = base.revision
      BY <3>1, <3>2, AddOrReplaceTyped
    <3> QED BY <2>4, <3>1, <3>3, <3>4
  <2>6. ~Quiet(status[k])
    BY <1>5 DEF SlotEligibleForCreate, RetryAfterSpecEdit, Quiet
  <2> QED BY <2>5, <2>6
<1>6. Grown(status, announced)
  BY <1>3, <1>4, <1>5 DEF Grown
<1>7. ASSUME NEW pr \in prepared
      PROVE  /\ pr.key \in DOMAIN status /\ eligible(pr.key)
             /\ pr.labels = LabelsOf(pr.key, status[pr.key].revision)
  <2>1. CASE IsPullRequest
    BY <1>7, <2>1 DEF RunsToStart, PullRunsToStart, PullPrepares
  <2>2. CASE ~IsPullRequest
    BY <1>7, <2>2 DEF RunsToStart, SingleRunsToStart, SinglePrepares, IsStatus
  <2> QED BY <2>1, <2>2
<1> QED BY <1>5, <1>6, <1>7

\* The status is advanced to the source.  Nothing that was built is forgotten,
\* and what is not quiet was noted.
LEMMA LatestEventRemembers ==
  ASSUME NEW status, IsStatus(status), NEW event \in SourceStates,
         NEW now, DOMAIN event = {} \/ now = event,
         NEW gone, Pairs(now) \intersect gone = {},
         NEW built, built \subseteq gone \union Pairs(now),
         Remembers(status, built, gone),
         IsPullRequest => Noted(status, gone \union Pairs(now))
  PROVE  LET latest == GetLatestEvent(status, event)
         IN  /\ Remembers(latest, built, gone)
             /\ Noted(latest, gone \union Pairs(now))
<1> DEFINE latest == GetLatestEvent(status, event)
<1>1. CASE IsPullRequest /\ DOMAIN event = {}
  BY <1>1 DEF GetLatestEvent, PullLatestEvent
<1>2. CASE ~IsPullRequest \/ DOMAIN event # {}
  <2>1. now = event
    BY <1>2, KindAssumption DEF IsPullRequest, SourceStates
  <2>2. /\ DOMAIN latest = DOMAIN event
        /\ \A k \in DOMAIN event :
             \/ latest[k] = NewSlot(event[k], TRUE)
             \/ /\ k \in DOMAIN status /\ status[k].revision = event[k]
                /\ latest[k] = status[k]
    <3>1. CASE IsPullRequest
      BY <1>2, <3>1 DEF GetLatestEvent, PullLatestEvent
    <3>2. CASE ~IsPullRequest
      BY <3>2 DEF GetLatestEvent, SingleLatestEvent, SourceStates, IsStatus
    <3> QED BY <3>1, <3>2
  <2>3. \A k \in DOMAIN event : latest[k].revision = event[k]
    BY <2>2 DEF NewSlot
  <2>4. \A k \in DOMAIN event :
          k \in DOMAIN status /\ status[k].revision = event[k] => latest[k] = status[k]
    <3>1. CASE IsPullRequest
      BY <1>2, <3>1 DEF GetLatestEvent, PullLatestEvent
    <3>2. CASE ~IsPullRequest
      BY <3>2 DEF GetLatestEvent, SingleLatestEvent, SourceStates
    <3> QED BY <3>1, <3>2
  <2>5. Noted(latest, gone \union Pairs(now))
    BY <2>1, <2>2, <2>3 DEF Noted, Pairs
  <2>6. ASSUME NEW k \in Tracked, NEW r \in AnyRevision, <<k, r>> \in built
        PROVE  IF k \in DOMAIN latest /\ latest[k].revision = r
                 THEN Quiet(latest[k]) ELSE <<k, r>> \in gone
    <3>1. CASE k \in DOMAIN latest /\ latest[k].revision = r
      <4>1. <<k, r>> \in Pairs(now)
        BY <2>1, <2>2, <2>3, <3>1 DEF Pairs
      <4>2. <<k, r>> \notin gone
        BY <4>1
      <4>3. k \in DOMAIN status /\ status[k].revision = r /\ Quiet(status[k])
        BY <2>6, <4>2 DEF Remembers
      <4> QED BY <2>2, <2>3, <2>4, <3>1, <4>3
    <3>2. CASE ~(k \in DOMAIN latest /\ latest[k].revision = r)
      <4>1. <<k, r>> \notin Pairs(now)
        BY <2>1, <2>2, <2>3, <3>2 DEF Pairs
      <4> QED BY <2>6, <3>2, <4>1
    <3> QED BY <3>1, <3>2
  <2> QED BY <2>5, <2>6 DEF Remembers
<1> QED BY <1>1, <1>2

\* A run that could not be made leaves its slot with the revision it was for,
\* which was not built, or with what the slot was before.
LEMMA SettleRemembers ==
  ASSUME NEW status, IsStatus(status), NEW stored, IsStatus(stored),
         NEW g \in Nat, NEW permanent \in BOOLEAN, NEW key \in DOMAIN status,
         NEW labels, labels = LabelsOf(key, status[key].revision),
         \A k \in DOMAIN status \ {key} :
           LET settled == SettleFailedRun(status, stored, labels, g, permanent)
           IN  k \in DOMAIN settled /\ settled[k] = status[k],
         NEW built, <<key, status[key].revision>> \notin built,
         key \in DOMAIN stored /\ <<key, stored[key].revision>> \in built
           => Quiet(stored[key]),
         NEW gone, Remembers(status, built, gone), NEW told,
         <<key, status[key].revision>> \in told
  PROVE  LET settled == SettleFailedRun(status, stored, labels, g, permanent)
         IN  /\ Remembers(settled, built, gone)
             /\ IsPullRequest /\ Noted(status, told) /\ Noted(stored, told)
                  => Noted(settled, told)
<1> DEFINE settled == SettleFailedRun(status, stored, labels, g, permanent)
           e == ErrorCondition(g)
<1>1. /\ \A k \in DOMAIN status : status[k] \in Slot /\ k \in Tracked
      /\ \A k \in DOMAIN stored : stored[k] \in Slot
  BY DEF IsStatus, Tracked
<1>2. e \in Condition /\ e.reason = "Failed"
  BY ConditionsTyped DEF ErrorCondition
<1>3. DOMAIN settled \subseteq DOMAIN status
  BY DEF SettleFailedRun, PullSettleFailedRun, SingleSettleFailedRun, IsStatus
<1>4. ASSUME key \in DOMAIN settled
      PROVE  \/ settled[key].revision = status[key].revision
             \/ key \in DOMAIN stored /\ settled[key] = stored[key]
             \/ /\ ~IsPullRequest /\ key \in DOMAIN stored
                /\ settled[key] = AddOrReplaceCondition(stored[key], e)
  <2>1. RejectedSlot(status[key], g).revision = status[key].revision
    <3>1. /\ SetRun(ClearConditions(status[key]), NoRun) \in Slot
          /\ SetRun(ClearConditions(status[key]), NoRun).revision
               = status[key].revision
      BY <1>1, ClearTyped, SetRunTyped
    <3> QED BY <3>1, ConditionsTyped, AddOrReplaceTyped DEF RejectedSlot
  <2>2. CASE IsPullRequest
    BY <1>4, <2>1, <2>2 DEF SettleFailedRun, PullSettleFailedRun
  <2>3. CASE ~IsPullRequest
    BY <1>4, <2>1, <2>3 DEF SettleFailedRun, SingleSettleFailedRun, IsStatus
  <2> QED BY <2>2, <2>3
<1>5. ASSUME NEW k \in Tracked, NEW r \in AnyRevision, <<k, r>> \in built
      PROVE  IF k \in DOMAIN settled /\ settled[k].revision = r
               THEN Quiet(settled[k]) ELSE <<k, r>> \in gone
  <2>1. CASE k # key
    BY <1>3, <1>5, <2>1 DEF Remembers
  <2>2. CASE k = key
    <3>1. status[k].revision # r /\ <<k, r>> \in gone
      BY <1>5, <2>2 DEF Remembers
    <3>2. ASSUME k \in DOMAIN settled, settled[k].revision = r
          PROVE  Quiet(settled[k])
      <4>1. /\ key \in DOMAIN stored /\ stored[key] \in Slot
            /\ \/ settled[key] = stored[key]
               \/ settled[key] = AddOrReplaceCondition(stored[key], e)
        BY <1>1, <1>4, <2>2, <3>1, <3>2
      <4>2. stored[key].revision = r
        BY <1>2, <2>2, <3>2, <4>1, AddOrReplaceTyped
      <4>3. Quiet(stored[key])
        BY <1>5, <2>2, <4>1, <4>2
      <4> QED BY <1>2, <2>2, <4>1, <4>3, ConditionKeepsQuiet
    <3> QED BY <3>1, <3>2
  <2> QED BY <2>1, <2>2
<1>6. ASSUME IsPullRequest, Noted(status, told), Noted(stored, told)
      PROVE  Noted(settled, told)
  <2>1. ASSUME NEW k \in DOMAIN settled
        PROVE  <<k, settled[k].revision>> \in told \/ Quiet(settled[k])
    <3>1. CASE k # key
      BY <1>3, <1>6, <2>1, <3>1 DEF Noted
    <3>2. CASE k = key
      BY <1>4, <1>6, <2>1, <3>2 DEF Noted
    <3> QED BY <3>1, <3>2
  <2> QED BY <2>1 DEF Noted
<1> QED BY <1>5, <1>6 DEF Remembers

-----------------------------------------------------------------------------
(* The reconciler's memory.                                                 *)

\* The status that stands for trigger t: while its runs are started, the copy
\* that will be written.
Held(t) == IF Starting /\ cur = t THEN pt.status ELSE trigger[t].status

\* A prepared run is for a revision that was told and was not built, and neither
\* its slot nor what that was before will have a run started again.
PreparedOnce ==
  /\ prs \intersect creating = {}
  /\ \A pr \in Waiting :
       /\ pr.key \in DOMAIN pt.status
       /\ pr.labels = LabelsOf(pr.key, pt.status[pr.key].revision)
       /\ <<pr.key, pt.status[pr.key].revision>> \in Told \ BuiltOf(cur, runs)
       /\ Quiet(pt.status[pr.key])
       /\ pr.key \in DOMAIN before
          /\ <<pr.key, before[pr.key].revision>> \in BuiltOf(cur, runs)
            => Quiet(before[pr.key])

OnceInv ==
  /\ BuiltOnce
  /\ pc \in {"state", "event", "finish"} => pt.status = trigger[cur].status
  /\ \A t \in Triggers : BuiltOf(t, runs) \subseteq Told
  /\ \A t \in Triggers : Remembers(Held(t), BuiltOf(t, runs), given)
  /\ IsPullRequest =>
       /\ \A t \in Triggers : Noted(trigger[t].status, Told)
       /\ Noted(pt.status, Told) /\ Noted(before, Told)
  /\ PreparedOnce

\* The history only grows.
HistoryGrows == given \subseteq given' /\ Told \subseteq Told'

\* Two runs are not prepared for one reference.
LEMMA PreparedApart ==
  ASSUME TypeOK, PreparedOnce, NEW pr \in Waiting, NEW other \in Waiting,
         pr.key = other.key
  PROVE  pr = other
<1>1. pr \in PreparedRun /\ other \in PreparedRun
  BY DEF TypeOK, WorkerTyped, Waiting
<1>2. pr.labels = other.labels
  BY DEF PreparedOnce
<1>3. \A x \in PreparedRun : x = [key |-> x.key, labels |-> x.labels]
  BY DEF PreparedRun
<1> QED BY <1>1, <1>2, <1>3

\* Dealing with one prepared run leaves the others as they were.
LEMMA OthersStillPrepared ==
  ASSUME TypeOK, PreparedOnce, NEW pr \in Waiting, Told \subseteq Told',
         UNCHANGED <<before, cur>>, prs' \subseteq prs, creating' \subseteq creating,
         pr \notin Waiting',
         \A k \in DOMAIN pt.status \ {pr.key} :
           k \in DOMAIN pt'.status /\ pt'.status[k] = pt.status[k],
         \A k, r : <<k, r>> \in BuiltOf(cur, runs') =>
                     k = pr.key \/ <<k, r>> \in BuiltOf(cur, runs)
  PROVE  PreparedOnce'
<1>1. prs' \intersect creating' = {} /\ Waiting' \subseteq Waiting
  BY DEF PreparedOnce, Waiting
<1>2. ASSUME NEW other \in Waiting'
      PROVE  /\ other.key \in DOMAIN pt'.status
             /\ other.labels = LabelsOf(other.key, pt'.status[other.key].revision)
             /\ <<other.key, pt'.status[other.key].revision>>
                  \in Told' \ BuiltOf(cur, runs')
             /\ Quiet(pt'.status[other.key])
             /\ other.key \in DOMAIN before
                /\ <<other.key, before[other.key].revision>> \in BuiltOf(cur, runs')
                  => Quiet(before[other.key])
  <2>1. other \in Waiting /\ other.key # pr.key
    BY <1>1, <1>2, PreparedApart
  <2>2. pt'.status[other.key] = pt.status[other.key] /\ other.key \in DOMAIN pt'.status
    BY <2>1 DEF PreparedOnce
  <2> QED BY <2>1, <2>2 DEF PreparedOnce
<1>3. BuiltOf(cur, runs)' = BuiltOf(cur, runs')
  BY DEF BuiltOf
<1> QED BY <1>1, <1>2, <1>3 DEF PreparedOnce, Quiet

\* What is built does not depend on anything but the runs that were made.
LEMMA StoreBuilds ==
  ASSUME LabelsTellApart, TypeOK, NEW pr, NEW key \in Tracked, NEW r \in AnyRevision,
         pr.labels = LabelsOf(key, r), Store(pr)
  PROVE  /\ \A t \in Triggers :
              BuiltOf(t, runs') = IF t = cur THEN BuiltOf(t, runs) \union {<<key, r>>}
                                             ELSE BuiltOf(t, runs)
         /\ BuiltOnce /\ <<key, r>> \notin BuiltOf(cur, runs) => BuiltOnce'
<1> DEFINE made == [owner |-> cur, labels |-> pr.labels, pipeline |-> pt.spec.pipeline]
<1>0. PICK new : new = Len(runs) + 1
  OBVIOUS
<1>1. /\ runs \in Seq(Run) /\ Len(runs) \in Nat /\ runs' = Append(runs, made)
  BY DEF Store, TypeOK, ClusterTyped
<1>2. /\ Len(runs') = new /\ runs'[new] = made /\ 1..Len(runs') = 1..Len(runs) \union {new}
      /\ new \notin 1..Len(runs)
      /\ \A i \in 1..Len(runs) : runs'[i] = runs[i]
  BY <1>0, <1>1
<1>3. ASSUME NEW t \in Triggers, NEW k \in Tracked, NEW q \in AnyRevision
      PROVE  <<k, q>> \in BuiltOf(t, runs') <=>
               <<k, q>> \in BuiltOf(t, runs) \/ (t = cur /\ k = key /\ q = r)
  <2>1. MadeFor(new, t, LabelsOf(k, q), runs') <=> t = cur /\ k = key /\ q = r
    BY <1>2 DEF MadeFor, LabelsTellApart
  <2>2. \A i \in 1..Len(runs) :
          MadeFor(i, t, LabelsOf(k, q), runs') <=> MadeFor(i, t, LabelsOf(k, q), runs)
    BY <1>2 DEF MadeFor
  <2> QED BY <1>2, <2>1, <2>2 DEF BuiltOf
<1>4. ASSUME NEW t \in Triggers
      PROVE  BuiltOf(t, runs') = IF t = cur THEN BuiltOf(t, runs) \union {<<key, r>>}
                                            ELSE BuiltOf(t, runs)
  <2>1. /\ BuiltOf(t, runs) \subseteq Tracked \X AnyRevision
        /\ BuiltOf(t, runs') \subseteq Tracked \X AnyRevision
    BY DEF BuiltOf
  <2> QED BY <1>3, <2>1
<1>5. ASSUME BuiltOnce, <<key, r>> \notin BuiltOf(cur, runs) PROVE BuiltOnce'
  <2>1. \A i \in 1..Len(runs) : ~(runs[i].owner = cur /\ runs[i].labels = pr.labels)
    BY <1>5 DEF BuiltOf, MadeFor
  <2> QED BY <1>2, <1>5, <2>1 DEF BuiltOnce
<1> QED BY <1>4, <1>5

\* A step that touches neither runs, nor statuses, nor the worker.
LEMMA MemoryKept ==
  ASSUME OnceInv, HistoryGrows,
         UNCHANGED <<runs, pc, cur, pt, before, prs, creating>>,
         \A t \in Triggers : trigger'[t].status = trigger[t].status,
         cur \in Triggers
  PROVE  OnceInv'
<1>1. BuiltOnce' /\ PreparedOnce'
  BY DEF OnceInv, BuiltOnce, PreparedOnce, Waiting, BuiltOf, HistoryGrows, Quiet
<1>2. ASSUME NEW t \in Triggers
      PROVE  Remembers(Held(t)', BuiltOf(t, runs'), given')
  <2>1. Held(t)' = Held(t)
    BY DEF Held, Starting
  <2> QED BY <2>1, MemoryLasts DEF OnceInv, HistoryGrows
<1>3. IsPullRequest => /\ \A t \in Triggers : Noted(trigger'[t].status, Told')
                       /\ Noted(pt'.status, Told') /\ Noted(before', Told')
  BY MemoryLasts DEF OnceInv, HistoryGrows
<1>4. \A t \in Triggers : BuiltOf(t, runs') \subseteq Told'
  BY DEF OnceInv, HistoryGrows
<1> QED BY <1>1, <1>2, <1>3, <1>4 DEF OnceInv

\* A reconcile that returns leaves the memory to the stored statuses.
LEMMA ReturnRemembers ==
  ASSUME OnceInv, HistoryGrows, NEW q, Return(q), UNCHANGED runs,
         \A t \in Triggers : Remembers(trigger'[t].status, BuiltOf(t, runs), given),
         IsPullRequest => \A t \in Triggers : Noted(trigger'[t].status, Told)
  PROVE  OnceInv'
<1>1. BuiltOnce' /\ PreparedOnce' /\ ~Starting' /\ pc' = "idle"
  BY DEF OnceInv, Return, BuiltOnce, PreparedOnce, Waiting, Starting
<1>2. ASSUME NEW t \in Triggers
      PROVE  Remembers(Held(t)', BuiltOf(t, runs'), given')
  <2>1. Held(t)' = trigger'[t].status
    BY <1>1 DEF Held
  <2> QED BY <2>1, MemoryLasts DEF HistoryGrows
<1>3. IsPullRequest => /\ \A t \in Triggers : Noted(trigger'[t].status, Told')
                       /\ Noted(pt'.status, Told') /\ Noted(before', Told')
  <2>1. IsPullRequest => DOMAIN EmptyStatus = {}
    BY DEF EmptyStatus
  <2>2. pt'.status = EmptyStatus /\ before' = EmptyStatus
    BY BlankTyped DEF Return
  <2>3. IsPullRequest => Noted(EmptyStatus, Told')
    BY <2>1 DEF Noted
  <2> QED BY <2>2, <2>3, MemoryLasts DEF HistoryGrows
<1>4. \A t \in Triggers : BuiltOf(t, runs') \subseteq Told'
  BY DEF OnceInv, HistoryGrows
<1> QED BY <1>1, <1>2, <1>3, <1>4 DEF OnceInv

-----------------------------------------------------------------------------
(* Every step keeps the memory.                                             *)

\* What is known is what is read, and it was not given up.
HistInv ==
  /\ DOMAIN SourceRead = {} \/ known = SourceRead
  /\ Pairs(known) \intersect given = {}

\* A stored status in which nothing is forgotten takes the place of another one.
LEMMA StatusGrown ==
  ASSUME TypeOK, OnceInv, ~Starting, NEW t \in Triggers, NEW status, IsStatus(status),
         Grown(trigger[t].status, status),
         trigger' = [trigger EXCEPT ![t].status = status] \/ UNCHANGED trigger
  PROVE  /\ \A u \in Triggers : Remembers(trigger'[u].status, BuiltOf(u, runs), given)
         /\ IsPullRequest => \A u \in Triggers : Noted(trigger'[u].status, Told)
<1>1. \A u \in Triggers : Remembers(trigger[u].status, BuiltOf(u, runs), given)
  BY DEF OnceInv, Held
<1>2. ASSUME NEW u \in Triggers
      PROVE  Grown(trigger[u].status, trigger'[u].status)
  <2>1. Grown(trigger[u].status, trigger[u].status)
    BY DEF Grown
  <2>2. CASE trigger' = [trigger EXCEPT ![t].status = status]
    <3>1. DOMAIN trigger = Triggers /\ IsTrigger(trigger[t])
      BY DEF TypeOK, ClusterTyped
    <3>2. [trigger[t] EXCEPT !.status = status].status = status
      BY <3>1, TriggerTyped
    <3> QED BY <2>1, <2>2, <3>1, <3>2
  <2> QED BY <2>1, <2>2
<1> QED BY <1>1, <1>2, GrownRemembers DEF OnceInv

LEMMA ManageErrorRemembers ==
  ASSUME TypeOK, OnceInv, HistoryGrows, ~Starting, NEW t \in Triggers,
         NEW read, read.status = trigger[t].status, read.generation \in Nat,
         NEW spent, ManageError(t, read, spent), UNCHANGED runs
  PROVE  OnceInv'
<1> DEFINE errored == ErrorPatch(trigger[t].status, trigger[t].status, read.generation)
<1>1. IsStatus(trigger[t].status)
  BY DEF TypeOK, ClusterTyped, IsTrigger
<1>2. IsStatus(errored) /\ Grown(trigger[t].status, errored)
  BY <1>1, ErrorPatchTyped, ErrorPatchGrows
<1>3. /\ trigger' = [trigger EXCEPT ![t].status = errored] \/ UNCHANGED trigger
      /\ Return(queue \union {t})
  BY DEF ManageError
<1> QED BY <1>2, <1>3, StatusGrown, ReturnRemembers

LEMMA StartRemembers ==
  ASSUME "triggers" \notin Lagging, TypeOK, InOrder, OnceInv, HistoryGrows,
         NEW t \in Triggers, StartReconcile(t)
  PROVE  OnceInv'
<1>1. /\ TriggerRead(t) = trigger[t] /\ cur' = t /\ pc = "idle" /\ ~Starting
      /\ IsStatus(trigger[t].status) /\ trigger[t].generation \in Nat
      /\ UNCHANGED runs
  BY DEF TriggerRead, TypeOK, ClusterTyped, IsTrigger, Starting, StartReconcile,
         StartChecked, StartRefused, StartUnsupported, StartBlind, Dequeue, clusterVars
<1>2. CASE StartChecked(t)
  <2>1. /\ UNCHANGED <<runs, trigger, before, prs, creating>>
        /\ pc' = "state" /\ pt' = trigger[t]
        /\ prs = {} /\ creating = {}
    BY <1>1, <1>2 DEF StartChecked, clusterVars, InOrder
  <2>2. BuiltOnce' /\ PreparedOnce'
    BY <2>1 DEF OnceInv, BuiltOnce, PreparedOnce, Waiting
  <2>3. \A u \in Triggers : Remembers(Held(u)', BuiltOf(u, runs'), given')
    <3>1. ASSUME NEW u \in Triggers PROVE Held(u)' = Held(u)
      BY <1>1, <2>1 DEF Held, Starting
    <3> QED BY <2>1, <3>1, MemoryLasts DEF OnceInv, HistoryGrows
  <2>4. IsPullRequest => /\ \A u \in Triggers : Noted(trigger'[u].status, Told')
                         /\ Noted(pt'.status, Told') /\ Noted(before', Told')
    BY <2>1, MemoryLasts DEF OnceInv, HistoryGrows
  <2>5. \A u \in Triggers : BuiltOf(u, runs') \subseteq Told'
    BY <2>1 DEF OnceInv, HistoryGrows
  <2>6. pt'.status = trigger'[cur'].status
    BY <1>1, <2>1
  <2> QED BY <2>1, <2>2, <2>3, <2>4, <2>5, <2>6 DEF OnceInv
<1>3. CASE StartRefused(t)
  BY <1>1, <1>3, ManageErrorRemembers DEF StartRefused
<1>4. CASE StartUnsupported(t) \/ StartBlind(t)
  <2>1. UNCHANGED trigger /\ \E q : Return(q)
    BY <1>4 DEF StartUnsupported, StartBlind, clusterVars
  <2>2. \A u \in Triggers : Remembers(trigger[u].status, BuiltOf(u, runs), given)
    BY <1>1 DEF OnceInv, Held
  <2> QED BY <1>1, <2>1, <2>2, ReturnRemembers DEF OnceInv
<1> QED BY <1>2, <1>3, <1>4 DEF StartReconcile

LEMMA ReturnsRemember ==
  ASSUME TypeOK, InOrder, OnceInv, HistoryGrows, Recorded,
         PanicInState \/ AdvanceFails \/ Finish \/ Crash
  PROVE  OnceInv'
<1>1. /\ cur \in Triggers /\ UNCHANGED runs
      /\ IsStatus(pt.status) /\ pt.generation \in Nat
  BY DEF TypeOK, WorkerTyped, IsTrigger, PanicInState, AdvanceFails, Finish, Crash,
         clusterVars
<1>2. CASE PanicInState \/ Crash
  <2>1. UNCHANGED trigger /\ ~Starting' /\ \E q : Return(q)
    BY <1>2 DEF PanicInState, Crash, clusterVars, Return, Starting
  <2>2. \A u \in Triggers : Held(u) = trigger[u].status
    BY <2>1 DEF Held, Recorded
  <2> QED BY <1>1, <2>1, <2>2, ReturnRemembers DEF OnceInv
<1>3. CASE AdvanceFails
  BY <1>1, <1>3, ManageErrorRemembers DEF AdvanceFails, OnceInv, Starting
<1>4. CASE Finish
  <2> DEFINE shown == SetCurrentPipelineRunStatus(pt.status, list, pt.generation)
  <2>1. pt.status = trigger[cur].status /\ ~Starting
    BY <1>4 DEF Finish, OnceInv, Starting
  <2>2. IsStatus(shown) /\ Grown(trigger[cur].status, shown)
    BY <1>1, <2>1, SetRunStatusTyped, SetRunStatusGrows
  <2>3. /\ trigger' = [trigger EXCEPT ![cur].status = shown] \/ UNCHANGED trigger
        /\ Return(Requeue)
    BY <1>4 DEF Finish
  <2> QED BY <1>1, <2>1, <2>2, <2>3, StatusGrown, ReturnRemembers
<1> QED BY <1>2, <1>3, <1>4

LEMMA AdvanceRemembers ==
  ASSUME TypeOK, InOrder, OnceInv, HistInv, HistoryGrows, Advance
  PROVE  OnceInv'
<1> DEFINE latest == GetLatestEvent(pt.status, SourceRead)
           announced == Announce(latest, pt.generation, pt.spec.params)
           prepared == RunsToStart(latest, pt.generation, pt.spec.params)
           built == BuiltOf(cur, runs)
<1>1. /\ cur \in Triggers /\ IsTrigger(pt) /\ IsStatus(pt.status)
      /\ pt.generation \in Nat /\ SourceRead \in SourceStates
  BY ReadsTyped DEF TypeOK, WorkerTyped, IsTrigger
<1>2. /\ UNCHANGED <<runs, trigger, cur>>
      /\ before' = pt.status /\ prs' = prepared /\ creating' = {}
      /\ pc = "event" /\ pc' = "start" /\ ~Starting /\ Starting'
      /\ pt' = [pt EXCEPT !.status = announced]
      /\ pt.status = trigger[cur].status
  BY DEF Advance, InOrder, clusterVars, OnceInv, Starting
<1>3. IsStatus(latest) /\ IsStatus(announced) /\ prepared \subseteq PreparedRun
  BY <1>1, LatestEventTyped, AnnounceTyped
<1>4. pt'.status = announced
  BY <1>1, <1>2, <1>3, TriggerTyped
<1>5. Remembers(pt.status, built, given)
  BY <1>1, <1>2 DEF OnceInv, Held
<1>6. Remembers(latest, built, given) /\ Noted(latest, Told)
  <2>1. built \subseteq Told
    BY <1>1 DEF OnceInv
  <2>2. IsPullRequest => Noted(pt.status, Told)
    BY DEF OnceInv
  <2> HIDE DEF latest, built
  <2> QED BY <1>1, <1>5, <2>1, <2>2, LatestEventRemembers DEF HistInv, Told, latest
<1>7. /\ Grown(latest, announced)
      /\ \A pr \in prepared :
           /\ pr.key \in DOMAIN latest
           /\ pr.labels = LabelsOf(pr.key, latest[pr.key].revision)
           /\ ~Quiet(latest[pr.key]) /\ Quiet(announced[pr.key])
  BY <1>1, <1>3, AnnounceGrows
<1>8. Remembers(announced, built, given) /\ Noted(announced, Told)
  BY <1>6, <1>7, GrownRemembers
<1>9. PreparedOnce'
  <2>1. ASSUME NEW pr \in prepared
        PROVE  /\ pr.key \in DOMAIN announced
               /\ pr.labels = LabelsOf(pr.key, announced[pr.key].revision)
               /\ <<pr.key, announced[pr.key].revision>> \in Told \ built
               /\ Quiet(announced[pr.key])
               /\ pr.key \in DOMAIN pt.status
                  /\ <<pr.key, pt.status[pr.key].revision>> \in built
                    => Quiet(pt.status[pr.key])
    <3>1. /\ pr.key \in DOMAIN announced /\ pr.key \in DOMAIN latest
          /\ announced[pr.key].revision = latest[pr.key].revision
          /\ pr.key \in Tracked /\ latest[pr.key].revision \in AnyRevision
      BY <1>3, <1>7 DEF Grown, IsStatus, Tracked, Slot
    <3>2. <<pr.key, latest[pr.key].revision>> \in Told
      BY <1>6, <1>7, <3>1 DEF Noted
    <3>3. <<pr.key, latest[pr.key].revision>> \notin built
      BY <1>6, <1>7, <3>1 DEF Remembers
    <3>4. pr.key \in DOMAIN pt.status => pt.status[pr.key].revision \in AnyRevision
      BY <1>1 DEF IsStatus, Slot
    <3>5. pr.key \in DOMAIN pt.status /\ <<pr.key, pt.status[pr.key].revision>> \in built
            => Quiet(pt.status[pr.key])
      BY <1>5, <3>1, <3>4 DEF Remembers
    <3> QED BY <1>7, <3>1, <3>2, <3>3, <3>5
  <2>2. built = BuiltOf(cur', runs') /\ Told \subseteq Told' /\ Waiting' = prepared
    BY <1>2 DEF HistoryGrows, Waiting
  <2> HIDE DEF announced, prepared, built
  <2> QED BY <1>2, <1>4, <2>1, <2>2 DEF PreparedOnce
<1>10. \A u \in Triggers : Remembers(Held(u)', BuiltOf(u, runs'), given')
  <2>1. ASSUME NEW u \in Triggers PROVE Remembers(Held(u)', BuiltOf(u, runs), given)
    <3>1. Held(u)' = IF u = cur THEN announced ELSE trigger[u].status
      BY <1>2, <1>4 DEF Held
    <3>2. Held(u) = trigger[u].status
      BY <1>2 DEF Held
    <3> QED BY <1>8, <3>1, <3>2 DEF OnceInv
  <2> QED BY <1>2, <2>1, MemoryLasts DEF HistoryGrows
<1>11. IsPullRequest => /\ \A u \in Triggers : Noted(trigger'[u].status, Told')
                        /\ Noted(pt'.status, Told') /\ Noted(before', Told')
  BY <1>2, <1>4, <1>8, MemoryLasts DEF OnceInv, HistoryGrows
<1>12. /\ \A u \in Triggers : BuiltOf(u, runs') \subseteq Told'
       /\ BuiltOnce'
  BY <1>2 DEF OnceInv, HistoryGrows, BuiltOnce
<1> QED BY <1>2, <1>9, <1>10, <1>11, <1>12 DEF OnceInv

\* A prepared run that is settled was not built.
LEMMA SettledRemembers ==
  ASSUME LabelsTellApart, TypeOK, PreparedForKey, OnceInv, HistoryGrows,
         NEW pr \in Waiting, NEW permanent \in BOOLEAN, Settle(pr, permanent),
         prs' \subseteq prs, creating' \subseteq creating, pr \notin Waiting',
         UNCHANGED <<runs, trigger, cur, before>>, Starting, pc' = "start"
  PROVE  OnceInv'
<1> DEFINE settled == SettleFailedRun(pt.status, before, pr.labels,
                                      pt.generation, permanent)
<1>1. /\ cur \in Triggers /\ IsTrigger(pt) /\ IsStatus(pt.status) /\ IsStatus(before)
      /\ pt.generation \in Nat
  BY DEF TypeOK, WorkerTyped, IsTrigger
<1>2. IsStatus(settled) /\ pt'.status = settled
  BY <1>1, SettleTyped, TriggerTyped DEF Settle
<1>3. \A k \in DOMAIN pt.status \ {pr.key} :
        k \in DOMAIN pt'.status /\ pt'.status[k] = pt.status[k]
  BY OtherSlotsKept DEF LabelsTellApart, LabelsTellReferences
<1>4. /\ pr.key \in DOMAIN pt.status
      /\ pr.labels = LabelsOf(pr.key, pt.status[pr.key].revision)
      /\ <<pr.key, pt.status[pr.key].revision>> \in Told \ BuiltOf(cur, runs)
      /\ pr.key \in DOMAIN before
         /\ <<pr.key, before[pr.key].revision>> \in BuiltOf(cur, runs)
           => Quiet(before[pr.key])
  BY DEF OnceInv, PreparedOnce
<1>5. Remembers(pt.status, BuiltOf(cur, runs), given)
  BY <1>1 DEF OnceInv, Held
<1>6. /\ Remembers(settled, BuiltOf(cur, runs), given)
      /\ IsPullRequest => Noted(settled, Told)
  <2>1. \A k \in DOMAIN pt.status \ {pr.key} :
          k \in DOMAIN settled /\ settled[k] = pt.status[k]
    BY <1>2, <1>3
  <2>2. IsPullRequest => Noted(pt.status, Told) /\ Noted(before, Told)
    BY DEF OnceInv
  <2> QED BY <1>1, <1>4, <1>5, <2>1, <2>2, SettleRemembers
<1>7. PreparedOnce'
  BY <1>3, OthersStillPrepared DEF OnceInv, HistoryGrows
<1>8. \A u \in Triggers : Remembers(Held(u)', BuiltOf(u, runs'), given')
  <2>1. ASSUME NEW u \in Triggers PROVE Remembers(Held(u)', BuiltOf(u, runs), given)
    <3>1. Held(u)' = IF u = cur THEN settled ELSE Held(u)
      BY <1>2 DEF Held, Starting
    <3> QED BY <1>6, <3>1 DEF OnceInv
  <2> QED BY <2>1, MemoryLasts DEF HistoryGrows
<1>9. IsPullRequest => /\ \A u \in Triggers : Noted(trigger'[u].status, Told')
                       /\ Noted(pt'.status, Told') /\ Noted(before', Told')
  BY <1>2, <1>6, MemoryLasts DEF OnceInv, HistoryGrows
<1>10. /\ \A u \in Triggers : BuiltOf(u, runs') \subseteq Told'
       /\ BuiltOnce'
  BY DEF OnceInv, HistoryGrows, BuiltOnce
<1> QED BY <1>7, <1>8, <1>9, <1>10 DEF OnceInv

\* The run that is created is the first one for its revision.
LEMMA CreatedRemembers ==
  ASSUME LabelsTellApart, TypeOK, InOrder, PreparedForKey, OnceInv, HistoryGrows,
         NEW pr \in creating, Created(pr)
  PROVE  OnceInv'
<1> DEFINE run == Len(runs) + 1
           named == SetCurrentPipelineRunName(pt.status, pr.labels, run)
           rev == pt.status[pr.key].revision
<1>1. /\ cur \in Triggers /\ IsTrigger(pt) /\ IsStatus(pt.status)
      /\ pr \in Waiting
  BY DEF TypeOK, WorkerTyped, IsTrigger, Waiting
<1>2. /\ UNCHANGED <<trigger, cur, before>> /\ Store(pr) /\ SetRunName(pr, run)
      /\ prs' = prs /\ creating' = {} /\ Starting /\ pc' = "start"
      /\ run \in RunIds
  BY SlotsAssumption
  DEF Created, Store, Starting, TypeOK, ClusterTyped, RunIds
<1>3. /\ pr.key \in DOMAIN pt.status /\ pr.labels = LabelsOf(pr.key, rev)
      /\ <<pr.key, rev>> \in Told \ BuiltOf(cur, runs)
      /\ Quiet(pt.status[pr.key]) /\ pr \notin prs
      /\ pr.key \in Tracked /\ rev \in AnyRevision
  BY <1>1 DEF OnceInv, PreparedOnce, IsStatus, Tracked, Slot
<1>4. IsStatus(named) /\ pt'.status = named
  BY <1>1, <1>2, SetRunNameTyped, TriggerTyped DEF SetRunName
<1>5. /\ \A t \in Triggers :
           BuiltOf(t, runs') = IF t = cur THEN BuiltOf(t, runs) \union {<<pr.key, rev>>}
                                          ELSE BuiltOf(t, runs)
      /\ BuiltOnce'
  BY <1>2, <1>3, StoreBuilds DEF OnceInv
<1>6. Grown(pt.status, named)
  BY <1>1, <1>2, SetRunNameGrows
<1>7. Remembers(named, BuiltOf(cur, runs'), given)
  <2>1. Remembers(named, BuiltOf(cur, runs), given)
    BY <1>1, <1>2, <1>6, GrownRemembers DEF OnceInv, Held
  <2>2. /\ pr.key \in DOMAIN named /\ named[pr.key].revision = rev
        /\ Quiet(named[pr.key])
    BY <1>3, <1>6 DEF Grown
  <2> QED BY <1>1, <1>5, <2>1, <2>2 DEF Remembers
<1>8. PreparedOnce'
  <2>1. \A k \in DOMAIN pt.status \ {pr.key} :
          k \in DOMAIN pt'.status /\ pt'.status[k] = pt.status[k]
    BY <1>1, <1>2, OtherSlotsKept DEF LabelsTellApart, LabelsTellReferences
  <2>2. \A k, r : <<k, r>> \in BuiltOf(cur, runs') =>
                    k = pr.key \/ <<k, r>> \in BuiltOf(cur, runs)
    BY <1>1, <1>5
  <2>3. pr \notin Waiting' /\ creating' \subseteq creating
    BY <1>2, <1>3 DEF Waiting
  <2> QED BY <1>1, <1>2, <2>1, <2>2, <2>3, OthersStillPrepared
          DEF OnceInv, HistoryGrows
<1>9. \A u \in Triggers : Remembers(Held(u)', BuiltOf(u, runs'), given')
  <2>1. ASSUME NEW u \in Triggers PROVE Remembers(Held(u)', BuiltOf(u, runs'), given)
    <3>1. Held(u)' = IF u = cur THEN named ELSE Held(u)
      BY <1>2, <1>4 DEF Held, Starting
    <3> QED BY <1>5, <1>7, <3>1 DEF OnceInv
  <2> QED BY <2>1, MemoryLasts DEF HistoryGrows
<1>10. IsPullRequest => /\ \A u \in Triggers : Noted(trigger'[u].status, Told')
                        /\ Noted(pt'.status, Told') /\ Noted(before', Told')
  BY <1>2, <1>4, <1>6, GrownRemembers, MemoryLasts DEF OnceInv, HistoryGrows
<1>11. \A u \in Triggers : BuiltOf(u, runs') \subseteq Told'
  BY <1>3, <1>5 DEF OnceInv, HistoryGrows
<1> QED BY <1>2, <1>5, <1>8, <1>9, <1>10, <1>11 DEF OnceInv

LEMMA StartRunsRemember ==
  ASSUME LabelsTellApart, "landed" \notin Faults, TypeOK, InOrder, NamingInv,
         PreparedForKey, OnceInv, HistoryGrows, NEW pr \in Waiting,
         \/ pr \in prs /\ (Adopt(pr) \/ NoneFound(pr) \/ LookupFails(pr))
         \/ pr \in creating /\ (Created(pr) \/ CreateRejected(pr) \/ CreateFails(pr))
  PROVE  OnceInv'
<1>0. pr \in prs => pr \notin creating
  BY DEF OnceInv, PreparedOnce
<1>1. CASE Adopt(pr)
  <2>1. PICK run \in RunIds : \/ run \in OwnedRuns(runs, list, cur, pr.labels)
                              \/ run \in OwnedRuns(runs, phase, cur, pr.labels)
    BY <1>1 DEF Adopt, OwnedInList, OwnedLive, FindExistingRun, OwnedRuns
  <2>2. MadeFor(run, cur, pr.labels, runs)
    BY <2>1, ReadsSeen DEF OwnedRuns, MadeFor, NamingInv, Seen, RunIds
  <2>3. /\ pr.key \in Tracked /\ pt.status[pr.key].revision \in AnyRevision
        /\ pr.labels = LabelsOf(pr.key, pt.status[pr.key].revision)
        /\ <<pr.key, pt.status[pr.key].revision>> \notin BuiltOf(cur, runs)
    BY DEF OnceInv, PreparedOnce, TypeOK, WorkerTyped, IsTrigger, IsStatus, Tracked,
           Slot
  <2> QED BY <2>2, <2>3 DEF BuiltOf, MadeFor
<1>2. CASE NoneFound(pr)
  <2>1. /\ UNCHANGED <<runs, trigger, cur, pt, before>> /\ Waiting' = Waiting
        /\ prs' \intersect creating' = {} /\ Starting /\ Starting'
    BY <1>2 DEF NoneFound, clusterVars, Waiting, Starting, InOrder
  <2>2. PreparedOnce' /\ BuiltOnce'
    BY <2>1 DEF OnceInv, PreparedOnce, HistoryGrows, BuiltOnce, BuiltOf, Quiet
  <2>3. \A u \in Triggers : Remembers(Held(u)', BuiltOf(u, runs'), given')
    <3>1. ASSUME NEW u \in Triggers PROVE Held(u)' = Held(u)
      BY <2>1 DEF Held
    <3> QED BY <2>1, <3>1, MemoryLasts DEF OnceInv, HistoryGrows
  <2>4. IsPullRequest => /\ \A u \in Triggers : Noted(trigger'[u].status, Told')
                         /\ Noted(pt'.status, Told') /\ Noted(before', Told')
    BY <2>1, MemoryLasts DEF OnceInv, HistoryGrows
  <2>5. \A u \in Triggers : BuiltOf(u, runs') \subseteq Told'
    BY <2>1 DEF OnceInv, HistoryGrows
  <2> QED BY <2>1, <2>2, <2>3, <2>4, <2>5 DEF OnceInv, Starting
<1>3. CASE pr \in prs /\ LookupFails(pr)
  <2>1. /\ \E permanent \in BOOLEAN : Settle(pr, permanent)
        /\ prs' \subseteq prs /\ creating' \subseteq creating /\ pr \notin Waiting'
        /\ UNCHANGED <<runs, trigger, cur, before>> /\ Starting /\ pc' = "start"
    BY <1>0, <1>3 DEF LookupFails, clusterVars, Waiting, Starting
  <2> QED BY <2>1, SettledRemembers
<1>4. CASE pr \in creating /\ (CreateRejected(pr) \/ CreateFails(pr))
  <2>1. /\ \E permanent \in BOOLEAN : Settle(pr, permanent)
        /\ prs' \subseteq prs /\ creating' \subseteq creating /\ pr \notin Waiting'
        /\ UNCHANGED <<runs, trigger, cur, before>> /\ Starting /\ pc' = "start"
    BY <1>0, <1>4 DEF CreateRejected, CreateFails, Fails, clusterVars, Waiting, Starting
  <2> QED BY <2>1, SettledRemembers
<1> QED BY <1>1, <1>2, <1>3, <1>4, CreatedRemembers

\* The state is found, or what was started is written.
LEMMA WorkerRemembers ==
  ASSUME TypeOK, OnceInv, HistoryGrows, Recorded, CalculateState \/ PatchAdvance
  PROVE  OnceInv'
<1>1. /\ UNCHANGED <<runs, cur, pt, before, prs, creating>> /\ ~Starting'
      /\ cur \in Triggers
  BY DEF CalculateState, PatchAdvance, clusterVars, localVars, Starting, TypeOK,
         WorkerTyped
<1>2. ASSUME NEW u \in Triggers PROVE trigger'[u].status = Held(u)
  <2>1. CASE CalculateState
    BY <2>1 DEF CalculateState, clusterVars, Held, Starting
  <2>2. CASE PatchAdvance
    <3>1. u # cur => trigger'[u] = trigger[u]
      BY <2>2 DEF PatchAdvance, TypeOK, ClusterTyped
    <3> QED BY <1>1, <2>2, <3>1 DEF PatchAdvance, Recorded, Held, Starting
  <2> QED BY <2>1, <2>2
<1>3. pt'.status = trigger'[cur'].status
  BY <1>1, <1>2 DEF CalculateState, PatchAdvance, Held, OnceInv, Starting
<1>4. PreparedOnce' /\ BuiltOnce'
  BY <1>1 DEF OnceInv, PreparedOnce, HistoryGrows, Waiting, BuiltOnce, BuiltOf, Quiet
<1>5. \A u \in Triggers : Remembers(Held(u)', BuiltOf(u, runs'), given')
  <2>1. ASSUME NEW u \in Triggers PROVE Held(u)' = Held(u)
    BY <1>1, <1>2 DEF Held
  <2> QED BY <1>1, <2>1, MemoryLasts DEF OnceInv, HistoryGrows
<1>6. IsPullRequest => /\ \A u \in Triggers : Noted(trigger'[u].status, Told')
                       /\ Noted(pt'.status, Told') /\ Noted(before', Told')
  <2>1. ASSUME NEW u \in Triggers, IsPullRequest PROVE Noted(trigger'[u].status, Told)
    BY <1>2, <2>1 DEF OnceInv, Held
  <2> QED BY <1>1, <2>1, MemoryLasts DEF OnceInv, HistoryGrows
<1>7. \A u \in Triggers : BuiltOf(u, runs') \subseteq Told'
  BY <1>1 DEF OnceInv, HistoryGrows
<1> QED BY <1>3, <1>4, <1>5, <1>6, <1>7 DEF OnceInv

LEMMA EnvironmentRemembers ==
  ASSUME TypeOK, OnceInv, HistoryGrows,
         \/ Deliver
         \/ \E i \in RunIds : Tekton(i) \/ RunPruned(i)
         \/ SourceChanges \/ \E t \in Triggers : EditSpec(t)
         \/ UNCHANGED vars
  PROVE  OnceInv'
<1>1. UNCHANGED <<runs, pc, cur, pt, before, prs, creating>>
  BY DEF Deliver, DeliverRuns, DeliverSource, DeliverTrigger, Tekton, TektonStarts,
         TektonFinishes, RunPruned, RunMoves, SourceChanges, EditSpec, vars,
         clusterVars, localVars
<1>2. \A u \in Triggers : trigger'[u].status = trigger[u].status
  <2>1. CASE \E t \in Triggers : EditSpec(t)
    BY <2>1 DEF EditSpec, TypeOK, ClusterTyped, IsTrigger
  <2>2. CASE ~ \E t \in Triggers : EditSpec(t)
    BY <2>2 DEF Deliver, DeliverRuns, DeliverSource, DeliverTrigger, Tekton,
                TektonStarts, TektonFinishes, RunPruned, RunMoves, SourceChanges,
                vars, clusterVars
  <2> QED BY <2>1, <2>2
<1> QED BY <1>1, <1>2, MemoryKept DEF TypeOK, WorkerTyped

LEMMA StepRemembers ==
  ASSUME LabelsTellApart, "triggers" \notin Lagging, "landed" \notin Faults,
         TypeOK, InOrder, NamingInv, PreparedForKey, HistInv, OnceInv,
         HistoryGrows, [Next]_vars, [Recorded]_vars
  PROVE  OnceInv'
<1>1. CASE UNCHANGED vars
  BY <1>1, EnvironmentRemembers
<1>2. CASE Next /\ Recorded
  BY <1>2, StartRemembers, AdvanceRemembers, ReturnsRemember, StartRunsRemember,
     WorkerRemembers, EnvironmentRemembers
  DEF Next, ContinueReconcile, Waiting
<1> QED BY <1>1, <1>2

\* The history is one of what the operator reads, and only grows.
LEMMA HistoryLasts ==
  ASSUME HistInv, [HistoryStep]_<<SourceRead, known, given>>
  PROVE  HistInv' /\ HistoryGrows
<1>1. CASE HistoryStep
  BY <1>1 DEF HistoryStep, HistInv, HistoryGrows, Told
<1>2. CASE UNCHANGED <<SourceRead, known, given>>
  BY <1>2 DEF HistInv, HistoryGrows, Told, Pairs
<1> QED BY <1>1, <1>2

\* With a pruner too, a revision is built once: if the source does not return to
\* a revision it gave up, and as long as what a reconcile has started is written,
\* read back and never reported as failed.
THEOREM BuiltOncePruned ==
  ASSUME LabelsTellApart, "triggers" \notin Lagging, "landed" \notin Faults
  PROVE  Spec /\ StartsRecorded /\ SourceMovesOn => []BuiltOnce
<1>1. Init /\ known = SourceRead /\ given = {} => HistInv /\ OnceInv
  <2> SUFFICES ASSUME Init, known = SourceRead, given = {}
               PROVE  HistInv /\ OnceInv
    OBVIOUS
  <2>1. /\ runs = <<>> /\ prs = {} /\ creating = {} /\ pc = "idle"
        /\ before = EmptyStatus /\ pt.status = EmptyStatus
        /\ \A t \in Triggers : trigger[t].status = EmptyStatus
    BY BlankTyped DEF Init
  <2>2. \A t \in Triggers : BuiltOf(t, runs) = {}
    BY <2>1 DEF BuiltOf, MadeFor
  <2>3. IsPullRequest => Noted(EmptyStatus, Told)
    BY DEF EmptyStatus, Noted
  <2>4. \A t \in Triggers : Remembers(Held(t), {}, given)
    BY DEF Remembers
  <2>5. BuiltOnce /\ PreparedOnce
    BY <2>1 DEF BuiltOnce, PreparedOnce, Waiting
  <2> QED BY <2>1, <2>2, <2>3, <2>4, <2>5 DEF HistInv, OnceInv
<1>2. HistInv /\ [HistoryStep]_<<SourceRead, known, given>> => HistInv' /\ HistoryGrows
  BY HistoryLasts
<1>3. /\ TypeOK /\ InOrder /\ NamingInv /\ PreparedForKey /\ HistInv /\ OnceInv
      /\ HistoryGrows /\ [Next]_vars /\ [Recorded]_vars
      => OnceInv'
  BY StepRemembers
<1>4. OnceInv => BuiltOnce
  BY DEF OnceInv
<1> QED BY <1>1, <1>2, <1>3, <1>4, TypeCorrect, AlwaysInOrder, NamingInvariant,
           PreparedForKeyInvariant, PTL DEF Spec, StartsRecorded, SourceMovesOn
=============================================================================

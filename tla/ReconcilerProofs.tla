-------------------------- MODULE ReconcilerProofs --------------------------
(***************************************************************************)
(* Proofs about the reconciler: its types, that it never makes two runs of *)
(* one revision and that it strands no slot.                               *)
(***************************************************************************)
EXTENDS Reconciler, SubscriberProofs

\* The part of a trigger that is not its status stays what it was.
LEMMA TriggerTyped ==
  ASSUME NEW t, IsTrigger(t), NEW status, IsStatus(status)
  PROVE  /\ IsTrigger([t EXCEPT !.status = status])
         /\ [t EXCEPT !.status = status].status = status
         /\ [t EXCEPT !.status = status].generation = t.generation
         /\ [t EXCEPT !.status = status].spec = t.spec
<1> DEFINE u == [t EXCEPT !.status = status]
<1>1. /\ DOMAIN u = {"generation", "spec", "status"}
      /\ u.generation = t.generation /\ u.spec = t.spec /\ u.status = status
  BY DEF IsTrigger
<1>2. u = [generation |-> u.generation, spec |-> u.spec, status |-> u.status]
  BY DEF IsTrigger
<1> HIDE DEF u
<1>3. IsTrigger(u)
  BY <1>1, <1>2 DEF IsTrigger
<1> QED BY <1>1, <1>3 DEF u

LEMMA BlankTyped == IsTrigger(BlankTrigger) /\ BlankTrigger.status = EmptyStatus
<1>1. BlankTrigger.spec \in TriggerSpec
  BY DEF BlankTrigger, TriggerSpec, PipelineRefs
<1> QED BY <1>1, EmptyStatusTyped DEF IsTrigger, BlankTrigger

LEMMA NoRunsTyped == NoRunsListed \in [RunIds -> Phases]
BY DEF NoRunsListed, Phases

\* Everything starts with its type.
LEMMA InitTyped == Init => TypeOK
<1> SUFFICES ASSUME Init PROVE TypeOK
  OBVIOUS
<1>1. DOMAIN trigger = Triggers /\ \A t \in Triggers : IsTrigger(trigger[t])
  <2> PICK written \in [Triggers -> UNION {Specs[t] : t \in Triggers}] :
        /\ \A t \in Triggers : written[t] \in Specs[t]
        /\ trigger = [t \in Triggers |-> [generation |-> 1, spec |-> written[t],
                                         status |-> EmptyStatus]]
    BY DEF Init
  <2>1. ASSUME NEW t \in Triggers PROVE written[t] \in TriggerSpec
    BY ReconcilerAssumption
  <2> QED BY <2>1, EmptyStatusTyped DEF IsTrigger
<1>2. ClusterTyped
  <2>1. runs \in Seq(Run) /\ Len(runs) = 0 /\ phase = NoRunsListed
    BY DEF Init
  <2>2. \A i \in RunIds : phase[i] = "absent" /\ i > 0
    BY <2>1, SlotsAssumption DEF NoRunsListed, RunIds
  <2> QED BY <1>1, <2>1, <2>2, NoRunsTyped, SlotsAssumption DEF ClusterTyped, Init
<1>3. ManagerTyped
  BY <1>1, NoRunsTyped DEF Init, ManagerTyped
<1>4. WorkerTyped
  BY BlankTyped, NoRunsTyped, EmptyStatusTyped DEF Init, WorkerTyped
<1>5. BudgetTyped
  BY ReconcilerAssumption DEF Init, BudgetTyped
<1> QED BY <1>2, <1>3, <1>4, <1>5 DEF TypeOK
-----------------------------------------------------------------------------
(* What the worker reads has a type, and so has what it holds when it is    *)
(* idle again.                                                              *)

LEMMA ReadsTyped ==
  ASSUME TypeOK
  PROVE  /\ \A t \in Triggers : IsTrigger(TriggerRead(t))
         /\ RunsRead \in [RunIds -> Phases]
         /\ SourceRead \in SourceStates
BY DEF TypeOK, ClusterTyped, ManagerTyped, TriggerRead, RunsRead, SourceRead

LEMMA ReturnTyped ==
  ASSUME NEW q, Return(q), cur' \in Triggers
  PROVE  WorkerTyped' /\ queue' = q
BY BlankTyped, NoRunsTyped, EmptyStatusTyped DEF Return, WorkerTyped

LEMMA FailureTyped ==
  ASSUME BudgetTyped, NEW kind, Fails(kind)
  PROVE  faults' \in Nat
BY DEF BudgetTyped, Fails

\* ManageError leaves every trigger a trigger.
LEMMA ErrorPatchedTyped ==
  ASSUME NEW stored, IsTrigger(stored), NEW read, IsTrigger(read)
  PROVE  IsTrigger([stored EXCEPT !.status =
                      ErrorPatch(@, read.status, read.generation)])
<1>1. /\ IsStatus(stored.status) /\ IsStatus(read.status) /\ read.generation \in Nat
  BY DEF IsTrigger
<1>2. IsStatus(ErrorPatch(stored.status, read.status, read.generation))
  BY <1>1, ErrorPatchTyped
<1> QED BY <1>2, TriggerTyped
-----------------------------------------------------------------------------
(* Every step keeps the types.                                              *)

LEMMA StartTyped ==
  ASSUME TypeOK, NEW t \in Triggers, StartReconcile(t)
  PROVE  TypeOK'
<1>1. cur' = t
  BY DEF StartReconcile, StartChecked, StartRefused, StartUnsupported,
         StartBlind, Dequeue
<1>2. CASE StartChecked(t)
  BY <1>1, <1>2, ReadsTyped
  DEF TypeOK, StartChecked, clusterVars, budgetVars, ClusterTyped, ManagerTyped,
      WorkerTyped, BudgetTyped
<1>3. CASE StartRefused(t)
  <2> DEFINE read == TriggerRead(t)
  <2>1. Return(queue \union {t})
    BY <1>3 DEF StartRefused, ManageError
  <2>2. WorkerTyped' /\ queue' = queue \union {t}
    BY <1>1, <2>1, ReturnTyped
  <2>3. faults' \in Nat
    BY <1>3 DEF StartRefused, ManageError, TypeOK, BudgetTyped
  <2>4. IsTrigger(read) /\ IsTrigger(trigger[t])
    BY ReadsTyped DEF TypeOK, ClusterTyped
  <2>5. IsTrigger([trigger[t] EXCEPT !.status =
                     ErrorPatch(@, read.status, read.generation)])
    BY <2>4, ErrorPatchedTyped
  <2>6. DOMAIN trigger' = Triggers /\ \A u \in Triggers : IsTrigger(trigger'[u])
    BY <1>3, <2>5 DEF StartRefused, ManageError, TypeOK, ClusterTyped
  <2> QED BY <1>3, <2>2, <2>3, <2>6
      DEF StartRefused, TypeOK, ClusterTyped, ManagerTyped, BudgetTyped
<1>4. CASE StartUnsupported(t)
  <2>1. WorkerTyped' /\ queue' = queue \ {t}
    BY <1>1, <1>4, ReturnTyped DEF StartUnsupported
  <2> QED BY <1>4, <2>1
      DEF StartUnsupported, clusterVars, budgetVars, TypeOK, ClusterTyped,
          ManagerTyped, BudgetTyped
<1>5. CASE StartBlind(t)
  <2>1. WorkerTyped' /\ queue' = queue
    BY <1>1, <1>5, ReturnTyped DEF StartBlind
  <2>2. faults' \in Nat
    BY <1>5, FailureTyped DEF StartBlind, TypeOK
  <2> QED BY <1>5, <2>1, <2>2
      DEF StartBlind, clusterVars, TypeOK, ClusterTyped, ManagerTyped, BudgetTyped
<1> QED BY <1>2, <1>3, <1>4, <1>5 DEF StartReconcile

\* The name of the run that was adopted is the id of one.
LEMMA AdoptedTyped ==
  ASSUME NEW phases, NEW trig, NEW labels
  PROVE  FindExistingRun(OwnedRuns(runs, phases, trig, labels), phases) \subseteq RunIds
BY DEF FindExistingRun, OwnedRuns

\* The worker's own copy of the trigger, when a prepared run is named or settled.
LEMMA SetRunNameKeepsTypes ==
  ASSUME WorkerTyped, NEW pr, NEW run \in RunIds, SetRunName(pr, run)
  PROVE  IsTrigger(pt')
<1>1. IsTrigger(pt) /\ IsStatus(pt.status)
  BY DEF WorkerTyped, IsTrigger
<1>2. IsStatus(SetCurrentPipelineRunName(pt.status, pr.labels, run))
  BY <1>1, SetRunNameTyped
<1> QED BY <1>1, <1>2, TriggerTyped DEF SetRunName

LEMMA SettleKeepsTypes ==
  ASSUME WorkerTyped, NEW pr, NEW permanent \in BOOLEAN, Settle(pr, permanent)
  PROVE  IsTrigger(pt') /\ transientErr' \in BOOLEAN
<1>1. /\ IsTrigger(pt) /\ IsStatus(pt.status) /\ pt.generation \in Nat
      /\ IsStatus(before)
  BY DEF WorkerTyped, IsTrigger
<1>2. IsStatus(SettleFailedRun(pt.status, before, pr.labels, pt.generation, permanent))
  BY <1>1, SettleTyped
<1>3. IsTrigger(pt')
  BY <1>1, <1>2, TriggerTyped DEF Settle
<1>4. transientErr' \in BOOLEAN
  BY DEF WorkerTyped, Settle
<1> QED BY <1>3, <1>4

LEMMA StoreKeepsTypes ==
  ASSUME TypeOK, NEW pr \in PreparedRun, Store(pr), UNCHANGED <<source, trigger>>
  PROVE  ClusterTyped' /\ Len(runs) + 1 \in RunIds
<1> DEFINE made == [owner |-> cur, labels |-> pr.labels, pipeline |-> pt.spec.pipeline]
<1>1. made \in Run
  BY LabelsTyped DEF PreparedRun, Run, TypeOK, WorkerTyped, IsTrigger, TriggerSpec
<1>2. /\ runs \in Seq(Run) /\ Len(runs) < MaxRuns /\ Len(runs) \in Nat
      /\ runs' = Append(runs, made)
  BY DEF Store, TypeOK, ClusterTyped
<1> HIDE DEF made
<1>3. runs' \in Seq(Run) /\ Len(runs') = Len(runs) + 1 /\ Len(runs') <= MaxRuns
  BY <1>1, <1>2, SlotsAssumption
<1>4. Len(runs) + 1 \in RunIds
  BY <1>2, SlotsAssumption DEF RunIds
<1>5. /\ phase' \in [RunIds -> Phases]
      /\ \A i \in RunIds : phase'[i] = "absent" <=> i > Len(runs')
  <2>1. phase' = [phase EXCEPT ![Len(runs) + 1] = "created"]
    BY DEF Store
  <2>2. phase \in [RunIds -> Phases] /\ "created" \in Phases
    BY DEF TypeOK, ClusterTyped, Phases
  <2>3. phase' \in [RunIds -> Phases]
    BY <2>1, <2>2
  <2>4. ASSUME NEW i \in RunIds
        PROVE  phase'[i] = "absent" <=> i > Len(runs')
    BY <1>2, <1>3, <1>4, <2>1, <2>2, SlotsAssumption
    DEF TypeOK, ClusterTyped, RunIds
  <2> QED BY <2>3, <2>4
<1> QED BY <1>3, <1>4, <1>5 DEF TypeOK, ClusterTyped

\* Starting the runs that were prepared.
LEMMA StartRunsTyped ==
  ASSUME TypeOK, NEW pr \in PreparedRun,
         \/ Adopt(pr) \/ NoneFound(pr) \/ LookupFails(pr)
         \/ Created(pr) \/ CreateRejected(pr) \/ CreateFails(pr)
  PROVE  TypeOK'
<1> USE DEF TypeOK
<1>1. CASE Adopt(pr)
  <2>1. PICK run \in RunIds : SetRunName(pr, run)
    BY <1>1, AdoptedTyped DEF Adopt, OwnedInList, OwnedLive
  <2>2. IsTrigger(pt')
    BY <2>1, SetRunNameKeepsTypes
  <2> QED BY <1>1, <2>2
      DEF Adopt, clusterVars, cacheVars, budgetVars, ClusterTyped, ManagerTyped,
          WorkerTyped, BudgetTyped
<1>2. CASE NoneFound(pr)
  BY <1>2 DEF NoneFound, clusterVars, cacheVars, budgetVars, ClusterTyped,
              ManagerTyped, WorkerTyped, BudgetTyped
<1>3. CASE LookupFails(pr)
  <2>1. IsTrigger(pt') /\ transientErr' \in BOOLEAN
    BY <1>3, SettleKeepsTypes DEF LookupFails
  <2>2. faults' \in Nat
    BY <1>3, FailureTyped DEF LookupFails
  <2> QED BY <1>3, <2>1, <2>2
      DEF LookupFails, clusterVars, cacheVars, ClusterTyped, ManagerTyped,
          WorkerTyped, BudgetTyped
<1>4. CASE Created(pr)
  <2>1. ClusterTyped' /\ Len(runs) + 1 \in RunIds
    BY <1>4, StoreKeepsTypes DEF Created
  <2>2. IsTrigger(pt')
    BY <1>4, <2>1, SetRunNameKeepsTypes DEF Created
  <2> QED BY <1>4, <2>1, <2>2
      DEF Created, cacheVars, budgetVars, ManagerTyped, WorkerTyped, BudgetTyped
<1>5. CASE CreateRejected(pr)
  <2>1. IsTrigger(pt') /\ transientErr' \in BOOLEAN
    BY <1>5, SettleKeepsTypes DEF CreateRejected
  <2> QED BY <1>5, <2>1
      DEF CreateRejected, clusterVars, cacheVars, budgetVars, ClusterTyped,
          ManagerTyped, WorkerTyped, BudgetTyped
<1>6. CASE CreateFails(pr)
  <2>1. IsTrigger(pt') /\ transientErr' \in BOOLEAN
    BY <1>6, SettleKeepsTypes DEF CreateFails
  <2>2. faults' \in Nat
    BY <1>6, FailureTyped DEF CreateFails
  <2>3. ClusterTyped'
    BY <1>6, StoreKeepsTypes DEF CreateFails, ClusterTyped
  <2> QED BY <1>6, <2>1, <2>2, <2>3
      DEF CreateFails, cacheVars, ManagerTyped, WorkerTyped, BudgetTyped
<1> QED BY <1>1, <1>2, <1>3, <1>4, <1>5, <1>6

\* The rest of a reconcile.
LEMMA ContinueTyped ==
  ASSUME TypeOK, ContinueReconcile
  PROVE  TypeOK'
<1> USE DEF TypeOK
<1>1. CASE CalculateState
  <2>1. faults' \in Nat
    BY <1>1, FailureTyped DEF CalculateState, BudgetTyped
  <2> QED BY <1>1, <2>1
      DEF CalculateState, clusterVars, cacheVars, localVars, ClusterTyped,
          ManagerTyped, WorkerTyped, BudgetTyped
<1>2. CASE PanicInState
  <2>1. WorkerTyped' /\ queue' = queue \union {cur}
    BY <1>2, ReturnTyped DEF PanicInState, WorkerTyped
  <2> QED BY <1>2, <2>1
      DEF PanicInState, clusterVars, budgetVars, ClusterTyped, ManagerTyped,
          WorkerTyped, BudgetTyped
<1>3. CASE Advance
  <2> DEFINE latest == GetLatestEvent(pt.status, SourceRead)
  <2>1. IsTrigger(pt) /\ IsStatus(pt.status) /\ pt.generation \in Nat
    BY DEF WorkerTyped, IsTrigger
  <2>2. IsStatus(latest)
    BY <2>1, ReadsTyped, LatestEventTyped
  <2>3. /\ IsStatus(Announce(latest, pt.generation, pt.spec.params))
        /\ RunsToStart(latest, pt.generation, pt.spec.params) \subseteq PreparedRun
    BY <2>1, <2>2, AnnounceTyped
  <2>4. IsTrigger(pt') /\ prs' \subseteq PreparedRun /\ before' = pt.status
    BY <1>3, <2>1, <2>3, TriggerTyped DEF Advance
  <2> QED BY <1>3, <2>1, <2>4
      DEF Advance, clusterVars, cacheVars, budgetVars, ClusterTyped,
          ManagerTyped, WorkerTyped, BudgetTyped
<1>4. CASE AdvanceFails
  <2>1. Return(queue \union {cur}) /\ cur' = cur
    BY <1>4 DEF AdvanceFails, ManageError
  <2>2. WorkerTyped' /\ queue' = queue \union {cur}
    BY <2>1, ReturnTyped DEF WorkerTyped
  <2>3. faults' \in Nat
    BY <1>4 DEF AdvanceFails, ManageError, BudgetTyped
  <2>4. IsTrigger([trigger[cur] EXCEPT !.status =
                     ErrorPatch(@, pt.status, pt.generation)])
    BY ErrorPatchedTyped DEF ClusterTyped, WorkerTyped
  <2>5. DOMAIN trigger' = Triggers /\ \A u \in Triggers : IsTrigger(trigger'[u])
    BY <1>4, <2>4 DEF AdvanceFails, ManageError, ClusterTyped
  <2> QED BY <1>4, <2>2, <2>3, <2>5
      DEF AdvanceFails, ClusterTyped, ManagerTyped, WorkerTyped, BudgetTyped
<1>5. CASE \E pr \in prs : Adopt(pr) \/ NoneFound(pr) \/ LookupFails(pr)
  BY <1>5, StartRunsTyped DEF WorkerTyped
<1>6. CASE \E pr \in creating : Created(pr) \/ CreateRejected(pr) \/ CreateFails(pr)
  BY <1>6, StartRunsTyped DEF WorkerTyped
<1>7. CASE PatchAdvance
  <2>1. IsTrigger(pt) /\ IsStatus(pt.status) /\ IsTrigger(trigger[cur])
    BY DEF WorkerTyped, ClusterTyped, IsTrigger
  <2>2. IsTrigger([trigger[cur] EXCEPT !.status = pt.status])
        /\ trigger[cur].generation \in Nat
    BY <2>1, TriggerTyped DEF IsTrigger
  <2>3. /\ DOMAIN trigger' = Triggers /\ \A u \in Triggers : IsTrigger(trigger'[u])
        /\ patched' \in Nat /\ faults' \in Nat
    BY <1>7, <2>2, FailureTyped
    DEF PatchAdvance, ClusterTyped, WorkerTyped, BudgetTyped
  <2> QED BY <1>7, <2>3
      DEF PatchAdvance, cacheVars, ClusterTyped, ManagerTyped, WorkerTyped,
          BudgetTyped
<1>8. CASE Finish
  <2>1. Return(Requeue) /\ cur' = cur
    BY <1>8 DEF Finish
  <2>2. WorkerTyped' /\ queue' = Requeue
    BY <2>1, ReturnTyped DEF WorkerTyped
  <2>3. queue' \subseteq Triggers
    BY <2>2 DEF Requeue, ManagerTyped, WorkerTyped
  <2>4. /\ IsStatus(pt.status) /\ pt.generation \in Nat /\ IsTrigger(trigger[cur])
    BY DEF WorkerTyped, ClusterTyped, IsTrigger
  <2>5. IsTrigger([trigger[cur] EXCEPT !.status =
                     SetCurrentPipelineRunStatus(pt.status, list, pt.generation)])
    BY <2>4, SetRunStatusTyped, TriggerTyped
  <2>6. /\ DOMAIN trigger' = Triggers /\ \A u \in Triggers : IsTrigger(trigger'[u])
        /\ faults' \in Nat
    BY <1>8, <2>5, FailureTyped DEF Finish, ClusterTyped, BudgetTyped
  <2> QED BY <1>8, <2>2, <2>3, <2>6
      DEF Finish, ClusterTyped, ManagerTyped, BudgetTyped
<1> QED BY <1>1, <1>2, <1>3, <1>4, <1>5, <1>6, <1>7, <1>8 DEF ContinueReconcile

\* Watches deliver, the source and the specs change, Tekton runs, the manager
\* restarts.
LEMMA EnvironmentTyped ==
  ASSUME TypeOK,
         \/ Deliver
         \/ \E i \in RunIds : Tekton(i) \/ RunPruned(i)
         \/ SourceChanges \/ \E t \in Triggers : EditSpec(t)
         \/ Crash
  PROVE  TypeOK'
<1> USE DEF TypeOK
<1>1. CASE DeliverRuns
  <2>1. OwnersOfChangedRuns \subseteq Triggers
    <3>1. ASSUME NEW i \in RunIds, Existing(phase[i]) PROVE runs[i].owner \in Triggers
      <4>1. i \in 1..Len(runs)
        BY <3>1, SlotsAssumption DEF Existing, ClusterTyped, RunIds
      <4>2. runs[i] \in Run
        BY <4>1 DEF ClusterTyped
      <4> QED BY <4>2 DEF Run
    <3> QED BY <3>1 DEF OwnersOfChangedRuns
  <2> QED BY <1>1, <2>1
      DEF DeliverRuns, clusterVars, localVars, budgetVars, ClusterTyped,
          ManagerTyped, WorkerTyped, BudgetTyped
<1>2. CASE DeliverSource
  BY <1>2 DEF DeliverSource, clusterVars, localVars, budgetVars, ClusterTyped,
              ManagerTyped, WorkerTyped, BudgetTyped
<1>3. CASE \E t \in Triggers : DeliverTrigger(t)
  BY <1>3 DEF DeliverTrigger, clusterVars, localVars, budgetVars, ClusterTyped,
              ManagerTyped, WorkerTyped, BudgetTyped
<1>4. CASE \E i \in RunIds : Tekton(i) \/ RunPruned(i)
  <2>1. PICK i \in RunIds, from \in SUBSET (Phases \ {"absent"}),
             to \in Phases \ {"absent"} : RunMoves(i, from, to)
    BY <1>4, ReconcilerAssumption
    DEF Tekton, TektonStarts, TektonFinishes, RunPruned, Phases
  <2> QED BY <2>1
      DEF RunMoves, cacheVars, localVars, budgetVars, ClusterTyped,
          ManagerTyped, WorkerTyped, BudgetTyped
<1>5. CASE SourceChanges
  BY <1>5 DEF SourceChanges, cacheVars, localVars, ClusterTyped, ManagerTyped,
              WorkerTyped, BudgetTyped
<1>6. CASE \E t \in Triggers : EditSpec(t)
  <2>1. PICK t \in Triggers : EditSpec(t)
    BY <1>6
  <2>2. IsTrigger(trigger[t]) /\ Specs[t] \subseteq TriggerSpec
    BY ReconcilerAssumption DEF ClusterTyped
  <2>3. \E spec \in TriggerSpec :
          trigger'[t] = [generation |-> trigger[t].generation + 1, spec |-> spec,
                         status |-> trigger[t].status]
    BY <2>1, <2>2 DEF EditSpec, IsTrigger, ClusterTyped
  <2>4. IsTrigger(trigger'[t])
    BY <2>2, <2>3 DEF IsTrigger
  <2>5. DOMAIN trigger' = Triggers /\ \A u \in Triggers : IsTrigger(trigger'[u])
    BY <2>1, <2>4 DEF EditSpec, ClusterTyped
  <2> QED BY <2>1, <2>5
      DEF EditSpec, cacheVars, localVars, budgetVars, ClusterTyped,
          ManagerTyped, WorkerTyped, BudgetTyped
<1>7. CASE Crash
  <2>1. Return(Triggers) /\ cur' = cur
    BY <1>7 DEF Crash
  <2>2. WorkerTyped' /\ queue' = Triggers
    BY <2>1, ReturnTyped DEF WorkerTyped
  <2> QED BY <1>7, <2>2
      DEF Crash, clusterVars, ClusterTyped, ManagerTyped, BudgetTyped
<1> QED BY <1>1, <1>2, <1>3, <1>4, <1>5, <1>6, <1>7 DEF Deliver

LEMMA StepTyped == TypeOK /\ [Next]_vars => TypeOK'
<1>1. ASSUME TypeOK, UNCHANGED vars PROVE TypeOK'
  BY <1>1 DEF vars, clusterVars, cacheVars, localVars, budgetVars, TypeOK,
              ClusterTyped, ManagerTyped, WorkerTyped, BudgetTyped
<1> QED BY <1>1, StartTyped, ContinueTyped, EnvironmentTyped DEF Next

\* Every variable keeps its type, whatever the caches, the failures and the
\* restarts.
THEOREM TypeCorrect == Spec => []TypeOK
BY InitTyped, StepTyped, PTL DEF Spec

-----------------------------------------------------------------------------
(* The order of a reconcile: only between NoneFound and its answer is there *)
(* a run about to be created, and only one; runs are prepared only while    *)
(* they are being started.                                                  *)

InOrder ==
  /\ pc # "create" => creating = {}
  /\ pc = "create" => \E pr \in PreparedRun : creating = {pr}
  /\ pc \notin {"start", "create"} => prs = {}

LEMMA StepInOrder ==
  ASSUME TypeOK, InOrder, [Next]_vars
  PROVE  InOrder'
<1>1. CASE UNCHANGED <<pc, prs, creating>>
  BY <1>1 DEF InOrder
<1>2. ASSUME NEW q, Return(q) PROVE InOrder'
  BY <1>2 DEF Return, InOrder
<1>3. ASSUME NEW t \in Triggers, StartReconcile(t) PROVE InOrder'
  BY <1>2, <1>3
  DEF StartReconcile, StartChecked, StartRefused, StartUnsupported, StartBlind,
      Dequeue, ManageError, InOrder
<1>4. CASE CalculateState \/ PanicInState \/ AdvanceFails \/ Finish
  BY <1>2, <1>4
  DEF CalculateState, PanicInState, AdvanceFails, ManageError, Finish, localVars,
      InOrder
<1>5. CASE Advance
  BY <1>5 DEF Advance, InOrder
<1>6. CASE \E pr \in prs : Adopt(pr) \/ NoneFound(pr) \/ LookupFails(pr)
  BY <1>6 DEF Adopt, NoneFound, LookupFails, InOrder, TypeOK, WorkerTyped
<1>7. CASE \E pr \in creating : Created(pr) \/ CreateRejected(pr) \/ CreateFails(pr)
  BY <1>7 DEF Created, CreateRejected, CreateFails, InOrder
<1>8. CASE PatchAdvance
  BY <1>8 DEF PatchAdvance, InOrder
<1>9. CASE Deliver \/ SourceChanges \/ \E t \in Triggers : EditSpec(t)
  BY <1>1, <1>9
  DEF Deliver, DeliverRuns, DeliverSource, DeliverTrigger, SourceChanges,
      EditSpec, localVars
<1>10. CASE \E i \in RunIds : Tekton(i) \/ RunPruned(i)
  BY <1>1, <1>10
  DEF Tekton, TektonStarts, TektonFinishes, RunPruned, RunMoves, localVars
<1>11. CASE Crash
  BY <1>2, <1>11 DEF Crash
<1>12. CASE UNCHANGED vars
  BY <1>1, <1>12 DEF vars, localVars
<1> QED BY <1>3, <1>4, <1>5, <1>6, <1>7, <1>8, <1>9, <1>10, <1>11, <1>12
        DEF Next, ContinueReconcile

LEMMA AlwaysInOrder == Spec => []InOrder
<1>1. Init => InOrder
  BY DEF Init, InOrder
<1> QED BY <1>1, StepInOrder, TypeCorrect, PTL DEF Spec

-----------------------------------------------------------------------------
(* At most one run for each revision.                                       *)

\* While a run is about to be created there is none like it: the worker has
\* asked the API server, and nobody else creates runs.
OneRunInv ==
  /\ AtMostOneRun
  /\ \A pr \in creating : OwnedLive(pr) = {}

LEMMA StoreOne ==
  ASSUME TypeOK, AtMostOneRun, NEW pr, OwnedLive(pr) = {}, Store(pr)
  PROVE  AtMostOneRun'
<1> DEFINE new  == Len(runs) + 1
           made == [owner |-> cur, labels |-> pr.labels, pipeline |-> pt.spec.pipeline]
<1>1. /\ runs \in Seq(Run) /\ Len(runs) \in Nat /\ runs' = Append(runs, made)
      /\ phase' = [phase EXCEPT ![new] = "created"]
      /\ phase \in [RunIds -> Phases]
      /\ \A i \in RunIds : phase[i] = "absent" <=> i > Len(runs)
  BY DEF Store, TypeOK, ClusterTyped
<1>2. runs'[new] = made /\ \A i \in 1..Len(runs) : runs'[i] = runs[i]
  BY <1>1
<1>3. ASSUME NEW i \in RunIds, Existing(phase'[i]), i # new
      PROVE  /\ Existing(phase[i]) /\ runs'[i] = runs[i]
             /\ ~(runs[i].owner = made.owner /\ runs[i].labels = made.labels)
  <2>1. phase'[i] = phase[i]
    BY <1>1, <1>3
  <2>2. i \in 1..Len(runs)
    BY <1>1, <1>3, <2>1, SlotsAssumption DEF Existing, RunIds
  <2>3. i \notin OwnedRuns(runs, phase, cur, pr.labels)
    BY DEF OwnedLive
  <2> QED BY <1>2, <1>3, <2>1, <2>2, <2>3 DEF OwnedRuns
<1> QED BY <1>2, <1>3 DEF AtMostOneRun

\* Moving a run on makes no run appear.
LEMMA MoveOne ==
  ASSUME TypeOK, OneRunInv, NEW i \in RunIds, NEW from, NEW to,
         "absent" \notin from, "pruned" \notin from, RunMoves(i, from, to)
  PROVE  OneRunInv'
<1>1. /\ UNCHANGED <<runs, cur, creating>>
      /\ \A j \in RunIds : Existing(phase'[j]) => Existing(phase[j])
  BY DEF RunMoves, localVars, Existing, TypeOK, ClusterTyped
<1>2. AtMostOneRun'
  BY <1>1 DEF OneRunInv, AtMostOneRun
<1>3. ASSUME NEW pr \in creating PROVE OwnedLive(pr)' = {}
  BY <1>1 DEF OneRunInv, OwnedLive, OwnedRuns
<1> QED BY <1>1, <1>2, <1>3 DEF OneRunInv

LEMMA StepOneRun ==
  ASSUME TypeOK, InOrder, OneRunInv, [Next]_vars
  PROVE  OneRunInv'
<1>1. ASSUME UNCHANGED <<runs, phase>>, creating' = {} PROVE OneRunInv'
  BY <1>1 DEF OneRunInv, AtMostOneRun
<1>2. ASSUME UNCHANGED <<runs, phase, cur, creating>> PROVE OneRunInv'
  BY <1>2 DEF OneRunInv, AtMostOneRun, OwnedLive
<1>3. ASSUME NEW t \in Triggers, StartReconcile(t) PROVE OneRunInv'
  <2>1. creating = {}
    BY <1>3 DEF InOrder, StartReconcile, StartChecked, StartRefused,
                StartUnsupported, StartBlind, Dequeue
  <2>2. UNCHANGED <<runs, phase>> /\ creating' = {}
    BY <1>3, <2>1
    DEF StartReconcile, StartChecked, StartRefused, StartUnsupported, StartBlind,
        ManageError, Return, clusterVars
  <2> QED BY <1>1, <2>2
<1>4. CASE PanicInState \/ AdvanceFails \/ Finish \/ Crash
  BY <1>1, <1>4
  DEF PanicInState, AdvanceFails, ManageError, Finish, Crash, Return, clusterVars
<1>5. CASE CalculateState \/ Advance \/ PatchAdvance
           \/ \E pr \in prs : Adopt(pr) \/ LookupFails(pr)
  BY <1>2, <1>5
  DEF CalculateState, Advance, PatchAdvance, Adopt, LookupFails, clusterVars,
      localVars
<1>6. ASSUME NEW pr \in prs, NoneFound(pr) PROVE OneRunInv'
  <2>1. UNCHANGED <<runs, phase, cur>> /\ creating' = {pr} /\ OwnedLive(pr) = {}
    BY <1>6 DEF NoneFound, clusterVars
  <2> QED BY <2>1 DEF OneRunInv, AtMostOneRun, OwnedLive
<1>7. ASSUME NEW pr \in creating, Created(pr) \/ CreateRejected(pr) \/ CreateFails(pr)
      PROVE  OneRunInv'
  <2>1. creating' = {} /\ OwnedLive(pr) = {} /\ AtMostOneRun
    BY <1>7 DEF Created, CreateRejected, CreateFails, OneRunInv
  <2>2. UNCHANGED <<runs, phase>> \/ Store(pr)
    BY <1>7 DEF Created, CreateRejected, CreateFails, clusterVars
  <2>3. AtMostOneRun'
    BY <1>1, <2>1, <2>2, StoreOne DEF OneRunInv
  <2> QED BY <2>1, <2>3 DEF OneRunInv
<1>8. CASE Deliver \/ SourceChanges \/ \E t \in Triggers : EditSpec(t)
  BY <1>2, <1>8
  DEF Deliver, DeliverRuns, DeliverSource, DeliverTrigger, SourceChanges,
      EditSpec, clusterVars, localVars
<1>9. CASE \E i \in RunIds : Tekton(i) \/ RunPruned(i)
  BY <1>9, MoveOne DEF Tekton, TektonStarts, TektonFinishes, RunPruned
<1>10. CASE UNCHANGED vars
  BY <1>2, <1>10 DEF vars, clusterVars, localVars
<1> QED BY <1>3, <1>4, <1>5, <1>6, <1>7, <1>8, <1>9, <1>10
        DEF Next, ContinueReconcile

LEMMA OneRunInvariant == Spec => []OneRunInv
<1>1. Init => InOrder /\ OneRunInv
  <2> SUFFICES ASSUME Init PROVE InOrder /\ OneRunInv
    OBVIOUS
  <2>1. prs = {} /\ creating = {} /\ pc = "idle" /\ phase = NoRunsListed
    BY DEF Init
  <2> QED BY <2>1 DEF InOrder, OneRunInv, AtMostOneRun, Existing, NoRunsListed
<1>2. TypeOK /\ InOrder /\ OneRunInv /\ [Next]_vars => (InOrder /\ OneRunInv)'
  BY StepInOrder, StepOneRun
<1> QED BY <1>1, <1>2, TypeCorrect, PTL DEF Spec

\* A trigger never has two runs for one revision, however stale the caches, however
\* often creates fail after they landed and wherever the manager crashes.
THEOREM OneRunPerRevision == Spec => []AtMostOneRun
<1>1. OneRunInv => AtMostOneRun
  BY DEF OneRunInv
<1> QED BY <1>1, OneRunInvariant, PTL

-----------------------------------------------------------------------------
(* No stranded slot.                                                        *)

\* What is stored, cached or to be restored is accounted for; of the worker's
\* copy, a slot that is not waits for a run that is still to be settled.
StrandInv ==
  /\ \A t \in Triggers : AllAccounted(trigger[t].status)
  /\ \A t \in Triggers : AllAccounted(cachedTrigger[t].status)
  /\ AllAccounted(before)
  /\ Pending(pt.status, prs \union creating)

LEMMA PendingMonotonic ==
  ASSUME NEW status, NEW fewer, NEW more, fewer \subseteq more, Pending(status, fewer)
  PROVE  Pending(status, more)
BY DEF Pending

\* Whatever the worker holds when a reconcile returns is blank.
LEMMA ReturnAccounted ==
  ASSUME NEW q, Return(q)
  PROVE  AllAccounted(before)' /\ Pending(pt.status, prs \union creating)'
<1>1. /\ before' = EmptyStatus /\ pt'.status = EmptyStatus
      /\ prs' \union creating' = {}
  BY BlankTyped DEF Return
<1>2. AllAccounted(EmptyStatus)
  BY EmptyStatusTyped
<1> QED BY <1>1, <1>2 DEF AllAccounted, Pending

LEMMA ErrorPatchAccounted ==
  ASSUME NEW stored, IsTrigger(stored), NEW read, IsTrigger(read),
         AllAccounted(stored.status)
  PROVE  LET failed == [stored EXCEPT !.status =
                          ErrorPatch(@, read.status, read.generation)]
         IN  AllAccounted(failed.status)
<1>1. /\ IsStatus(stored.status) /\ IsStatus(read.status) /\ read.generation \in Nat
  BY DEF IsTrigger
<1>2. /\ IsStatus(ErrorPatch(stored.status, read.status, read.generation))
      /\ AllAccounted(ErrorPatch(stored.status, read.status, read.generation))
  BY <1>1, ErrorPatchTyped
<1> QED BY <1>2, TriggerTyped

LEMMA StartAccounted ==
  ASSUME TypeOK, InOrder, StrandInv, NEW t \in Triggers, StartReconcile(t)
  PROVE  StrandInv'
<1> DEFINE read == TriggerRead(t)
<1>1. IsTrigger(read) /\ AllAccounted(read.status)
  BY ReadsTyped DEF TriggerRead, StrandInv
<1>2. prs = {} /\ creating = {}
  BY DEF InOrder, StartReconcile, StartChecked, StartRefused, StartUnsupported,
         StartBlind, Dequeue
<1>3. CASE StartChecked(t)
  <2>1. pt' = read /\ UNCHANGED <<trigger, cachedTrigger, before, prs, creating>>
    BY <1>3 DEF StartChecked, clusterVars
  <2> QED BY <1>1, <1>2, <2>1 DEF StrandInv, AllAccounted, Pending
<1>4. CASE StartRefused(t)
  <2>1. Return(queue \union {t}) /\ UNCHANGED cachedTrigger
    BY <1>4 DEF StartRefused, ManageError
  <2>2. IsTrigger(trigger[t]) /\ AllAccounted(trigger[t].status)
    BY DEF TypeOK, ClusterTyped, StrandInv
  <2>3. AllAccounted([trigger[t] EXCEPT !.status =
                        ErrorPatch(@, read.status, read.generation)].status)
    BY <1>1, <2>2, ErrorPatchAccounted
  <2>4. \A u \in Triggers : AllAccounted(trigger'[u].status)
    BY <1>4, <2>3 DEF StartRefused, ManageError, StrandInv, TypeOK, ClusterTyped
  <2> QED BY <2>1, <2>4, ReturnAccounted DEF StrandInv
<1>5. CASE StartUnsupported(t) \/ StartBlind(t)
  <2>1. /\ Return(queue \ {t}) \/ Return(queue)
        /\ UNCHANGED <<trigger, cachedTrigger>>
    BY <1>5 DEF StartUnsupported, StartBlind, clusterVars
  <2> QED BY <2>1, ReturnAccounted DEF StrandInv
<1> QED BY <1>3, <1>4, <1>5 DEF StartReconcile

\* The runs that are named or settled are those the slots wait for.
LEMMA SettledAccounted ==
  ASSUME TypeOK, StrandInv, NEW pr,
         UNCHANGED <<trigger, cachedTrigger, before>>,
         (prs \union creating) \ {pr} \subseteq prs' \union creating',
         \/ \E run \in RunIds : SetRunName(pr, run)
         \/ \E permanent \in BOOLEAN : Settle(pr, permanent)
  PROVE  StrandInv'
<1> DEFINE waiting == prs \union creating
<1>1. /\ IsTrigger(pt) /\ IsStatus(pt.status) /\ IsStatus(before)
      /\ pt.generation \in Nat
      /\ AllAccounted(before) /\ Pending(pt.status, waiting)
  BY DEF TypeOK, WorkerTyped, IsTrigger, StrandInv
<1>2. ASSUME NEW run \in RunIds, SetRunName(pr, run)
      PROVE  Pending(pt'.status, waiting \ {pr})
  <2> DEFINE named == SetCurrentPipelineRunName(pt.status, pr.labels, run)
  <2>1. IsStatus(named) /\ Pending(named, waiting \ {pr})
    BY <1>1, SetRunNameTyped
  <2>2. pt'.status = named
    BY <1>1, <1>2, <2>1, TriggerTyped DEF SetRunName
  <2> QED BY <2>1, <2>2
<1>3. ASSUME NEW permanent \in BOOLEAN, Settle(pr, permanent)
      PROVE  Pending(pt'.status, waiting \ {pr})
  <2> DEFINE settled == SettleFailedRun(pt.status, before, pr.labels,
                                        pt.generation, permanent)
  <2>1. IsStatus(settled) /\ Pending(settled, waiting \ {pr})
    BY <1>1, SettleTyped
  <2>2. pt'.status = settled
    BY <1>1, <1>3, <2>1, TriggerTyped DEF Settle
  <2> QED BY <2>1, <2>2
<1>4. Pending(pt'.status, prs' \union creating')
  BY <1>2, <1>3, PendingMonotonic
<1> QED BY <1>4 DEF StrandInv

LEMMA StartRunsAccounted ==
  ASSUME TypeOK, InOrder, StrandInv, NEW pr \in PreparedRun,
         \/ Adopt(pr) \/ NoneFound(pr) \/ LookupFails(pr)
         \/ Created(pr) \/ CreateRejected(pr) \/ CreateFails(pr)
  PROVE  StrandInv'
<1>1. CASE Adopt(pr)
  <2>1. \E run \in RunIds : SetRunName(pr, run)
    BY <1>1, AdoptedTyped DEF Adopt, OwnedInList, OwnedLive
  <2>2. /\ UNCHANGED <<trigger, cachedTrigger, before, creating>>
        /\ prs' = prs \ {pr}
    BY <1>1 DEF Adopt, clusterVars, cacheVars
  <2> QED BY <2>1, <2>2, SettledAccounted
<1>2. CASE NoneFound(pr)
  <2>1. /\ UNCHANGED <<trigger, cachedTrigger, before, pt>>
        /\ prs' = prs \ {pr} /\ creating' = {pr}
    BY <1>2 DEF NoneFound, clusterVars, cacheVars
  <2>2. creating = {} /\ prs \subseteq prs' \union creating'
    BY <1>2, <2>1 DEF NoneFound, InOrder
  <2> QED BY <2>1, <2>2, PendingMonotonic DEF StrandInv
<1>3. CASE LookupFails(pr)
  <2>1. \E permanent \in BOOLEAN : Settle(pr, permanent)
    BY <1>3 DEF LookupFails
  <2>2. /\ UNCHANGED <<trigger, cachedTrigger, before, creating>>
        /\ prs' = prs \ {pr}
    BY <1>3 DEF LookupFails, clusterVars, cacheVars
  <2> QED BY <2>1, <2>2, SettledAccounted
<1>4. CASE Created(pr) \/ CreateRejected(pr) \/ CreateFails(pr)
  <2>1. creating = {pr}
    BY <1>4 DEF Created, CreateRejected, CreateFails, InOrder
  <2>2. UNCHANGED <<trigger, cachedTrigger, before, prs>>
    BY <1>4 DEF Created, CreateRejected, CreateFails, clusterVars, cacheVars
  <2>3. CASE Created(pr)
    BY <2>1, <2>2, <2>3, StoreKeepsTypes, SettledAccounted DEF Created
  <2>4. CASE CreateRejected(pr) \/ CreateFails(pr)
    BY <2>1, <2>2, <2>4, SettledAccounted DEF CreateRejected, CreateFails
  <2> QED BY <1>4, <2>3, <2>4
<1> QED BY <1>1, <1>2, <1>3, <1>4

LEMMA ContinueAccounted ==
  ASSUME TypeOK, InOrder, StrandInv, ContinueReconcile
  PROVE  StrandInv'
<1> DEFINE waiting == prs \union creating
<1>1. /\ IsTrigger(pt) /\ IsStatus(pt.status) /\ pt.generation \in Nat
      /\ cur \in Triggers /\ IsTrigger(trigger[cur])
      /\ AllAccounted(trigger[cur].status)
  BY DEF TypeOK, ClusterTyped, WorkerTyped, IsTrigger, StrandInv
<1>2. ASSUME waiting = {} PROVE AllAccounted(pt.status)
  BY <1>2, PendingNone DEF StrandInv
<1>3. CASE CalculateState
  BY <1>3 DEF CalculateState, clusterVars, cacheVars, localVars, StrandInv
<1>4. CASE PanicInState
  <2>1. Return(queue \union {cur}) /\ UNCHANGED <<trigger, cachedTrigger>>
    BY <1>4 DEF PanicInState, clusterVars
  <2> QED BY <2>1, ReturnAccounted DEF StrandInv
<1>5. CASE Advance
  <2> DEFINE latest    == GetLatestEvent(pt.status, SourceRead)
             announced == Announce(latest, pt.generation, pt.spec.params)
  <2>1. creating = {} /\ AllAccounted(pt.status)
    BY <1>2, <1>5 DEF Advance, InOrder
  <2>2. IsStatus(latest) /\ AllAccounted(latest)
    BY <1>1, <2>1, ReadsTyped, LatestEventTyped
  <2>3. /\ IsStatus(announced)
        /\ Pending(announced, RunsToStart(latest, pt.generation, pt.spec.params))
    BY <1>1, <2>2, AnnounceTyped
  <2>4. /\ pt'.status = announced /\ before' = pt.status
        /\ prs' = RunsToStart(latest, pt.generation, pt.spec.params)
        /\ UNCHANGED <<trigger, cachedTrigger, creating>>
    BY <1>1, <1>5, <2>3, TriggerTyped DEF Advance, clusterVars, cacheVars
  <2> QED BY <2>1, <2>3, <2>4 DEF StrandInv
<1>6. CASE AdvanceFails
  <2>1. Return(queue \union {cur}) /\ UNCHANGED cachedTrigger
    BY <1>6 DEF AdvanceFails, ManageError
  <2>2. AllAccounted([trigger[cur] EXCEPT !.status =
                        ErrorPatch(@, pt.status, pt.generation)].status)
    BY <1>1, ErrorPatchAccounted
  <2>3. \A u \in Triggers : AllAccounted(trigger'[u].status)
    BY <1>6, <2>2 DEF AdvanceFails, ManageError, StrandInv, TypeOK, ClusterTyped
  <2> QED BY <2>1, <2>3, ReturnAccounted DEF StrandInv
<1>7. CASE \E pr \in prs : Adopt(pr) \/ NoneFound(pr) \/ LookupFails(pr)
  BY <1>7, StartRunsAccounted DEF TypeOK, WorkerTyped
<1>8. CASE \E pr \in creating : Created(pr) \/ CreateRejected(pr) \/ CreateFails(pr)
  BY <1>8, StartRunsAccounted DEF TypeOK, WorkerTyped
<1>9. CASE PatchAdvance
  <2>1. AllAccounted(pt.status)
    BY <1>2, <1>9 DEF PatchAdvance, InOrder
  <2>2. [trigger[cur] EXCEPT !.status = pt.status].status = pt.status
    BY <1>1, TriggerTyped
  <2>3. \A u \in Triggers : AllAccounted(trigger'[u].status)
    BY <1>9, <2>1, <2>2 DEF PatchAdvance, StrandInv, TypeOK, ClusterTyped
  <2> QED BY <1>9, <2>3 DEF PatchAdvance, cacheVars, StrandInv
<1>10. CASE Finish
  <2> DEFINE shown == SetCurrentPipelineRunStatus(pt.status, list, pt.generation)
  <2>1. AllAccounted(pt.status)
    BY <1>2, <1>10 DEF Finish, InOrder
  <2>2. IsStatus(shown) /\ AllAccounted(shown)
    BY <1>1, <2>1, SetRunStatusTyped
  <2>3. [trigger[cur] EXCEPT !.status = shown].status = shown
    BY <1>1, <2>2, TriggerTyped
  <2>4. \A u \in Triggers : AllAccounted(trigger'[u].status)
    BY <1>10, <2>2, <2>3 DEF Finish, StrandInv, TypeOK, ClusterTyped
  <2>5. Return(Requeue) /\ UNCHANGED cachedTrigger
    BY <1>10 DEF Finish
  <2> QED BY <2>4, <2>5, ReturnAccounted DEF StrandInv
<1> QED BY <1>3, <1>4, <1>5, <1>6, <1>7, <1>8, <1>9, <1>10 DEF ContinueReconcile

LEMMA EnvironmentAccounted ==
  ASSUME TypeOK, StrandInv,
         \/ Deliver
         \/ \E i \in RunIds : Tekton(i) \/ RunPruned(i)
         \/ SourceChanges \/ \E t \in Triggers : EditSpec(t)
         \/ Crash
  PROVE  StrandInv'
<1>1. CASE UNCHANGED <<trigger, cachedTrigger, localVars>>
  BY <1>1 DEF localVars, StrandInv
<1>2. CASE DeliverRuns \/ DeliverSource \/ SourceChanges
           \/ \E i \in RunIds : Tekton(i) \/ RunPruned(i)
  BY <1>1, <1>2
  DEF DeliverRuns, DeliverSource, SourceChanges, Tekton, TektonStarts,
      TektonFinishes, RunPruned, RunMoves, clusterVars, cacheVars
<1>3. CASE \E t \in Triggers : DeliverTrigger(t)
  BY <1>3 DEF DeliverTrigger, clusterVars, localVars, StrandInv, TypeOK,
              ManagerTyped
<1>4. CASE \E t \in Triggers : EditSpec(t)
  <2>1. PICK t \in Triggers : EditSpec(t)
    BY <1>4
  <2>2. IsTrigger(trigger[t])
    BY DEF TypeOK, ClusterTyped
  <2>3. \A u \in Triggers : trigger'[u].status = trigger[u].status
    BY <2>1, <2>2 DEF EditSpec, IsTrigger, TypeOK, ClusterTyped
  <2> QED BY <2>1, <2>3 DEF EditSpec, cacheVars, localVars, StrandInv
<1>5. CASE Crash
  <2>1. /\ Return(Triggers) /\ UNCHANGED trigger /\ cachedTrigger' = trigger
    BY <1>5 DEF Crash, clusterVars
  <2> QED BY <2>1, ReturnAccounted DEF StrandInv
<1> QED BY <1>2, <1>3, <1>4, <1>5 DEF Deliver

LEMMA StrandInvariant == Spec => []StrandInv
<1>1. Init => StrandInv
  <2> SUFFICES ASSUME Init PROVE StrandInv
    OBVIOUS
  <2>1. /\ \A t \in Triggers : trigger[t].status = EmptyStatus
        /\ cachedTrigger = trigger /\ before = EmptyStatus /\ pt = BlankTrigger
    BY DEF Init
  <2> QED BY <2>1, BlankTyped, EmptyStatusTyped DEF StrandInv, AllAccounted, Pending
<1>2. TypeOK /\ InOrder /\ StrandInv /\ [Next]_vars => StrandInv'
  <2>1. ASSUME StrandInv, UNCHANGED vars PROVE StrandInv'
    BY <2>1 DEF StrandInv, vars, clusterVars, cacheVars, localVars
  <2> QED BY <2>1, StartAccounted, ContinueAccounted, EnvironmentAccounted DEF Next
<1> QED BY <1>1, <1>2, AlwaysInOrder, TypeCorrect, PTL DEF Spec

\* No stored slot looks started without a run or an Error.
THEOREM NoSlotStranded == Spec => []NoStrandedSlot
<1>1. StrandInv => NoStrandedSlot
  BY DEF StrandInv, NoStrandedSlot, AllAccounted
<1> QED BY <1>1, StrandInvariant, PTL
=============================================================================

---------------------------- MODULE LedgerProofs ----------------------------
(***************************************************************************)
(* Proofs about what a status says: the run a slot names is one of the     *)
(* trigger for the revision of the slot, and the reconciler implements the *)
(* ledger of builds.                                                       *)
(***************************************************************************)
EXTENDS ReconcilerProofs, SequenceTheorems

\* Run i of the runs rs is one that trigger t made for these labels.
MadeFor(i, t, labels, rs) ==
  i \in 1..Len(rs) /\ rs[i].owner = t /\ rs[i].labels = labels

\* A slot names no run, or one of its trigger and its revision.
NamesOwn(slot, k, t, rs) ==
  slot.run = NoRun \/ MadeFor(slot.run, t, LabelsOf(k, slot.revision), rs)

AllNameOwn(status, t, rs) ==
  \A k \in DOMAIN status : NamesOwn(status[k], k, t, rs)

-----------------------------------------------------------------------------
(* What the operations of a subscriber do to the run a slot names.          *)

\* Conditions and details have nothing to do with it.
LEMMA NameKept ==
  ASSUME NEW slot \in Slot, NEW c \in Condition
  PROVE  /\ AddOrReplaceCondition(slot, c).run = slot.run
         /\ AddOrReplaceCondition(slot, c).revision = slot.revision
         /\ ClearConditions(slot).run = slot.run
         /\ ClearConditions(slot).revision = slot.revision
         /\ ClearConditions(slot) \in Slot
BY AddOrReplaceTyped, ClearTyped DEF ClearConditions, Slot

\* A rejected slot and a new one name no run.
LEMMA NameDropped ==
  ASSUME NEW slot \in Slot, NEW g \in Nat
  PROVE  RejectedSlot(slot, g).run = NoRun
<1> DEFINE bare == SetRun(ClearConditions(slot), NoRun)
<1>1. bare \in Slot /\ bare.run = NoRun
  BY ClearTyped, SetRunTyped
<1>2. CreateFailedCondition(g) \in Condition
  BY ConditionsTyped
<1> QED BY <1>1, <1>2, NameKept DEF RejectedSlot

LEMMA LatestEventNames ==
  ASSUME NEW status, IsStatus(status), NEW event, NEW t, NEW rs,
         AllNameOwn(status, t, rs)
  PROVE  AllNameOwn(GetLatestEvent(status, event), t, rs)
<1> DEFINE latest == GetLatestEvent(status, event)
<1>1. ASSUME NEW k \in DOMAIN latest
      PROVE  \/ k \in DOMAIN status /\ latest[k] = status[k]
             \/ latest[k] = NewSlot(event[k], TRUE)
  <2>1. CASE IsPullRequest
    BY <1>1, <2>1 DEF GetLatestEvent, PullLatestEvent
  <2>2. CASE ~IsPullRequest
    BY <1>1, <2>2 DEF GetLatestEvent, SingleLatestEvent, IsStatus
  <2> QED BY <2>1, <2>2
<1> QED BY <1>1 DEF AllNameOwn, NamesOwn, NewSlot

\* Announcing a run moves no slot to another revision or run.
LEMMA AnnounceKeeps ==
  ASSUME NEW status, IsStatus(status), NEW g \in Nat, NEW params
  PROVE  LET announced == Announce(status, g, params)
         IN  \A k \in DOMAIN announced :
               /\ k \in DOMAIN status
               /\ announced[k].run = status[k].run
               /\ announced[k].revision = status[k].revision
<1> DEFINE announced == Announce(status, g, params)
           retried(k) == IF RetryAfterSpecEdit(status[k].conditions, g)
                           THEN ClearConditions(status[k]) ELSE status[k]
           emptied(k) == [retried(k) EXCEPT !.details = FALSE]
           noted(k) == AddOrReplaceCondition(retried(k), UnmarshalFailedCondition)
<1>1. /\ UnknownCondition(g) \in Condition /\ ErrorCondition(g) \in Condition
      /\ UnmarshalFailedCondition \in Condition
      /\ \A k \in DOMAIN status : status[k] \in Slot
  BY ConditionsTyped DEF IsStatus
<1>2. ASSUME NEW k \in DOMAIN status
      PROVE  \A base \in {retried(k), emptied(k), noted(k)} :
               /\ base \in Slot
               /\ base.run = status[k].run /\ base.revision = status[k].revision
  <2>1. /\ retried(k) \in Slot /\ retried(k).run = status[k].run
        /\ retried(k).revision = status[k].revision
    BY <1>1, NameKept
  <2>2. /\ emptied(k) \in Slot /\ emptied(k).run = status[k].run
        /\ emptied(k).revision = status[k].revision
    BY <2>1 DEF Slot
  <2>3. /\ noted(k) \in Slot /\ noted(k).run = status[k].run
        /\ noted(k).revision = status[k].revision
    BY <1>1, <2>1, AddOrReplaceTyped
  <2> QED BY <2>1, <2>2, <2>3
<1>3. ASSUME NEW k \in DOMAIN announced
      PROVE  /\ k \in DOMAIN status
             /\ \/ announced[k] = status[k]
                \/ \E base \in {retried(k), emptied(k), noted(k)}, c \in Condition :
                     announced[k] = AddOrReplaceCondition(base, c)
  <2>1. CASE IsPullRequest
    BY <1>1, <1>3, <2>1 DEF Announce, PullAnnounce
  <2>2. CASE ~IsPullRequest
    BY <1>1, <1>3, <2>2 DEF Announce, SingleAnnounce, IsStatus
  <2> QED BY <2>1, <2>2
<1> HIDE DEF announced, retried, emptied, noted
<1>4. ASSUME NEW k \in DOMAIN announced
      PROVE  /\ announced[k].run = status[k].run
             /\ announced[k].revision = status[k].revision
  <2>1. ASSUME NEW c \in Condition, NEW base \in Slot
        PROVE  /\ AddOrReplaceCondition(base, c).run = base.run
               /\ AddOrReplaceCondition(base, c).revision = base.revision
    BY NameKept
  <2> QED BY <1>2, <1>3, <1>4, <2>1
<1>5. \A k \in DOMAIN announced :
        /\ k \in DOMAIN status
        /\ announced[k].run = status[k].run
        /\ announced[k].revision = status[k].revision
  BY <1>3, <1>4
<1> QED BY <1>5 DEF announced

LEMMA AnnounceNames ==
  ASSUME NEW status, IsStatus(status), NEW g \in Nat, NEW params, NEW t, NEW rs,
         AllNameOwn(status, t, rs)
  PROVE  AllNameOwn(Announce(status, g, params), t, rs)
BY AnnounceKeeps DEF AllNameOwn, NamesOwn

LEMMA SettleNames ==
  ASSUME NEW status, IsStatus(status), NEW stored, IsStatus(stored),
         NEW g \in Nat, NEW permanent \in BOOLEAN, NEW labels, NEW t, NEW rs,
         AllNameOwn(status, t, rs), AllNameOwn(stored, t, rs)
  PROVE  AllNameOwn(SettleFailedRun(status, stored, labels, g, permanent), t, rs)
<1> DEFINE settled == SettleFailedRun(status, stored, labels, g, permanent)
<1>1. CASE IsPullRequest
  <2>1. ASSUME NEW k \in DOMAIN settled
        PROVE  /\ k \in DOMAIN status
               /\ \/ settled[k] = status[k] \/ settled[k] = RejectedSlot(status[k], g)
                  \/ k \in DOMAIN stored /\ settled[k] = stored[k]
    BY <1>1, <2>1 DEF SettleFailedRun, PullSettleFailedRun
  <2>2. ASSUME NEW k \in DOMAIN settled PROVE NamesOwn(settled[k], k, t, rs)
    BY <1>1, <2>1, PullSlotTyped, NameDropped DEF AllNameOwn, NamesOwn
  <2> QED BY <2>2 DEF AllNameOwn
<1>2. CASE ~IsPullRequest
  <2>1. DOMAIN settled = Keys /\ \A k \in Keys : status[k] \in Slot /\ stored[k] \in Slot
    BY <1>2 DEF SettleFailedRun, SingleSettleFailedRun, IsStatus
  <2>2. ErrorCondition(g) \in Condition
    BY ConditionsTyped
  <2>3. ASSUME NEW k \in Keys
        PROVE  \/ settled[k].run = NoRun
               \/ /\ settled[k].run = stored[k].run
                  /\ settled[k].revision = stored[k].revision
    BY <1>2, <2>1, <2>2, NameKept, NameDropped
    DEF SettleFailedRun, SingleSettleFailedRun
  <2>4. DOMAIN stored = Keys
    BY <1>2 DEF IsStatus
  <2> QED BY <2>1, <2>3, <2>4 DEF AllNameOwn, NamesOwn
<1> QED BY <1>1, <1>2

\* A single slot is given the run that was prepared for it; of the branches, those
\* whose labels the run carries.
LEMMA SetRunNameNames ==
  ASSUME NEW status, IsStatus(status), NEW labels, NEW t, NEW rs, NEW run \in RunIds,
         MadeFor(run, t, labels, rs), AllNameOwn(status, t, rs),
         ~IsPullRequest => \A k \in Keys : labels = LabelsOf(k, status[k].revision)
  PROVE  AllNameOwn(SetCurrentPipelineRunName(status, labels, run), t, rs)
<1> DEFINE named == SetCurrentPipelineRunName(status, labels, run)
<1>1. ASSUME NEW slot \in Slot
      PROVE  SetRun(slot, run).run = run /\ SetRun(slot, run).revision = slot.revision
  BY SetRunTyped
<1>2. CASE IsPullRequest
  <2>1. ASSUME NEW k \in DOMAIN named
        PROVE  /\ k \in DOMAIN status
               /\ \/ named[k] = status[k]
                  \/ /\ named[k] = SetRun(status[k], run)
                     /\ labels = LabelsOf(k, status[k].revision)
    BY <1>2, <2>1 DEF SetCurrentPipelineRunName, PullSetRunName, BranchesOfRun
  <2>2. ASSUME NEW k \in DOMAIN named PROVE NamesOwn(named[k], k, t, rs)
    BY <1>1, <1>2, <2>1, PullSlotTyped DEF AllNameOwn, NamesOwn
  <2> QED BY <2>2 DEF AllNameOwn
<1>3. CASE ~IsPullRequest
  <2>1. DOMAIN named = Keys /\ \A k \in Keys : status[k] \in Slot
    BY <1>3 DEF SetCurrentPipelineRunName, SingleSetRunName, IsStatus
  <2>2. ASSUME NEW k \in Keys PROVE named[k] = SetRun(status[k], run)
    BY <1>3 DEF SetCurrentPipelineRunName, SingleSetRunName
  <2> QED BY <1>1, <1>3, <2>1, <2>2 DEF AllNameOwn, NamesOwn
<1> QED BY <1>2, <1>3

LEMMA SetRunStatusNames ==
  ASSUME NEW status, IsStatus(status), NEW phases, NEW g \in Nat, NEW t, NEW rs,
         AllNameOwn(status, t, rs)
  PROVE  AllNameOwn(SetCurrentPipelineRunStatus(status, phases, g), t, rs)
<1> DEFINE shown == SetCurrentPipelineRunStatus(status, phases, g)
<1>1. \A k \in DOMAIN status : status[k] \in Slot
  BY DEF IsStatus
<1>2. ASSUME NEW k \in DOMAIN shown
      PROVE  /\ k \in DOMAIN status
             /\ \/ shown[k] = status[k]
                \/ \E c \in Condition : shown[k] = AddOrReplaceCondition(status[k], c)
  <2>1. CASE IsPullRequest
    BY <1>2, <2>1, ConditionsTyped DEF SetCurrentPipelineRunStatus, PullSetRunStatus
  <2>2. CASE ~IsPullRequest
    BY <1>2, <2>2, ConditionsTyped
    DEF SetCurrentPipelineRunStatus, SingleSetRunStatus, IsStatus
  <2> QED BY <2>1, <2>2
<1>3. ASSUME NEW k \in DOMAIN shown
      PROVE  shown[k].run = status[k].run /\ shown[k].revision = status[k].revision
  BY <1>1, <1>2, NameKept
<1> QED BY <1>2, <1>3 DEF AllNameOwn, NamesOwn

\* A reconcile error names no run and moves no slot, whatever was read.
LEMMA ErrorPatchNames ==
  ASSUME NEW stored, IsStatus(stored), NEW read, IsStatus(read), NEW g \in Nat,
         NEW t, NEW rs, AllNameOwn(stored, t, rs)
  PROVE  AllNameOwn(ErrorPatch(stored, read, g), t, rs)
<1> DEFINE errored == ErrorPatch(stored, read, g)
           blank   == NewSlot(NoRevision, FALSE)
<1>1. /\ blank \in Slot /\ blank.run = NoRun /\ ErrorCondition(g) \in Condition
      /\ \A k \in DOMAIN stored : stored[k] \in Slot
  BY NewSlotTyped, ConditionsTyped DEF AnyRevision, NewSlot, IsStatus
<1>2. ASSUME NEW k \in DOMAIN errored
      PROVE  \/ k \in DOMAIN stored /\ errored[k] = stored[k]
             \/ /\ k \in DOMAIN stored
                /\ \E cs, last : errored[k] = [stored[k] EXCEPT !.conditions = cs,
                                                                !.last = last]
             \/ errored[k] = AddOrReplaceCondition(blank, ErrorCondition(g))
  <2>1. CASE ~IsPullRequest
    BY <1>2, <2>1 DEF ErrorPatch, SingleErrorPatch, IsStatus
  <2>2. CASE IsPullRequest /\ ~PullErrorPatchAccepted(stored, read)
    BY <1>2, <2>2 DEF ErrorPatch
  <2>3. CASE IsPullRequest /\ PullErrorPatchAccepted(stored, read)
    BY <1>2, <2>3 DEF ErrorPatch, PullErrorPatch, PullErrorPatchAccepted
  <2> QED BY <2>1, <2>2, <2>3
<1>3. ASSUME NEW k \in DOMAIN errored PROVE NamesOwn(errored[k], k, t, rs)
  <2>1. CASE errored[k] = AddOrReplaceCondition(blank, ErrorCondition(g))
    BY <1>1, <2>1, NameKept DEF NamesOwn
  <2>2. CASE k \in DOMAIN stored /\ errored[k].run = stored[k].run
             /\ errored[k].revision = stored[k].revision
    BY <2>2 DEF AllNameOwn, NamesOwn
  <2>3. ASSUME NEW cs, NEW last, k \in DOMAIN stored,
               errored[k] = [stored[k] EXCEPT !.conditions = cs, !.last = last]
        PROVE  errored[k].run = stored[k].run /\ errored[k].revision = stored[k].revision
    BY <1>1, <2>3 DEF Slot
  <2> QED BY <1>2, <2>1, <2>2, <2>3
<1> QED BY <1>3 DEF AllNameOwn

-----------------------------------------------------------------------------
(* The invariant: whatever status there is, stored, cached, the worker's or *)
(* the one to restore, its slots name runs of their own.  Adopting a run    *)
(* keeps this since a run that is seen was created, and since the one run   *)
(* prepared for a single slot carries the labels of the slot.               *)

\* The runs of a view are among the first n.
Seen(phases, n) == \A i \in RunIds : Existing(phases[i]) => i <= n

Waiting == prs \union creating

PreparedForSlot ==
  ~IsPullRequest =>
    /\ \A pr, other \in Waiting : pr = other
    /\ creating # {} => prs = {}
    /\ \A pr \in Waiting : \A k \in Keys :
         pr.labels = LabelsOf(k, pt.status[k].revision)

NamingInv ==
  /\ \A t \in Triggers : /\ AllNameOwn(trigger[t].status, t, runs)
                         /\ AllNameOwn(cachedTrigger[t].status, t, runs)
  /\ AllNameOwn(pt.status, cur, runs)
  /\ AllNameOwn(before, cur, runs)
  /\ pc = "idle" => before = EmptyStatus
  /\ Seen(cachedPhase, Len(runs)) /\ Seen(list, Len(runs))
  /\ PreparedForSlot

LEMMA EmptyNames ==
  ASSUME NEW t, NEW rs
  PROVE  AllNameOwn(EmptyStatus, t, rs) /\ AllNameOwn(BlankTrigger.status, t, rs)
<1>1. AllNameOwn(EmptyStatus, t, rs)
  BY DEF AllNameOwn, NamesOwn, EmptyStatus, NewSlot
<1> QED BY <1>1, BlankTyped

\* The API server knows the runs that were made and no others, and so does
\* whoever reads from it.
LEMMA ReadsSeen ==
  ASSUME TypeOK, Seen(cachedPhase, Len(runs))
  PROVE  Seen(phase, Len(runs)) /\ Seen(RunsRead, Len(runs))
<1>1. Seen(phase, Len(runs))
  BY DEF TypeOK, ClusterTyped, Seen, Existing, RunIds
<1> QED BY <1>1 DEF RunsRead

LEMMA ReturnNames ==
  ASSUME NEW q, Return(q)
  PROVE  /\ AllNameOwn(pt.status, cur, runs)'
         /\ AllNameOwn(before, cur, runs)'
         /\ (pc = "idle" => before = EmptyStatus)'
         /\ Seen(list, Len(runs))'
         /\ PreparedForSlot'
<1>1. /\ AllNameOwn(EmptyStatus, cur', runs')
      /\ AllNameOwn(BlankTrigger.status, cur', runs')
  BY EmptyNames
<1>2. Waiting' = {}
  BY DEF Return, Waiting
<1>3. Seen(NoRunsListed, Len(runs))'
  BY DEF Seen, NoRunsListed, Existing
<1> QED BY <1>1, <1>2, <1>3 DEF Return, PreparedForSlot, Seen

LEMMA ErrorPatchedNames ==
  ASSUME NEW stored, IsTrigger(stored), NEW read, IsTrigger(read), NEW t,
         AllNameOwn(stored.status, t, runs)
  PROVE  LET failed == [stored EXCEPT !.status =
                          ErrorPatch(@, read.status, read.generation)]
         IN  AllNameOwn(failed.status, t, runs)
<1>1. /\ IsStatus(stored.status) /\ IsStatus(read.status) /\ read.generation \in Nat
  BY DEF IsTrigger
<1>2. /\ IsStatus(ErrorPatch(stored.status, read.status, read.generation))
      /\ AllNameOwn(ErrorPatch(stored.status, read.status, read.generation), t, runs)
  BY <1>1, ErrorPatchTyped, ErrorPatchNames
<1> QED BY <1>2, TriggerTyped

LEMMA StartNames ==
  ASSUME TypeOK, InOrder, NamingInv, NEW t \in Triggers, StartReconcile(t)
  PROVE  NamingInv'
<1> DEFINE read == TriggerRead(t)
<1>1. IsTrigger(read) /\ AllNameOwn(read.status, t, runs)
  BY ReadsTyped DEF TriggerRead, NamingInv
<1>2. prs = {} /\ creating = {} /\ before = EmptyStatus /\ cur' = t
  BY DEF InOrder, NamingInv, StartReconcile, StartChecked, StartRefused,
         StartUnsupported, StartBlind, Dequeue
<1>3. CASE StartChecked(t)
  <2>1. /\ pt' = read /\ pc' = "state" /\ list' = RunsRead
        /\ UNCHANGED <<runs, trigger, cachedTrigger, cachedPhase, before, prs,
                       creating>>
    BY <1>3 DEF StartChecked, clusterVars
  <2>2. AllNameOwn(EmptyStatus, t, runs) /\ Seen(RunsRead, Len(runs))
    BY EmptyNames, ReadsSeen DEF NamingInv
  <2> QED BY <1>1, <1>2, <2>1, <2>2 DEF NamingInv, PreparedForSlot, Waiting, Seen
<1>4. CASE StartRefused(t)
  <2>1. Return(queue \union {t}) /\ UNCHANGED <<runs, cachedTrigger, cachedPhase>>
    BY <1>4 DEF StartRefused, ManageError
  <2>2. IsTrigger(trigger[t]) /\ AllNameOwn(trigger[t].status, t, runs)
    BY DEF TypeOK, ClusterTyped, NamingInv
  <2>3. AllNameOwn([trigger[t] EXCEPT !.status =
                      ErrorPatch(@, read.status, read.generation)].status, t, runs)
    BY <1>1, <2>2, ErrorPatchedNames
  <2>4. \A u \in Triggers : AllNameOwn(trigger'[u].status, u, runs)
    BY <1>4, <2>3 DEF StartRefused, ManageError, NamingInv, TypeOK, ClusterTyped
  <2> QED BY <2>1, <2>4, ReturnNames DEF NamingInv, Seen
<1>5. CASE StartUnsupported(t) \/ StartBlind(t)
  <2>1. /\ Return(queue \ {t}) \/ Return(queue)
        /\ UNCHANGED <<runs, trigger, cachedTrigger, cachedPhase>>
    BY <1>5 DEF StartUnsupported, StartBlind, clusterVars
  <2> QED BY <2>1, ReturnNames DEF NamingInv, Seen
<1> QED BY <1>3, <1>4, <1>5 DEF StartReconcile

\* Nothing is prepared for a single slot any more once its run is dealt with.
LEMMA DealtWith ==
  ASSUME PreparedForSlot, NEW pr \in Waiting, ~IsPullRequest,
         Waiting' \subseteq Waiting \ {pr}
  PROVE  Waiting' = {}
BY DEF PreparedForSlot

\* A run of the trigger with the labels of a prepared run is named.
LEMMA NamedNames ==
  ASSUME TypeOK, NamingInv, NEW pr \in Waiting, NEW run \in RunIds,
         SetRunName(pr, run), NEW rs, MadeFor(run, cur, pr.labels, rs),
         AllNameOwn(pt.status, cur, rs)
  PROVE  AllNameOwn(pt'.status, cur, rs)
<1> DEFINE named == SetCurrentPipelineRunName(pt.status, pr.labels, run)
<1>1. IsTrigger(pt) /\ IsStatus(pt.status)
  BY DEF TypeOK, WorkerTyped, IsTrigger
<1>2. IsStatus(named) /\ AllNameOwn(named, cur, rs)
  BY <1>1, SetRunNameTyped, SetRunNameNames DEF NamingInv, PreparedForSlot
<1>3. pt'.status = named
  BY <1>1, <1>2, TriggerTyped DEF SetRunName
<1> QED BY <1>2, <1>3

LEMMA SettledNames ==
  ASSUME TypeOK, NEW pr, NEW permanent \in BOOLEAN, Settle(pr, permanent), NEW rs,
         AllNameOwn(pt.status, cur, rs), AllNameOwn(before, cur, rs)
  PROVE  AllNameOwn(pt'.status, cur, rs)
<1> DEFINE settled == SettleFailedRun(pt.status, before, pr.labels,
                                      pt.generation, permanent)
<1>1. /\ IsTrigger(pt) /\ IsStatus(pt.status) /\ IsStatus(before)
      /\ pt.generation \in Nat
  BY DEF TypeOK, WorkerTyped, IsTrigger
<1>2. IsStatus(settled) /\ AllNameOwn(settled, cur, rs)
  BY <1>1, SettleTyped, SettleNames
<1>3. pt'.status = settled
  BY <1>1, <1>2, TriggerTyped DEF Settle
<1> QED BY <1>2, <1>3

\* Whatever was stored before, a new run is one of the trigger for its labels.
LEMMA StoredNames ==
  ASSUME TypeOK, NamingInv, NEW pr, Store(pr)
  PROVE  /\ Len(runs) + 1 \in RunIds
         /\ MadeFor(Len(runs) + 1, cur, pr.labels, runs')
         /\ \A status, t : AllNameOwn(status, t, runs) => AllNameOwn(status, t, runs')
         /\ \A phases : Seen(phases, Len(runs)) => Seen(phases, Len(runs'))
<1> DEFINE made == [owner |-> cur, labels |-> pr.labels, pipeline |-> pt.spec.pipeline]
<1>1. /\ runs \in Seq(Run) /\ Len(runs) \in Nat /\ Len(runs) < MaxRuns
      /\ runs' = Append(runs, made)
  BY DEF Store, TypeOK, ClusterTyped
<1>2. /\ Len(runs') = Len(runs) + 1 /\ runs'[Len(runs) + 1] = made
      /\ \A i \in 1..Len(runs) : runs'[i] = runs[i]
  BY <1>1
<1>3. Len(runs) + 1 \in RunIds
  BY <1>1, SlotsAssumption DEF RunIds
<1>4. MadeFor(Len(runs) + 1, cur, pr.labels, runs')
  BY <1>1, <1>2 DEF MadeFor
<1>5. ASSUME NEW status, NEW t, AllNameOwn(status, t, runs)
      PROVE  AllNameOwn(status, t, runs')
  <2>1. Len(runs') \in Nat /\ 1..Len(runs) \subseteq 1..Len(runs')
    BY <1>1, <1>2
  <2> QED BY <1>2, <1>5, <2>1 DEF AllNameOwn, NamesOwn, MadeFor
<1>6. ASSUME NEW phases, Seen(phases, Len(runs))
      PROVE  Seen(phases, Len(runs'))
  BY <1>1, <1>2, <1>6, SlotsAssumption DEF Seen, RunIds
<1> QED BY <1>3, <1>4, <1>5, <1>6

LEMMA StartRunsNames ==
  ASSUME TypeOK, InOrder, NamingInv, NEW pr \in Waiting,
         \/ pr \in prs /\ (Adopt(pr) \/ NoneFound(pr) \/ LookupFails(pr))
         \/ pr \in creating /\ (Created(pr) \/ CreateRejected(pr) \/ CreateFails(pr))
  PROVE  NamingInv'
<1>1. CASE Adopt(pr)
  <2>1. PICK run \in RunIds :
          /\ SetRunName(pr, run)
          /\ \/ run \in OwnedRuns(runs, list, cur, pr.labels)
             \/ run \in OwnedRuns(runs, phase, cur, pr.labels)
    BY <1>1 DEF Adopt, OwnedInList, OwnedLive, FindExistingRun, OwnedRuns
  <2>2. MadeFor(run, cur, pr.labels, runs)
    BY <2>1, ReadsSeen DEF OwnedRuns, MadeFor, NamingInv, Seen, RunIds
  <2>3. AllNameOwn(pt'.status, cur, runs)
    BY <2>1, <2>2, NamedNames DEF NamingInv
  <2>4. /\ UNCHANGED <<runs, trigger, cachedTrigger, cachedPhase, list, cur, pc,
                       before, creating>>
        /\ prs' = prs \ {pr} /\ pc = "start"
    BY <1>1 DEF Adopt, clusterVars, cacheVars
  <2>5. ~IsPullRequest => Waiting' = {}
    BY <2>4, DealtWith DEF NamingInv, InOrder, Waiting
  <2> QED BY <2>3, <2>4, <2>5 DEF NamingInv, PreparedForSlot, Seen
<1>2. CASE NoneFound(pr) /\ pr \in prs
  <2>1. /\ UNCHANGED <<runs, trigger, cachedTrigger, cachedPhase, list, cur, pt,
                       before>>
        /\ prs' = prs \ {pr} /\ creating' = {pr} /\ pc' = "create"
    BY <1>2 DEF NoneFound, clusterVars, cacheVars
  <2>2. Waiting' \subseteq Waiting
    BY <1>2, <2>1 DEF Waiting
  <2>3. ~IsPullRequest => prs' = {}
    BY <1>2, <2>1 DEF NamingInv, PreparedForSlot, Waiting
  <2>4. PreparedForSlot'
    BY <2>1, <2>2, <2>3 DEF NamingInv, PreparedForSlot
  <2> QED BY <2>1, <2>4 DEF NamingInv, Seen
<1>3. CASE LookupFails(pr)
  <2>1. /\ UNCHANGED <<runs, trigger, cachedTrigger, cachedPhase, list, cur, pc,
                       before, creating>>
        /\ prs' = prs \ {pr} /\ pc = "start"
    BY <1>3 DEF LookupFails, clusterVars, cacheVars
  <2>2. AllNameOwn(pt'.status, cur, runs)
    BY <1>3, SettledNames DEF LookupFails, NamingInv
  <2>3. ~IsPullRequest => Waiting' = {}
    BY <2>1, DealtWith DEF NamingInv, InOrder, Waiting
  <2> QED BY <2>1, <2>2, <2>3 DEF NamingInv, PreparedForSlot, Seen
<1>4. CASE pr \in creating /\ (Created(pr) \/ CreateRejected(pr) \/ CreateFails(pr))
  <2>1. /\ UNCHANGED <<trigger, cachedTrigger, cachedPhase, list, cur, before, prs>>
        /\ creating' = {} /\ pc' = "start" /\ creating = {pr}
    BY <1>4 DEF Created, CreateRejected, CreateFails, clusterVars, cacheVars, InOrder
  <2>2. ASSUME AllNameOwn(pt'.status, cur, runs'),
               \A status, t : AllNameOwn(status, t, runs) => AllNameOwn(status, t, runs'),
               \A phases : Seen(phases, Len(runs)) => Seen(phases, Len(runs'))
        PROVE  NamingInv'
    <3>1. ASSUME ~IsPullRequest PROVE Waiting' = {}
      BY <2>1, <3>1 DEF Waiting, NamingInv, PreparedForSlot
    <3>2. Seen(cachedPhase, Len(runs))' /\ Seen(list, Len(runs))'
      BY <2>1, <2>2 DEF NamingInv
    <3>3. PreparedForSlot'
      BY <2>1, <3>1 DEF PreparedForSlot, IsPullRequest
    <3>4. /\ \A t \in Triggers : /\ AllNameOwn(trigger[t].status, t, runs')
                                 /\ AllNameOwn(cachedTrigger[t].status, t, runs')
          /\ AllNameOwn(before, cur, runs')
      BY <2>2 DEF NamingInv
    <3> QED BY <2>1, <2>2, <3>2, <3>3, <3>4 DEF NamingInv
  <2>3. CASE UNCHANGED runs
    <3>1. ~Store(pr)
      BY <2>3, StoredNames DEF Store, TypeOK, ClusterTyped
    <3>2. \E permanent \in BOOLEAN : Settle(pr, permanent)
      BY <1>4, <3>1 DEF Created, CreateRejected, CreateFails
    <3>3. AllNameOwn(pt'.status, cur, runs)
      BY <3>2, SettledNames DEF NamingInv
    <3> QED BY <2>2, <2>3, <3>3
  <2>4. CASE Store(pr)
    <3>1. AllNameOwn(pt.status, cur, runs') /\ AllNameOwn(before, cur, runs')
      BY <2>4, StoredNames DEF NamingInv
    <3>2. CASE SetRunName(pr, Len(runs) + 1)
      BY <2>2, <2>4, <3>1, <3>2, StoredNames, NamedNames
    <3>3. CASE \E permanent \in BOOLEAN : Settle(pr, permanent)
      BY <2>2, <2>4, <3>1, <3>3, StoredNames, SettledNames
    <3> QED BY <1>4, <3>2, <3>3 DEF Created, CreateRejected, CreateFails
  <2> QED BY <1>4, <2>3, <2>4 DEF Created, CreateRejected, CreateFails, clusterVars
<1> QED BY <1>1, <1>2, <1>3, <1>4

LEMMA ContinueNames ==
  ASSUME TypeOK, InOrder, NamingInv, ContinueReconcile
  PROVE  NamingInv'
<1>1. /\ IsTrigger(pt) /\ IsStatus(pt.status) /\ pt.generation \in Nat
      /\ cur \in Triggers /\ IsTrigger(trigger[cur])
      /\ AllNameOwn(trigger[cur].status, cur, runs)
  BY DEF TypeOK, ClusterTyped, WorkerTyped, IsTrigger, NamingInv
<1>2. CASE CalculateState
  BY <1>2 DEF CalculateState, clusterVars, cacheVars, localVars, NamingInv,
              PreparedForSlot, Waiting, Seen
<1>3. CASE PanicInState
  <2>1. /\ Return(queue \union {cur})
        /\ UNCHANGED <<runs, trigger, cachedTrigger, cachedPhase>>
    BY <1>3 DEF PanicInState, clusterVars
  <2> QED BY <2>1, ReturnNames DEF NamingInv, Seen
<1>4. CASE Advance
  <2> DEFINE latest    == GetLatestEvent(pt.status, SourceRead)
             announced == Announce(latest, pt.generation, pt.spec.params)
             prepared  == RunsToStart(latest, pt.generation, pt.spec.params)
  <2>1. IsStatus(latest) /\ AllNameOwn(latest, cur, runs)
    BY <1>1, ReadsTyped, LatestEventTyped, LatestEventNames DEF NamingInv
  <2>2. IsStatus(announced) /\ AllNameOwn(announced, cur, runs)
    BY <1>1, <2>1, AnnounceTyped, AnnounceNames
  <2>3. /\ pt'.status = announced /\ before' = pt.status /\ prs' = prepared
        /\ pc' = "start" /\ creating = {}
        /\ UNCHANGED <<runs, trigger, cachedTrigger, cachedPhase, list, cur, creating>>
    BY <1>1, <1>4, <2>2, TriggerTyped
    DEF Advance, InOrder, clusterVars, cacheVars
  <2>4. ASSUME ~IsPullRequest
        PROVE  /\ \A pr, other \in prepared : pr = other
               /\ \A pr \in prepared : \A k \in Keys :
                    pr.labels = LabelsOf(k, announced[k].revision)
    <3>1. PICK key : Keys = {key}
      BY <2>4, KindAssumption DEF IsPullRequest
    <3>2. prepared \subseteq {[key |-> key, labels |-> LabelsOf(key, latest[key].revision)]}
      BY <2>4, <3>1 DEF RunsToStart, SingleRunsToStart
    <3>3. announced[key].revision = latest[key].revision
      BY <1>1, <2>1, <2>2, <2>4, <3>1, AnnounceKeeps DEF IsStatus
    <3> HIDE DEF prepared, announced, latest
    <3> QED BY <3>1, <3>2, <3>3
  <2>5. Waiting' = prepared
    BY <2>3 DEF Waiting
  <2>6. PreparedForSlot'
    BY <2>3, <2>4, <2>5 DEF PreparedForSlot
  <2> QED BY <2>2, <2>3, <2>6 DEF NamingInv, Seen
<1>5. CASE AdvanceFails
  <2>1. /\ Return(queue \union {cur}) /\ UNCHANGED <<runs, cachedTrigger, cachedPhase>>
    BY <1>5 DEF AdvanceFails, ManageError
  <2>2. AllNameOwn([trigger[cur] EXCEPT !.status =
                      ErrorPatch(@, pt.status, pt.generation)].status, cur, runs)
    BY <1>1, ErrorPatchedNames
  <2>3. \A u \in Triggers : AllNameOwn(trigger'[u].status, u, runs)
    BY <1>5, <2>2 DEF AdvanceFails, ManageError, NamingInv, TypeOK, ClusterTyped
  <2> QED BY <2>1, <2>3, ReturnNames DEF NamingInv, Seen
<1>6. CASE \E pr \in prs : Adopt(pr) \/ NoneFound(pr) \/ LookupFails(pr)
  BY <1>6, StartRunsNames DEF Waiting
<1>7. CASE \E pr \in creating : Created(pr) \/ CreateRejected(pr) \/ CreateFails(pr)
  BY <1>7, StartRunsNames DEF Waiting
<1>8. CASE PatchAdvance
  <2>1. [trigger[cur] EXCEPT !.status = pt.status].status = pt.status
    BY <1>1, TriggerTyped
  <2>2. \A u \in Triggers : AllNameOwn(trigger'[u].status, u, runs)
    BY <1>8, <2>1 DEF PatchAdvance, NamingInv, TypeOK, ClusterTyped
  <2> QED BY <1>8, <2>2
      DEF PatchAdvance, cacheVars, NamingInv, PreparedForSlot, Waiting, Seen
<1>9. CASE Finish
  <2> DEFINE shown == SetCurrentPipelineRunStatus(pt.status, list, pt.generation)
  <2>1. IsStatus(shown) /\ AllNameOwn(shown, cur, runs)
    BY <1>1, SetRunStatusTyped, SetRunStatusNames DEF NamingInv
  <2>2. [trigger[cur] EXCEPT !.status = shown].status = shown
    BY <1>1, <2>1, TriggerTyped
  <2>3. \A u \in Triggers : AllNameOwn(trigger'[u].status, u, runs)
    BY <1>9, <2>1, <2>2 DEF Finish, NamingInv, TypeOK, ClusterTyped
  <2>4. Return(Requeue) /\ UNCHANGED <<runs, cachedTrigger, cachedPhase>>
    BY <1>9 DEF Finish
  <2> QED BY <2>3, <2>4, ReturnNames DEF NamingInv, Seen
<1> QED BY <1>2, <1>3, <1>4, <1>5, <1>6, <1>7, <1>8, <1>9 DEF ContinueReconcile

LEMMA EnvironmentNames ==
  ASSUME TypeOK, NamingInv,
         \/ Deliver
         \/ \E i \in RunIds : Tekton(i) \/ RunPruned(i)
         \/ SourceChanges \/ \E t \in Triggers : EditSpec(t)
         \/ Crash
  PROVE  NamingInv'
<1>1. CASE UNCHANGED <<runs, trigger, cachedTrigger, cachedPhase, pc, localVars>>
  BY <1>1 DEF localVars, NamingInv, PreparedForSlot, Waiting, Seen
<1>2. CASE DeliverSource \/ SourceChanges \/ \E i \in RunIds : Tekton(i) \/ RunPruned(i)
  BY <1>1, <1>2
  DEF DeliverSource, SourceChanges, Tekton, TektonStarts, TektonFinishes,
      RunPruned, RunMoves, clusterVars, cacheVars
<1>3. CASE DeliverRuns
  <2>1. Seen(phase, Len(runs))
    BY ReadsSeen DEF NamingInv
  <2> QED BY <1>3, <2>1 DEF DeliverRuns, clusterVars, localVars, NamingInv,
             PreparedForSlot, Waiting, Seen
<1>4. CASE \E t \in Triggers : DeliverTrigger(t)
  BY <1>4 DEF DeliverTrigger, clusterVars, localVars, NamingInv, TypeOK,
              ManagerTyped, PreparedForSlot, Waiting, Seen
<1>5. CASE \E t \in Triggers : EditSpec(t)
  <2>1. PICK t \in Triggers : EditSpec(t)
    BY <1>5
  <2>2. \A u \in Triggers : trigger'[u].status = trigger[u].status
    BY <2>1 DEF EditSpec, IsTrigger, TypeOK, ClusterTyped
  <2> QED BY <2>1, <2>2 DEF EditSpec, cacheVars, localVars, NamingInv,
             PreparedForSlot, Waiting, Seen
<1>6. CASE Crash
  <2>1. /\ Return(Triggers) /\ UNCHANGED <<runs, trigger>>
        /\ cachedTrigger' = trigger /\ cachedPhase' = phase /\ Seen(phase, Len(runs))
    BY <1>6, ReadsSeen DEF Crash, clusterVars, NamingInv
  <2> QED BY <2>1, ReturnNames DEF NamingInv, Seen
<1> QED BY <1>2, <1>3, <1>4, <1>5, <1>6 DEF Deliver

\* The invariant holds at first, and no step breaks it.
LEMMA NamingInvariant == Spec => []NamingInv
<1>1. Init => NamingInv
  <2> SUFFICES ASSUME Init PROVE NamingInv
    OBVIOUS
  <2>1. /\ \A t \in Triggers : trigger[t].status = EmptyStatus
        /\ cachedTrigger = trigger /\ before = EmptyStatus /\ pt = BlankTrigger
        /\ cachedPhase = NoRunsListed /\ list = NoRunsListed
        /\ prs = {} /\ creating = {}
    BY DEF Init
  <2>2. Seen(NoRunsListed, Len(runs))
    BY DEF Seen, NoRunsListed, Existing
  <2> QED BY <2>1, <2>2, EmptyNames DEF NamingInv, PreparedForSlot, Waiting
<1>2. TypeOK /\ InOrder /\ NamingInv /\ [Next]_vars => NamingInv'
  <2>1. ASSUME NamingInv, UNCHANGED vars PROVE NamingInv'
    BY <2>1 DEF NamingInv, PreparedForSlot, Waiting, Seen, vars, clusterVars,
                cacheVars, localVars
  <2> QED BY <2>1, StartNames, ContinueNames, EnvironmentNames DEF Next
<1> QED BY <1>1, <1>2, AlwaysInOrder, TypeCorrect, PTL DEF Spec

\* The result of one revision is never shown on another: the run a stored slot
\* names was made by its trigger for the revision of the slot.
THEOREM RunOfTheRevision == Spec => []NamedRunIsOfRevision
<1>1. TypeOK /\ NamingInv => NamedRunIsOfRevision
  BY DEF TypeOK, ClusterTyped, NamingInv, AllNameOwn, NamesOwn, MadeFor,
         NamedRunIsOfRevision
<1> QED BY <1>1, NamingInvariant, TypeCorrect, PTL

\* The references a status has slots for.
Tracked == IF IsPullRequest THEN AllKeys ELSE Keys

LabelsTellReferences ==
  \A j, k \in Tracked, r, s \in AnyRevision : LabelsOf(j, r) = LabelsOf(k, s) => j = k

\* Branches share no run, if their labels tell them apart.
THEOREM RunOfItsBranch ==
  ASSUME LabelsTellReferences
  PROVE  Spec => []RunOfOneBranch
<1>1. TypeOK /\ NamingInv => RunOfOneBranch
  <2> SUFFICES ASSUME TypeOK, NamingInv, NEW t \in Triggers,
                      NEW j \in DOMAIN trigger[t].status,
                      NEW k \in DOMAIN trigger[t].status,
                      trigger[t].status[j].run = trigger[t].status[k].run,
                      trigger[t].status[j].run # NoRun
               PROVE  j = k
    BY DEF RunOfOneBranch
  <2> DEFINE status == trigger[t].status
  <2>1. IsStatus(status)
    BY DEF TypeOK, ClusterTyped, IsTrigger
  <2>2. /\ j \in Tracked /\ k \in Tracked
        /\ status[j].revision \in AnyRevision /\ status[k].revision \in AnyRevision
    BY <2>1 DEF IsStatus, Tracked, Slot
  <2>3. LabelsOf(j, status[j].revision) = LabelsOf(k, status[k].revision)
    BY DEF NamingInv, AllNameOwn, NamesOwn, MadeFor
  <2> QED BY <2>2, <2>3 DEF LabelsTellReferences
<1> QED BY <1>1, NamingInvariant, TypeCorrect, PTL

-----------------------------------------------------------------------------
(* The reconciler implements the ledger.                                    *)

\* Where the runs and their phases are what they were, so are the builds; where
\* the statuses are, so are the claims.
BooksKept == Builds' = Builds /\ Claims' = Claims

\* What the invariants say of a slot is that the claim about it is true.
LEMMA TrueClaim ==
  ASSUME NEW slot, NEW t, NEW k, Accounted(slot), NamesOwn(slot, k, t, runs)
  PROVE  Ledger!Truthful(t, k, LedgerClaim(slot))
<1>1. CASE slot.run = NoRun
  BY <1>1 DEF Ledger!Truthful, LedgerClaim, Accounted, NoRun
<1>2. CASE slot.run # NoRun
  <2>1. /\ slot.run \in 1..Len(runs) /\ runs[slot.run].owner = t
        /\ runs[slot.run].labels = LabelsOf(k, slot.revision)
    BY <1>2 DEF NamesOwn, MadeFor
  <2>2. /\ Builds[slot.run].owner = t
        /\ Builds[slot.run].labels = LabelsOf(k, slot.revision)
    BY <2>1 DEF Builds, LedgerBuild
  <2>3. DOMAIN Builds = 1..Len(runs) /\ Len(runs) \in Nat => Len(Builds) = Len(runs)
    BY DEF Builds
  <2> QED BY <1>2, <2>1, <2>2, <2>3 DEF Ledger!Truthful, LedgerClaim, NoRun, Builds
<1> QED BY <1>1, <1>2

LEMMA BuildsKept ==
  ASSUME UNCHANGED <<runs, phase>>
  PROVE  Builds' = Builds
BY DEF Builds, LedgerBuild

LEMMA ClaimsKept ==
  ASSUME \A t \in Triggers : trigger'[t].status = trigger[t].status
  PROVE  Claims' = Claims
BY DEF Claims, LedgerClaims

\* Writing one stored status is a report, and it is a true one.
LEMMA StatusWritten ==
  ASSUME TypeOK, NEW t \in Triggers, NEW status,
         trigger' = [trigger EXCEPT ![t].status = status] \/ UNCHANGED trigger,
         UNCHANGED <<runs, phase>>, StrandInv', NamingInv'
  PROVE  Ledger!Report(t)
<1>1. \A u \in Triggers \ {t} : trigger'[u] = trigger[u]
  BY DEF TypeOK, ClusterTyped
<1>2. \A u \in Triggers \ {t} : Claims'[u] = Claims[u]
  BY <1>1 DEF Claims, LedgerClaims
<1>3. ASSUME NEW k \in DOMAIN Claims'[t]
      PROVE  Ledger!Truthful(t, k, Claims'[t][k])
  <2> DEFINE slot == trigger'[t].status[k]
  <2>1. k \in DOMAIN trigger'[t].status /\ Claims'[t][k] = LedgerClaim(slot)
    BY <1>3 DEF Claims, LedgerClaims
  <2>2. Accounted(slot) /\ NamesOwn(slot, k, t, runs)
    BY <2>1 DEF StrandInv, AllAccounted, NamingInv, AllNameOwn
  <2> QED BY <2>1, <2>2, TrueClaim
<1>4. Builds' = Builds /\ DOMAIN Claims' = Triggers
  BY BuildsKept DEF Claims
<1> QED BY <1>2, <1>3, <1>4 DEF Ledger!Report, Claims, Builds

\* A run that is stored is a build that is started, and there is none like it.
LEMMA StoreStarts ==
  ASSUME TypeOK, OneRunInv, NEW pr \in creating, pr \in PreparedRun, Store(pr),
         UNCHANGED trigger
  PROVE  \E t \in Triggers, l \in Labels : Ledger!Start(t, l)
<1> DEFINE made == [owner |-> cur, labels |-> pr.labels, pipeline |-> pt.spec.pipeline]
           started == [owner |-> cur, labels |-> pr.labels, state |-> "open"]
<1>0. PICK new : new = Len(runs) + 1
  OBVIOUS
<1>1. /\ runs \in Seq(Run) /\ Len(runs) \in Nat /\ runs' = Append(runs, made)
      /\ new = Len(runs) + 1
      /\ phase' = [phase EXCEPT ![new] = "created"] /\ phase \in [RunIds -> Phases]
      /\ \A i \in RunIds : phase[i] = "absent" <=> i > Len(runs)
      /\ new \in RunIds /\ 1..Len(runs) \subseteq RunIds
      /\ cur \in Triggers /\ pr.labels \in Labels
  BY <1>0, LabelsTyped, SlotsAssumption
  DEF Store, TypeOK, ClusterTyped, WorkerTyped, PreparedRun, RunIds
<1>2. ASSUME NEW i \in 1..Len(runs)
      PROVE  ~Ledger!InForce(i, cur, pr.labels)
  <2>1. i \notin OwnedRuns(runs, phase, cur, pr.labels)
    BY DEF OneRunInv, OwnedLive
  <2>2. ~(/\ runs[i].owner = cur /\ runs[i].labels = pr.labels
          /\ phase[i] # "pruned")
    BY <1>1, <2>1 DEF OwnedRuns, Existing
  <2> QED BY <2>2 DEF Ledger!InForce, Builds, LedgerBuild, BuildState
<1>3. Builds' = Append(Builds, started)
  <2> DEFINE S == {started} \union {LedgerBuild(i) : i \in 1..Len(runs)}
  <2>1. /\ Len(runs') = new /\ runs'[new] = made
        /\ \A i \in 1..Len(runs) : runs'[i] = runs[i] /\ phase'[i] = phase[i]
        /\ phase'[new] = "created"
    BY <1>1
  <2>2. LedgerBuild(new)' = started
    BY <2>1 DEF LedgerBuild, BuildState
  <2>3. \A i \in 1..Len(runs) : (LedgerBuild(i))' = LedgerBuild(i)
    BY <2>1 DEF LedgerBuild
  <2>4. Builds' = [i \in 1..new |-> (LedgerBuild(i))']
    BY <2>1 DEF Builds
  <2>5. Builds \in Seq(S) /\ Len(Builds) = Len(runs)
    BY <1>1 DEF Builds
  <2>6. /\ Append(Builds, started) \in Seq(S) /\ Len(Append(Builds, started)) = new
        /\ Append(Builds, started)[new] = started
        /\ \A i \in 1..Len(runs) : Append(Builds, started)[i] = LedgerBuild(i)
    BY <1>1, <2>5 DEF Builds
  <2>7. ASSUME NEW i \in 1..new PROVE (LedgerBuild(i))' \in S
    <3>1. CASE i = new
      BY <2>2, <3>1
    <3>2. CASE i \in 1..Len(runs)
      BY <2>3, <3>2
    <3> QED BY <1>1, <3>1, <3>2
  <2>8. Builds' \in Seq(S) /\ Len(Builds') = new
    BY <1>1, <2>4, <2>7
  <2>9. \A i \in 1..new : Builds'[i] = Append(Builds, started)[i]
    BY <1>1, <2>2, <2>3, <2>4, <2>6
  <2> HIDE DEF S
  <2> QED BY <2>6, <2>8, <2>9, SeqEqual
<1>4. Claims' = Claims
  BY ClaimsKept
<1>5. Len(Builds) = Len(runs)
  BY <1>1 DEF Builds
<1>6. Ledger!Start(cur, pr.labels)
  BY <1>2, <1>3, <1>4, <1>5 DEF Ledger!Start, Builds, Claims
<1> QED BY <1>1, <1>6

\* A run that moves is a build that ends, is removed or is still open.
LEMMA MoveEndsOrRemoves ==
  ASSUME TypeOK, NEW i \in RunIds, Tekton(i) \/ RunPruned(i)
  PROVE  BooksKept \/ \E j \in 1..Len(Builds) : Ledger!Ends(j) \/ Ledger!Removed(j)
<1>1. PICK from \in SUBSET (Phases \ {"absent"}), to \in Phases :
        /\ RunMoves(i, from, to)
        /\ \/ from = {"created"} /\ to \in {"running", "unresolved"}
           \/ from = {"running"} /\ to \in {"succeeded", "failed"}
           \/ from = {"succeeded", "failed", "unresolved"} /\ to = "pruned"
  BY ReconcilerAssumption
  DEF Tekton, TektonStarts, TektonFinishes, RunPruned, Phases
<1>2. /\ phase \in [RunIds -> Phases] /\ phase' = [phase EXCEPT ![i] = to]
      /\ phase[i] \in from /\ i \in 1..Len(runs) /\ UNCHANGED <<runs, trigger>>
  BY <1>1 DEF RunMoves, TypeOK, ClusterTyped, RunIds
<1>3. Claims' = Claims
  BY <1>2, ClaimsKept
<1>4. Builds' = [Builds EXCEPT ![i].state = BuildState(to)]
  <2>1. ASSUME NEW j \in 1..Len(runs)
        PROVE  Builds'[j] = [Builds EXCEPT ![i].state = BuildState(to)][j]
    <3>1. CASE j = i
      BY <1>2, <3>1 DEF Builds, LedgerBuild
    <3>2. CASE j # i
      <4>1. phase'[j] = phase[j]
        BY <1>2, <3>2
      <4> QED BY <1>2, <3>2, <4>1 DEF Builds, LedgerBuild
    <3> QED BY <3>1, <3>2
  <2> QED BY <1>2, <2>1 DEF Builds
<1>5. Builds[i].state = BuildState(phase[i]) /\ Len(Builds) = Len(runs)
  BY <1>2 DEF Builds, LedgerBuild, TypeOK, ClusterTyped
<1>6. CASE to = "running"
  <2>1. BuildState(to) = Builds[i].state
    BY <1>1, <1>2, <1>5, <1>6 DEF BuildState
  <2>2. Builds' = Builds
    BY <1>2, <1>4, <2>1 DEF Builds, LedgerBuild
  <2> QED BY <1>3, <2>2 DEF BooksKept
<1>7. CASE to \in {"unresolved", "succeeded", "failed"}
  <2>1. Builds[i].state = "open" /\ BuildState(to) = "over"
    BY <1>1, <1>2, <1>5, <1>7 DEF BuildState
  <2>2. Ledger!Ends(i)
    BY <1>3, <1>4, <2>1 DEF Ledger!Ends, Ledger!Moves, Builds, Claims
  <2> QED BY <1>2, <1>5, <2>2
<1>8. CASE to = "pruned"
  <2>1. Builds[i].state = "over" /\ BuildState(to) = "gone"
    BY <1>1, <1>2, <1>5, <1>8 DEF BuildState
  <2>2. Ledger!Removed(i)
    BY <1>3, <1>4, <2>1 DEF Ledger!Removed, Ledger!Moves, Builds, Claims
  <2> QED BY <1>2, <1>5, <2>2
<1> QED BY <1>1, <1>6, <1>7, <1>8

\* Every step of the reconciler is a step of the ledger, or is not seen by it.
LEMMA StepRefines ==
  ASSUME TypeOK, InOrder, OneRunInv, StrandInv', NamingInv', [Next]_vars
  PROVE  [Ledger!Next]_<<Builds, Claims>>
<1> DEFINE Reports == \E t \in Triggers : Ledger!Report(t)
           Starts  == \E t \in Triggers, l \in Labels : Ledger!Start(t, l)
           Moves   == \E j \in 1..Len(Builds) : Ledger!Ends(j) \/ Ledger!Removed(j)
<1> SUFFICES Reports \/ Starts \/ Moves \/ BooksKept
  BY DEF Ledger!Next, BooksKept, Builds, Claims
<1> HIDE DEF Reports, Starts, Moves
<1>1. ASSUME UNCHANGED <<runs, phase, trigger>> PROVE BooksKept
  BY <1>1, BuildsKept, ClaimsKept DEF BooksKept
<1>2. ASSUME NEW t \in Triggers, NEW read, NEW spent, ManageError(t, read, spent),
             UNCHANGED <<runs, phase>>
      PROVE  Reports
  <2>1. \E status : \/ trigger' = [trigger EXCEPT ![t].status = status]
                    \/ UNCHANGED trigger
    BY <1>2 DEF ManageError
  <2> QED BY <1>2, <2>1, StatusWritten DEF Reports
<1>3. ASSUME NEW t \in Triggers, StartReconcile(t) PROVE Reports \/ BooksKept
  <2>1. CASE StartRefused(t)
    BY <1>2, <2>1 DEF StartRefused
  <2>2. CASE StartChecked(t) \/ StartUnsupported(t) \/ StartBlind(t)
    BY <1>1, <2>2 DEF StartChecked, StartUnsupported, StartBlind, clusterVars
  <2> QED BY <1>3, <2>1, <2>2 DEF StartReconcile
<1>4. CASE CalculateState \/ PanicInState \/ Advance
           \/ \E pr \in prs : Adopt(pr) \/ NoneFound(pr) \/ LookupFails(pr)
  BY <1>1, <1>4 DEF CalculateState, PanicInState, Advance, Adopt, NoneFound,
                    LookupFails, clusterVars
<1>5. CASE AdvanceFails
  BY <1>2, <1>5 DEF AdvanceFails, TypeOK, WorkerTyped
<1>6. CASE \E pr \in creating : Created(pr) \/ CreateRejected(pr) \/ CreateFails(pr)
  <2>1. PICK pr \in creating : Created(pr) \/ CreateRejected(pr) \/ CreateFails(pr)
    BY <1>6
  <2>2. pr \in PreparedRun
    BY DEF TypeOK, WorkerTyped
  <2>3. UNCHANGED trigger /\ (Store(pr) \/ UNCHANGED <<runs, phase>>)
    BY <2>1 DEF Created, CreateRejected, CreateFails, clusterVars
  <2> QED BY <1>1, <2>2, <2>3, StoreStarts DEF Starts
<1>7. CASE PatchAdvance \/ Finish
  <2>1. /\ UNCHANGED <<runs, phase>> /\ cur \in Triggers
        /\ \E status : \/ trigger' = [trigger EXCEPT ![cur].status = status]
                       \/ UNCHANGED trigger
    BY <1>7 DEF PatchAdvance, Finish, TypeOK, WorkerTyped
  <2> QED BY <2>1, StatusWritten DEF Reports
<1>8. CASE Deliver \/ SourceChanges \/ Crash \/ UNCHANGED vars
  BY <1>1, <1>8 DEF Deliver, DeliverRuns, DeliverSource, DeliverTrigger,
                    SourceChanges, Crash, vars, clusterVars
<1>9. CASE \E i \in RunIds : Tekton(i) \/ RunPruned(i)
  BY <1>9, MoveEndsOrRemoves DEF Moves
<1>10. CASE \E t \in Triggers : EditSpec(t)
  <2>1. \A u \in Triggers : trigger'[u].status = trigger[u].status
    BY <1>10 DEF EditSpec, IsTrigger, TypeOK, ClusterTyped
  <2> QED BY <1>10, <2>1, BuildsKept, ClaimsKept DEF EditSpec, BooksKept
<1> QED BY <1>3, <1>4, <1>5, <1>6, <1>7, <1>8, <1>9, <1>10 DEF Next, ContinueReconcile

\* The reconciler implements the ledger of builds: at most one build of a revision
\* in force, and no claim that is not true.
THEOREM LedgerImplemented == Spec => ImplementsLedger
<1>1. Init => Ledger!Init
  <2> SUFFICES ASSUME Init PROVE Ledger!Init
    OBVIOUS
  <2>1. Len(runs) = 0 /\ \A t \in Triggers : trigger[t].status = EmptyStatus
    BY DEF Init
  <2>2. Builds = <<>>
    BY <2>1 DEF Builds
  <2>3. ASSUME NEW t \in Triggers, NEW k \in DOMAIN Claims[t]
        PROVE  Claims[t][k].build = 0 /\ Claims[t][k].due
    <3>1. Claims[t] = LedgerClaims(EmptyStatus)
      BY <2>1 DEF Claims
    <3>2. k \in DOMAIN EmptyStatus /\ Claims[t][k] = LedgerClaim(EmptyStatus[k])
      BY <2>3, <3>1 DEF LedgerClaims
    <3>3. EmptyStatus[k] = NewSlot(NoRevision, FALSE)
      BY <3>2 DEF EmptyStatus
    <3>4. EmptyStatus[k].run = 0 /\ EmptyStatus[k].conditions = {}
      BY <3>3 DEF NewSlot, NoRun
    <3>5. LedgerClaim(EmptyStatus[k]).build = 0 /\ LedgerClaim(EmptyStatus[k]).due
      <4> DEFINE slot == EmptyStatus[k]
      <4>1. slot.run = 0 /\ slot.conditions = {}
        BY <3>4
      <4> HIDE DEF slot
      <4>2. LedgerClaim(slot).build = 0
        BY <4>1 DEF LedgerClaim
      <4>3. LedgerClaim(slot).due
        BY <4>1 DEF LedgerClaim
      <4> QED BY <4>2, <4>3 DEF slot
    <3> QED BY <3>2, <3>5
  <2> QED BY <2>2, <2>3 DEF Ledger!Init, Builds, Claims
<1>2. TypeOK /\ InOrder /\ OneRunInv /\ StrandInv' /\ NamingInv' /\ [Next]_vars
        => [Ledger!Next]_<<Builds, Claims>>
  BY StepRefines
<1>3. [Ledger!Next]_<<Builds, Claims>> => [Ledger!Next]_Ledger!ledger
  BY DEF Ledger!ledger, Builds, Claims
<1> QED BY <1>1, <1>2, <1>3, TypeCorrect, AlwaysInOrder, OneRunInvariant,
           StrandInvariant, NamingInvariant, PTL DEF Spec, ImplementsLedger, Ledger!Spec
-----------------------------------------------------------------------------
(* The ledger keeps what it promises, and so does what implements it.       *)

LedgerInv ==
  /\ Builds \in Seq(Ledger!Build)
  /\ Ledger!OneInForce
  /\ Ledger!AllTruthful

\* A build that keeps its owner and its labels and is not in force anew is as
\* well accounted for as it was.
LEMMA BuildsMoveOn ==
  ASSUME LedgerInv, Builds' \in Seq(Ledger!Build), UNCHANGED Claims,
         Len(Builds') = Len(Builds),
         \A i \in 1..Len(Builds) : /\ Builds'[i].owner = Builds[i].owner
                                   /\ Builds'[i].labels = Builds[i].labels
                                   /\ Builds[i].state = "gone" => Builds'[i].state = "gone"
  PROVE  LedgerInv'
<1>1. Ledger!OneInForce'
  <2> SUFFICES ASSUME NEW t \in Triggers, NEW l \in Labels,
                      NEW i \in 1..Len(Builds), NEW j \in 1..Len(Builds),
                      Ledger!InForce(i, t, l)', Ledger!InForce(j, t, l)'
               PROVE  i = j
    BY DEF Ledger!OneInForce
  <2>1. Ledger!InForce(i, t, l) /\ Ledger!InForce(j, t, l)
    BY DEF Ledger!InForce
  <2> QED BY <2>1 DEF LedgerInv, Ledger!OneInForce
<1>2. Ledger!AllTruthful'
  <2> SUFFICES ASSUME NEW t \in Triggers, NEW k \in DOMAIN Claims[t]
               PROVE  Ledger!Truthful(t, k, Claims[t][k])'
    BY DEF Ledger!AllTruthful
  <2>1. Ledger!Truthful(t, k, Claims[t][k])
    BY DEF LedgerInv, Ledger!AllTruthful
  <2> QED BY <2>1 DEF Ledger!Truthful
<1> QED BY <1>1, <1>2 DEF LedgerInv

LEMMA StartKeepsPromise ==
  ASSUME LedgerInv, NEW t \in Triggers, NEW l \in Labels, Ledger!Start(t, l)
  PROVE  LedgerInv'
<1> DEFINE new == [owner |-> t, labels |-> l, state |-> "open"]
<1>1. Builds' = Append(Builds, new) /\ UNCHANGED Claims /\ Len(Builds) \in Nat
  BY DEF Ledger!Start, LedgerInv
<1>2. Builds' \in Seq(Ledger!Build)
  BY <1>1 DEF LedgerInv, Ledger!Build, Ledger!BuildStates
<1>3. /\ Len(Builds') = Len(Builds) + 1
      /\ \A i \in 1..Len(Builds) : Builds'[i] = Builds[i]
      /\ Builds'[Len(Builds) + 1] = new
  BY <1>1 DEF LedgerInv
<1>4. Ledger!OneInForce'
  <2> SUFFICES ASSUME NEW u \in Triggers, NEW m \in Labels,
                      NEW i \in 1..Len(Builds) + 1, NEW j \in 1..Len(Builds) + 1,
                      Ledger!InForce(i, u, m)', Ledger!InForce(j, u, m)'
               PROVE  i = j
    BY <1>3 DEF Ledger!OneInForce
  <2>1. ASSUME NEW n \in 1..Len(Builds) + 1, Ledger!InForce(n, u, m)'
        PROVE  IF n = Len(Builds) + 1 THEN u = t /\ m = l
               ELSE n \in 1..Len(Builds) /\ Ledger!InForce(n, u, m)
    <3>1. CASE n = Len(Builds) + 1
      BY <1>3, <2>1, <3>1 DEF Ledger!InForce
    <3>2. CASE n # Len(Builds) + 1
      <4>1. n \in 1..Len(Builds) /\ Builds'[n] = Builds[n]
        BY <1>1, <1>3, <3>2
      <4> QED BY <2>1, <3>2, <4>1 DEF Ledger!InForce
    <3> QED BY <3>1, <3>2
  <2>2. \A n \in 1..Len(Builds) : ~Ledger!InForce(n, t, l)
    BY DEF Ledger!Start
  <2>3. CASE i # Len(Builds) + 1 /\ j # Len(Builds) + 1
    BY <2>1, <2>3 DEF LedgerInv, Ledger!OneInForce
  <2>4. CASE i = Len(Builds) + 1 \/ j = Len(Builds) + 1
    BY <2>1, <2>2, <2>4
  <2> QED BY <2>3, <2>4
<1>5. Ledger!AllTruthful'
  <2> SUFFICES ASSUME NEW u \in Triggers, NEW k \in DOMAIN Claims[u]
               PROVE  Ledger!Truthful(u, k, Claims[u][k])'
    BY <1>1 DEF Ledger!AllTruthful
  <2>1. Ledger!Truthful(u, k, Claims[u][k])
    BY DEF LedgerInv, Ledger!AllTruthful
  <2> QED BY <1>1, <1>3, <2>1 DEF Ledger!Truthful
<1> QED BY <1>2, <1>4, <1>5 DEF LedgerInv

LEMMA MovePromised ==
  ASSUME LedgerInv, NEW i \in 1..Len(Builds), Ledger!Ends(i) \/ Ledger!Removed(i)
  PROVE  LedgerInv'
<1>1. PICK to \in {"over", "gone"} :
        /\ Builds' = [Builds EXCEPT ![i].state = to]
        /\ Builds[i].state # "gone"
  BY DEF Ledger!Ends, Ledger!Removed, Ledger!Moves
<1>2. UNCHANGED Claims
  BY DEF Ledger!Ends, Ledger!Removed, Ledger!Moves
<1>3. Builds[i] \in Ledger!Build /\ [Builds[i] EXCEPT !.state = to] \in Ledger!Build
  <2>1. Builds[i] \in Ledger!Build
    BY DEF LedgerInv
  <2> QED BY <2>1 DEF Ledger!Build, Ledger!BuildStates
<1>4. Builds' = [Builds EXCEPT ![i] = [Builds[i] EXCEPT !.state = to]]
  BY <1>1
<1>5. Builds' \in Seq(Ledger!Build) /\ Len(Builds') = Len(Builds)
  BY <1>3, <1>4 DEF LedgerInv
<1>6. \A j \in 1..Len(Builds) :
        Builds'[j] = IF j = i THEN [Builds[i] EXCEPT !.state = to] ELSE Builds[j]
  BY <1>4 DEF LedgerInv
<1>7. ASSUME NEW j \in 1..Len(Builds)
      PROVE  /\ Builds'[j].owner = Builds[j].owner
             /\ Builds'[j].labels = Builds[j].labels
             /\ Builds[j].state = "gone" => Builds'[j].state = "gone"
  BY <1>1, <1>3, <1>6 DEF Ledger!Build
<1> QED BY <1>2, <1>5, <1>7, BuildsMoveOn

LEMMA ReportPromised ==
  ASSUME LedgerInv, NEW t \in Triggers, Ledger!Report(t)
  PROVE  LedgerInv'
<1>1. UNCHANGED Builds
  BY DEF Ledger!Report
<1>2. Ledger!OneInForce'
  BY <1>1 DEF LedgerInv, Ledger!OneInForce, Ledger!InForce
<1>3. Ledger!AllTruthful'
  <2> SUFFICES ASSUME NEW u \in Triggers, NEW k \in DOMAIN Claims'[u]
               PROVE  Ledger!Truthful(u, k, Claims[u][k])'
    BY DEF Ledger!AllTruthful
  <2>1. Ledger!Truthful(u, k, Claims'[u][k])
    BY DEF Ledger!Report, LedgerInv, Ledger!AllTruthful
  <2> QED BY <1>1, <2>1 DEF Ledger!Truthful
<1> QED BY <1>1, <1>2, <1>3 DEF LedgerInv

\* What the ledger promises of its builds and claims is kept, caches, retries and
\* crashes in between or not: a trigger has one build of a revision at most, and
\* what its stored status says of a reference is true (Reconcile, startRuns).
THEOREM PromisesKept == Spec => [](Ledger!OneInForce /\ Ledger!AllTruthful)
<1>1. Ledger!Init => LedgerInv
  BY DEF Ledger!Init, LedgerInv, Ledger!OneInForce, Ledger!AllTruthful, Ledger!Truthful
<1>2. LedgerInv /\ [Ledger!Next]_Ledger!ledger => LedgerInv'
  <2> SUFFICES ASSUME LedgerInv, [Ledger!Next]_Ledger!ledger PROVE LedgerInv'
    OBVIOUS
  <2>1. CASE UNCHANGED Ledger!ledger
    BY <2>1 DEF Ledger!ledger, LedgerInv, Ledger!OneInForce, Ledger!InForce,
                Ledger!AllTruthful, Ledger!Truthful
  <2>2. CASE Ledger!Next
    BY <2>2, StartKeepsPromise, MovePromised, ReportPromised DEF Ledger!Next
  <2> QED BY <2>1, <2>2
<1>3. LedgerInv => Ledger!OneInForce /\ Ledger!AllTruthful
  BY DEF LedgerInv
<1> QED BY <1>1, <1>2, <1>3, LedgerImplemented, PTL DEF ImplementsLedger, Ledger!Spec
=============================================================================

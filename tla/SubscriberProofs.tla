-------------------------- MODULE SubscriberProofs --------------------------
(***************************************************************************)
(* What the operations of a subscriber do to a status: they keep it a      *)
(* status, and they keep its slots accounted for.                          *)
(***************************************************************************)
EXTENDS SourceSubscriber, TLAPS

\* No slot is stranded.
AllAccounted(status) == \A k \in DOMAIN status : Accounted(status[k])

\* Those that would be are the slots of runs still waiting to be settled.
Pending(status, waiting) ==
  \A k \in DOMAIN status :
    \/ Accounted(status[k])
    \/ \E pr \in waiting : pr.labels = LabelsOf(k, status[k].revision)

\* The conditions the operator writes have the type of a condition.
LEMMA ConditionsTyped ==
  ASSUME NEW g \in Nat
  PROVE  /\ UnknownCondition(g) \in Condition
         /\ ErrorCondition(g) \in Condition
         /\ CreateFailedCondition(g) \in Condition
         /\ UnmarshalFailedCondition \in Condition
         /\ \A runStatus : RunCondition(runStatus, g) \in Condition
<1>1. /\ UnknownCondition(g) \in Condition
      /\ ErrorCondition(g) \in Condition
      /\ CreateFailedCondition(g) \in Condition
      /\ UnmarshalFailedCondition \in Condition
  BY DEF UnknownCondition, ErrorCondition, CreateFailedCondition,
         UnmarshalFailedCondition, Condition, ConditionTypes,
         ConditionStatuses, Reasons
<1>2. ASSUME NEW runStatus PROVE RunCondition(runStatus, g) \in Condition
  BY DEF RunCondition, Condition, ConditionTypes, ConditionStatuses, Reasons
<1> QED BY <1>1, <1>2

-----------------------------------------------------------------------------
(* Slots.                                                                   *)

LEMMA NewSlotTyped ==
  ASSUME NEW revision \in AnyRevision, NEW details \in BOOLEAN
  PROVE  /\ NewSlot(revision, details) \in Slot
         /\ NewSlot(revision, details).revision = revision
         /\ NewSlot(revision, details).conditions = {}
BY DEF NewSlot, Slot, NoRun

\* A condition is added to a slot without touching its revision or its run.
LEMMA AddOrReplaceTyped ==
  ASSUME NEW slot \in Slot, NEW c \in Condition
  PROVE  /\ AddOrReplaceCondition(slot, c) \in Slot
         /\ AddOrReplaceCondition(slot, c).revision = slot.revision
         /\ AddOrReplaceCondition(slot, c).run = slot.run
         /\ c \in AddOrReplaceCondition(slot, c).conditions
BY DEF AddOrReplaceCondition, Slot, Condition

LEMMA ClearTyped ==
  ASSUME NEW slot \in Slot
  PROVE  /\ ClearConditions(slot) \in Slot
         /\ ClearConditions(slot).revision = slot.revision
BY DEF ClearConditions, Slot

LEMMA SetRunTyped ==
  ASSUME NEW slot \in Slot, NEW run \in RunIds \union {NoRun}
  PROVE  /\ SetRun(slot, run) \in Slot
         /\ SetRun(slot, run).revision = slot.revision
         /\ SetRun(slot, run).run = run
BY DEF SetRun, Slot

\* A rejected slot carries an Error.
LEMMA RejectedSlotTyped ==
  ASSUME NEW slot \in Slot, NEW g \in Nat
  PROVE  /\ RejectedSlot(slot, g) \in Slot
         /\ Accounted(RejectedSlot(slot, g))
<1> DEFINE bare == SetRun(ClearConditions(slot), NoRun)
<1>1. bare \in Slot
  BY ClearTyped, SetRunTyped
<1>2. CreateFailedCondition(g) \in Condition
  BY ConditionsTyped
<1>3. RejectedSlot(slot, g) = AddOrReplaceCondition(bare, CreateFailedCondition(g))
  BY DEF RejectedSlot
<1>4. CreateFailedCondition(g).type = "Error"
  BY DEF CreateFailedCondition
<1> QED BY <1>1, <1>2, <1>3, <1>4, AddOrReplaceTyped DEF Accounted

\* Adding an Error accounts for a slot, whatever it was.
LEMMA ErrorAccounts ==
  ASSUME NEW slot \in Slot, NEW g \in Nat
  PROVE  /\ AddOrReplaceCondition(slot, ErrorCondition(g)) \in Slot
         /\ Accounted(AddOrReplaceCondition(slot, ErrorCondition(g)))
<1>1. ErrorCondition(g) \in Condition /\ ErrorCondition(g).type = "Error"
  BY ConditionsTyped DEF ErrorCondition
<1> QED BY <1>1, AddOrReplaceTyped DEF Accounted

\* With nothing left waiting, nothing is stranded.
LEMMA PendingNone ==
  ASSUME NEW status, Pending(status, {})
  PROVE  AllAccounted(status)
BY DEF Pending, AllAccounted

LEMMA LabelsTyped ==
  ASSUME NEW k \in AllKeys, NEW revision \in AnyRevision
  PROVE  LabelsOf(k, revision) \in Labels
BY SlotsAssumption

\* What of a run is found becomes a condition of its slot, which still names it.
LEMMA ResultTyped ==
  ASSUME NEW slot \in Slot, NEW c \in Condition, slot.run # NoRun
  PROVE  /\ AddOrReplaceCondition(slot, c) \in Slot
         /\ Accounted(AddOrReplaceCondition(slot, c))
BY AddOrReplaceTyped DEF Accounted

-----------------------------------------------------------------------------
(* The GitRepository and ImagePolicy subscribers: one slot per key.         *)

LEMMA SingleStatusTyped ==
  ASSUME ~IsPullRequest, NEW status
  PROVE  IsStatus(status) <=>
           status = [k \in Keys |-> status[k]] /\ \A k \in Keys : status[k] \in Slot
BY DEF IsStatus

\* The latest event keeps a slot or starts a blank one.
LEMMA SingleLatestEventTyped ==
  ASSUME ~IsPullRequest, NEW status, IsStatus(status), NEW source \in SourceStates
  PROVE  /\ IsStatus(SingleLatestEvent(status, source))
         /\ AllAccounted(status) => AllAccounted(SingleLatestEvent(status, source))
<1> DEFINE latest == SingleLatestEvent(status, source)
<1>1. DOMAIN status = Keys /\ \A k \in Keys : status[k] \in Slot
  BY DEF IsStatus
<1>2. ASSUME NEW k \in Keys
      PROVE  /\ latest[k] \in Slot
             /\ Accounted(status[k]) => Accounted(latest[k])
  <2>1. source[k] \in AnyRevision
    BY DEF SourceStates
  <2>2. NewSlot(source[k], TRUE) \in Slot /\ Accounted(NewSlot(source[k], TRUE))
    BY <2>1, NewSlotTyped DEF Accounted
  <2> QED BY <1>1, <2>2 DEF SingleLatestEvent
<1>3. DOMAIN latest = Keys /\ latest = [k \in Keys |-> latest[k]]
  BY DEF SingleLatestEvent
<1> QED BY <1>1, <1>2, <1>3, SingleStatusTyped DEF AllAccounted

\* An announced slot is accounted for, or waits for a run that was prepared.
LEMMA SingleAnnounceTyped ==
  ASSUME ~IsPullRequest, NEW status, IsStatus(status), NEW g \in Nat, NEW params
  PROVE  /\ IsStatus(SingleAnnounce(status, g, params))
         /\ SingleRunsToStart(status, g, params) \subseteq PreparedRun
         /\ AllAccounted(status) =>
              Pending(SingleAnnounce(status, g, params),
                      SingleRunsToStart(status, g, params))
<1> DEFINE announced == SingleAnnounce(status, g, params)
           prepared  == SingleRunsToStart(status, g, params)
           retried(k) == IF RetryAfterSpecEdit(status[k].conditions, g)
                           THEN ClearConditions(status[k]) ELSE status[k]
           base(k) == IF params = "array"
                        THEN AddOrReplaceCondition(retried(k), UnmarshalFailedCondition)
                        ELSE retried(k)
<1>1. DOMAIN status = Keys /\ \A k \in Keys : status[k] \in Slot
  BY DEF IsStatus
<1>2. prepared \subseteq PreparedRun
  BY <1>1 DEF PreparedRun, SingleRunsToStart, AllKeys, Slot
<1>3. UnknownCondition(g) \in Condition /\ UnmarshalFailedCondition \in Condition
  BY ConditionsTyped
<1>4. ASSUME NEW k \in Keys
      PROVE  /\ announced[k] \in Slot
             /\ \/ Accounted(status[k]) => Accounted(announced[k])
                \/ \E pr \in prepared : pr.labels = LabelsOf(k, announced[k].revision)
  <2>1. base(k) \in Slot /\ base(k).revision = status[k].revision
    <3>1. retried(k) \in Slot /\ retried(k).revision = status[k].revision
      BY <1>1, ClearTyped
    <3> QED BY <1>3, <3>1, AddOrReplaceTyped
  <2>2. CASE ~SlotEligibleForCreate(status[k].conditions, g)
    BY <1>1, <2>2 DEF SingleAnnounce
  <2>3. CASE SinglePrepares(status[k], g, params)
    <3>1. announced[k] = AddOrReplaceCondition(base(k), UnknownCondition(g))
      BY <2>3 DEF SingleAnnounce, SinglePrepares
    <3>2. announced[k] \in Slot /\ announced[k].revision = status[k].revision
      BY <1>3, <2>1, <3>1, AddOrReplaceTyped
    <3>3. [key |-> k, labels |-> LabelsOf(k, status[k].revision)] \in prepared
      BY <2>3 DEF SingleRunsToStart
    <3> QED BY <3>2, <3>3
  <2>4. CASE SlotEligibleForCreate(status[k].conditions, g)
             /\ ~SinglePrepares(status[k], g, params)
    <3>1. announced[k] = AddOrReplaceCondition(base(k), ErrorCondition(g))
      BY <2>4 DEF SingleAnnounce
    <3> QED BY <2>1, <3>1, ErrorAccounts
  <2> QED BY <2>2, <2>3, <2>4
<1>5. DOMAIN announced = Keys /\ announced = [k \in Keys |-> announced[k]]
  BY DEF SingleAnnounce
<1> QED BY <1>1, <1>2, <1>4, <1>5, SingleStatusTyped DEF AllAccounted, Pending

\* A failed create leaves the slot with an Error, whichever way it is settled.
LEMMA SingleSettleTyped ==
  ASSUME ~IsPullRequest, NEW status, IsStatus(status), NEW before, IsStatus(before),
         NEW g \in Nat, NEW permanent \in BOOLEAN
  PROVE  /\ IsStatus(SingleSettleFailedRun(status, before, g, permanent))
         /\ AllAccounted(SingleSettleFailedRun(status, before, g, permanent))
<1> DEFINE settled == SingleSettleFailedRun(status, before, g, permanent)
<1>1. \A k \in Keys : status[k] \in Slot /\ before[k] \in Slot
  BY DEF IsStatus
<1>2. ASSUME NEW k \in Keys PROVE settled[k] \in Slot /\ Accounted(settled[k])
  BY <1>1, ErrorAccounts, RejectedSlotTyped DEF SingleSettleFailedRun
<1>3. DOMAIN settled = Keys /\ settled = [k \in Keys |-> settled[k]]
  BY DEF SingleSettleFailedRun
<1> QED BY <1>2, <1>3, SingleStatusTyped DEF AllAccounted

LEMMA SingleSetRunNameTyped ==
  ASSUME ~IsPullRequest, NEW status, IsStatus(status), NEW run \in RunIds
  PROVE  /\ IsStatus(SingleSetRunName(status, run))
         /\ AllAccounted(SingleSetRunName(status, run))
<1> DEFINE named == SingleSetRunName(status, run)
<1>1. \A k \in Keys : status[k] \in Slot
  BY DEF IsStatus
<1>2. run # NoRun
  BY SlotsAssumption DEF RunIds, NoRun
<1>3. ASSUME NEW k \in Keys PROVE named[k] \in Slot /\ Accounted(named[k])
  BY <1>1, <1>2, SetRunTyped DEF SingleSetRunName, Accounted
<1>4. DOMAIN named = Keys /\ named = [k \in Keys |-> named[k]]
  BY DEF SingleSetRunName
<1> QED BY <1>3, <1>4, SingleStatusTyped DEF AllAccounted

LEMMA SingleSetRunStatusTyped ==
  ASSUME ~IsPullRequest, NEW status, IsStatus(status), NEW list, NEW g \in Nat
  PROVE  /\ IsStatus(SingleSetRunStatus(status, list, g))
         /\ AllAccounted(status) => AllAccounted(SingleSetRunStatus(status, list, g))
<1> DEFINE shown == SingleSetRunStatus(status, list, g)
<1>1. DOMAIN status = Keys /\ \A k \in Keys : status[k] \in Slot
  BY DEF IsStatus
<1>2. ASSUME NEW k \in Keys
      PROVE  shown[k] \in Slot /\ (Accounted(status[k]) => Accounted(shown[k]))
  <2> DEFINE found == RunStatus(list[status[k].run])
             c == IF found = "none" THEN UnmarshalFailedCondition
                                    ELSE RunCondition(found, g)
  <2>1. c \in Condition
    BY ConditionsTyped
  <2>2. shown[k] = status[k] \/ (status[k].run # NoRun
                                  /\ shown[k] = AddOrReplaceCondition(status[k], c))
    BY DEF SingleSetRunStatus
  <2> QED BY <1>1, <2>1, <2>2, ResultTyped
<1>3. DOMAIN shown = Keys /\ shown = [k \in Keys |-> shown[k]]
  BY DEF SingleSetRunStatus
<1> QED BY <1>1, <1>2, <1>3, SingleStatusTyped DEF AllAccounted

LEMMA SingleErrorPatchTyped ==
  ASSUME ~IsPullRequest, NEW stored, IsStatus(stored), NEW read, IsStatus(read),
         NEW g \in Nat
  PROVE  /\ IsStatus(SingleErrorPatch(stored, read, g))
         /\ AllAccounted(SingleErrorPatch(stored, read, g))
<1> DEFINE patched == SingleErrorPatch(stored, read, g)
<1>1. \A k \in Keys : stored[k] \in Slot /\ read[k] \in Slot
  BY DEF IsStatus
<1>2. ASSUME NEW k \in Keys PROVE patched[k] \in Slot /\ Accounted(patched[k])
  <2> DEFINE failed == AddOrReplaceCondition(read[k], ErrorCondition(g))
  <2>1. failed \in Slot
    BY <1>1, ErrorAccounts
  <2>2. ErrorCondition(g) \in failed.conditions /\ ErrorCondition(g).type = "Error"
    BY <1>1, ConditionsTyped, AddOrReplaceTyped DEF ErrorCondition
  <2>3. patched[k] = [stored[k] EXCEPT !.conditions = failed.conditions,
                                       !.last = failed.last]
    BY DEF SingleErrorPatch
  <2>4. patched[k] \in Slot /\ patched[k].conditions = failed.conditions
    BY <1>1, <2>1, <2>3 DEF Slot
  <2> QED BY <2>2, <2>4 DEF Accounted
<1>3. DOMAIN patched = Keys /\ patched = [k \in Keys |-> patched[k]]
  BY DEF SingleErrorPatch
<1> QED BY <1>2, <1>3, SingleStatusTyped DEF AllAccounted

-----------------------------------------------------------------------------
(* The PullRequest subscriber: a slot per tracked branch.                   *)

LEMMA PullStatusTyped ==
  ASSUME IsPullRequest, NEW S, S \subseteq AllKeys, NEW status,
         status = [k \in S |-> status[k]], \A k \in S : status[k] \in Slot
  PROVE  IsStatus(status)
BY DEF IsStatus

\* The slots of a status, one at a time.
LEMMA PullSlotTyped ==
  ASSUME IsPullRequest, NEW status, IsStatus(status), NEW k \in DOMAIN status
  PROVE  k \in AllKeys /\ status[k] \in Slot
BY DEF IsStatus

LEMMA PullLatestEventTyped ==
  ASSUME IsPullRequest, NEW status, IsStatus(status), NEW source \in SourceStates
  PROVE  /\ IsStatus(PullLatestEvent(status, source))
         /\ AllAccounted(status) => AllAccounted(PullLatestEvent(status, source))
<1> DEFINE latest == PullLatestEvent(status, source)
<1>1. CASE DOMAIN source = {}
  BY <1>1 DEF PullLatestEvent
<1>2. CASE DOMAIN source # {}
  <2>1. /\ DOMAIN latest = DOMAIN source
        /\ latest = [k \in DOMAIN source |-> latest[k]]
    BY <1>2 DEF PullLatestEvent
  <2>2. DOMAIN source \subseteq Keys /\ \A k \in DOMAIN source : source[k] \in Revisions
    BY DEF SourceStates
  <2>3. ASSUME NEW k \in DOMAIN source
        PROVE  /\ latest[k] \in Slot
               /\ AllAccounted(status) => Accounted(latest[k])
    <3>1. source[k] \in AnyRevision
      BY <2>2 DEF AnyRevision
    <3>2. NewSlot(source[k], TRUE) \in Slot /\ Accounted(NewSlot(source[k], TRUE))
      BY <3>1, NewSlotTyped DEF Accounted
    <3>3. \/ k \in DOMAIN status /\ latest[k] = status[k]
          \/ latest[k] = NewSlot(source[k], TRUE)
      BY <1>2 DEF PullLatestEvent
    <3> QED BY <3>2, <3>3, PullSlotTyped DEF AllAccounted
  <2> QED BY <2>1, <2>2, <2>3, PullStatusTyped DEF AllAccounted, AllKeys
<1> QED BY <1>1, <1>2

LEMMA PullAnnounceTyped ==
  ASSUME IsPullRequest, NEW status, IsStatus(status), NEW g \in Nat, NEW params
  PROVE  /\ IsStatus(PullAnnounce(status, g, params))
         /\ PullRunsToStart(status, g, params) \subseteq PreparedRun
         /\ AllAccounted(status) =>
              Pending(PullAnnounce(status, g, params),
                      PullRunsToStart(status, g, params))
<1> DEFINE announced == PullAnnounce(status, g, params)
           prepared  == PullRunsToStart(status, g, params)
           retried(k) == IF RetryAfterSpecEdit(status[k].conditions, g)
                           THEN ClearConditions(status[k]) ELSE status[k]
           base(k) == [retried(k) EXCEPT !.details = FALSE]
<1>1. \A k \in DOMAIN status : k \in AllKeys /\ status[k] \in Slot
  BY PullSlotTyped
<1>2. prepared \subseteq PreparedRun
  BY <1>1 DEF PreparedRun, PullRunsToStart, Slot
<1>3. UnknownCondition(g) \in Condition
  BY ConditionsTyped
<1>4. ASSUME NEW k \in DOMAIN status
      PROVE  /\ announced[k] \in Slot
             /\ \/ Accounted(status[k]) => Accounted(announced[k])
                \/ \E pr \in prepared : pr.labels = LabelsOf(k, announced[k].revision)
  <2>1. retried(k) \in Slot /\ retried(k).revision = status[k].revision
    BY <1>1, ClearTyped
  <2>2. base(k) \in Slot /\ base(k).revision = status[k].revision
    BY <2>1 DEF Slot
  <2>3. CASE ~SlotEligibleForCreate(status[k].conditions, g)
    BY <1>1, <2>3 DEF PullAnnounce
  <2>4. CASE PullPrepares(status[k], g, params)
    <3>1. announced[k] = AddOrReplaceCondition(base(k), UnknownCondition(g))
      BY <2>4 DEF PullAnnounce, PullPrepares
    <3>2. announced[k] \in Slot /\ announced[k].revision = status[k].revision
      BY <1>3, <2>2, <3>1, AddOrReplaceTyped
    <3>3. [key |-> k, labels |-> LabelsOf(k, status[k].revision)] \in prepared
      BY <2>4 DEF PullRunsToStart
    <3> QED BY <3>2, <3>3
  <2>5. CASE SlotEligibleForCreate(status[k].conditions, g)
             /\ ~PullPrepares(status[k], g, params)
    <3>1. announced[k] = AddOrReplaceCondition(base(k), ErrorCondition(g))
      BY <2>5 DEF PullAnnounce
    <3> QED BY <2>2, <3>1, ErrorAccounts
  <2> QED BY <2>3, <2>4, <2>5
<1>5. DOMAIN announced = DOMAIN status /\ announced = [k \in DOMAIN status |-> announced[k]]
  BY DEF PullAnnounce
<1> QED BY <1>1, <1>2, <1>4, <1>5, PullStatusTyped DEF AllAccounted, Pending

\* Settling the failed run of some labels accounts for the branches of these
\* labels and leaves the others waiting for the runs they waited for.
LEMMA PullSettleTyped ==
  ASSUME IsPullRequest, NEW status, IsStatus(status), NEW before, IsStatus(before),
         NEW g \in Nat, NEW permanent \in BOOLEAN, NEW pr, NEW waiting
  PROVE  LET settled == PullSettleFailedRun(status, before, pr.labels, g, permanent)
         IN  /\ IsStatus(settled)
             /\ Pending(status, waiting) /\ AllAccounted(before) =>
                  Pending(settled, waiting \ {pr})
<1> DEFINE settled == PullSettleFailedRun(status, before, pr.labels, g, permanent)
           failed  == BranchesOfRun(status, pr.labels)
<1>1. /\ DOMAIN settled \subseteq DOMAIN status
      /\ settled = [k \in DOMAIN settled |-> settled[k]]
      /\ \A k \in DOMAIN settled : permanent \/ k \notin failed \/ k \in DOMAIN before
  BY DEF PullSettleFailedRun
<1>2. ASSUME NEW k \in DOMAIN settled
      PROVE  /\ k \notin failed => settled[k] = status[k]
             /\ k \in failed /\ permanent => settled[k] = RejectedSlot(status[k], g)
             /\ k \in failed /\ ~permanent => settled[k] = before[k]
  BY DEF PullSettleFailedRun
<1>3. ASSUME NEW k \in DOMAIN settled PROVE k \in AllKeys /\ settled[k] \in Slot
  BY <1>1, <1>2, PullSlotTyped, RejectedSlotTyped
<1>4. IsStatus(settled)
  BY <1>1, <1>3, PullStatusTyped
<1>5. ASSUME Pending(status, waiting), AllAccounted(before), NEW k \in DOMAIN settled
      PROVE  \/ Accounted(settled[k])
             \/ \E other \in waiting \ {pr} :
                  other.labels = LabelsOf(k, settled[k].revision)
  <2>1. CASE k \in failed
    BY <1>1, <1>2, <1>5, <2>1, PullSlotTyped, RejectedSlotTyped DEF AllAccounted
  <2>2. CASE k \notin failed
    <3>1. settled[k] = status[k] /\ LabelsOf(k, status[k].revision) # pr.labels
      BY <1>1, <1>2, <2>2 DEF BranchesOfRun
    <3> QED BY <1>1, <1>5, <3>1 DEF Pending
  <2> QED BY <2>1, <2>2
<1> QED BY <1>4, <1>5 DEF Pending

\* So does naming the run.
LEMMA PullSetRunNameTyped ==
  ASSUME IsPullRequest, NEW status, IsStatus(status), NEW run \in RunIds,
         NEW pr, NEW waiting
  PROVE  LET named == PullSetRunName(status, pr.labels, run)
         IN  /\ IsStatus(named)
             /\ Pending(status, waiting) => Pending(named, waiting \ {pr})
<1> DEFINE named  == PullSetRunName(status, pr.labels, run)
           chosen == BranchesOfRun(status, pr.labels)
<1>1. DOMAIN named = DOMAIN status /\ named = [k \in DOMAIN status |-> named[k]]
  BY DEF PullSetRunName
<1>2. ASSUME NEW k \in DOMAIN status
      PROVE  /\ k \in AllKeys /\ named[k] \in Slot
             /\ k \in chosen => Accounted(named[k])
             /\ k \notin chosen => named[k] = status[k]
  <2>1. run # NoRun
    BY SlotsAssumption DEF RunIds, NoRun
  <2>2. /\ k \in chosen => named[k] = SetRun(status[k], run)
        /\ k \notin chosen => named[k] = status[k]
    BY DEF PullSetRunName
  <2> QED BY <2>1, <2>2, PullSlotTyped, SetRunTyped DEF Accounted
<1>3. IsStatus(named)
  BY <1>1, <1>2, PullStatusTyped
<1>4. ASSUME Pending(status, waiting), NEW k \in DOMAIN named
      PROVE  \/ Accounted(named[k])
             \/ \E other \in waiting \ {pr} :
                  other.labels = LabelsOf(k, named[k].revision)
  <2>1. CASE k \notin chosen
    <3>1. named[k] = status[k] /\ LabelsOf(k, status[k].revision) # pr.labels
      BY <1>1, <1>2, <2>1 DEF BranchesOfRun
    <3> QED BY <1>1, <1>4, <3>1 DEF Pending
  <2> QED BY <1>1, <1>2, <2>1
<1> QED BY <1>3, <1>4 DEF Pending

LEMMA PullSetRunStatusTyped ==
  ASSUME IsPullRequest, NEW status, IsStatus(status), NEW list, NEW g \in Nat
  PROVE  /\ IsStatus(PullSetRunStatus(status, list, g))
         /\ AllAccounted(status) => AllAccounted(PullSetRunStatus(status, list, g))
<1> DEFINE shown == PullSetRunStatus(status, list, g)
<1>1. ASSUME NEW k \in DOMAIN status
      PROVE  /\ k \in AllKeys /\ shown[k] \in Slot
             /\ Accounted(status[k]) => Accounted(shown[k])
  <2> DEFINE c == RunCondition(RunStatus(list[status[k].run]), g)
  <2>1. c \in Condition
    BY ConditionsTyped
  <2>2. shown[k] = status[k] \/ (status[k].run # NoRun
                                  /\ shown[k] = AddOrReplaceCondition(status[k], c))
    BY DEF PullSetRunStatus
  <2> QED BY <2>1, <2>2, PullSlotTyped, ResultTyped
<1>2. DOMAIN shown = DOMAIN status /\ shown = [k \in DOMAIN status |-> shown[k]]
  BY DEF PullSetRunStatus
<1>3. DOMAIN status \subseteq AllKeys
  BY PullSlotTyped
<1> QED BY <1>1, <1>2, <1>3, PullStatusTyped DEF AllAccounted

LEMMA PullErrorPatchTyped ==
  ASSUME IsPullRequest, NEW stored, IsStatus(stored), NEW read, IsStatus(read),
         NEW g \in Nat
  PROVE  /\ IsStatus(PullErrorPatch(stored, read, g))
         /\ AllAccounted(stored) => AllAccounted(PullErrorPatch(stored, read, g))
<1> DEFINE failed == IF DOMAIN read = {}
                       THEN [k \in {NullBranch} |-> NewSlot(NoRevision, FALSE)]
                       ELSE read
           added(k) == AddOrReplaceCondition(failed[k], ErrorCondition(g))
           patched  == PullErrorPatch(stored, read, g)
<1>1. NewSlot(NoRevision, FALSE) \in Slot
  BY NewSlotTyped DEF AnyRevision
<1>2. ASSUME NEW k \in DOMAIN failed PROVE k \in AllKeys /\ failed[k] \in Slot
  <2>1. CASE DOMAIN read = {}
    BY <1>1, <2>1 DEF AllKeys
  <2>2. CASE DOMAIN read # {}
    BY <2>2, PullSlotTyped
  <2> QED BY <2>1, <2>2
<1>3. ASSUME NEW k \in DOMAIN failed
      PROVE  /\ added(k) \in Slot
             /\ ErrorCondition(g) \in added(k).conditions
             /\ ErrorCondition(g).type = "Error"
  BY <1>2, ConditionsTyped, AddOrReplaceTyped DEF ErrorCondition
<1>4. DOMAIN patched = DOMAIN stored \union DOMAIN failed
      /\ patched = [k \in DOMAIN stored \union DOMAIN failed |-> patched[k]]
  BY DEF PullErrorPatch
<1>5. ASSUME NEW k \in DOMAIN stored \union DOMAIN failed
      PROVE  /\ k \notin DOMAIN failed => patched[k] = stored[k]
             /\ k \in DOMAIN failed /\ k \notin DOMAIN stored => patched[k] = added(k)
             /\ k \in DOMAIN failed /\ k \in DOMAIN stored =>
                  patched[k] = [stored[k] EXCEPT !.conditions = added(k).conditions,
                                                 !.last = added(k).last]
  BY DEF PullErrorPatch
<1>6. ASSUME NEW k \in DOMAIN stored \union DOMAIN failed
      PROVE  /\ k \in AllKeys /\ patched[k] \in Slot
             /\ AllAccounted(stored) => Accounted(patched[k])
  <2>1. CASE k \notin DOMAIN failed
    BY <1>5, <2>1, PullSlotTyped DEF AllAccounted
  <2>2. CASE k \in DOMAIN failed /\ k \notin DOMAIN stored
    BY <1>2, <1>3, <1>5, <2>2 DEF Accounted
  <2>3. CASE k \in DOMAIN failed /\ k \in DOMAIN stored
    <3>1. stored[k] \in Slot /\ k \in AllKeys
      BY <2>3, PullSlotTyped
    <3>2. /\ added(k) \in Slot
          /\ patched[k] = [stored[k] EXCEPT !.conditions = added(k).conditions,
                                            !.last = added(k).last]
      BY <1>3, <1>5, <2>3
    <3> HIDE DEF added, patched, failed
    <3>3. patched[k] \in Slot /\ patched[k].conditions = added(k).conditions
      BY <3>1, <3>2 DEF Slot
    <3> QED BY <1>3, <2>3, <3>1, <3>3 DEF Accounted
  <2> QED BY <2>1, <2>2, <2>3
<1> QED BY <1>4, <1>6, PullStatusTyped DEF AllAccounted

-----------------------------------------------------------------------------
(* The SourceSubscriber interface, whatever the kind.                       *)

LEMMA EmptyStatusTyped == IsStatus(EmptyStatus) /\ AllAccounted(EmptyStatus)
<1>1. NewSlot(NoRevision, FALSE) \in Slot /\ Accounted(NewSlot(NoRevision, FALSE))
  BY NewSlotTyped DEF AnyRevision, Accounted
<1>2. CASE IsPullRequest
  <2>1. EmptyStatus = [k \in {} |-> EmptyStatus[k]] /\ DOMAIN EmptyStatus = {}
    BY <1>2 DEF EmptyStatus
  <2> QED BY <1>2, <2>1, PullStatusTyped DEF AllAccounted
<1>3. CASE ~IsPullRequest
  BY <1>1, <1>3, SingleStatusTyped DEF EmptyStatus, AllAccounted
<1> QED BY <1>2, <1>3

\* The status is advanced to the source.
LEMMA LatestEventTyped ==
  ASSUME NEW status, IsStatus(status), NEW source \in SourceStates
  PROVE  /\ IsStatus(GetLatestEvent(status, source))
         /\ AllAccounted(status) => AllAccounted(GetLatestEvent(status, source))
BY PullLatestEventTyped, SingleLatestEventTyped DEF GetLatestEvent

\* The runs it calls for are prepared: what is not accounted for waits for one.
LEMMA AnnounceTyped ==
  ASSUME NEW status, IsStatus(status), NEW g \in Nat, NEW params
  PROVE  /\ IsStatus(Announce(status, g, params))
         /\ RunsToStart(status, g, params) \subseteq PreparedRun
         /\ AllAccounted(status) =>
              Pending(Announce(status, g, params), RunsToStart(status, g, params))
BY PullAnnounceTyped, SingleAnnounceTyped DEF Announce, RunsToStart

\* A prepared run that could not be made is settled.
LEMMA SettleTyped ==
  ASSUME NEW status, IsStatus(status), NEW stored, IsStatus(stored),
         NEW g \in Nat, NEW permanent \in BOOLEAN, NEW pr, NEW waiting
  PROVE  LET settled == SettleFailedRun(status, stored, pr.labels, g, permanent)
         IN  /\ IsStatus(settled)
             /\ Pending(status, waiting) /\ AllAccounted(stored) =>
                  Pending(settled, waiting \ {pr})
<1>1. CASE IsPullRequest
  BY <1>1, PullSettleTyped DEF SettleFailedRun
<1>2. CASE ~IsPullRequest
  BY <1>2, SingleSettleTyped DEF SettleFailedRun, AllAccounted, Pending
<1> QED BY <1>1, <1>2

\* A run that was found or made is named.
LEMMA SetRunNameTyped ==
  ASSUME NEW status, IsStatus(status), NEW run \in RunIds, NEW pr, NEW waiting
  PROVE  LET named == SetCurrentPipelineRunName(status, pr.labels, run)
         IN  /\ IsStatus(named)
             /\ Pending(status, waiting) => Pending(named, waiting \ {pr})
<1>1. CASE IsPullRequest
  BY <1>1, PullSetRunNameTyped DEF SetCurrentPipelineRunName
<1>2. CASE ~IsPullRequest
  BY <1>2, SingleSetRunNameTyped DEF SetCurrentPipelineRunName, AllAccounted, Pending
<1> QED BY <1>1, <1>2

\* The results of the named runs are recorded.
LEMMA SetRunStatusTyped ==
  ASSUME NEW status, IsStatus(status), NEW list, NEW g \in Nat
  PROVE  LET shown == SetCurrentPipelineRunStatus(status, list, g)
         IN  /\ IsStatus(shown)
             /\ AllAccounted(status) => AllAccounted(shown)
BY PullSetRunStatusTyped, SingleSetRunStatusTyped DEF SetCurrentPipelineRunStatus

\* An error of the reconcile is patched onto the stored status.
LEMMA ErrorPatchTyped ==
  ASSUME NEW stored, IsStatus(stored), NEW read, IsStatus(read), NEW g \in Nat
  PROVE  /\ IsStatus(ErrorPatch(stored, read, g))
         /\ AllAccounted(stored) => AllAccounted(ErrorPatch(stored, read, g))
BY PullErrorPatchTyped, SingleErrorPatchTyped DEF ErrorPatch
=============================================================================

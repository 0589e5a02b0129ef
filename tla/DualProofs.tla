----------------------------- MODULE DualProofs -----------------------------
(***************************************************************************)
(* Proofs about two clusters: whatever the sources are, however often the  *)
(* query fails and the managers restart, they do not leave a revision to   *)
(* each other, and a cluster that comes late builds nothing again.         *)
(***************************************************************************)
EXTENDS DualCluster, FiniteSetTheorems, TLAPS

-----------------------------------------------------------------------------
(* Sources and runs.                                                       *)

LEMMA OtherTyped ==
  ASSUME NEW c \in Clusters
  PROVE  Other(c) \in Clusters /\ Other(c) # c /\ Clusters = {c, Other(c)}
<1>1. PICK d \in Clusters : Clusters = {c, d} /\ c # d
  BY DualAssumption
<1>2. \E e \in Clusters : e # c
  BY <1>1
<1>3. Other(c) \in Clusters /\ Other(c) # c
  BY <1>2 DEF Other
<1> QED BY <1>1, <1>3

\* A source has finitely many references, and a run to look for of each.
LEMMA TipsTyped ==
  ASSUME NEW k, NEW tips \in Tips(k)
  PROVE  /\ DOMAIN tips \subseteq Keys /\ tips \in [DOMAIN tips -> Revisions]
         /\ LabelsIn(tips) \subseteq Labels
         /\ k # "PullRequest" => \A a, b \in DOMAIN tips : a = b
BY DEF Tips

LEMMA TipsCounted ==
  ASSUME NEW k, NEW tips \in Tips(k)
  PROVE  /\ IsFiniteSet(LabelsIn(tips))
         /\ Cardinality(LabelsIn(tips)) = Cardinality(DOMAIN tips)
         /\ Cardinality(DOMAIN tips) \in Nat
<1> DEFINE label == [x \in DOMAIN tips |-> <<x, tips[x]>>]
<1>1. IsFiniteSet(DOMAIN tips) /\ Cardinality(DOMAIN tips) \in Nat
  BY TipsTyped, DualAssumption, FS_Subset, FS_CardinalityType
<1>2. label \in Bijection(DOMAIN tips, LabelsIn(tips))
  BY DEF LabelsIn, Bijection, Injection, Surjection, IsInjective
<1> QED BY <1>1, <1>2, FS_Bijection DEF ExistsBijection

\* Runs are enough when there is one of each reference, and only then.
LEMMA EnoughIsAll ==
  ASSUME NEW k, NEW tips \in Tips(k), NEW found \in SUBSET LabelsIn(tips)
  PROVE  EnoughRuns(found, tips) <=> found = LabelsIn(tips)
<1>1. /\ IsFiniteSet(LabelsIn(tips)) /\ Cardinality(LabelsIn(tips)) \in Nat
      /\ Cardinality(LabelsIn(tips)) = Cardinality(DOMAIN tips)
  BY TipsCounted
<1>2. /\ Cardinality(found) \in Nat /\ Cardinality(found) <= Cardinality(LabelsIn(tips))
      /\ Cardinality(LabelsIn(tips)) = Cardinality(found) => LabelsIn(tips) = found
  BY <1>1, FS_Subset, FS_CardinalityType
<1> QED BY <1>1, <1>2 DEF EnoughRuns

-----------------------------------------------------------------------------
(* Types.                                                                  *)

LEMMA NothingTyped == NothingRecorded \in Recorded /\ NoRuns \in [Labels -> Phases]
BY DEF NothingRecorded, Recorded, NoRuns, Phases

LEMMA InitTyped == Init => TypeOK
BY NothingTyped, DualAssumption DEF Init, TypeOK

LEMMA CheckTyped ==
  ASSUME TypeOK, NEW c \in Clusters, StartReconcile(c) \/ CheckThere(c) \/ AskFails(c)
  PROVE  TypeOK'
<1>1. CASE StartReconcile(c)
  <2>1. pc' \in [Clusters -> {"idle", "ask", "event", "start"}]
    BY <1>1 DEF StartReconcile, Step, TypeOK
  <2>2. asked' \in [Clusters -> Tips(kind) \union {NoTips}]
    BY <1>1 DEF StartReconcile, TypeOK
  <2>3. queued' \in [Clusters -> BOOLEAN]
    BY <1>1 DEF StartReconcile, TypeOK
  <2> QED BY <1>1, <2>1, <2>2, <2>3 DEF StartReconcile, TypeOK
<1>2. CASE CheckThere(c)
  BY <1>2 DEF CheckThere, Step, Drop, clusterVars, TypeOK
<1>3. CASE AskFails(c)
  BY <1>3 DEF AskFails, Step, Drop, Spend, clusterVars, TypeOK
<1> QED BY <1>1, <1>2, <1>3

LEMMA AdvanceTyped ==
  ASSUME TypeOK, NEW c \in Clusters, Advance(c) \/ Finish(c)
  PROVE  TypeOK'
<1> USE DEF TypeOK
<1>1. CASE Advance(c)
  <2> DEFINE tips == source[c]
             recorded == [x \in Keys |-> IF x \in DOMAIN tips THEN tips[x] ELSE NoRevision]
  <2>1. recorded \in Recorded /\ DOMAIN tips \subseteq Keys
    BY TipsTyped DEF Recorded
  <2>2. pt' = [pt EXCEPT ![c] = recorded]
    BY <1>1 DEF Advance
  <2>3. pt' \in [Clusters -> Recorded]
    BY <2>1, <2>2
  <2>4. prs' \in [Clusters -> SUBSET Keys]
    BY <1>1, <2>1 DEF Advance
  <2> QED BY <1>1, <2>3, <2>4 DEF Advance, Step, clusterVars
<1>2. CASE Finish(c)
  BY <1>2, NothingTyped DEF Finish, Step, Requeue
<1> QED BY <1>1, <1>2

LEMMA BuildTyped ==
  ASSUME TypeOK, NEW c \in Clusters, NEW k \in Keys,
         \/ Adopt(c, k) \/ Created(c, k) \/ CreateRejected(c, k) \/ CreateFails(c, k)
  PROVE  TypeOK'
<1> USE DEF TypeOK
<1>1. ASSUME Settled(c, k) PROVE prs' \in [Clusters -> SUBSET Keys]
  BY <1>1 DEF Settled
<1>2. ASSUME Store(c, k) PROVE runs' \in [Clusters -> [Labels -> Phases]]
  BY <1>2 DEF Store, Phases
<1>3. ASSUME RollBack(c, k)
      PROVE  pt' \in [Clusters -> Recorded] /\ transientErr' \in [Clusters -> BOOLEAN]
  <2>1. status[c] \in Recorded /\ [pt[c] EXCEPT ![k] = status[c][k]] \in Recorded
    BY DEF Recorded
  <2> QED BY <1>3, <2>1 DEF RollBack
<1>4. CASE Adopt(c, k) \/ CreateRejected(c, k)
  BY <1>1, <1>4 DEF Adopt, CreateRejected, Settled
<1>5. CASE Created(c, k)
  BY <1>1, <1>2, <1>5 DEF Created, Settled
<1>6. CASE CreateFails(c, k)
  BY <1>1, <1>2, <1>3, <1>6 DEF CreateFails, Settled, Spend
<1> QED BY <1>4, <1>5, <1>6

LEMMA EnvironmentTyped ==
  ASSUME TypeOK,
         \/ ForgeMoves
         \/ \E c \in Clusters : Poll(c) \/ TektonStarts(c) \/ RunChanges(c) \/ Restart(c)
  PROVE  TypeOK'
<1> USE DEF TypeOK
<1>1. CASE ForgeMoves
  BY <1>1 DEF ForgeMoves, clusterVars, workerVars
<1>2. ASSUME NEW c \in Clusters, Poll(c) PROVE TypeOK'
  <2>1. forge \in Tips(kind) /\ LabelsIn(forge) \subseteq Labels
    BY TipsTyped
  <2>2. late' \in [Clusters -> SUBSET Labels]
    BY <1>2, <2>1 DEF Poll
  <2>3. calm' \in [Clusters -> BOOLEAN]
    BY <1>2 DEF Poll
  <2> QED BY <1>2, <2>1, <2>2, <2>3 DEF Poll, workerVars
<1>3. ASSUME NEW c \in Clusters, TektonStarts(c) PROVE TypeOK'
  <2>1. runs' \in [Clusters -> [Labels -> Phases]]
    BY <1>3 DEF TektonStarts, Phases
  <2> QED BY <1>3, <2>1 DEF TektonStarts, workerVars
<1>4. ASSUME NEW c \in Clusters, RunChanges(c) PROVE TypeOK'
  BY <1>4 DEF RunChanges, workerVars
<1>5. ASSUME NEW c \in Clusters, Restart(c) PROVE TypeOK'
  BY <1>5, NothingTyped DEF Restart, Spend, Drop
<1> QED BY <1>1, <1>2, <1>3, <1>4, <1>5

THEOREM DualTypeCorrect == Spec => []TypeOK
<1>1. TypeOK /\ [Next]_vars => TypeOK'
  <2> SUFFICES ASSUME TypeOK, [Next]_vars PROVE TypeOK'
    OBVIOUS
  <2>1. CASE UNCHANGED vars
    BY <2>1 DEF TypeOK, vars, clusterVars, workerVars
  <2>2. ASSUME NEW c \in Clusters, ContinueReconcile(c) PROVE TypeOK'
    <3>1. \A k \in prs[c] : k \in Keys
      BY DEF TypeOK
    <3> QED BY <2>2, <3>1, CheckTyped, AdvanceTyped, BuildTyped DEF ContinueReconcile
  <2> QED BY <2>1, <2>2, CheckTyped, EnvironmentTyped DEF Next
<1> QED BY <1>1, InitTyped, PTL DEF Spec

-----------------------------------------------------------------------------
(* No revision slips through.                                              *)

\* The cluster is done with a revision: it has a run, or it never will.
Done(c, l) == l \in Labels /\ (runs[c][l] # "absent" \/ l \in Refused[c])

\* What is recorded is done with, and so is what a worker has dealt with.
RecordedDone(c) ==
  \A k \in Keys :
    /\ status[c][k] # NoRevision => Done(c, <<k, status[c][k]>>)
    /\ pc[c] = "start" /\ k \notin prs[c] /\ pt[c][k] # NoRevision =>
         Done(c, Label(c, k))

\* What is to be built is a revision; there is one unless it is a PullRequest.
PreparedTips(c) ==
  /\ \A k \in prs[c] : pc[c] = "start" => Label(c, k) \in Labels
  /\ ~IsPullRequest => \A j, k \in prs[c] : j = k
  /\ pc[c] # "start" => ~transientErr[c]

AskedTips(c) == pc[c] = "ask" => asked[c] \in Tips(kind)

\* A worker without an event waiting is about the source as it is.
UpToDate(c) ==
  /\ pc[c] = "ask" => asked[c] = source[c]
  /\ pc[c] = "start" /\ ~transientErr[c] =>
       \A k \in DOMAIN source[c] : pt[c][k] = source[c][k]
  /\ pc[c] = "idle" =>
       \A l \in LabelsIn(source[c]) : Built(l) \/ l \in Refused[c]

SlipOf(c) ==
  /\ RecordedDone(c) /\ PreparedTips(c) /\ AskedTips(c)
  /\ ~queued[c] => UpToDate(c)

SlipInv == \A c \in Clusters : SlipOf(c)

LEMMA InitSlip == Init => SlipInv
BY DEF Init, SlipInv, SlipOf, RecordedDone, PreparedTips, AskedTips, NothingRecorded

\* A run that was created is never deleted.
LEMMA RunsStay ==
  ASSUME TypeOK, NEW c \in Clusters, NEW l \in Labels, runs[c][l] # "absent", [Next]_vars
  PROVE  runs'[c][l] # "absent"
<1> USE DEF TypeOK
<1>1. CASE UNCHANGED vars
  BY <1>1 DEF vars, clusterVars
<1>2. ASSUME NEW d \in Clusters, NEW k \in prs[d], Store(d, k)
      PROVE  runs'[c][l] # "absent"
  BY <1>2 DEF Store
<1>3. ASSUME NEW d \in Clusters, ContinueReconcile(d)
      PROVE  runs'[c][l] # "absent"
  <2>1. CASE CheckThere(d) \/ AskFails(d) \/ Advance(d) \/ Finish(d)
    BY <2>1 DEF CheckThere, AskFails, Advance, Finish, clusterVars
  <2>2. ASSUME NEW k \in prs[d],
               Adopt(d, k) \/ Created(d, k) \/ CreateRejected(d, k) \/ CreateFails(d, k)
        PROVE  runs'[c][l] # "absent"
    BY <2>2, <1>2 DEF Adopt, Created, CreateRejected, CreateFails
  <2> QED BY <1>3, <2>1, <2>2 DEF ContinueReconcile
<1>4. ASSUME NEW d \in Clusters, StartReconcile(d) \/ Poll(d) \/ RunChanges(d) \/ Restart(d)
      PROVE  runs'[c][l] # "absent"
  BY <1>4 DEF StartReconcile, Poll, RunChanges, Restart
<1>5. ASSUME NEW d \in Clusters, TektonStarts(d)
      PROVE  runs'[c][l] # "absent"
  BY <1>5 DEF TektonStarts
<1>6. CASE ForgeMoves
  BY <1>6 DEF ForgeMoves, clusterVars
<1> QED BY <1>1, <1>3, <1>4, <1>5, <1>6 DEF Next

LEMMA DoneStays ==
  ASSUME TypeOK, NEW c \in Clusters, NEW l, Done(c, l), [Next]_vars
  PROVE  Done(c, l)'
BY RunsStay DEF Done

LEMMA BuiltStays ==
  ASSUME TypeOK, NEW l \in Labels, Built(l), [Next]_vars
  PROVE  Built(l)'
BY RunsStay DEF Built

\* What is not about cluster d, beyond an event for it.
SameTrigger(d) ==
  /\ source'[d] = source[d] /\ status'[d] = status[d] /\ (queued'[d] = queued[d] \/ queued'[d])
  /\ pc'[d] = pc[d] /\ asked'[d] = asked[d] /\ kind' = kind
  /\ pt'[d] = pt[d] /\ prs'[d] = prs[d] /\ transientErr'[d] = transientErr[d]

\* The runs of both clusters only become more.
LEMMA SlipOfOthers ==
  ASSUME TypeOK, SlipInv, [Next]_vars, NEW d \in Clusters, SameTrigger(d)
  PROVE  SlipOf(d)'
<1>0. SlipOf(d)
  BY DEF SlipInv
<1>1. LabelsIn(source'[d]) = LabelsIn(source[d]) /\ LabelsIn(source[d]) \subseteq Labels
  BY TipsTyped DEF SameTrigger, TypeOK
<1>2. RecordedDone(d)'
  <2>1. ASSUME NEW k \in Keys, status[d][k] # NoRevision
        PROVE  Done(d, <<k, status[d][k]>>)'
    <3>1. PICK l : l = <<k, status[d][k]>>
      OBVIOUS
    <3>2. Done(d, l)'
      BY <1>0, <2>1, <3>1, DoneStays DEF SlipOf, RecordedDone
    <3> QED BY <3>1, <3>2 DEF SameTrigger, Done
  <2>2. ASSUME NEW k \in Keys, pc[d] = "start", k \notin prs[d], pt[d][k] # NoRevision
        PROVE  Done(d, Label(d, k))'
    <3>1. PICK l : l = Label(d, k)
      OBVIOUS
    <3>2. Done(d, l)'
      BY <1>0, <2>2, <3>1, DoneStays DEF SlipOf, RecordedDone
    <3> QED BY <3>1, <3>2 DEF SameTrigger, Label, Done
  <2> QED BY <2>1, <2>2 DEF SameTrigger, RecordedDone
<1>3. PreparedTips(d)' /\ AskedTips(d)'
  BY <1>0 DEF SlipOf, PreparedTips, AskedTips, SameTrigger, Label, IsPullRequest
<1>4. ~queued[d] => UpToDate(d)'
  <2>1. \A l \in Labels : Built(l) => Built(l)'
    BY BuiltStays
  <2>2. ASSUME ~queued[d] PROVE UpToDate(d)
    BY <1>0, <2>2 DEF SlipOf
  <2> QED BY <1>1, <2>1, <2>2 DEF UpToDate, SameTrigger
<1> QED BY <1>2, <1>3, <1>4 DEF SlipOf, SameTrigger

\* A step of the worker of c says nothing of the other worker.
LEMMA SlipOfOther ==
  ASSUME TypeOK, SlipInv, [Next]_vars, NEW c \in Clusters, NEW d \in Clusters, c # d,
         StartReconcile(c) \/ ContinueReconcile(c) \/ Poll(c) \/ Restart(c)
  PROVE  SlipOf(d)'
<1> USE DEF TypeOK, SameTrigger
<1>1. CASE StartReconcile(c)
  <2>1. pc'[d] = pc[d] /\ asked'[d] = asked[d]
    BY <1>1 DEF StartReconcile, Step
  <2> QED BY <1>1, <2>1, SlipOfOthers DEF StartReconcile
<1>2. CASE CheckThere(c) \/ AskFails(c)
  BY <1>2, SlipOfOthers DEF CheckThere, AskFails, Step, Drop, clusterVars
<1>3. CASE Advance(c) \/ Finish(c)
  BY <1>3, SlipOfOthers DEF Advance, Finish, Step, clusterVars
<1>4. ASSUME NEW k \in prs[c],
             Adopt(c, k) \/ Created(c, k) \/ CreateRejected(c, k) \/ CreateFails(c, k)
      PROVE  SlipOf(d)'
  <2>1. Settled(c, k) /\ (UNCHANGED <<pt, transientErr>> \/ RollBack(c, k))
    BY <1>4 DEF Adopt, Created, CreateRejected, CreateFails
  <2>2. pt'[d] = pt[d] /\ transientErr'[d] = transientErr[d]
    BY <2>1 DEF RollBack
  <2> QED BY <2>1, <2>2, SlipOfOthers DEF Settled
<1>5. CASE Poll(c)
  BY <1>5, SlipOfOthers DEF Poll, workerVars
<1>6. CASE Restart(c)
  BY <1>6, SlipOfOthers DEF Restart, Drop
<1> QED BY <1>1, <1>2, <1>3, <1>4, <1>5, <1>6 DEF ContinueReconcile

\* A worker that is not at its runs has nothing to say of what it holds of them.
LEMMA RestingSlip ==
  ASSUME TypeOK, SlipInv, [Next]_vars, NEW c \in Clusters, pc'[c] # "start",
         UNCHANGED <<kind, status>>, ~transientErr'[c], ~IsPullRequest => prs'[c] \subseteq prs[c],
         pc'[c] = "ask" => asked'[c] \in Tips(kind), ~queued'[c] => UpToDate(c)'
  PROVE  SlipOf(c)'
<1>1. SlipOf(c)
  BY DEF SlipInv
<1>2. ASSUME NEW k \in Keys, status[c][k] # NoRevision
      PROVE  Done(c, <<k, status[c][k]>>)'
  <2>1. PICK l : l = <<k, status[c][k]>>
    OBVIOUS
  <2>2. Done(c, l)'
    BY <1>1, <1>2, <2>1, DoneStays DEF SlipOf, RecordedDone
  <2> QED BY <2>1, <2>2 DEF Done
<1>3. RecordedDone(c)'
  BY <1>2 DEF RecordedDone
<1>4. PreparedTips(c)' /\ AskedTips(c)'
  BY <1>1 DEF SlipOf, PreparedTips, AskedTips, IsPullRequest
<1> QED BY <1>3, <1>4 DEF SlipOf

LEMMA CheckSlip ==
  ASSUME TypeOK, SlipInv, [Next]_vars, NEW c \in Clusters,
         StartReconcile(c) \/ CheckThere(c) \/ AskFails(c) \/ Restart(c)
  PROVE  SlipOf(c)'
<1> USE DEF TypeOK
<1>0. SlipOf(c)
  BY DEF SlipInv
<1>1. CASE StartReconcile(c)
  <2>1. PICK found \in SUBSET RunsOf(source[c], c) :
           IF EnoughRuns(found, source[c])
             THEN Step(c, "idle", IF IsPullRequest THEN "event" ELSE "idle") /\ UNCHANGED asked
             ELSE Step(c, "idle", "ask") /\ asked' = [asked EXCEPT ![c] = source[c]]
    BY <1>1 DEF StartReconcile
  <2>2. UNCHANGED <<kind, status, source, runs, prs, transientErr>> /\ pc[c] = "idle"
    BY <1>1, <2>1 DEF StartReconcile, Step
  <2>3. CASE EnoughRuns(found, source[c])
    <3>1. pc'[c] \in {"event", "idle"}
      BY <2>1, <2>3 DEF Step
    <3>2. found = LabelsIn(source[c])
      BY <2>3, EnoughIsAll DEF RunsOf
    <3>3. \A l \in LabelsIn(source[c]) : Built(l)'
      BY <2>2, <3>2 DEF RunsOf, Built
    <3>4. UpToDate(c)'
      BY <2>2, <3>1, <3>3 DEF UpToDate
    <3> QED BY <1>0, <2>2, <3>1, <3>4, RestingSlip DEF SlipOf, PreparedTips
  <2>4. CASE ~EnoughRuns(found, source[c])
    <3>1. pc'[c] = "ask" /\ asked'[c] = source[c]
      BY <2>1, <2>4 DEF Step
    <3>2. UpToDate(c)'
      BY <2>2, <3>1 DEF UpToDate
    <3> QED BY <1>0, <2>2, <3>1, <3>2, RestingSlip DEF SlipOf, PreparedTips
  <2> QED BY <2>3, <2>4
<1>2. CASE CheckThere(c)
  <2> DEFINE there == RunsOf(asked[c], Other(c))
             enough == EnoughRuns(there, asked[c])
  <2>1. /\ UNCHANGED <<kind, status, source, runs, queued, prs, transientErr>>
        /\ pc[c] = "ask" /\ pc'[c] = IF enough THEN "idle" ELSE "event"
    BY <1>2 DEF CheckThere, Step, clusterVars
  <2>2. ASSUME ~queued[c], enough, NEW l \in LabelsIn(source[c])
        PROVE  Built(l)'
    <3>1. asked[c] = source[c] /\ asked[c] \in Tips(kind)
      BY <1>0, <2>1, <2>2 DEF SlipOf, UpToDate, AskedTips
    <3>2. there = LabelsIn(asked[c])
      BY <2>2, <3>1, EnoughIsAll DEF RunsOf
    <3> QED BY <2>1, <2>2, <3>1, <3>2, OtherTyped DEF RunsOf, Built
  <2>3. ~queued[c] => UpToDate(c)'
    BY <2>1, <2>2 DEF UpToDate
  <2> QED BY <1>0, <2>1, <2>3, RestingSlip DEF SlipOf, PreparedTips
<1>3. CASE AskFails(c)
  <2>1. pc'[c] = "event" /\ pc[c] = "ask" /\ UNCHANGED <<kind, status, prs, transientErr>>
    BY <1>3 DEF AskFails, Step, clusterVars
  <2> QED BY <1>0, <2>1, RestingSlip DEF SlipOf, PreparedTips, UpToDate
<1>4. CASE Restart(c)
  <2>1. /\ UNCHANGED <<kind, status>> /\ queued'[c] /\ pc'[c] = "idle"
        /\ prs'[c] = {} /\ ~transientErr'[c]
    BY <1>4 DEF Restart
  <2> QED BY <2>1, RestingSlip
<1> QED BY <1>1, <1>2, <1>3, <1>4

LEMMA AdvanceSlip ==
  ASSUME TypeOK, SlipInv, [Next]_vars, NEW c \in Clusters, Advance(c)
  PROVE  SlipOf(c)'
<1> USE DEF TypeOK
<1> DEFINE tips == source[c]
<1>0. SlipOf(c)
  BY DEF SlipInv
<1>1. /\ UNCHANGED <<kind, source, status, runs, queued, transientErr>>
      /\ pc[c] = "event" /\ pc'[c] = "start"
      /\ prs'[c] = {k \in DOMAIN tips : status[c][k] # tips[k]}
      /\ \A k \in Keys : pt'[c][k] = IF k \in DOMAIN tips THEN tips[k] ELSE NoRevision
  BY DEF Advance, Step, clusterVars
<1>2. /\ DOMAIN tips \subseteq Keys /\ LabelsIn(tips) \subseteq Labels
      /\ \A k \in DOMAIN tips : tips[k] \in Revisions /\ <<k, tips[k]>> \in Labels
      /\ ~IsPullRequest => \A j, k \in DOMAIN tips : j = k
  BY TipsTyped DEF LabelsIn, IsPullRequest
<1>3. ASSUME NEW k \in Keys, status[c][k] # NoRevision
      PROVE  Done(c, <<k, status[c][k]>>)'
  BY <1>0, <1>1, <1>3 DEF SlipOf, RecordedDone, Done
<1>4. ASSUME NEW k \in Keys, k \notin prs'[c], pt'[c][k] # NoRevision
      PROVE  Done(c, Label(c, k))'
  <2>1. pt'[c][k] = status[c][k]
    BY <1>1, <1>4
  <2> QED BY <1>1, <1>3, <1>4, <2>1 DEF Label, Done
<1>5. RecordedDone(c)'
  BY <1>1, <1>3, <1>4 DEF RecordedDone
<1>6. PreparedTips(c)'
  BY <1>0, <1>1, <1>2 DEF SlipOf, PreparedTips, IsPullRequest, Label
<1>7. UpToDate(c)' /\ AskedTips(c)'
  BY <1>1, <1>2 DEF UpToDate, AskedTips
<1> QED BY <1>5, <1>6, <1>7 DEF SlipOf

LEMMA FinishSlip ==
  ASSUME TypeOK, SlipInv, [Next]_vars, NEW c \in Clusters, Finish(c)
  PROVE  SlipOf(c)'
<1> USE DEF TypeOK
<1>0. SlipOf(c)
  BY DEF SlipInv
<1>1. /\ UNCHANGED <<kind, source, runs, prs>> /\ prs[c] = {}
      /\ pc[c] = "start" /\ pc'[c] = "idle" /\ status'[c] = pt[c]
      /\ queued'[c] = (queued[c] \/ transientErr[c]) /\ ~transientErr'[c]
  BY DEF Finish, Step, Requeue
<1>2. \A k \in Keys : pt[c][k] # NoRevision => Done(c, <<k, pt[c][k]>>)
  BY <1>0, <1>1 DEF SlipOf, RecordedDone, Label
<1>3. RecordedDone(c)'
  BY <1>1, <1>2 DEF RecordedDone, Done
<1>4. PreparedTips(c)' /\ AskedTips(c)'
  BY <1>1 DEF PreparedTips, AskedTips
<1>5. ASSUME ~queued'[c] PROVE UpToDate(c)'
  <2>1. \A k \in DOMAIN source[c] : pt[c][k] = source[c][k]
    BY <1>0, <1>1, <1>5 DEF SlipOf, UpToDate
  <2>2. \A k \in DOMAIN source[c] : k \in Keys /\ source[c][k] # NoRevision
    BY TipsTyped, DualAssumption
  <2>3. \A l \in LabelsIn(source[c]) : Done(c, l)
    BY <1>2, <2>1, <2>2 DEF LabelsIn
  <2>4. \A l \in LabelsIn(source[c]) : Built(l)' \/ l \in Refused[c]
    BY <1>1, <2>3 DEF Done, Built
  <2> QED BY <1>1, <2>4 DEF UpToDate
<1> QED BY <1>3, <1>4, <1>5 DEF SlipOf

\* A run that is prepared is dealt with, or what is recorded of it is taken back.
LEMMA BuildSlip ==
  ASSUME TypeOK, SlipInv, [Next]_vars, NEW c \in Clusters, NEW k \in prs[c],
         Adopt(c, k) \/ Created(c, k) \/ CreateRejected(c, k) \/ CreateFails(c, k)
  PROVE  SlipOf(c)'
<1> USE DEF TypeOK
<1> DEFINE After(l) == l \in Labels /\ (runs'[c][l] # "absent" \/ l \in Refused[c])
<1>0. SlipOf(c) /\ k \in Keys
  BY DEF SlipInv
<1>1. Settled(c, k) /\ pc[c] = "start"
  BY DEF Adopt, Created, CreateRejected, CreateFails, Settled
<1>2. /\ UNCHANGED <<kind, source, status, queued, pc, asked>>
      /\ prs'[c] = prs[c] \ {k} /\ Label(c, k) \in Labels
      /\ ~IsPullRequest => prs'[c] = {}
  BY <1>0, <1>1 DEF Settled, SlipOf, PreparedTips
<1>3. ASSUME NEW j \in Keys, status[c][j] # NoRevision
      PROVE  After(<<j, status[c][j]>>)
  <2>1. PICK l : l = <<j, status[c][j]>>
    OBVIOUS
  <2>2. Done(c, l)'
    BY <1>0, <1>3, <2>1, DoneStays DEF SlipOf, RecordedDone
  <2> QED BY <2>1, <2>2 DEF Done
<1>4. ASSUME NEW j \in Keys, j # k, j \notin prs[c], pt[c][j] # NoRevision
      PROVE  After(<<j, pt[c][j]>>)
  <2>1. PICK l : l = <<j, pt[c][j]>>
    OBVIOUS
  <2>2. Done(c, l)
    BY <1>0, <1>1, <1>4, <2>1 DEF SlipOf, RecordedDone, Label
  <2>3. Done(c, l)'
    BY <2>2, DoneStays
  <2> QED BY <2>1, <2>3 DEF Done
<1>5. CASE Adopt(c, k) \/ Created(c, k) \/ CreateRejected(c, k)
  <2>0. UNCHANGED <<pt, transientErr>>
    BY <1>5 DEF Adopt, Created, CreateRejected
  <2>1. After(<<k, pt[c][k]>>)
    BY <1>2, <1>5 DEF Adopt, Created, CreateRejected, MissingHere, Store, Label
  <2>2. RecordedDone(c)'
    BY <1>2, <1>3, <1>4, <2>0, <2>1 DEF RecordedDone, Label, Done
  <2>3. PreparedTips(c)' /\ AskedTips(c)'
    BY <1>0, <1>1, <1>2, <2>0 DEF SlipOf, PreparedTips, AskedTips, Label, IsPullRequest
  <2>4. ~queued[c] => UpToDate(c)'
    BY <1>0, <1>1, <1>2, <2>0 DEF SlipOf, UpToDate
  <2> QED BY <1>2, <2>2, <2>3, <2>4 DEF SlipOf
<1>6. CASE CreateFails(c, k)
  <2>1. /\ transientErr'[c]
        /\ pt'[c] = IF IsPullRequest THEN [pt[c] EXCEPT ![k] = status[c][k]] ELSE status[c]
    BY <1>6 DEF CreateFails, RollBack
  <2>2. ASSUME NEW j \in Keys, j \notin prs'[c], pt'[c][j] # NoRevision
        PROVE  After(<<j, pt'[c][j]>>)
    <3>1. CASE j = k \/ ~IsPullRequest
      <4>1. pt'[c][j] = status[c][j]
        BY <2>1, <3>1 DEF Recorded
      <4> QED BY <1>3, <2>2, <4>1
    <3>2. CASE j # k /\ IsPullRequest
      <4>1. pt'[c][j] = pt[c][j] /\ j \notin prs[c]
        BY <1>2, <2>1, <2>2, <3>2 DEF Recorded
      <4> QED BY <1>4, <2>2, <3>2, <4>1
    <3> QED BY <3>1, <3>2
  <2>3. RecordedDone(c)'
    BY <1>2, <1>3, <2>2 DEF RecordedDone, Label, Done
  <2>4. PreparedTips(c)' /\ AskedTips(c)'
    <3>1. ASSUME NEW j \in prs'[c] PROVE Label(c, j)' \in Labels
      <4>1. pt'[c][j] = pt[c][j] /\ j \in prs[c]
        BY <1>2, <2>1, <3>1 DEF Recorded
      <4> QED BY <1>0, <1>1, <4>1 DEF SlipOf, PreparedTips, Label
    <3> QED BY <1>1, <1>2, <3>1 DEF PreparedTips, AskedTips, IsPullRequest
  <2>5. UpToDate(c)'
    BY <1>1, <1>2, <2>1 DEF UpToDate
  <2> QED BY <2>3, <2>4, <2>5 DEF SlipOf
<1> QED BY <1>5, <1>6

LEMMA PollSlip ==
  ASSUME TypeOK, SlipInv, [Next]_vars, NEW c \in Clusters, Poll(c)
  PROVE  SlipOf(c)'
<1> USE DEF TypeOK
<1>0. SlipOf(c)
  BY DEF SlipInv
<1>1. queued'[c] /\ UNCHANGED <<kind, runs, status, pc, asked, pt, prs, transientErr>>
  BY DEF Poll, workerVars
<1> QED BY <1>0, <1>1
        DEF SlipOf, RecordedDone, PreparedTips, AskedTips, Label, Done, IsPullRequest

LEMMA SlipKept == ASSUME TypeOK, SlipInv, [Next]_vars PROVE SlipInv'
<1> SUFFICES ASSUME NEW d \in Clusters PROVE SlipOf(d)'
  BY DEF SlipInv
<1>1. ASSUME UNCHANGED vars \/ ForgeMoves \/ \E c \in Clusters : TektonStarts(c)
      PROVE  SlipOf(d)'
  BY <1>1, SlipOfOthers
     DEF vars, clusterVars, workerVars, ForgeMoves, TektonStarts, SameTrigger
<1>2. ASSUME NEW c \in Clusters, RunChanges(c) PROVE SlipOf(d)'
  <2>1. queued'[d] = queued[d] \/ queued'[d]
    BY <1>2 DEF RunChanges, TypeOK
  <2> QED BY <1>2, <2>1, SlipOfOthers DEF RunChanges, workerVars, SameTrigger
<1>3. ASSUME NEW c \in Clusters,
             StartReconcile(c) \/ ContinueReconcile(c) \/ Poll(c) \/ Restart(c)
      PROVE  SlipOf(d)'
  <2>1. CASE c # d
    BY <1>3, <2>1, SlipOfOther
  <2>2. CASE c = d
    BY <1>3, <2>2, CheckSlip, AdvanceSlip, FinishSlip, BuildSlip, PollSlip
       DEF ContinueReconcile
  <2> QED BY <2>1, <2>2
<1> QED BY <1>1, <1>2, <1>3 DEF Next

\* Two clusters that only look at each other's runs do not leave a revision to each
\* other: when both rest at what the forge holds, one of them has built it, or both
\* API servers refuse it (CalculateCurrentState, Reconcile).
THEOREM NoRevisionSlips == Spec => []NothingSlips
<1>1. TypeOK /\ SlipInv => NothingSlips
  <2> SUFFICES ASSUME TypeOK, SlipInv, \A c \in Clusters : AtRest(c),
                      NEW l \in LabelsIn(forge), ~Built(l)
               PROVE  RefusedEverywhere(l)
    BY DEF NothingSlips
  <2>1. \A c \in Clusters : l \in Refused[c]
    BY DEF AtRest, SlipInv, SlipOf, UpToDate
  <2> QED BY <2>1 DEF RefusedEverywhere
<1> QED BY <1>1, InitSlip, SlipKept, DualTypeCorrect, PTL DEF Spec

-----------------------------------------------------------------------------
(* What runs on the other cluster when it comes is not built again.        *)

\* Where everything of the source runs on the other cluster, and not here, a
\* worker asks about just that, and leaves it at that.
LateOf(c) ==
  calm[c] /\ late[c] # {} =>
    /\ late[c] \subseteq {l \in LabelsIn(source[c]) : runs[c][l] = "absent"}
    /\ \A l \in LabelsIn(source[c]) : runs[Other(c)][l] = "labelled"
    /\ \/ pc[c] = "idle"
       \/ pc[c] = "ask" /\ asked[c] = source[c]

LateInv == \A c \in Clusters : LateOf(c)

LEMMA InitLate == Init => LateInv
BY DEF Init, LateInv, LateOf

\* A run that Tekton took stays.
LEMMA LabelledStays ==
  ASSUME TypeOK, NEW c \in Clusters, NEW l \in Labels, runs[c][l] = "labelled", [Next]_vars
  PROVE  runs'[c][l] = "labelled"
<1> USE DEF TypeOK
<1>1. CASE UNCHANGED vars
  BY <1>1 DEF vars, clusterVars
<1>2. ASSUME NEW d \in Clusters, NEW k \in prs[d], Store(d, k), MissingHere(d, k)
      PROVE  runs'[c][l] = "labelled"
  BY <1>2 DEF Store, MissingHere
<1>3. ASSUME NEW d \in Clusters, ContinueReconcile(d)
      PROVE  runs'[c][l] = "labelled"
  <2>1. CASE CheckThere(d) \/ AskFails(d) \/ Advance(d) \/ Finish(d)
    BY <2>1 DEF CheckThere, AskFails, Advance, Finish, clusterVars
  <2>2. ASSUME NEW k \in prs[d],
               Adopt(d, k) \/ Created(d, k) \/ CreateRejected(d, k) \/ CreateFails(d, k)
        PROVE  runs'[c][l] = "labelled"
    BY <2>2, <1>2 DEF Adopt, Created, CreateRejected, CreateFails
  <2> QED BY <1>3, <2>1, <2>2 DEF ContinueReconcile
<1>4. ASSUME NEW d \in Clusters, StartReconcile(d) \/ Poll(d) \/ RunChanges(d) \/ Restart(d)
      PROVE  runs'[c][l] = "labelled"
  BY <1>4 DEF StartReconcile, Poll, RunChanges, Restart
<1>5. ASSUME NEW d \in Clusters, TektonStarts(d)
      PROVE  runs'[c][l] = "labelled"
  BY <1>5 DEF TektonStarts
<1>6. CASE ForgeMoves
  BY <1>6 DEF ForgeMoves, clusterVars
<1> QED BY <1>1, <1>3, <1>4, <1>5, <1>6 DEF Next

\* What is not about cluster d.
SameWorker(d) ==
  /\ source'[d] = source[d] /\ late'[d] = late[d] /\ calm'[d] = calm[d]
  /\ pc'[d] = pc[d] /\ asked'[d] = asked[d]
  /\ \A l \in Labels : runs[d][l] = "absent" => runs'[d][l] = "absent"

LEMMA LateOfOthers ==
  ASSUME TypeOK, [Next]_vars, LateInv, NEW d \in Clusters, SameWorker(d)
  PROVE  LateOf(d)'
<1>1. LabelsIn(source[d]) \subseteq Labels
  BY TipsTyped DEF TypeOK
<1>2. LabelsIn(source'[d]) = LabelsIn(source[d])
  BY DEF SameWorker
<1>3. \A l \in Labels : runs[Other(d)][l] = "labelled" => runs'[Other(d)][l] = "labelled"
  BY OtherTyped, LabelledStays
<1>4. LateOf(d)
  BY DEF LateInv
<1> QED BY <1>1, <1>2, <1>3, <1>4 DEF SameWorker, LateOf

LEMMA LateKept == ASSUME TypeOK, LateInv, [Next]_vars PROVE LateInv'
<1> SUFFICES ASSUME NEW d \in Clusters PROVE LateOf(d)'
  BY DEF LateInv
<1>0. LateOf(d)
  BY DEF LateInv
<1>1. CASE UNCHANGED vars
  BY <1>1, LateOfOthers DEF vars, clusterVars, workerVars, SameWorker
<1>2. CASE ForgeMoves
  BY <1>2, LateOfOthers DEF ForgeMoves, clusterVars, workerVars, SameWorker
<1>3. ASSUME NEW c \in Clusters, StartReconcile(c) PROVE LateOf(d)'
  <2>1. CASE c # d
    BY <1>3, <2>1, LateOfOthers DEF StartReconcile, Step, SameWorker, TypeOK
  <2>2. CASE c = d /\ calm[d] /\ late[d] # {}
    <3>1. PICK found \in SUBSET RunsOf(source[d], d) :
             ~EnoughRuns(found, source[d]) =>
               /\ Step(d, "idle", "ask") /\ asked' = [asked EXCEPT ![d] = source[d]]
      BY <1>3, <2>2 DEF StartReconcile
    <3>2. found # LabelsIn(source[d]) /\ found \subseteq LabelsIn(source[d])
      BY <1>0, <2>2, <3>1 DEF LateOf, RunsOf
    <3>3. ~EnoughRuns(found, source[d])
      BY <3>2, EnoughIsAll DEF TypeOK
    <3>4. pc'[d] = "ask" /\ asked'[d] = source[d] /\ source' = source
      BY <1>3, <2>2, <3>1, <3>3 DEF StartReconcile, Step, TypeOK
    <3> QED BY <1>0, <1>3, <2>2, <3>4 DEF StartReconcile, LateOf
  <2>3. CASE c = d /\ ~(calm[d] /\ late[d] # {})
    BY <1>3, <2>3 DEF StartReconcile, LateOf
  <2> QED BY <2>1, <2>2, <2>3
<1>4. ASSUME NEW c \in Clusters, CheckThere(c) PROVE LateOf(d)'
  <2>1. CASE c # d
    BY <1>4, <2>1, LateOfOthers DEF CheckThere, Step, Drop, clusterVars, SameWorker, TypeOK
  <2>2. CASE c = d /\ calm[d] /\ late[d] # {}
    <3>1. asked[d] = source[d] /\ RunsOf(asked[d], Other(d)) = LabelsIn(asked[d])
      BY <1>0, <1>4, <2>2 DEF LateOf, CheckThere, Step, RunsOf
    <3>2. EnoughRuns(RunsOf(asked[d], Other(d)), asked[d])
      BY <3>1, EnoughIsAll DEF TypeOK
    <3>3. pc'[d] = "idle"
      BY <1>4, <2>2, <3>2 DEF CheckThere, Step, TypeOK
    <3> QED BY <1>0, <1>4, <2>2, <3>3 DEF CheckThere, clusterVars, LateOf
  <2>3. CASE c = d /\ ~(calm[d] /\ late[d] # {})
    BY <1>4, <2>3 DEF CheckThere, LateOf
  <2> QED BY <2>1, <2>2, <2>3
<1>5. ASSUME NEW c \in Clusters, AskFails(c) PROVE LateOf(d)'
  <2>1. CASE c # d
    BY <1>5, <2>1, LateOfOthers DEF AskFails, Step, Drop, clusterVars, SameWorker, TypeOK
  <2>2. CASE c = d
    BY <1>5, <2>2 DEF AskFails, LateOf, TypeOK
  <2> QED BY <2>1, <2>2
\* The worker of c is past the question, so that nothing is late there.
<1>6. ASSUME NEW c \in Clusters, pc[c] \in {"event", "start"}, UNCHANGED <<late, calm>>,
             c # d => SameWorker(d)
      PROVE  LateOf(d)'
  <2>1. CASE c = d
    BY <1>0, <1>6, <2>1 DEF LateOf
  <2> QED BY <1>6, <2>1, LateOfOthers
<1>7. ASSUME NEW c \in Clusters, Advance(c) \/ Finish(c) PROVE LateOf(d)'
  BY <1>6, <1>7 DEF Advance, Finish, Step, clusterVars, SameWorker, TypeOK
<1>8. ASSUME NEW c \in Clusters, NEW k \in prs[c],
             Adopt(c, k) \/ Created(c, k) \/ CreateRejected(c, k) \/ CreateFails(c, k)
      PROVE  LateOf(d)'
  <2>1. /\ Settled(c, k) /\ (runs' = runs \/ Store(c, k))
    BY <1>8 DEF Adopt, Created, CreateRejected, CreateFails
  <2>2. c # d => runs'[d] = runs[d]
    BY <2>1 DEF Store, TypeOK
  <2> QED BY <1>6, <2>1, <2>2 DEF Settled, SameWorker
<1>9. ASSUME NEW c \in Clusters, Poll(c) PROVE LateOf(d)'
  <2>1. CASE c # d
    BY <1>9, <2>1, LateOfOthers DEF Poll, workerVars, SameWorker, TypeOK
  <2>2. CASE c = d
    <3>1. /\ source'[d] = forge /\ calm'[d] = (pc[d] = "idle") /\ runs' = runs /\ pc' = pc
          /\ late'[d] # {} =>
               /\ \A l \in LabelsIn(forge) : runs[Other(d)][l] = "labelled"
               /\ late'[d] = {l \in LabelsIn(forge) : runs[d][l] = "absent"}
      BY <1>9, <2>2 DEF Poll, TypeOK
    <3> QED BY <3>1 DEF LateOf
  <2> QED BY <2>1, <2>2
<1>10. ASSUME NEW c \in Clusters, TektonStarts(c) PROVE LateOf(d)'
  <2>1. \A l \in Labels : runs[d][l] = "absent" => runs'[d][l] = "absent"
    BY <1>10 DEF TektonStarts, TypeOK
  <2> QED BY <1>10, <2>1, LateOfOthers DEF TektonStarts, workerVars, SameWorker
<1>11. ASSUME NEW c \in Clusters, RunChanges(c) PROVE LateOf(d)'
  BY <1>11, LateOfOthers DEF RunChanges, workerVars, SameWorker
<1>12. ASSUME NEW c \in Clusters, Restart(c) PROVE LateOf(d)'
  <2>1. CASE c # d
    BY <1>12, <2>1, LateOfOthers DEF Restart, Drop, SameWorker, TypeOK
  <2>2. CASE c = d
    BY <1>0, <1>12, <2>2 DEF Restart, LateOf, TypeOK
  <2> QED BY <2>1, <2>2
<1> QED
  BY <1>1, <1>2, <1>3, <1>4, <1>5, <1>7, <1>8, <1>9, <1>10, <1>11, <1>12
     DEF Next, ContinueReconcile

\* A cluster that a revision reaches when the other one already runs it leaves it
\* alone, whatever the lists of its cache miss: the query is about the source that
\* it was reconciled for (CalculateCurrentState).
THEOREM LateYields == Spec => []LateClusterYields
<1>1. LateInv => LateClusterYields
  BY DEF LateInv, LateOf, LateClusterYields
<1> QED BY <1>1, InitLate, LateKept, DualTypeCorrect, PTL DEF Spec
=============================================================================

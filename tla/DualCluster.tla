---------------------------- MODULE DualCluster ----------------------------
(***************************************************************************)
(* Two managers, each on a cluster of its own, with the same trigger and a *)
(* source object each that follows the same forge.  Before a manager       *)
(* builds it asks the API server of the other cluster, by the labels of    *)
(* the runs, whether the pipeline runs over there.                         *)
(*                                                                         *)
(* A trigger has at most one run of a revision on a cluster, as Reconciler *)
(* shows, so its runs are a map.  The trigger is not edited here, and is   *)
(* read fresh.                                                             *)
(***************************************************************************)
EXTENDS Integers, FiniteSets

CONSTANTS
  Clusters,
  Keys,        \* branches and images; PullRequests hold many, the others one
  Revisions,
  Labels,      \* the identities of runs: a reference and a revision of it
  NoRevision,  \* a reference that is not recorded
  Kinds,       \* kinds of sources the trigger may be on
  Refused,     \* Refused[c]: what the API server of c refuses for good
  MaxFaults,   \* bound: failed calls and restarts
  MaxMoves     \* bound: changes at the forge

ASSUME DualAssumption ==
  /\ IsFiniteSet(Keys)
  /\ Labels \subseteq Keys \X Revisions
  /\ NoRevision \notin Revisions
  /\ Kinds \subseteq {"GitRepository", "ImagePolicy", "PullRequest"}
  /\ \A c \in Clusters : \E d \in Clusters : Clusters = {c, d} /\ c # d
  /\ Refused \in [Clusters -> SUBSET Labels]
  /\ MaxFaults \in Nat /\ MaxMoves \in Nat

VARIABLES
  kind,      \* the kind of the source, which never changes
  forge,     \* the branches of the forge and their revisions
  source,    \* per cluster, from here on: the source object
  runs,      \* the phases of the runs of the trigger at the API server
  status,    \* the revisions the stored status records
  queued,    \* is the trigger in the queue of the manager?
  \* the worker
  pc,
  asked,     \* the source it looks for the runs of over there
  pt,        \* its copy of the status, with the source's revisions
  prs,       \* the references it has a prepared run for
  transientErr,
  \* the budgets left
  faults, moves,
  \* history, in no guard: revisions of the source that were running on the other
  \* cluster, and not here, when the source brought them; "calm" when the worker
  \* was idle then
  late, calm

clusterVars == <<source, runs, status, queued>>
workerVars  == <<asked, pt, prs, transientErr>>
vars == <<kind, forge, clusterVars, pc, workerVars, faults, moves, late, calm>>

Other(c) == CHOOSE d \in Clusters : d # c

IsPullRequest == kind = "PullRequest"

LabelsIn(tips) == {<<k, tips[k]>> : k \in DOMAIN tips}

\* What a source holds.  A poll that brings no branch is ignored, see
\* PullRequestSource.
Tips(k) ==
  LET opened == IF k = "PullRequest" THEN SUBSET Keys \ {{}} ELSE {{x} : x \in Keys}
  IN  {tips \in UNION {[open -> Revisions] : open \in opened} :
         LabelsIn(tips) \subseteq Labels}

\* "labelled": Tekton took the run and gave it the tekton.dev/pipeline label.
Phases == {"absent", "created", "labelled"}

NoRuns == [l \in Labels |-> "absent"]

NoTips == [k \in {} |-> NoRevision]

NothingRecorded == [k \in Keys |-> NoRevision]

\* A worker that is not in the middle of a reconcile.
Init ==
  /\ kind \in Kinds
  /\ forge \in Tips(kind)
  /\ source = [c \in Clusters |-> forge]
  /\ runs = [c \in Clusters |-> NoRuns]
  /\ status = [c \in Clusters |-> NothingRecorded]
  /\ queued = [c \in Clusters |-> TRUE]
  /\ pc = [c \in Clusters |-> "idle"]
  /\ asked = [c \in Clusters |-> NoTips]
  /\ pt = status
  /\ prs = [c \in Clusters |-> {}]
  /\ transientErr = [c \in Clusters |-> FALSE]
  /\ faults = MaxFaults /\ moves = MaxMoves
  /\ late = [c \in Clusters |-> {}] /\ calm = [c \in Clusters |-> FALSE]

-----------------------------------------------------------------------------
(* Is it running already?                                                  *)

Spend == faults > 0 /\ faults' = faults - 1

Step(c, from, to) == pc[c] = from /\ pc' = [pc EXCEPT ![c] = to]

\* The source the worker held is not looked at again.
Drop(c) == asked' = [asked EXCEPT ![c] = NoTips]

\* The runs with the labels of these tips and of the pipeline.
RunsOf(tips, c) == {l \in LabelsIn(tips) : runs[c][l] = "labelled"}

\* Mutant: one run is enough, for whichever branch.
AnyRun(found, tips) == found # {}

\* Mutant: more runs than branches are asked for.
MoreRuns(found, tips) == Cardinality(found) > Cardinality(DOMAIN tips)

\* As many runs as there are branches, or the run of the only reference.
EnoughRuns(found, tips) == Cardinality(found) >= Cardinality(DOMAIN tips)

\* The list comes from a cache and may miss runs.  A single reference that runs
\* here is left alone; a PullRequest with enough runs goes on to its branches.
StartReconcile(c) ==
  /\ queued[c]
  /\ queued' = [queued EXCEPT ![c] = FALSE]
  /\ \E found \in SUBSET RunsOf(source[c], c) :
       IF EnoughRuns(found, source[c])
         THEN /\ Step(c, "idle", IF IsPullRequest THEN "event" ELSE "idle")
              /\ UNCHANGED asked
         ELSE /\ Step(c, "idle", "ask")
              /\ asked' = [asked EXCEPT ![c] = source[c]]
  /\ UNCHANGED <<kind, forge, source, runs, status, pt, prs, transientErr, faults,
                 moves, late, calm>>

\* The other cluster is asked, and what runs there is not built here.
CheckThere(c) ==
  /\ Step(c, "ask", IF EnoughRuns(RunsOf(asked[c], Other(c)), asked[c])
                      THEN "idle" ELSE "event")
  /\ Drop(c)
  /\ UNCHANGED <<kind, forge, clusterVars, pt, prs, transientErr, faults,
                 moves, late, calm>>

\* The other cluster cannot be asked: only logged, "not running".
AskFails(c) ==
  /\ Step(c, "ask", "event")
  /\ Spend
  /\ Drop(c)
  /\ late' = [late EXCEPT ![c] = {}]
  /\ UNCHANGED <<kind, forge, clusterVars, pt, prs, transientErr, moves, calm>>

-----------------------------------------------------------------------------
(* Build it.                                                               *)

\* The source is read again.
Advance(c) ==
  /\ Step(c, "event", "start")
  /\ LET tips == source[c]
     IN  /\ pt' = [pt EXCEPT ![c] =
                     [k \in Keys |-> IF k \in DOMAIN tips THEN tips[k] ELSE NoRevision]]
         /\ prs' = [prs EXCEPT ![c] = {k \in DOMAIN tips : status[c][k] # tips[k]}]
  /\ UNCHANGED <<kind, forge, clusterVars, asked, transientErr, faults,
                 moves, late, calm>>

Label(c, k) == <<k, pt[c][k]>>

Settled(c, k) ==
  /\ pc[c] = "start" /\ k \in prs[c]
  /\ prs' = [prs EXCEPT ![c] = @ \ {k}]
  /\ UNCHANGED <<kind, forge, source, status, queued, pc, asked,
                 moves, late, calm>>

MissingHere(c, k) == runs[c][Label(c, k)] = "absent"

Store(c, k) == runs' = [runs EXCEPT ![c][Label(c, k)] = "created"]

\* Mutant: what is recorded is the source itself, which holds no closed branch.
RollBackToSource(c, k) ==
  /\ pt' = [pt EXCEPT ![c] = source[c]]
  /\ transientErr' = [transientErr EXCEPT ![c] = TRUE]

\* Transient: what is recorded of the reference is what it was before.
RollBack(c, k) ==
  /\ pt' = [pt EXCEPT ![c] = IF IsPullRequest THEN [@ EXCEPT ![k] = status[c][k]]
                                              ELSE status[c]]
  /\ transientErr' = [transientErr EXCEPT ![c] = TRUE]

Adopt(c, k) ==
  /\ Settled(c, k) /\ ~MissingHere(c, k)
  /\ UNCHANGED <<runs, pt, transientErr, faults>>

Created(c, k) ==
  /\ Settled(c, k) /\ MissingHere(c, k) /\ Label(c, k) \notin Refused[c]
  /\ Store(c, k)
  /\ UNCHANGED <<pt, transientErr, faults>>

\* The revision stays recorded, with an Error.
CreateRejected(c, k) ==
  /\ Settled(c, k) /\ MissingHere(c, k) /\ Label(c, k) \in Refused[c]
  /\ UNCHANGED <<runs, pt, transientErr, faults>>

\* The lookup or the create fails; the create may have landed all the same.
CreateFails(c, k) ==
  /\ Settled(c, k) /\ Spend
  /\ \/ UNCHANGED runs
     \/ MissingHere(c, k) /\ Label(c, k) \notin Refused[c] /\ Store(c, k)
  /\ RollBack(c, k)

\* Mutant: a failed create is not requeued.
RequeueNever(c) == queued[c]

Requeue(c) == queued[c] \/ transientErr[c]

Finish(c) ==
  /\ prs[c] = {} /\ Step(c, "start", "idle")
  /\ status' = [status EXCEPT ![c] = pt[c]]
  /\ queued' = [queued EXCEPT ![c] = Requeue(c)]
  /\ pt' = [pt EXCEPT ![c] = NothingRecorded]
  /\ transientErr' = [transientErr EXCEPT ![c] = FALSE]
  /\ UNCHANGED <<kind, forge, source, runs, asked, prs, faults,
                 moves, late, calm>>

-----------------------------------------------------------------------------
(* Everybody else.                                                         *)

ForgeMoves ==
  /\ moves > 0 /\ moves' = moves - 1
  /\ forge' \in Tips(kind) \ {forge}
  /\ UNCHANGED <<kind, clusterVars, pc, workerVars, faults, late, calm>>

\* The source object of a cluster catches up, which queues the trigger.
Poll(c) ==
  /\ source[c] # forge
  /\ source' = [source EXCEPT ![c] = forge]
  /\ queued' = [queued EXCEPT ![c] = TRUE]
  /\ calm' = [calm EXCEPT ![c] = pc[c] = "idle"]
  /\ late' = [late EXCEPT ![c] =
                IF \A l \in LabelsIn(forge) : runs[Other(c)][l] = "labelled"
                  THEN {l \in LabelsIn(forge) : runs[c][l] = "absent"} ELSE {}]
  /\ UNCHANGED <<kind, forge, runs, status, pc, workerVars, faults, moves>>

TektonStarts(c) ==
  /\ \E l \in Labels : /\ runs[c][l] = "created"
                       /\ runs' = [runs EXCEPT ![c][l] = "labelled"]
  /\ UNCHANGED <<kind, forge, source, status, queued, pc, workerVars, faults,
                 moves, late, calm>>

\* The conditions of a run that Tekton took change, which queues the trigger.
RunChanges(c) ==
  /\ \E l \in Labels : runs[c][l] = "labelled"
  /\ queued' = [queued EXCEPT ![c] = TRUE]
  /\ UNCHANGED <<kind, forge, source, runs, status, pc, workerVars, faults, moves,
                 late, calm>>

\* A manager restarts: what its worker held is lost, every trigger is queued.
Restart(c) ==
  /\ Spend
  /\ pc' = [pc EXCEPT ![c] = "idle"]
  /\ queued' = [queued EXCEPT ![c] = TRUE]
  /\ Drop(c)
  /\ pt' = [pt EXCEPT ![c] = NothingRecorded]
  /\ prs' = [prs EXCEPT ![c] = {}]
  /\ transientErr' = [transientErr EXCEPT ![c] = FALSE]
  /\ UNCHANGED <<kind, forge, source, runs, status, moves, late, calm>>

-----------------------------------------------------------------------------
ContinueReconcile(c) ==
  \/ CheckThere(c) \/ AskFails(c) \/ Advance(c)
  \/ \E k \in prs[c] :
       Adopt(c, k) \/ Created(c, k) \/ CreateRejected(c, k) \/ CreateFails(c, k)
  \/ Finish(c)

Next ==
  \/ \E c \in Clusters :
       \/ StartReconcile(c) \/ ContinueReconcile(c)
       \/ Poll(c) \/ TektonStarts(c) \/ RunChanges(c) \/ Restart(c)
  \/ ForgeMoves

Spec == Init /\ [][Next]_vars

\* Both managers are served, the sources are polled and Tekton takes its runs.
Fairness ==
  \A c \in Clusters :
    /\ WF_vars(StartReconcile(c)) /\ WF_vars(ContinueReconcile(c))
    /\ WF_vars(Poll(c)) /\ WF_vars(TektonStarts(c))

FairSpec == Spec /\ Fairness

-----------------------------------------------------------------------------
(* Properties.                                                             *)

Recorded == [Keys -> Revisions \union {NoRevision}]

\* Every variable has its type.
TypeOK ==
  /\ kind \in Kinds
  /\ forge \in Tips(kind)
  /\ source \in [Clusters -> Tips(kind)]
  /\ asked \in [Clusters -> Tips(kind) \union {NoTips}]
  /\ runs \in [Clusters -> [Labels -> Phases]]
  /\ status \in [Clusters -> Recorded] /\ pt \in [Clusters -> Recorded]
  /\ queued \in [Clusters -> BOOLEAN] /\ transientErr \in [Clusters -> BOOLEAN]
  /\ pc \in [Clusters -> {"idle", "ask", "event", "start"}]
  /\ prs \in [Clusters -> SUBSET Keys]
  /\ faults \in Nat /\ moves \in Nat
  /\ late \in [Clusters -> SUBSET Labels] /\ calm \in [Clusters -> BOOLEAN]

Built(l) == \E c \in Clusters : runs[c][l] # "absent"

RefusedEverywhere(l) == \A c \in Clusters : l \in Refused[c]

AtRest(c) == pc[c] = "idle" /\ ~queued[c] /\ source[c] = forge

\* The clusters do not leave a revision to each other: when both have nothing
\* left to do, each is built on one of them unless both refuse it, although a
\* PullRequest is built or left as a whole, by counting runs (CalculateCurrentState).
NothingSlips ==
  (\A c \in Clusters : AtRest(c)) =>
    \A l \in LabelsIn(forge) : Built(l) \/ RefusedEverywhere(l)

\* A revision that was already running on the other cluster when it reached an
\* idle one is not built again, unless the query fails (CalculateCurrentState).
LateClusterYields ==
  \A c \in Clusters : calm[c] => \A l \in late[c] : runs[c][l] = "absent"

\* Once the forge rests, every revision it holds is built on some cluster that
\* does not refuse it, whatever failed on the way.
BuiltSomewhere ==
  <>[](\A l \in LabelsIn(forge) : Built(l) \/ RefusedEverywhere(l))
=============================================================================

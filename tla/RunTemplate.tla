---------------------------- MODULE RunTemplate ----------------------------
(***************************************************************************)
(* The runs of one reconcile as objects in memory.  They are all built     *)
(* from the template in the spec of the trigger, decorated with a managed  *)
(* credential and sent one at a time; a create writes the answer of the    *)
(* API server, its server fields included, into the object it was given.   *)
(*                                                                         *)
(* Reconciler has the statuses, caches and crashes that are left out here. *)
(***************************************************************************)
EXTENDS Integers, FiniteSets

CONSTANTS
  Keys,         \* what a run is built for: branches, or revisions of one source
  NoKey,
  Template,     \* the place in memory of the template of the trigger
  Templates,    \* the templates users write
  Credentials,  \* what a stored credential may refer to
  NoCredential,
  MaxFaults     \* bound: calls that fail

\* "labels", "params": the key they were made of.  "fixed": it has metadata.name;
\* "prefix": generateName.  "server": it has a resourceVersion.
Object == [labels: Keys \union {NoKey}, params: Keys \union {NoKey},
           name: {"fixed", "prefix", "none"}, account: {"own", "managed"},
           secrets: Nat, server: BOOLEAN]

Credential == [account: BOOLEAN, secret: BOOLEAN]

ASSUME TemplateAssumption ==
  /\ NoKey \notin Keys /\ Template \notin Keys
  /\ Templates \subseteq Object
  /\ \A t \in Templates : t.params = NoKey /\ t.secrets = 0 /\ ~t.server
  /\ Credentials \subseteq Credential
  /\ NoCredential \notin Credentials
  /\ MaxFaults \in Nat

VARIABLES
  \* the cluster
  template,    \* of the stored trigger
  wanted,      \* what the source holds
  credential,  \* that the trigger refers to, or NoCredential
  runs,        \* the runs at the API server
  queued,
  \* the worker
  pc,
  memory,      \* the template it read and the objects it built
  toBuild, prs,
  transientErr,
  built,       \* the keys whose slot names a run
  faults       \* the calls left that may fail

clusterVars == <<template, wanted, credential>>
vars == <<clusterVars, runs, queued, pc, memory, toBuild, prs, transientErr, built,
          faults>>

Places == Keys \union {Template}

Fresh(t) == [i \in Places |-> t]

Init ==
  /\ template \in Templates /\ wanted = {}
  /\ credential \in Credentials \union {NoCredential}
  /\ runs = {} /\ queued = TRUE
  /\ pc = "idle" /\ memory = Fresh(template)
  /\ toBuild = {} /\ prs = {} /\ transientErr = FALSE /\ built = {}
  /\ faults = MaxFaults

Fails == faults > 0 /\ faults' = faults - 1

-----------------------------------------------------------------------------
(* Build and decorate.                                                     *)

\* The trigger is read, a copy of the cached one, and what has no run is prepared.
StartReconcile ==
  /\ pc = "idle" /\ pc' = "build"
  /\ queued /\ queued' = FALSE
  /\ memory' = Fresh(template)
  /\ toBuild' = wanted \ built
  /\ UNCHANGED <<clusterVars, runs, prs, transientErr, built, faults>>

\* Mutant: the run is built in the template.
PlaceShared(k) == Template

\* The run of k is built in a deep copy.
Place(k) == k

\* What params still hold a path is filled in with the details of k.
Evaluated(params, k) == IF params = NoKey THEN k ELSE params

\* Mutant: labels that the template has are kept.
LabelledIfMissing(labels, k) == IF labels = NoKey THEN k ELSE labels

\* Mutant: a template without labels gets none.
LabelledIfAny(labels, k) == IF labels = NoKey THEN NoKey ELSE k

\* The source labels are added to those of the template, and win.
Labelled(labels, k) == k

\* A template without a name gets a prefix.
Named(name) == IF name = "none" THEN "prefix" ELSE name

RunFor(k) ==
  [memory[Template] EXCEPT !.params = Evaluated(@, k),
                           !.labels = Labelled(@, k),
                           !.name = Named(@)]

Build(k) ==
  /\ pc = "build" /\ k \in toBuild
  /\ memory' = [memory EXCEPT ![Place(k)] = RunFor(k)]
  /\ toBuild' = toBuild \ {k} /\ prs' = prs \union {k}
  /\ UNCHANGED <<clusterVars, runs, queued, pc, transientErr, built, faults>>

\* One credential, applied to an object once for every prepared run that it is.
Decorated(object, c, times) ==
  IF times = 0 THEN object
  ELSE [object EXCEPT !.account = IF c.account THEN "managed" ELSE @,
                      !.secrets = IF c.secret THEN @ + times ELSE @]

Decorate ==
  /\ pc = "build" /\ toBuild = {} /\ pc' = "start"
  /\ credential # NoCredential
  /\ memory' = [i \in Places |->
       Decorated(memory[i], credential, Cardinality({k \in prs : Place(k) = i}))]
  /\ UNCHANGED <<clusterVars, runs, queued, toBuild, prs, transientErr, built, faults>>

\* Without the credential, or with an error of the read, the runs go as they are.
GoUndecorated ==
  /\ pc = "build" /\ toBuild = {} /\ pc' = "start"
  /\ \/ credential = NoCredential /\ UNCHANGED faults
     \/ Fails
  /\ UNCHANGED <<clusterVars, runs, queued, memory, toBuild, prs, transientErr, built>>

-----------------------------------------------------------------------------
(* Send.                                                                   *)

Sent(k) == memory[Place(k)]

HasRun(k) == \E run \in runs : run.labels = Sent(k).labels

NameTaken(k) == Sent(k).name = "fixed" /\ \E run \in runs : run.name = "fixed"

Settled(k) ==
  /\ pc = "start" /\ k \in prs
  /\ prs' = prs \ {k}
  /\ UNCHANGED <<clusterVars, queued, pc, toBuild>>

\* The slot is found by the labels of the run.
Adopt(k) ==
  /\ Settled(k) /\ HasRun(k)
  /\ built' = built \union {Sent(k).labels}
  /\ UNCHANGED <<runs, memory, transientErr, faults>>

Stored(k) == [Sent(k) EXCEPT !.server = TRUE]

Created(k) ==
  /\ Settled(k) /\ ~HasRun(k) /\ ~NameTaken(k) /\ ~Sent(k).server
  /\ runs' = runs \union {Stored(k)}
  /\ memory' = [memory EXCEPT ![Place(k)] = Stored(k)]
  /\ built' = built \union {Sent(k).labels}
  /\ UNCHANGED <<transientErr, faults>>

\* A resourceVersion on a new object, a name that is taken and a failed call are
\* all transient errors: the slot is what it was, without a run.
CreateFails(k) ==
  /\ Settled(k) /\ ~HasRun(k)
  /\ \/ (NameTaken(k) \/ Sent(k).server) /\ UNCHANGED faults
     \/ Fails
  /\ built' = built \ {Sent(k).labels}
  /\ transientErr' = TRUE
  /\ UNCHANGED <<runs, memory>>

\* Mutant: a failed create is not requeued.
RequeueNever == queued

Requeue == queued \/ transientErr

Finish ==
  /\ pc = "start" /\ prs = {} /\ pc' = "idle"
  /\ queued' = Requeue /\ transientErr' = FALSE
  /\ UNCHANGED <<clusterVars, runs, memory, toBuild, prs, built, faults>>

-----------------------------------------------------------------------------
(* Everybody else.                                                         *)

workerVars == <<pc, memory, toBuild, prs, transientErr, built, faults>>

SourceBrings(k) ==
  /\ k \notin wanted
  /\ wanted' = wanted \union {k} /\ queued' = TRUE
  /\ UNCHANGED <<template, credential, runs, workerVars>>

CredentialChanges ==
  /\ credential' \in Credentials \union {NoCredential} /\ credential' # credential
  /\ UNCHANGED <<template, wanted, runs, queued, workerVars>>

\* A run that is over is deleted.
RunDeleted(k) ==
  /\ \E run \in runs : run.labels = k
  /\ runs' = {run \in runs : run.labels # k}
  /\ UNCHANGED <<clusterVars, queued, workerVars>>

-----------------------------------------------------------------------------
ContinueReconcile ==
  \/ \E k \in toBuild : Build(k)
  \/ Decorate \/ GoUndecorated
  \/ \E k \in prs : Adopt(k) \/ Created(k) \/ CreateFails(k)
  \/ Finish

Next ==
  \/ StartReconcile \/ ContinueReconcile
  \/ CredentialChanges
  \/ \E k \in Keys : SourceBrings(k) \/ RunDeleted(k)

Spec == Init /\ [][Next]_vars

\* The worker is served, and runs that are over are deleted in the end.
Fairness ==
  /\ WF_vars(StartReconcile) /\ WF_vars(ContinueReconcile)
  /\ \A k \in Keys : WF_vars(RunDeleted(k))

FairSpec == Spec /\ Fairness

-----------------------------------------------------------------------------
(* Properties.                                                             *)

\* Every variable has its type.
TypeOK ==
  /\ template \in Templates /\ wanted \subseteq Keys
  /\ credential \in Credentials \union {NoCredential}
  /\ runs \subseteq Object /\ queued \in BOOLEAN
  /\ pc \in {"idle", "build", "start"}
  /\ memory \in [Places -> Object]
  /\ toBuild \subseteq Keys /\ prs \subseteq Keys /\ built \subseteq Keys
  /\ transientErr \in BOOLEAN /\ faults \in Nat

\* A run has the params of the branch whose labels it has, whatever was built from
\* the same template before it (CreatePipelineRunResourceForBranch).
RunsAreOwn == \A run \in runs : run.params = run.labels

\* What is sent was not sent before: a create that was answered does not make the
\* create of the next branch fail, the storm of 2026-07-06 (StartPipelineRun).
SentClean == pc = "start" => \A k \in prs : ~Sent(k).server

\* A run has a credential as it once was, all of it and once, or nothing of it,
\* whatever other runs it was applied to (ApplyManagedCredentialToPipelineRun).
CredentialWhole ==
  \A run \in runs :
    run.secrets = 0 \/ \E c \in Credentials :
      c.secret /\ run.secrets = 1 /\ (c.account => run.account = "managed")

\* Every branch gets its run in the end, even if all runs have one name: each
\* waits until the run that has it is gone (StartPipelineRuns).
EveryBranchBuilt == \A k \in Keys : k \in wanted ~> k \in built
=============================================================================

--------------------------- MODULE TemplateProofs ---------------------------
(***************************************************************************)
(* Proofs about the objects a reconcile builds: for any number of runs of  *)
(* one template, whatever the template and the credentials are.            *)
(***************************************************************************)
EXTENDS RunTemplate, FiniteSetTheorems, TLAPS

-----------------------------------------------------------------------------
(* The invariant.                                                          *)

\* An object that nobody sent or decorated.
Plain(object) == object.secrets = 0 /\ ~object.server

Whole(object) ==
  object.secrets = 0 \/ \E c \in Credentials :
    c.secret /\ object.secrets = 1 /\ (c.account => object.account = "managed")

\* The template in memory stays what it was, each prepared run is an object of its
\* own that is about its own key, and its stage says what was done to it.
Prepared(k) ==
  /\ Sent(k).labels = k /\ Sent(k).params = k /\ ~Sent(k).server
  /\ pc = "build" => Plain(Sent(k))
  /\ pc = "start" => Whole(Sent(k))

TemplateInv ==
  /\ memory[Template].params = NoKey /\ Plain(memory[Template])
  /\ \A k \in prs : Prepared(k)
  /\ pc = "idle" => prs = {}
  /\ \A run \in runs : run.params = run.labels /\ Whole(run)

LEMMA InitTemplate == Init => TypeOK /\ TemplateInv
<1> SUFFICES ASSUME Init PROVE TypeOK /\ TemplateInv
  OBVIOUS
<1>1. memory \in [Places -> Object] /\ memory[Template] = template
  BY TemplateAssumption DEF Init, Fresh, Places
<1> QED BY <1>1, TemplateAssumption DEF Init, TypeOK, TemplateInv, Plain

\* How often an object is decorated: once if it is a prepared run.
LEMMA DecoratedOnce ==
  ASSUME TypeOK, NEW i \in Places
  PROVE  Cardinality({k \in prs : Place(k) = i}) = IF i \in prs THEN 1 ELSE 0
<1>1. CASE i \in prs
  <2>1. {k \in prs : Place(k) = i} = {i}
    BY <1>1 DEF Place
  <2> QED BY <1>1, <2>1, FS_Singleton
<1>2. CASE i \notin prs
  <2>1. {k \in prs : Place(k) = i} = {}
    BY <1>2 DEF Place
  <2> QED BY <1>2, <2>1, FS_EmptySet
<1> QED BY <1>1, <1>2

\* What leaves the objects alone, and prepares and stores nothing.
LEMMA SameMemory ==
  ASSUME TemplateInv, memory' = memory, prs' \subseteq prs, runs' \subseteq runs,
         pc' = pc \/ prs' = {}
  PROVE  TemplateInv'
<1>1. ASSUME NEW k \in prs' PROVE Prepared(k)'
  BY <1>1 DEF TemplateInv, Prepared, Sent, Place, Plain, Whole
<1>2. \A run \in runs' : run.params = run.labels /\ Whole(run)
  BY DEF TemplateInv
<1> QED BY <1>1, <1>2 DEF TemplateInv, Plain, Whole

-----------------------------------------------------------------------------
(* Each step.                                                              *)

LEMMA StartTemplate ==
  ASSUME TypeOK, TemplateInv, StartReconcile
  PROVE  TypeOK' /\ TemplateInv'
<1>1. memory' \in [Places -> Object] /\ memory'[Template] = template
  BY TemplateAssumption DEF StartReconcile, Fresh, Places, TypeOK
<1> QED BY <1>1, TemplateAssumption
        DEF StartReconcile, clusterVars, TypeOK, TemplateInv, Plain, Whole

LEMMA BuildTemplate ==
  ASSUME TypeOK, TemplateInv, NEW k \in toBuild, Build(k)
  PROVE  TypeOK' /\ TemplateInv'
<1> USE DEF TypeOK
<1>1. k \in Keys /\ k \in Places /\ k # Template /\ Template \in Places
  BY TemplateAssumption DEF Places
<1>2. /\ RunFor(k) \in Object /\ RunFor(k).labels = k /\ RunFor(k).params = k
      /\ Plain(RunFor(k))
  BY <1>1 DEF RunFor, Object, Evaluated, Labelled, Named, TemplateInv, Plain
<1>3. /\ memory' = [memory EXCEPT ![k] = RunFor(k)]
      /\ pc = "build" /\ pc' = "build" /\ prs' = prs \union {k} /\ toBuild' \subseteq toBuild
      /\ UNCHANGED <<clusterVars, runs, queued, transientErr, built, faults>>
  BY DEF Build, Place
<1>4. memory' \in [Places -> Object] /\ memory'[k] = RunFor(k)
  BY <1>1, <1>2, <1>3
<1>5. TypeOK'
  BY <1>1, <1>3, <1>4 DEF clusterVars
<1>6. ASSUME NEW j \in prs' PROVE Prepared(j)'
  BY <1>1, <1>2, <1>3, <1>4, <1>6 DEF TemplateInv, Prepared, Sent, Place, Plain, Places
<1> QED BY <1>1, <1>3, <1>5, <1>6 DEF TemplateInv, Plain, Whole

LEMMA DecorateTemplate ==
  ASSUME TypeOK, TemplateInv, Decorate \/ GoUndecorated
  PROVE  TypeOK' /\ TemplateInv'
<1> USE DEF TypeOK
<1>1. Template \in Places /\ Template \notin prs /\ prs \subseteq Places
  BY TemplateAssumption DEF Places
<1>2. CASE Decorate
  <2> DEFINE times(i) == Cardinality({k \in prs : Place(k) = i})
  <2>1. /\ pc = "build" /\ pc' = "start" /\ credential \in Credentials
        /\ UNCHANGED <<clusterVars, runs, queued, toBuild, prs, transientErr, built, faults>>
        /\ memory' = [i \in Places |-> Decorated(memory[i], credential, times(i))]
    BY <1>2 DEF Decorate
  <2>2. \A i \in Places : times(i) = IF i \in prs THEN 1 ELSE 0
    BY DecoratedOnce
  <2> HIDE DEF times
  <2>3. credential.account \in BOOLEAN /\ credential.secret \in BOOLEAN
    BY <2>1, TemplateAssumption DEF Credential
  <2>4. ASSUME NEW i \in Places, i \notin prs PROVE memory'[i] = memory[i]
    <3>1. times(i) = 0
      BY <2>2, <2>4
    <3> QED BY <2>1, <3>1 DEF Decorated
  <2>5. ASSUME NEW i \in prs
        PROVE  memory'[i] = Decorated(memory[i], credential, 1)
    <3>1. i \in Places /\ times(i) = 1
      BY <1>1, <2>2, <2>5
    <3> QED BY <2>1, <3>1
  <2>6. \A i \in Places : memory'[i] \in Object
    <3>1. ASSUME NEW o \in Object PROVE Decorated(o, credential, 1) \in Object
      <4> DEFINE account == IF credential.account THEN "managed" ELSE o.account
                 secrets == IF credential.secret THEN o.secrets + 1 ELSE o.secrets
      <4>1. account \in {"own", "managed"} /\ secrets \in Nat
        BY <3>1, <2>3 DEF Object
      <4>2. Decorated(o, credential, 1) = [o EXCEPT !.account = account, !.secrets = secrets]
        BY DEF Decorated
      <4> HIDE DEF account, secrets
      <4> QED BY <3>1, <4>1, <4>2 DEF Object
    <3>2. \A i \in Places : memory[i] \in Object
      OBVIOUS
    <3> QED BY <1>1, <2>4, <2>5, <3>1, <3>2
  <2>7. memory' \in [Places -> Object]
    BY <2>1, <2>6
  <2>8. ASSUME NEW k \in prs PROVE Prepared(k)'
    <3>1. memory[k] \in Object /\ Prepared(k)
      BY <1>1, <2>8 DEF TemplateInv
    <3>2. /\ memory'[k].labels = k /\ memory'[k].params = k /\ ~memory'[k].server
          /\ memory'[k].secrets = IF credential.secret THEN 1 ELSE 0
          /\ credential.account => memory'[k].account = "managed"
      <4>1. memory'[k] = Decorated(memory[k], credential, 1)
        BY <2>5, <2>8
      <4>2. memory[k].labels = k /\ memory[k].params = k /\ Plain(memory[k])
        BY <2>1, <3>1 DEF Prepared, Sent, Place
      <4> QED BY <2>3, <3>1, <4>1, <4>2 DEF Decorated, Plain, Object
    <3> QED BY <2>1, <3>2 DEF Prepared, Sent, Place, Whole
  <2> QED BY <1>1, <2>1, <2>4, <2>7, <2>8 DEF clusterVars, TemplateInv, Plain, Whole
<1>3. CASE GoUndecorated
  BY <1>3 DEF GoUndecorated, Fails, clusterVars, TemplateInv, Prepared, Sent, Place, Plain,
             Whole
<1> QED BY <1>2, <1>3

LEMMA SendTemplate ==
  ASSUME TypeOK, TemplateInv, NEW k \in prs, Adopt(k) \/ Created(k) \/ CreateFails(k)
  PROVE  TypeOK' /\ TemplateInv'
<1> USE DEF TypeOK
<1>1. /\ k \in Keys /\ k \in Places /\ k # Template /\ Template \in Places
      /\ Prepared(k) /\ Sent(k) \in Object /\ Sent(k) = memory[k]
  BY TemplateAssumption DEF Places, TemplateInv, Sent, Place
<1>2. /\ pc = "start" /\ pc' = "start" /\ prs' = prs \ {k} /\ toBuild' = toBuild
      /\ UNCHANGED <<clusterVars, queued>>
  BY DEF Adopt, Created, CreateFails, Settled
<1>3. CASE Adopt(k) \/ CreateFails(k)
  <2>1. UNCHANGED <<runs, memory>>
    BY <1>3 DEF Adopt, CreateFails
  <2>2. TemplateInv'
    BY <1>2, <2>1, SameMemory
  <2>3. built' \subseteq Keys /\ transientErr' \in BOOLEAN /\ faults' \in Nat
    <3>1. Sent(k).labels = k
      BY <1>1 DEF Prepared
    <3>2. CASE Adopt(k)
      BY <1>1, <3>1, <3>2 DEF Adopt
    <3>3. CASE CreateFails(k)
      BY <3>1, <3>3 DEF CreateFails, Fails
    <3> QED BY <1>3, <3>2, <3>3
  <2> QED BY <1>2, <2>1, <2>2, <2>3 DEF clusterVars
<1>4. CASE Created(k)
  <2>1. /\ memory' = [memory EXCEPT ![k] = Stored(k)] /\ runs' = runs \union {Stored(k)}
        /\ built' = built \union {k} /\ UNCHANGED <<transientErr, faults>>
    BY <1>1, <1>4 DEF Created, Place, Prepared
  <2>2. /\ Stored(k) \in Object /\ Stored(k).params = Stored(k).labels /\ Whole(Stored(k))
    BY <1>1, <1>2 DEF Stored, Object, Prepared, Whole
  <2>3. TypeOK'
    BY <1>1, <1>2, <2>1, <2>2 DEF clusterVars
  <2>4. ASSUME NEW j \in prs' PROVE Prepared(j)'
    BY <1>1, <1>2, <2>1, <2>4 DEF TemplateInv, Prepared, Sent, Place, Whole
  <2>5. \A run \in runs' : run.params = run.labels /\ Whole(run)
    BY <2>1, <2>2 DEF TemplateInv
  <2> QED BY <1>1, <1>2, <2>1, <2>3, <2>4, <2>5 DEF TemplateInv, Plain, Whole
<1> QED BY <1>3, <1>4

LEMMA OtherTemplate ==
  ASSUME TypeOK, TemplateInv,
         \/ Finish \/ CredentialChanges \/ UNCHANGED vars
         \/ \E k \in Keys : SourceBrings(k) \/ RunDeleted(k)
  PROVE  TypeOK' /\ TemplateInv'
<1> USE DEF TypeOK
<1>1. CASE Finish
  BY <1>1, SameMemory DEF Finish, Requeue, clusterVars
<1>2. CASE CredentialChanges \/ UNCHANGED vars
  BY <1>2, SameMemory DEF CredentialChanges, vars, clusterVars, workerVars
<1>3. ASSUME NEW k \in Keys, SourceBrings(k) \/ RunDeleted(k)
      PROVE  TypeOK' /\ TemplateInv'
  BY <1>3, SameMemory DEF SourceBrings, RunDeleted, clusterVars, workerVars
<1> QED BY <1>1, <1>2, <1>3

LEMMA TemplateInvariant == Spec => [](TypeOK /\ TemplateInv)
<1>1. TypeOK /\ TemplateInv /\ [Next]_vars => TypeOK' /\ TemplateInv'
  BY StartTemplate, BuildTemplate, DecorateTemplate, SendTemplate, OtherTemplate
     DEF Next, ContinueReconcile
<1> QED BY <1>1, InitTemplate, PTL DEF Spec

\* Every variable keeps its type: what is built from a template, decorated, sent
\* and answered is still an object, and prepared is only what was to be built.
THEOREM TemplateTypeCorrect == Spec => []TypeOK
BY TemplateInvariant, PTL

\* Whatever the template holds and however many runs are built from it, each run
\* has its own labels and params (CreatePipelineRunResourceForBranch).
THEOREM RunsOfTheirOwn == Spec => []RunsAreOwn
<1>1. TemplateInv => RunsAreOwn
  BY DEF TemplateInv, RunsAreOwn
<1> QED BY <1>1, TemplateInvariant, PTL

\* No create is poisoned by one that was answered before (StartPipelineRun).
THEOREM NothingSentTwice == Spec => []SentClean
<1>1. TemplateInv => SentClean
  BY DEF TemplateInv, SentClean, Prepared
<1> QED BY <1>1, TemplateInvariant, PTL

\* A credential is applied as a whole, and once
\* (ApplyManagedCredentialToPipelineRun).
THEOREM CredentialsWhole == Spec => []CredentialWhole
<1>1. TemplateInv => CredentialWhole
  BY DEF TemplateInv, CredentialWhole, Whole
<1> QED BY <1>1, TemplateInvariant, PTL
=============================================================================

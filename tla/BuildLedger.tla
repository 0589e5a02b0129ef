----------------------------- MODULE BuildLedger -----------------------------
(***************************************************************************)
(* What the operator promises, without its caches, queue, retries and      *)
(* crashes: a ledger of the builds ever started and, per trigger, a claim  *)
(* about each reference it tracks.  A trigger has at most one build of a   *)
(* revision in force, and a claim is only ever written when it is true.    *)
(***************************************************************************)
EXTENDS Integers, Sequences

CONSTANTS
  Triggers,
  Labels,          \* the identity of a revision, as its builds carry it
  LabelsOf(_, _)   \* the identity of a reference and a revision of it

VARIABLES
  builds,  \* the builds ever started, in order: owner, labels and state
  claims   \* claims[t]: the references t tracks, what is said of each

ledger == <<builds, claims>>

BuildStates == {"open", "over", "gone"}

Build == [owner: Triggers, labels: Labels, state: BuildStates]

\* A claim is about a revision.  It names a build of it, or 0; "due" says that
\* the build is still to be started, "excused" that an error is reported.
Truthful(t, k, claim) ==
  IF claim.build = 0
    THEN claim.due \/ claim.excused
    ELSE /\ claim.build \in 1..Len(builds)
         /\ builds[claim.build].owner = t
         /\ builds[claim.build].labels = LabelsOf(k, claim.revision)

InForce(i, t, l) ==
  builds[i].owner = t /\ builds[i].labels = l /\ builds[i].state # "gone"

\* Nothing is built, and every reference tracked is still to be.
Init ==
  /\ builds = <<>>
  /\ DOMAIN claims = Triggers
  /\ \A t \in Triggers : \A k \in DOMAIN claims[t] :
       claims[t][k].build = 0 /\ claims[t][k].due

\* A trigger starts a build of a revision that it has none of.
Start(t, l) ==
  /\ \A i \in 1..Len(builds) : ~InForce(i, t, l)
  /\ builds' = Append(builds, [owner |-> t, labels |-> l, state |-> "open"])
  /\ UNCHANGED claims

Moves(i, from, to) ==
  /\ builds[i].state = from
  /\ builds' = [builds EXCEPT ![i].state = to]
  /\ UNCHANGED claims

Ends(i) == Moves(i, "open", "over")

Removed(i) == Moves(i, "over", "gone")

\* The claims of one trigger are written anew, each of them true.
Report(t) ==
  /\ DOMAIN claims' = Triggers
  /\ \A u \in Triggers \ {t} : claims'[u] = claims[u]
  /\ \A k \in DOMAIN claims'[t] : Truthful(t, k, claims'[t][k])
  /\ UNCHANGED builds

Next ==
  \/ \E t \in Triggers : Report(t) \/ \E l \in Labels : Start(t, l)
  \/ \E i \in 1..Len(builds) : Ends(i) \/ Removed(i)

Spec == Init /\ [][Next]_ledger
-----------------------------------------------------------------------------
\* No revision is built twice over.
OneInForce ==
  \A t \in Triggers, l \in Labels : \A i, j \in 1..Len(builds) :
    InForce(i, t, l) /\ InForce(j, t, l) => i = j

\* Every claim on the books is true.
AllTruthful ==
  \A t \in Triggers : \A k \in DOMAIN claims[t] : Truthful(t, k, claims[t][k])
=============================================================================

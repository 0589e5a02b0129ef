---------------------------- MODULE LabelledRuns ----------------------------
(***************************************************************************)
(* The reconciler over real labels: references and revisions are strings,  *)
(* and a run is known by the label values made of them.  A branch is its   *)
(* name and its revision a commit; a revision of a GitRepository is a      *)
(* branch and a commit, one of an ImagePolicy a path and a tag.            *)
(***************************************************************************)
EXTENDS Reconciler, SourceLabels

SourceLabelsOf(key, revision) ==
  CASE Kind = "PullRequest"   -> BranchLabels(key, revision)
    [] Kind = "GitRepository" -> GitRepositoryLabels(revision[1], revision[2])
    [] Kind = "ImagePolicy"   -> ImagePolicyLabels(revision[1], revision[2])

\* The string the name of a run is made of.
NameSource(key, revision) ==
  CASE Kind = "PullRequest"   -> rewriteBranchName(key)
    [] Kind = "GitRepository" -> rewriteBranchName(revision[1])
    [] Kind = "ImagePolicy"   -> ImageName(revision[1])

\* The strings that are made labels and a name of.
Labelled(key, revision) ==
  {NameSource(key, revision)} \union
    IF IsPullRequest THEN {rewriteBranchName(key), revision}
    ELSE IF Kind = "ImagePolicy" THEN {ImageName(revision[1]), revision[2]}
    ELSE {revision[1], revision[2]}

ValidLabels(labels) == \A i \in DOMAIN labels : IsValidLabelValue(labels[i])

ASSUME LabelledRunsAssumption ==
  /\ IsPullRequest => AllKeys \union AnyRevision \subseteq Seq(Nat)
  /\ ~IsPullRequest => AnyRevision \subseteq Seq(Nat) \X Seq(Nat)
  /\ \A k \in AllKeys, r \in AnyRevision :
       /\ LabelsOf(k, r) = SourceLabelsOf(k, r)
       /\ Labelled(k, r) \subseteq Raw
-----------------------------------------------------------------------------
\* The API server never refuses a run for its labels or the prefix of its name,
\* whatever the forge calls its branches: such a refusal is permanent, and the
\* branch would never be built (SanitizeLabelValue, GenerateNamePrefix).
RunsAccepted ==
  \A pr \in creating : \E r \in AnyRevision :
    /\ pr.labels = LabelsOf(pr.key, r)
    /\ ValidLabels(pr.labels)
    /\ IsValidPrefix(GenerateNamePrefix(NameSource(pr.key, r)))
=============================================================================

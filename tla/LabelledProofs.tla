--------------------------- MODULE LabelledProofs ---------------------------
(***************************************************************************)
(* The runs the reconciler creates carry labels and names that the API     *)
(* server accepts, whatever the references and revisions are called.       *)
(***************************************************************************)
EXTENDS LabelledRuns, StepProofs, LabelProofs

\* The labels of any reference and revision are valid values.
LEMMA SourceLabelsValid ==
  ASSUME NEW k \in AllKeys, NEW r \in AnyRevision
  PROVE  /\ ValidLabels(LabelsOf(k, r))
         /\ IsValidPrefix(GenerateNamePrefix(NameSource(k, r)))
<1>1. Labelled(k, r) \subseteq Raw /\ LabelsOf(k, r) = SourceLabelsOf(k, r)
  BY LabelledRunsAssumption
<1>2. IsValidPrefix(GenerateNamePrefix(NameSource(k, r)))
  <2>1. NameSource(k, r) \in Raw
    BY <1>1 DEF Labelled
  <2> QED BY <2>1, PrefixIsValid
<1>3. ASSUME NEW a \in Raw, NEW b \in Raw,
             LabelsOf(k, r) = <<SanitizeLabelValue(a), SanitizeLabelValue(b)>>
      PROVE  ValidLabels(LabelsOf(k, r))
  <2>1. DOMAIN LabelsOf(k, r) = {1, 2}
    BY <1>3
  <2> QED BY <1>3, <2>1, SanitizedIsValid DEF ValidLabels
<1>4. CASE IsPullRequest
  <2>1. rewriteBranchName(k) \in Raw /\ r \in Raw
    BY <1>1, <1>4 DEF Labelled
  <2>2. SourceLabelsOf(k, r) = BranchLabels(k, r)
    BY <1>4 DEF IsPullRequest, SourceLabelsOf
  <2> QED BY <1>1, <1>2, <1>3, <2>1, <2>2 DEF BranchLabels
<1>5. CASE Kind = "GitRepository"
  <2>1. r[1] \in Raw /\ r[2] \in Raw
    BY <1>1, <1>5 DEF IsPullRequest, Labelled
  <2>2. SourceLabelsOf(k, r) = GitRepositoryLabels(r[1], r[2])
    BY <1>5 DEF SourceLabelsOf
  <2> QED BY <1>1, <1>2, <1>3, <2>1, <2>2 DEF GitRepositoryLabels
<1>6. CASE Kind = "ImagePolicy"
  <2>1. ImageName(r[1]) \in Raw /\ r[2] \in Raw
    BY <1>1, <1>6 DEF IsPullRequest, Labelled
  <2>2. SourceLabelsOf(k, r) = ImagePolicyLabels(r[1], r[2])
    BY <1>6 DEF SourceLabelsOf
  <2> QED BY <1>1, <1>2, <1>3, <2>1, <2>2 DEF ImagePolicyLabels
<1> QED BY <1>4, <1>5, <1>6, KindAssumption DEF IsPullRequest

\* No run is refused for its labels or its name.
THEOREM RunsAreAccepted == Spec => []RunsAccepted
<1>1. TypeOK => RunsAccepted
  <2> SUFFICES ASSUME TypeOK, NEW pr \in creating
               PROVE  \E r \in AnyRevision :
                        /\ pr.labels = LabelsOf(pr.key, r)
                        /\ ValidLabels(pr.labels)
                        /\ IsValidPrefix(GenerateNamePrefix(NameSource(pr.key, r)))
    BY DEF RunsAccepted
  <2>1. PICK k \in AllKeys, r \in AnyRevision : pr = [key |-> k, labels |-> LabelsOf(k, r)]
    BY DEF TypeOK, WorkerTyped, PreparedRun
  <2>2. pr.key = k /\ pr.labels = LabelsOf(k, r)
    BY <2>1
  <2> QED BY <2>2, SourceLabelsValid
<1> QED BY <1>1, TypeCorrect, PTL

-----------------------------------------------------------------------------
(* Which references and revisions have labels of their own.                 *)

\* Of the strings that have to be changed no two have one hash, and none is
\* changed into another string of those.
HashesTell ==
  \A a, b \in Raw : a # b /\ ~IsValidLabelValue(b) =>
    IF IsValidLabelValue(a) THEN a # SanitizeLabelValue(b)
                            ELSE ShortHash(a) # ShortHash(b)

\* What the labels leave out tells nothing apart: that a branch has a slash where
\* another has a dash, the path in front of the name of an image.
NamesTell ==
  /\ IsPullRequest => \A j, k \in AllKeys :
       rewriteBranchName(j) = rewriteBranchName(k) => j = k
  /\ Kind = "ImagePolicy" => \A r, s \in AnyRevision :
       ImageName(r[1]) = ImageName(s[1]) => r[1] = s[1]

LEMMA SanitizedTells ==
  ASSUME HashesTell, NEW a \in Raw, NEW b \in Raw,
         SanitizeLabelValue(a) = SanitizeLabelValue(b)
  PROVE  a = b
<1>1. CASE IsValidLabelValue(a) /\ IsValidLabelValue(b)
  BY <1>1 DEF SanitizeLabelValue
<1>2. CASE IsValidLabelValue(a) /\ ~IsValidLabelValue(b)
  <2>1. SanitizeLabelValue(a) = a
    BY <1>2 DEF SanitizeLabelValue
  <2> QED BY <1>2, <2>1 DEF HashesTell
<1>3. CASE ~IsValidLabelValue(a) /\ IsValidLabelValue(b)
  <2>1. SanitizeLabelValue(b) = b
    BY <1>3 DEF SanitizeLabelValue
  <2> QED BY <1>3, <2>1 DEF HashesTell
<1>4. CASE ~IsValidLabelValue(a) /\ ~IsValidLabelValue(b)
  BY <1>4, SanitizedStaysDistinct DEF HashesTell
<1> QED BY <1>1, <1>2, <1>3, <1>4

LEMMA SourceLabelsTell ==
  ASSUME HashesTell, NamesTell
  PROVE  LabelsTellApart
<1> SUFFICES ASSUME NEW j \in Tracked, NEW k \in Tracked,
                    NEW r \in AnyRevision, NEW s \in AnyRevision,
                    LabelsOf(j, r) = LabelsOf(k, s)
             PROVE  j = k /\ r = s
  BY DEF LabelsTellApart
<1>1. /\ j \in AllKeys /\ k \in AllKeys
      /\ Labelled(j, r) \subseteq Raw /\ Labelled(k, s) \subseteq Raw
      /\ SourceLabelsOf(j, r) = SourceLabelsOf(k, s)
  BY LabelledRunsAssumption DEF Tracked, AllKeys
<1>2. ASSUME NEW a \in Raw, NEW b \in Raw, NEW c \in Raw, NEW d \in Raw,
             SourceLabelsOf(j, r) = <<SanitizeLabelValue(a), SanitizeLabelValue(b)>>,
             SourceLabelsOf(k, s) = <<SanitizeLabelValue(c), SanitizeLabelValue(d)>>
      PROVE  a = c /\ b = d
  <2>1. /\ SourceLabelsOf(j, r)[1] = SanitizeLabelValue(a)
        /\ SourceLabelsOf(j, r)[2] = SanitizeLabelValue(b)
    BY <1>2
  <2>2. /\ SourceLabelsOf(k, s)[1] = SanitizeLabelValue(c)
        /\ SourceLabelsOf(k, s)[2] = SanitizeLabelValue(d)
    BY <1>2
  <2> QED BY <1>1, <2>1, <2>2, SanitizedTells
<1>3. CASE IsPullRequest
  <2>1. /\ rewriteBranchName(j) \in Raw /\ rewriteBranchName(k) \in Raw
        /\ r \in Raw /\ s \in Raw
    BY <1>1, <1>3 DEF Labelled
  <2>2. SourceLabelsOf(j, r) = BranchLabels(j, r) /\ SourceLabelsOf(k, s) = BranchLabels(k, s)
    BY <1>3 DEF IsPullRequest, SourceLabelsOf
  <2>3. rewriteBranchName(j) = rewriteBranchName(k) /\ r = s
    BY <1>2, <2>1, <2>2 DEF BranchLabels
  <2> QED BY <1>1, <1>3, <2>3 DEF NamesTell
<1>4. CASE ~IsPullRequest
  <2>1. j = k
    BY <1>4, KindAssumption DEF IsPullRequest, Tracked
  <2>2. /\ r = <<r[1], r[2]>> /\ s = <<s[1], s[2]>>
    BY <1>4, LabelledRunsAssumption
  <2>3. CASE Kind = "GitRepository"
    <3>1. r[1] \in Raw /\ r[2] \in Raw /\ s[1] \in Raw /\ s[2] \in Raw
      BY <1>1, <1>4, <2>3 DEF Labelled
    <3>2. /\ SourceLabelsOf(j, r) = GitRepositoryLabels(r[1], r[2])
          /\ SourceLabelsOf(k, s) = GitRepositoryLabels(s[1], s[2])
      BY <2>3 DEF SourceLabelsOf
    <3>3. r[1] = s[1] /\ r[2] = s[2]
      BY <1>2, <3>1, <3>2 DEF GitRepositoryLabels
    <3> QED BY <2>1, <2>2, <3>3
  <2>4. CASE Kind = "ImagePolicy"
    <3>1. /\ ImageName(r[1]) \in Raw /\ r[2] \in Raw
          /\ ImageName(s[1]) \in Raw /\ s[2] \in Raw
      BY <1>1, <1>4, <2>4 DEF Labelled
    <3>2. /\ SourceLabelsOf(j, r) = ImagePolicyLabels(r[1], r[2])
          /\ SourceLabelsOf(k, s) = ImagePolicyLabels(s[1], s[2])
      BY <2>4 DEF SourceLabelsOf
    <3>3. ImageName(r[1]) = ImageName(s[1]) /\ r[2] = s[2]
      BY <1>2, <3>1, <3>2 DEF ImagePolicyLabels
    <3> QED BY <2>1, <2>2, <2>4, <3>3 DEF NamesTell
  <2> QED BY <1>4, <2>3, <2>4, KindAssumption DEF IsPullRequest
<1> QED BY <1>3, <1>4

\* Branches that differ in more than a slash share no run, and naming or settling
\* the run of one changes no slot of another, as far as the hashes tell their
\* labels apart (SanitizeLabelValue, GenerateBranchLabelsAsHash).
THEOREM BranchesKeptApart ==
  ASSUME HashesTell, NamesTell
  PROVE  Spec => []RunOfOneBranch /\ OneSlotPerStep
<1>1. LabelsTellReferences
  BY SourceLabelsTell DEF LabelsTellApart, LabelsTellReferences
<1> QED BY <1>1, RunOfItsBranch, OneSlotAtATime
=============================================================================

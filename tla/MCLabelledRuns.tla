--------------------------- MODULE MCLabelledRuns ---------------------------
(***************************************************************************)
(* Instances of LabelledRuns: a PullRequest whose branches have awkward    *)
(* names, in labels of at most 8 characters of which a hash takes 3.       *)
(***************************************************************************)
EXTENDS LabelledRuns, Folds

\* "fix/a-" and "fix/a_" of the code's own test, behind an underscore.
MCAwkwardBranches ==
  {<<95, 102, 105, 120, 47, 97, 45>>, <<95, 102, 105, 120, 47, 97, 95>>}

\* "f/b" and "f-b".
MCSlashAndDash == {<<102, 47, 98>>, <<102, 45, 98>>}

\* "null", "c1" and the commit of the branch "null".
MCNullBranch == <<110, 117, 108, 108>>
MCCommits == {<<99, 49>>}
MCNoCommit == <<>>

MCRaw == UNION {Labelled(k, r) : k \in AllKeys, r \in AnyRevision}

\* A hash that tells apart the strings of these instances.
MCShortHash(raw) ==
  LET sum == MapThenFoldSet(+, 0, LAMBDA i : i * raw[i], LAMBDA s : CHOOSE i \in s : TRUE,
                            DOMAIN raw)
  IN  <<97 + (sum % 6), 48 + (sum % 10), 48 + (Len(raw) % 10)>>

\* The labels of all references and revisions, worked out once.
LabelTable == {<<k, r, SourceLabelsOf(k, r)>> : k \in AllKeys, r \in AnyRevision}
MCLabelsOf(key, revision) ==
  (CHOOSE entry \in LabelTable : entry[1] = key /\ entry[2] = revision)[3]
MCLabels == {entry[3] : entry \in LabelTable}

GoodSpec == [check |-> "ok", pipeline |-> "p", params |-> "static", refused |-> {}]

\* An admission webhook refuses the runs of one branch, for another reason.
PickySpec ==
  [GoodSpec EXCEPT !.refused =
     {LabelsOf(CHOOSE k \in Keys : TRUE, r) : r \in AnyRevision}]

MCOneSpec == [t \in Triggers |-> {GoodSpec}]
MCPickySpecs == [t \in Triggers |-> {GoodSpec, PickySpec}]
=============================================================================

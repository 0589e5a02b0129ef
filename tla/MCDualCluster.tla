--------------------------- MODULE MCDualCluster ---------------------------
(***************************************************************************)
(* A small instance of DualCluster.                                        *)
(***************************************************************************)
EXTENDS DualCluster

CONSTANTS c1, c2, a, b, r1

MCClusters == {c1, c2}

MCKeys == {a, b}
MCRevisions == {r1}

\* Two branches that are opened and closed, of which a source can hold one or,
\* if it is a PullRequest, both.
MCLabels == {<<a, r1>>, <<b, r1>>}

\* One cluster refuses one branch, for which there is the other cluster.
MCOneRefused == [c \in Clusters |-> IF c = c1 THEN {<<b, r1>>} ELSE {}]
=============================================================================

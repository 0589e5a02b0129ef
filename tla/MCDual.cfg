SPECIFICATION FairSpec
CONSTANTS
  c1 = c1
  c2 = c2
  Clusters <- MCClusters
  a = a
  b = b
  r1 = r1
  Keys <- MCKeys
  Revisions <- MCRevisions
  Labels <- MCLabels
  NoRevision = none
  Kinds = {"GitRepository", "PullRequest"}
  Refused <- MCOneRefused
  MaxFaults = 1
  MaxMoves = 1
INVARIANTS
  TypeOK
  NothingSlips
  LateClusterYields
PROPERTIES
  BuiltSomewhere
CHECK_DEADLOCK FALSE

SPECIFICATION Spec
CONSTANTS
  Kind = "PullRequest"
  Keys <- MCSlashAndDash
  NullBranch <- MCNullBranch
  Revisions <- MCCommits
  NoRevision <- MCNoCommit
  Labels <- MCLabels
  LabelsOf <- MCLabelsOf
  Raw <- MCRaw
  ShortHash <- MCShortHash
  HashLen = 3
  LabelMax = 8
  PrefixMax = 6
  Triggers = {t1}
  Pipelines = {"p"}
  Resolver = "resolver"
  Specs <- MCOneSpec
  Faults = {}
  MaxFaults = 1
  MaxCrashes = 0
  MaxSourceChanges = 0
  MaxGeneration = 1
  MaxRuns = 2
  Outcomes = {"succeeded"}
  Pruning = FALSE
  Lagging = {"triggers", "runs"}
INVARIANTS
  RunOfOneBranch
CHECK_DEADLOCK FALSE

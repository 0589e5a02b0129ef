SPECIFICATION FairSpec
CONSTANTS
  Kind = "PullRequest"
  Keys <- MCAwkwardBranches
  NullBranch <- MCNullBranch
  Revisions <- MCCommits
  NoRevision <- MCNoCommit
  Labels <- MCLabels
  LabelsOf <- MCLabelsOf
  Raw <- MCRaw
  ShortHash <- MCShortHash
  HashLen = 3
  LabelMax = 8
  PrefixMax = 6
  Triggers = {t1}
  Pipelines = {"p"}
  Resolver = "resolver"
  Specs <- MCPickySpecs
  Faults = {"create", "landed"}
  MaxFaults = 1
  MaxCrashes = 0
  MaxSourceChanges = 1
  MaxGeneration = 1
  MaxRuns = 2
  Outcomes = {"succeeded"}
  Pruning = FALSE
  Lagging = {"triggers", "runs"}
INVARIANTS
  AtMostOneRun
  NoStrandedSlot
  RunOfOneBranch
  RunsAccepted
PROPERTIES
  OneSlotPerStep
  EveryRevisionHandled
  ResultShown
  NoCreateStorm
CHECK_DEADLOCK FALSE

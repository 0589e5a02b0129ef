SPECIFICATION FairSpec
CONSTANTS
  Kind = "PullRequest"
  Keys = {a}
  NullBranch = null
  Revisions = {r1}
  NoRevision = none
  Labels <- MCLabels
  LabelsOf <- MCLabelsOf
  Triggers = {t1}
  Pipelines = {"p"}
  Resolver = "resolver"
  Specs <- MCEditedSpecs
  Faults = {"create", "list", "live"}
  MaxFaults = 1
  MaxCrashes = 0
  MaxSourceChanges = 3
  MaxGeneration = 2
  MaxRuns = 2
  Outcomes = {"succeeded", "failed"}
  Pruning = TRUE
  Lagging = {"runs"}
INVARIANTS
  BuiltOnce
PROPERTIES
  ResultShown
  EveryRevisionHandled
  RetriedAfterEdit
  NoCreateStorm
CHECK_DEADLOCK FALSE

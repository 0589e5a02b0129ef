SPECIFICATION FairSpec
CONSTANTS
  Kind = "GitRepository"
  Keys = {repo}
  NullBranch = null
  Revisions = {r1}
  NoRevision = none
  Labels <- MCLabels
  LabelsOf <- MCLabelsOf
  Triggers = {t1}
  Pipelines = {"p"}
  Resolver = "resolver"
  Specs <- MCRejectableSpecs
  Faults = {"create"}
  MaxFaults = 1
  MaxCrashes = 0
  MaxSourceChanges = 0
  MaxGeneration = 2
  MaxRuns = 2
  Outcomes = {"succeeded"}
  Pruning = FALSE
  Lagging = {"triggers", "runs"}
PROPERTIES
  RetriedAfterEdit
CHECK_DEADLOCK FALSE

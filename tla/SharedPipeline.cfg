SPECIFICATION Spec
CONSTANTS
  Kind = "GitRepository"
  Keys = {repo}
  NullBranch = null
  Revisions = {r1}
  NoRevision = none
  Labels <- MCLabels
  LabelsOf <- MCLabelsOf
  Triggers = {t1, t2}
  Pipelines = {"p"}
  Resolver = "resolver"
  Specs <- MCOneSpec
  Faults = {}
  MaxFaults = 1
  MaxCrashes = 0
  MaxSourceChanges = 0
  MaxGeneration = 1
  MaxRuns = 2
  Outcomes = {"succeeded"}
  Pruning = FALSE
  Lagging = {"triggers", "runs"}
PROPERTIES
  SuppressedByOwnRun
CHECK_DEADLOCK FALSE

SPECIFICATION Spec
CONSTANTS
  Kind = "GitRepository"
  Keys = {repo}
  NullBranch = null
  Revisions = {r1, r2}
  NoRevision = none
  Labels <- MCLabels
  LabelsOf <- MCLabelsOf
  Triggers = {t1}
  Pipelines = {"p"}
  Resolver = "resolver"
  Specs <- MCOneSpec
  Faults = {}
  MaxFaults = 1
  MaxCrashes = 0
  MaxSourceChanges = 1
  MaxGeneration = 1
  MaxRuns = 2
  Outcomes = {"succeeded"}
  Pruning = FALSE
  Lagging = {"triggers", "runs"}
INVARIANTS
  NoRunWithoutArtifact
CHECK_DEADLOCK FALSE

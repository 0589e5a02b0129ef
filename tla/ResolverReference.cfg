SPECIFICATION Spec
CONSTANTS
  Kind = "PullRequest"
  Keys = {a}
  NullBranch = null
  Revisions = {r1}
  NoRevision = none
  Labels <- MCLabels
  LabelsOf <- MCLabelsOf
  Triggers = {t1}
  Pipelines = {"p"}
  Resolver = "resolver"
  Specs <- MCResolverSpecs
  Faults = {}
  MaxFaults = 1
  MaxCrashes = 0
  MaxSourceChanges = 1
  MaxGeneration = 1
  MaxRuns = 2
  Outcomes = {"succeeded"}
  Pruning = FALSE
  Lagging = {"triggers", "runs"}
INVARIANTS
  ResolverTolerated
CHECK_DEADLOCK FALSE

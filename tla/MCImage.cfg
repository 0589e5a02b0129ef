SPECIFICATION Spec
CONSTANTS
  Kind = "ImagePolicy"
  Keys = {repo}
  NullBranch = null
  Revisions = {r1}
  NoRevision = none
  Labels <- MCLabels
  LabelsOf <- MCLabelsOf
  Triggers = {t1, t2}
  Pipelines = {"p", "q"}
  Resolver = "resolver"
  Specs <- MCTwoPipelines
  Faults = {"state", "landed"}
  MaxFaults = 1
  MaxCrashes = 1
  MaxSourceChanges = 0
  MaxGeneration = 1
  MaxRuns = 2
  Outcomes = {"succeeded"}
  Pruning = FALSE
  Lagging = {"triggers", "runs"}
INVARIANTS
  AtMostOneRun
  NamedRunIsOfRevision
PROPERTIES
  SuppressedByOwnRun
  ImplementsLedger
CHECK_DEADLOCK FALSE

SPECIFICATION FairSpec
CONSTANTS
  Kind = "PullRequest"
  Keys = {a}
  NullBranch = null
  Revisions = {r1, r2}
  NoRevision = none
  Labels <- MCLabels
  LabelsOf <- MCLabelsOf
  Triggers = {t1}
  Pipelines = {"p"}
  Resolver = "resolver"
  Specs <- MCResolverEdits
  Faults = {"references", "event", "list", "state", "live", "rejectlive", "landed", "patch"}
  MaxFaults = 1
  MaxCrashes = 0
  MaxSourceChanges = 1
  MaxGeneration = 2
  MaxRuns = 2
  Outcomes = {"unresolved"}
  Pruning = FALSE
  Lagging = {"triggers", "runs"}
INVARIANTS
  NoStrandedSlot
  NamedRunIsOfRevision
PROPERTIES
  ImplementsLedger
  EveryRevisionAnswered
CHECK_DEADLOCK FALSE

SPECIFICATION Spec
CONSTANTS
  Source <- MCSource
  Ids <- MCIds
  Target <- MCTarget
  Unusable = {"127.0"}
  V6 = {}
  MiB = 2
  Scenarios <- MCScenarios
  Inventories <- MCInventories
INVARIANT PrecheckBeforeWrite
INVARIANT PlanIsExact
INVARIANT Idempotent
INVARIANT PrecheckCoversWrites
INVARIANT MissingMeansGone
PROPERTY ForeignUntouched
PROPERTY ManualKept
PROPERTY VmPrimaryKept

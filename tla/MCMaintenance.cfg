SPECIFICATION FairSpec
CONSTANTS
  Backups = {"b1"}
  Restores = {"r1"}
  Services = {"api", "broker", "apply"}
  Api = "api"
  Broker = "broker"
  Apply = "apply"
  Sources = {"s1"}
  Bundle <- MCBundle
  MaxRuns = 1
  MaxCrashes = 1
INVARIANT BundlesAreSnapshots
INVARIANT ServicesNeedWholeState
INVARIANT OriginalsSurvive
INVARIANT TimerNeedsWholeState
INVARIANT PublicationIsUndone
INVARIANT SavedLeavesHostAsFound
PROPERTY RestoreKeepsData
PROPERTY MaintenanceEnds
CHECK_DEADLOCK FALSE

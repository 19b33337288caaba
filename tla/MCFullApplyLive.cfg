SPECIFICATION FairSpec
CONSTANTS
  Source <- MCSource
  Ids <- MCIds
  Target <- MCTarget
  Unusable = {"127.0"}
  V6 = {}
  MiB = 2
  Scenarios <- LiveScenarios
  Inventories <- MCInventories
PROPERTY Converges

SPECIFICATION Spec
CONSTANTS
  NumRegions = 2
  FabCols = 2
  MaxWords = 2
  ColWords <- MCWideCols
  MaxUpsets = 1
  Doorbells <- MCDeploy
  Faults = {"starve", "spi", "anomaly"}
INVARIANT RegionIntact
INVARIANT FreeIsBlank
INVARIANT LockedWhileRunning
INVARIANT FabricTruth
INVARIANT NoSurplusWord
INVARIANT SelfSequenced

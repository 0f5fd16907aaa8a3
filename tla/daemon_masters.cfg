SPECIFICATION Spec
CONSTANTS
  NumRegions = 2
  FabCols = 2
  MaxWords = 2
  ColWords <- MCWideCols
  MaxUpsets = 1
  Doorbells <- MCPause
  Faults = {"starve", "late", "lkm", "global", "ctx"}
INVARIANT StatusTruth

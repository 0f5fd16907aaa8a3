SPECIFICATION FairSpec
CONSTANTS
  NumRegions = 2
  FabCols = 2
  MaxWords = 2
  ColWords <- MCThinCols
  MaxUpsets = 2
  Doorbells <- MCWide
  Faults = {"starve", "eager", "upset"}
PROPERTY CommandCompletes
PROPERTY HeartbeatFinds
CHECK_DEADLOCK FALSE

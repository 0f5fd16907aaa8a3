SPECIFICATION FairSpec
CONSTANTS
  AddrSpace <- MCAddrSpace
  Regions   <- MCRegions
  RegionOf  <- MCRegionOf
  Windows   <- MCWindows
  WindowOf  <- MCWindowOf
  Locks     <- MCOneLock
  LockOf    <- MCAliasOf
  NonZero   = {1}
  Frames    <- MCFrames
  Expects   <- MCExpects
  Polite    = TRUE
INVARIANTS
  NoStaleCompletion
PROPERTIES
  CommandCompletes

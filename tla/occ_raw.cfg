SPECIFICATION Spec
CONSTANTS
  AddrSpace <- MCAddrSpace
  Regions   <- MCRegions
  RegionOf  <- MCRegionOf
  Windows   <- MCWindows
  WindowOf  <- MCWindowOf
  Locks     <- MCLocks
  LockOf    <- MCLockOf
  NonZero   = {1}
  Frames    <- MCFullFrames
  Expects   <- MCExpects
  Polite    = FALSE
INVARIANTS
  ReadbackVerdict
  CleanIsBlank
PROPERTIES
  LockGate

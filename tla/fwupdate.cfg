CONSTANTS
  Images = {v1, v2}
  Erased = erased
  Words = 2
  Faults = {"crash", "restage", "corrupt"}
  SameSlot = FALSE
SPECIFICATION Spec
INVARIANT NeverHalts
PROPERTY BootsWholeImage

CONSTANTS
  Depth = 2
  PtrMod = 4
  NumRegions = 2
  TickDiv = 3
  TickMod = 1
  MaxCount = 2
  Requests <- MCRequests
SPECIFICATION FairSpec
INVARIANT DeltaNeverWraps
PROPERTIES RingIsFifo ThrottleLogged SpikeThrottles

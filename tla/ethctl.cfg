SPECIFICATION Spec
CONSTANTS
  NumRegions = 2
  Eths <- MCEths
  Requests <- MCRequests
  MaxSessions = 4
  FrameWords = 2
  IoMask = {0, 1, 2, 3, 4, 5, 6, 7}
  SvcMask = {0, 1, 2, 3, 4, 5, 6, 7}
INVARIANT RunTruth
INVARIANT StopTruth
INVARIANT NotWedged
PROPERTY SessionEnds
CHECK_DEADLOCK FALSE

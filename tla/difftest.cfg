SPECIFICATION Spec
CONSTANTS
  Jobs <- MCJobs
  Tohost <- T
  Entry = 4
  LogTail = 1
  BootRom <- MCBootRom
  Spin <- MCSpin
INVARIANTS MatchSound AlarmTruth CapturedSame InjectCaught
CHECK_DEADLOCK FALSE

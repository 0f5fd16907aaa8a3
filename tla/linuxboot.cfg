SPECIFICATION Spec
CONSTANTS
  Procs = {1, 2}
  Requests <- MCRequests
  Versions <- MCVersions
  InitrdBytes <- MCInitrdBytes
  GoodKernels = {1}
  SmallTrees = {1}
  KernelAddr = 10
  KernelEnd = 20
  InitrdEnd = 25
  Core <- MCCore
  FwGolden <- MCFwGolden
  FwSync = 2
  Slack = 1
  SpikeConsole <- Text
  Beside <- MCBeside
  MaxEdits = 1
  MaxCrashes = 1
INVARIANTS
  BuildTruth
  TreeMatchesInitrd
  BootTruth
  DiffTruth
CHECK_DEADLOCK FALSE

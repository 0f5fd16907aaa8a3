SPECIFICATION Spec
CONSTANTS
  hello = hello
  boot = boot
  r1 = r1
  r2 = r2
  Runners = {r1, r2}
  Programs <- MCPrograms
  BootProgram = boot
  Core <- MCCore
  Golden <- MCGolden
  Elfs <- MCElfs
  Expected <- MCExpected
  Roms <- MCRoms
  Dtb <- MCDtb
  RamBase = 32
  RamBytes = 48
  RomBase = 16
  RomBytes = 48
  DtbAddr = 64
  Requests <- MCRequests
  MaxEdits = 1
INVARIANTS PassTruth FailTruth LoadedRight
PROPERTIES RunsEnd
CHECK_DEADLOCK FALSE

SPECIFICATION AnyCrashSpec
CONSTANTS
  NumberOfPages = 6
  NumberOfDiskPages = 10
  InitialGenerations = 4
  MaxGenerations = 32
  StartGcLimit = 4
  MatureLimit = 3
  MaxNewPages = 1
  MaxBatches = 8
  MaxCrashes = 1
INVARIANTS
  RecoveryReadsCommitted
CHECK_DEADLOCK FALSE

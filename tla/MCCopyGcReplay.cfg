SPECIFICATION AnyRootsSpec
CONSTANTS
  NumberOfRoots = 1
  NumberOfSmartPtrs = 1
  MaxCells = 3
  MaxChanges = 1
  MaxBatches = 3
INVARIANTS
  ReplayRebuilds
CHECK_DEADLOCK FALSE

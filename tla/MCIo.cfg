SPECIFICATION Spec
CONSTANTS
  Databases <- MCDatabases
  LoadBalancing = FALSE
  Word = 16
  StampWord = 3
INVARIANTS
  NewestRootFound
  LastRootUntouched
  FreePagesCounted
PROPERTIES
  SearchEnds
CHECK_DEADLOCK FALSE

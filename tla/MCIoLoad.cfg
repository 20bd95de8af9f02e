SPECIFICATION Spec
CONSTANTS
  Databases <- MCLoadDatabases
  LoadBalancing = TRUE
  Word = 16
  StampWord = 3
PROPERTIES
  OnlyFreePagesTaken
CHECK_DEADLOCK FALSE

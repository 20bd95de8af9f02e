SPECIFICATION Spec
CONSTANTS
  MaxInserts = 26
  MaxLqInserts = 22
  PriqItems = {1, 2, 3}
  MaxPriqOps = 6
  MaxPriqMerges = 1
  MaxComparisons = 4
  Keys = {1, 2, 3, 4, 5, 6, 7, 8}
  Updated = {3, 6}
  IstKeys = {1, 2, 3, 4, 5, 6, 7, 8, 9, 10, 11}
  IstSharers = {5}
  TrieKeys <- MCTrieKeys
  KeyDigits = 5
  MaxPrefix = 2
  MaxKeySet = 3
  TrieSharers <- MCTrieSharers
  V2Keys <- MCV2Keys
  V2Probes <- MCV2Probes
  V2KeyDigits = 5
  V2MaxPrefix = 2
  V2Way = 4
  OidDigits = 5
  OidWay = 2
  OidMaxPrefix = 2
  OidValues = {1}
  MaxOids = 7
  MaxFreed = 2
  DhKeys <- MCDhKeys
  DhDigits = 3
  INTERNAL_NODE_SIZE = 4
  MAX_KEYS_IN_LEAF = 2
  SHTRING_CHUNK_MAX = 2
  MAX_SHTRING_NODE_CHILDREN = 3
  WordBytes = 2
  CMP_BUF = 2
  HashSize = 2
  first_generation_size = 16
  Texts <- MCTexts
  MaxShtrings = 3
INVARIANTS
  QueueIsQueue
  LqIsQueue
  VersionsPersist
  AvlIsMap
  AvlBalanced
  IstIsMap
  TrieIsMap
  V2IsMap
  OidRefsCurrent
  DhIsMap
  ShtringIsText
  ShtringAllocations
CHECK_DEADLOCK FALSE

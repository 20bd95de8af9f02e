SPECIFICATION Spec
CONSTANTS
  MaxLqInserts = 2
  Keys = {1, 2, 3, 4, 5}
  Updated = {}
  IstKeys = {1, 2}
  IstSharers = {1, 2}
  OidDigits = 5
  OidWay = 2
  OidMaxPrefix = 2
  OidValues = {1, 2}
  MaxOids = 3
  MaxFreed = 2
  DhKeys <- MCDhKeys
  DhDigits = 16
  INTERNAL_NODE_SIZE = 4
  MAX_KEYS_IN_LEAF = 32
  SHTRING_CHUNK_MAX = 2
  MAX_SHTRING_NODE_CHILDREN = 3
  WordBytes = 2
  CMP_BUF = 2
  HashSize = 2
  first_generation_size = 16
  Texts <- MCTexts
  MaxShtrings = 3
INVARIANTS
  SomeClaimKept
CHECK_DEADLOCK FALSE

SPECIFICATION SpuriousSpec
CONSTANTS
  NumberOfFiles = 1
  Pages = {p1, p2}
  Buffers = {b1, b2}
  Contents = {v1, v2}
  Aios = {a1, a2}
  NULL = NULL
  RootPage = RootPage
  RootBlock = RootBlock
  Nowhere = Nowhere
INVARIANTS
  WakeupFindsRequest

SPECIFICATION Spec
CONSTANTS
  Files = {0}
  Pages = {p1, p2}
  Buffers = {b1, b2}
  Contents = {v1, v2}
  Aios = {a1, a2}
  MaxRefused = 1
INVARIANTS
  FreeAiosFinished
  ReadsArrive
PROPERTIES
  PromiseKept
  DrainEnds
CHECK_DEADLOCK FALSE

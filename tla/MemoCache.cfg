CONSTANTS
  p1 = p1
  p2 = p2
  k1 = k1
  k2 = k2
  k3 = k3
  Client = {p1, p2}
  Key = {k1, k2, k3}
  NULL = NULL
  Addr = {1, 2, 3}
  Block = {1, 2, 3, 4, 5, 6, 7, 8, 9, 10}
  Index <- Indexes
  Size <- Sizes
  TUPLES = 2
  DEFAULT_SIZE = 4
  Limits = {0, 2}
  OPS = 6
SPECIFICATION Spec
CHECK_DEADLOCK FALSE
SYMMETRY Symmetry
INVARIANTS
  CacheValid
  HeldBuffers
  NoBlockLost
PROPERTY Implements

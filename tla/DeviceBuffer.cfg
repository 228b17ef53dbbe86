CONSTANTS
  b1 = b1  b2 = b2  b3 = b3
  cuda = cuda  opencl = opencl  NULL = NULL
  Buffer = {b1, b2}
  Interface = {cuda, opencl}
  h1 = h1  h2 = h2  n1 = n1
  Handle = {h1, h2}
  Native = {n1}
  CropMayFail = {opencl}
  DefaultWrap = {}
  SelfCopy = FALSE
  MarksHost = TRUE
  MAX_REFS = 3
SPECIFICATION Spec
SYMMETRY Symmetry
CHECK_DEADLOCK FALSE
INVARIANTS RefsExact BitsTruthful NoLeak CopiesArrive

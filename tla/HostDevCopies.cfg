CONSTANTS
  b = b
  cuda = cuda  opencl = opencl  NULL = NULL
  Buffer = {b}
  Interface = {cuda, opencl}
  Handle = {1, 2}
  Native = {}
  CropMayFail = {}
  DefaultWrap = {}
  FLIPS_ANYWHERE = FALSE
  FLIP_WRITES = FALSE
  LEAVES = 3
  DEPTH = 1
SPECIFICATION Spec
CHECK_DEADLOCK FALSE
INVARIANTS TouchesCurrent NeverRefused StateSound NotBothDirty Released

CONSTANTS
  c1 = c1
  c2 = c2
  w1 = w1
  w2 = w2
  w3 = w3
  prod = prod
  cons = cons
  loop = loop
  again = again
  outer = outer
  inner = inner
  prod2 = prod2
  cons2 = cons2
  gAsync = gAsync
  gLoop = gLoop
  gAgain = gAgain
  gEmpty = gEmpty
  gOuter = gOuter
  gAsync2 = gAsync2
  data = data
  fold = fold
  data2 = data2
  fold2 = fold2
  Caller = {c1, c2}
  Worker = {w1, w2, w3}
  Job = {prod, cons, loop, again}
  Group = {gAsync, gLoop, gAgain}
  Semaphore = {data, fold}
  NULL = NULL
  Tasks <- MCTasks
  Parent <- NoParent
  Extent <- MCExtent
  Serial = {prod, cons}
  MinThreads <- NoMinThreads
  Acquires <- MCAcquires
  Body <- MCBody
  MayFail = {loop}
  InitialValue <- Values
  Program <- AsyncAndLoop
  DESIRED = 3
SPECIFICATION Spec
CHECK_DEADLOCK FALSE
SYMMETRY Symmetry
INVARIANTS
  Consistent
  CallOutlivesJobs
  SerialOrder
  ExactlyOnce
  FoldRespected
PROPERTY ReleaseWakes

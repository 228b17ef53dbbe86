CONSTANTS
  c1 = c1
  c2 = c2
  w1 = w1
  w2 = w2
  w3 = w3
  prod = prod
  cons = cons
  loop = loop
  again = again
  outer = outer
  inner = inner
  prod2 = prod2
  cons2 = cons2
  gAsync = gAsync
  gLoop = gLoop
  gAgain = gAgain
  gEmpty = gEmpty
  gOuter = gOuter
  gAsync2 = gAsync2
  data = data
  fold = fold
  data2 = data2
  fold2 = fold2
  Caller = {c1}
  Worker = {w1, w2}
  Job = {outer, inner, prod, cons, prod2, cons2}
  Group = {gEmpty, gOuter, gAsync, gAsync2}
  Semaphore = {data, fold, data2, fold2}
  NULL = NULL
  Tasks <- MCTasks
  Parent <- ParentOuter
  Extent <- NestedExtent
  Serial = {prod, cons, prod2, cons2}
  MinThreads <- NestedMinThreads
  Acquires <- MCAcquires
  Body <- NestedBody
  MayFail = {outer}
  InitialValue <- Values
  Program <- Nested
  DESIRED = 1
SPECIFICATION FairSpec
INVARIANT AbandonedJobQueued
PROPERTY CallsReturn

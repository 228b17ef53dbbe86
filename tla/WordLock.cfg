CONSTANTS
  t1 = t1
  t2 = t2
  t3 = t3
  Thread = {t1, t2, t3}
  NULL = NULL
  SPIN_COUNT = 2
  ROUNDS <- OneReturns
SPECIFICATION FairSpec
INVARIANTS
  TypeOK
  MutualExclusion
  QueueExclusion
  WaitersConserved
PROPERTY Termination

CONSTANTS
  t1 = t1
  t2 = t2
  t3 = t3
  t4 = t4
  m1 = m1
  m2 = m2
  c1 = c1
  c2 = c2
  Thread = {t1, t2, t3, t4}
  Mutex = {m1, m2}
  Cond = {c1, c2}
  NULL = NULL
  Hash <- Crossed
  SPIN_COUNT = 2
  Calls <- TwoPairs
  OPS = 2
SPECIFICATION FairSpec
INVARIANT NodesConserved
PROPERTY Settles

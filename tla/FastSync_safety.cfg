CONSTANTS
  t1 = t1
  t2 = t2
  t3 = t3
  t4 = t4
  m1 = m1
  m2 = m2
  c1 = c1
  c2 = c2
  Thread = {t1, t2, t3}
  Mutex = {m1}
  Cond = {c1}
  NULL = NULL
  Hash <- OneBucket
  SPIN_COUNT = 2
  Calls <- AnyCalls
  OPS = 2
SPECIFICATION Spec
SYMMETRY Symmetry
INVARIANTS
  Consistent
  QueueServed
PROPERTY Implements

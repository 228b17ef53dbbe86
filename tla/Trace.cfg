CONSTANTS
  t1 = t1  t2 = t2  t3 = t3
  NULL = NULL
  Thread = {t1, t2, t3}
  SIZE = 2
  Kinds <- ShortAndEnd
  SetTo = {"unset", "stdout"}
  FRESH = {0}
  EVENTS = 3
SPECIFICATION FairSpec
CHECK_DEADLOCK FALSE
INVARIANTS LockExcludes PacketsWhole ParentsFirst Durable
PROPERTY CallsReturn

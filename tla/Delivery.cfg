SPECIFICATION LiveSpec
CONSTANTS
  None = None
  genesis = genesis
  b1 = b1
  b2 = b2
  p1 = p1
  p2 = p2
  h1 = h1
  h2 = h2
  t1 = t1
  t2 = t2
PROPERTIES PoolDelivers FetchersDeliver NetworkGoesOn
CHECK_DEADLOCK FALSE

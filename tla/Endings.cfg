SPECIFICATION LiveSpec
CONSTANTS
  None = None
  x1 = x1
  x2 = x2
  x = x
  s1 = s1
  q1 = q1
  q2 = q2
PROPERTIES NodeStops SubscriptionsEnd DiscoveryEnds ClientsServed
CHECK_DEADLOCK FALSE

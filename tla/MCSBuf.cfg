CONSTANTS
  p1 = p1  p2 = p2  c1 = c1  c2 = c2  a = a  b = b
  Producers <- MCProducers
  Consumers <- MCConsumers
  Values <- MCValues
  Zero = Zero
  N = 2
  IntMax = 4
SPECIFICATION Spec
INVARIANTS MutualExclusion SemaphoresMatchRing
PROPERTIES ImplementsFifo ReturnsOldest
CHECK_DEADLOCK FALSE

CONSTANTS
  w1 = w1  w2 = w2
  Main = Main
  Zero = Zero
  Workers <- MCWorkers
  Fds <- MCFds
  N = 1
  IntMax = 5
  LineSizes <- MCLineSizes
  ByteMax = 2
SPECIFICATION Spec
INVARIANTS ConnectionsAccounted ByteCountExact
PROPERTIES EveryConnectionClosed
CHECK_DEADLOCK FALSE

CONSTANTS
  Shapes <- MixedShapes
  Workers = {w1, w2}
  ResThreads = {r1}
  GenSpace = 2
  MaxBumps = 0
SPECIFICATION Spec
CHECK_DEADLOCK FALSE
INVARIANT ReadsDeclaredCells

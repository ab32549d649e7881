CONSTANTS
  Shapes <- PassShapes
  Workers = {w1, w2}
  ResThreads = {r1, r2}
  GenSpace = 2
  MaxBumps = 2
SPECIFICATION Spec
CHECK_DEADLOCK FALSE
INVARIANT FiresOnce
INVARIANT EveryInstanceFires
INVARIANT ConditionDischargedOnce
INVARIANT ReadsDeclaredCells
 

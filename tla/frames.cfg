CONSTANTS
  a = a
  b = b
  c = c
  d = d
  p1 = p1
  p2 = p2
  r1 = r1
  r2 = r2
  Graphs <- AllGraphs
  Workers = {w1, w2}
  InitThread = r1
  MaxFrames = 2
  BatchSize = 2
SPECIFICATION FairSpec
INVARIANT ClaimIsExact
INVARIANT NoUnderflow
INVARIANT DependencyOrder
INVARIANT NoStaleDrops
INVARIANT EvaluatedFirst
INVARIANT GenerationNamesFrame
PROPERTY OneThreadCompletes
CHECK_DEADLOCK FALSE

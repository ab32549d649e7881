CONSTANTS
  a = a
  b = b
  c = c
  d = d
  p1 = p1
  p2 = p2
  r1 = r1
  r2 = r2
  Graphs <- OneTask
  Workers = {w1}
  InitThread = r1
  MaxFrames = 3
  BatchSize = 2
SPECIFICATION FairSpec
PROPERTY AllFramesComplete
CHECK_DEADLOCK FALSE

CONSTANTS
  NumSlots = 1
  SlotPriority = FALSE
  Network = TRUE
  MapLen <- CacheCells
  TagSpace = 16
  Threads = {t1, t2}
  MaxFrames = 3
  FramesSent = 3
  FramePackets = 2
  Eviction = TRUE
  InitialNodes = TRUE
  InitThread = t1
  NoThread = NoThread
SPECIFICATION Spec
INVARIANT TypeOK
INVARIANT TableConsistent
INVARIANT LookupMatchesScan
CHECK_DEADLOCK FALSE

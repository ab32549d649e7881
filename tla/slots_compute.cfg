CONSTANTS
  NumSlots = 3
  SlotPriority = FALSE
  Network = FALSE
  MapLen <- CacheCells
  TagSpace = 16
  Threads = {t1}
  MaxFrames = 5
  FramesSent = 0
  FramePackets = 1
  Eviction = FALSE
  InitialNodes = TRUE
  InitThread = t1
  NoThread = NoThread
SPECIFICATION FairSpec
INVARIANT WithinMaxFrames
PROPERTY RestartIdsIncrease
PROPERTY OneThreadEnds

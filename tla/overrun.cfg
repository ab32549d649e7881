CONSTANTS
  NumSlots = 2
  SlotPriority = FALSE
  Network = FALSE
  MapLen <- CacheCells
  TagSpace = 8
  Threads = {t1, t2}
  MaxFrames = 3
  FramesSent = 0
  FramePackets = 1
  Eviction = FALSE
  InitialNodes = TRUE
  InitThread = t1
  NoThread = NoThread
SPECIFICATION FairSpec
PROPERTY MainSeesTheEnd
CHECK_DEADLOCK FALSE

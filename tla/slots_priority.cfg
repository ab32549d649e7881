CONSTANTS
  NumSlots = 3
  SlotPriority = TRUE
  Network = TRUE
  MapLen <- CacheCells
  TagSpace = 16
  Threads = {t1, t2}
  MaxFrames = 3
  FramesSent = 4
  FramePackets = 2
  Eviction = FALSE
  InitialNodes = FALSE
  InitThread = t1
  NoThread = NoThread
SPECIFICATION Spec
INVARIANT FirstPacketWins
INVARIANT AtMostOneActive
INVARIANT BufferedHasRunner
INVARIANT NoOvertaking
INVARIANT CountedOnce
PROPERTY ImplementsHandoff
CHECK_DEADLOCK FALSE

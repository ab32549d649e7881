CONSTANTS
  NumSlots = 2
  SlotPriority = TRUE
  Network = TRUE
  MapLen <- CacheCells
  TagSpace = 16
  Threads = {t1, t2}
  Scenarios <- IngestScenarios
  ChannelCap = 11
SPECIFICATION FairSpec
INVARIANT NotStranded
INVARIANT PacketConserved
INVARIANT WindowCountsFrames
INVARIANT JoinsAtWholeFrame
PROPERTY RunSettles
CHECK_DEADLOCK FALSE

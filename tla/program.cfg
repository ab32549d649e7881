CONSTANTS
  CommandLines <- Lines
  AbiVersion = 1
SPECIFICATION Spec
CHECK_DEADLOCK FALSE
INVARIANT ArgsInPlace
INVARIANT UncheckedSound
INVARIANT TimesBelongToFrame
INVARIANT BusyWithinWall
INVARIANT CriticalPathIsLongest
 

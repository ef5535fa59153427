SPECIFICATION JournalSpec
CONSTANTS
  p1 = p1
  p2 = p2
  p3 = p3
  NoPid = NoPid
  Pid <- MCPid
  Unlocked <- MCUnlocked
INVARIANTS
  TypeOK
  ExclusiveUnlessWrongful
  JournalWhole
PROPERTIES
  WrongfulNeedsReplacement
  DeadOwnerReclaimed
  ImplementsDeviceLock
CHECK_DEADLOCK FALSE

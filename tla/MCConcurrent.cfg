SPECIFICATION Spec
CONSTANTS
  p1 = p1
  p2 = p2
  Proc <- MCTwo
  Ops <- LockedOps
  MaxTx = 2
  Tree <- MCTree
  Stock = "stock"
  Torn = "torn"
  Desired <- MCDesired
  NoLock = NoLock
  Dead = Dead
SYMMETRY Symmetry
INVARIANT WriteAhead
PROPERTIES
  CommitMatches
  RollbackExact
  ImplementsDeviceLock
  ImplementsTreeReplacement

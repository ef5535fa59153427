\* A journal opened before the lock is taken: the property must be violated.
SPECIFICATION Spec
CONSTANTS
  p1 = p1
  p2 = p2
  Proc <- MCTwo
  Ops <- LockedOps
  MaxTx = 1
  Tree <- MCTree
  Stock = "stock"
  Torn = "torn"
  Desired <- MCDesired
  NoLock = NoLock
  Dead = Dead
PROPERTY JournalFollowsTable

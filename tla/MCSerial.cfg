SPECIFICATION FairSpec
CONSTANTS
  p1 = p1
  p2 = p2
  Proc <- MCOne
  Ops <- AllOps
  MaxTx = 3
  Tree <- MCTree
  Stock = "stock"
  Torn = "torn"
  Desired <- MCDesired
  NoLock = NoLock
  Dead = Dead
INVARIANTS
  TypeOK
  TornIsAccountedFor
PROPERTIES
  JournalFollowsTable
  NoInstallOverIncomplete
  LockNotLeaked

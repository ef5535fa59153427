\* A backup taken after a crashed install: the property must be violated.
SPECIFICATION Spec
CONSTANTS
  p1 = p1
  p2 = p2
  Proc <- MCOne
  Ops <- AllOps
  MaxTx = 2
  Tree <- MCTree
  Stock = "stock"
  Torn = "torn"
  Desired <- MCDesired
  NoLock = NoLock
  Dead = Dead
PROPERTY RestoredIsWhole

\* A crash during a restore wedges the device: the property must be violated.
SPECIFICATION Spec
CONSTANTS
  p1 = p1
  p2 = p2
  Proc <- MCOne
  Ops <- AllOps
  MaxTx = 1
  Tree <- MCTree
  Stock = "stock"
  Torn = "torn"
  Desired <- MCDesired
  NoLock = NoLock
  Dead = Dead
INVARIANT NoDeadEnd

\* A dry run racing a restore of its backup: the property must be violated.
SPECIFICATION Spec
CONSTANTS
  p1 = p1
  p2 = p2
  Proc <- MCTwo
  Ops <- AllOps
  MaxTx = 1
  Tree <- MCTree
  Stock = "stock"
  Torn = "torn"
  Desired <- MCDesired
  NoLock = NoLock
  Dead = Dead
PROPERTY DryRunIsHarmless

\* A success reported for another bundle: the property must be violated.
SPECIFICATION Spec
CONSTANTS
  s1 = s1
  s2 = s2
  Slot <- MCSlot
  NoSlot = NoSlot
  Bundle <- MCBundle
  NoBundle = NoBundle
  Expected = "CarrierLab"
  Message <- MCMessage
  MaxLines = 3
SYMMETRY Symmetry
PROPERTY SuccessIsOfThisBundle
CHECK_DEADLOCK FALSE

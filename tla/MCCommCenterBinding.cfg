SPECIFICATION Spec
CONSTANTS
  s1 = s1
  s2 = s2
  Slot <- MCSlot
  NoSlot = NoSlot
  Bundle <- MCBundle
  NoBundle = NoBundle
  Expected = "CarrierLab"
  Message <- MCMessage
  MaxLines = 5
SYMMETRY Symmetry
INVARIANT TypeOK
PROPERTIES
  VerifiedIsEvidenced
  VerifiedSinceRescan
  TimeoutIsUnbound
  ClosedAttemptsFrozen
  OneAttemptDecides
CHECK_DEADLOCK FALSE

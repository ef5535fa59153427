\* Two owners at once: the property must be violated.
SPECIFICATION Spec
CONSTANTS
  p1 = p1
  p2 = p2
  p3 = p3
  NoPid = NoPid
  Pid <- MCPid
SYMMETRY Symmetry
INVARIANT MutualExclusion
CHECK_DEADLOCK FALSE

SPECIFICATION Spec
CONSTANTS
  Pid = {p1, p2, p3}
INVARIANTS
  Managed
  NoneLeft
PROPERTIES
  Replaced
CHECK_DEADLOCK FALSE

SPECIFICATION Spec
CONSTANTS
  up = up
  down = down
  Caller = {up, down}
  Session = {s1}
  None = None
  Kind <- KindOf
  Length <- LengthOfTwo
  DiskFull = FALSE
INVARIANTS
  OkIsWhole
CHECK_DEADLOCK FALSE

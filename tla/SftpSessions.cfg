SPECIFICATION FairSpec
CONSTANTS
  up = up
  down = down
  Caller = {up, down}
  Session = {s1, s2}
  None = None
  Kind <- KindOf
  Length <- LengthOf
  DiskFull = FALSE
INVARIANTS
  TypeOK
  SessionAlive
  CacheIsLive
PROPERTIES
  EveryJobAnswered
  DestructionEnds
CHECK_DEADLOCK FALSE

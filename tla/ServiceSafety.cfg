SPECIFICATION FairSpec
INVARIANTS
  TypeOK
  NeverCalledSuspended
  ControlStillFits
PROPERTIES
  SuspensionHolds
  DestructionEnds
CHECK_DEADLOCK FALSE

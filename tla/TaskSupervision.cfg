SPECIFICATION SupervisionSpec
CONSTANTS
  netopeer = netopeer
  yang = yang
  Service = {netopeer, yang}
  List <- Made
  Started <- Inserted
  StableTime = 2
  CheckRate = 5
  Pace <- Loops
  None = None
INVARIANTS
  SupervisionTypeOK
  HealthySpared
PROPERTIES
  HangingIsCancelled
CHECK_DEADLOCK FALSE

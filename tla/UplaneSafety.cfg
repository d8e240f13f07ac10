SPECIFICATION Spec
CONSTANTS
  tx0 = tx0
  rx0 = rx0
  wide = wide
  none = none
  ep0 = ep0
  id0 = id0
  Carrier = {tx0, rx0}
  Config = {wide}
  NoConfig = none
  Endpoint = {ep0}
  Eaxc = {id0}
  NoEaxc = none
  HalThreads = 1
SYMMETRY Symmetric
INVARIANTS
  TypeOK
  
  
  
PROPERTIES
  FollowsDatastore

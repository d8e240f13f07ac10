SPECIFICATION Spec
CONSTANTS
  interfaces = interfaces
  ip = ip
  uplane = uplane
  element = element
  Module = {interfaces, ip, uplane, element}
  Lists <- RequiredThenConfigured
  Featured = {interfaces, uplane}
INVARIANTS
  TypeOK
  UpIsComplete
